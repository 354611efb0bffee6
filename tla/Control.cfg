\* Supervision by the control board: any reports, users and resets.
SPECIFICATION Spec
CONSTANTS
    PassTimes = {0, 1, 2}
    StatusTimeout = 3
    MqttTimeout = 4
    EstopDelay = 2
    Debounce = 3
    UserModes = {"start"}
INVARIANTS
    EmergencyDisconnects
    ContactorExpires
    StatusFresh
    OpenContactorTrips
    MqttMuteStops
PROPERTIES
    LossStops
CHECK_DEADLOCK TRUE
