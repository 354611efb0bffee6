\* Both boards over a line that loses and damages messages.
SPECIFICATION SystemSpec
CONSTANTS
    PassTimes = {1}
    StatusTimeout = 1
    MqttTimeout = 1
    EstopDelay = 1
    Debounce = 1
    UserModes = {"start"}
    MaxCommands = 3
    MaxReports = 1
PROPERTIES
    EmergencyStopsBoard
CHECK_DEADLOCK TRUE
