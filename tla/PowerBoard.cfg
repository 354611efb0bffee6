\* Safety of the mode logic: all commands, voltages, currents, temperatures,
\* enable edges and resets in every order.
SPECIFICATION Spec
CONSTANTS
    Top = 4
    HbridgeDutyMax = 3
    MinDuty = 2
    StoppingStep = 3
    OcpStep = 2
    StoppingPeriod = 1
    StoppingTime = 3
    RefreshInterval = 2
    AdcPeriod = 1
    PassTimes <- MCPassTimes
    OVPStart = 50
    OVPStop = 75
    OVP_DISCONNECT = 90
    Voltages <- MCVoltages
    CommandDuties <- MCDuties
INVARIANTS
    TypeOK
    EmergencySafe
    OutputsMatchMode
    DutyMatchesMode
    PwmApplied
    EnableSettled
    OvpTracksVoltage
    ContactorIsLastResort
    CommsFresh
PROPERTIES
    RestartFromZero
    BrakeNeverReleased
    OvpHoldsStop
    ModesImplemented
CHECK_DEADLOCK TRUE
