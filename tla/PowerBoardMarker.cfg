\* A watchdog reset that was not commanded goes unreported.
SPECIFICATION Spec
CONSTANTS
    Top = 4
    HbridgeDutyMax = 3
    MinDuty = 2
    StoppingStep = 3
    OcpStep = 2
    StoppingPeriod = 1
    StoppingTime = 3
    RefreshInterval = 2
    AdcPeriod = 1
    PassTimes <- MCPassTimes
    OVPStart = 50
    OVPStop = 75
    OVP_DISCONNECT = 90
    Voltages <- MCVoltages
    CommandDuties <- MCDuties
PROPERTIES
    UnexpectedResetReported
CHECK_DEADLOCK TRUE
