\* Liveness of the stopping mode and of the comms timeout under fairness.
SPECIFICATION FairSpec
CONSTANTS
    Top = 4
    HbridgeDutyMax = 3
    MinDuty = 2
    StoppingStep = 3
    OcpStep = 2
    StoppingPeriod = 1
    StoppingTime = 3
    RefreshInterval = 2
    AdcPeriod = 1
    PassTimes <- MCSteadyPassTimes
    OVPStart = 50
    OVPStop = 75
    OVP_DISCONNECT = 90
    Voltages <- MCTrippingVoltages
    CommandDuties <- MCFullDuty
PROPERTIES
    StopReachesFullBrake
    SilenceDisconnects
CHECK_DEADLOCK TRUE
