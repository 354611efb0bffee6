\* The comment of sensor_wind.h on when the RS-485 driver lets go.
SPECIFICATION WindSpec
CONSTANTS
    WindPasses = {1, 2}
    SamplingInterval = 3
    SENSOR_WIND_DE_WAIT = 2
    SENSOR_WIND_READ_TIMEOUT = 3
    RequestLength = 3
INVARIANT RequestNotCut
CHECK_DEADLOCK TRUE
