\* What wt_hal.h says of power_board_status.valid.
SPECIFICATION Spec
CONSTANTS
    PassTimes = {0, 1, 2}
    StatusTimeout = 3
    MqttTimeout = 4
    EstopDelay = 2
    Debounce = 3
    UserModes = {"start"}
INVARIANT ValidMeansReported
CHECK_DEADLOCK TRUE
