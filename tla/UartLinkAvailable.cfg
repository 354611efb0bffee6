\* The documented meaning of serial_available, with nothing lost.
SPECIFICATION LinkSpec
CONSTANTS
    RX_RING_BUFFER = 4
    MaxMessages = 4
    MaxLost = 0
PROPERTY NothingLeftUnread
CHECK_DEADLOCK TRUE
