\* Rings of three slots; every slot can be the one where an index wraps.
SPECIFICATION FairSpec
CONSTANTS
    RX_RING_BUFFER = 3
    TX_RING_BUFFER = 3
    Bytes = {b1, b2}
    SERIAL_NO_DATA = none
INVARIANTS
    TypeOK
PROPERTIES
    ReceiveIsFifo
    TransmitIsFifo
    PutcReturns
CHECK_DEADLOCK TRUE
