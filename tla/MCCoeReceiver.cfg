CONSTANTS
    Buffers = {d0, d1, d2}
    NULL = NULL
    Slots = 2
    MaxFrames = 3
    RecvErrors = TRUE
SPECIFICATION Spec
INVARIANTS
    ExchangeCorrect
    NoStaleBytes
PROPERTIES
    NewestDelivered
    StopTerminates
CHECK_DEADLOCK FALSE
