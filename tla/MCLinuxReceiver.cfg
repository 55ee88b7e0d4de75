CONSTANTS
    QueueSize = 2
    Packets = 2
    PsnMod = 4
    SocketSize = 2
    MaxFrames = 3
    MaxBurst = 3
    RecvErrors = TRUE
SPECIFICATION Spec
INVARIANTS
    BuffersSafe
    LossesVisible
PROPERTIES
    ImplementsFrameStream
    StopTerminates
CHECK_DEADLOCK FALSE
