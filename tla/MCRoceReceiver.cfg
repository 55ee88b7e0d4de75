CONSTANTS
    QueueSize = 2
    Pages = 3
    RecvWRs = 2
    CounterMod = 3
    MaxFrames = 4
SPECIFICATION Spec
INVARIANTS
    QueueCorrect
    WaitingFrameIntact
    NoLostWakeup
    CompletionsServed
PROPERTIES
    FrameNumberExtended
    ImplementsFrameStream
    StopIsFinal
CHECK_DEADLOCK FALSE
