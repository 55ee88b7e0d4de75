CONSTANTS
    QueueSize = 3
    MaxTensors = 5
    MaxFaults = 2
SPECIFICATION Spec
INVARIANTS
    TransmitCorrect
PROPERTIES
    OperationsReturn
    StopReturns
CHECK_DEADLOCK FALSE
