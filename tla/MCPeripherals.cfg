CONSTANTS
    Programs = {h1, h2}
    None = None
    Pins = {"p0", "p1"}
    FifoSize = 1
    MsgLen = 2
    MaxRx = 1
    MaxOps = 2
    MaxFaults = 1
SPECIFICATION Spec
INVARIANTS
    RegistersAsSet
    UartBytes
    OwnSpiAnswer
PROPERTIES
    OperationsEnd
CHECK_DEADLOCK FALSE
