CONSTANTS
    None = None
    Threads = {t1, t2}
    Words = 2
    SeqMod = 5
    MaxTries = 2
    MaxCalls = 3
SPECIFICATION Spec
INVARIANTS
    CallsCorrect
    InStep
PROPERTIES
    CallReturns
CHECK_DEADLOCK FALSE
