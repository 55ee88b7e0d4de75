SPECIFICATION ReactorSpec
CONSTANTS
    Threads = {t1, t2}
    R = R
    NoThread = NoThread
    Fds = {fd}
    TicksPerMs = 2
    PipeCapacity = 2
    ReadSize = 1
    MaxTime = 2
    MaxOps = 3
INVARIANTS
    AlarmsCorrect
PROPERTIES
    NothingForgotten
    StopEnds
CHECK_DEADLOCK FALSE
