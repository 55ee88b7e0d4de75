CONSTANTS
    p1 = p1
    p2 = p2
    t1 = t1
    t2 = t2
    t3 = t3
    Nobody = Nobody
    Processes = {p1, p2}
    Threads = {t1, t2, t3}
    ProcessOf <- TwoPrograms
    MaxDepth = 1
    MaxFailures = 1
    MaxCrashes = 2
SPECIFICATION LockSpec
INVARIANTS
    MutualExclusion
PROPERTIES
    LockHandedOn
