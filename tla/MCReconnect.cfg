SPECIFICATION Spec
CONSTANTS
    Controllers = {c1, c2}
    Dynamic = {c2}
    None = None
    MaxOrphans = 1
    MaxFaults = 1
INVARIANTS
    ControllersReady
    NoCallbackAfterUnregister
PROPERTIES
    RunsAgain
    LossNoticed
CHECK_DEADLOCK FALSE
