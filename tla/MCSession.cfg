CONSTANTS
    None = None
    Channels = {c1, c2}
    Frequencies = {30}
    Delays = {0, 5}
    MaxStarts = 1
    MaxResets = 1
    MaxRounds = 2
    MaxSets = 1
    MaxFaults = 2
    MaxTrouble = 2
    MaxEvents = 1
SPECIFICATION Spec
INVARIANTS
    DeviceAsConfigured
PROPERTIES
    OnlyOwnBit
    StopReturns
CHECK_DEADLOCK FALSE
