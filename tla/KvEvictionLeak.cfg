SPECIFICATION Spec
CONSTANTS
    a = a
    b = b
    Texts <- MCTexts
    BlockSize = 2
    TotalPages = 3
    Capacities = {2}
    NoCapacity = NoCapacity
    NoHandle = NoHandle
    MaxClock = 9
    MaxBlocks = 5
INVARIANT
    EvictionFreesPages
CHECK_DEADLOCK FALSE
