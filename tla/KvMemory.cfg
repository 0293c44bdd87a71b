SPECIFICATION Spec
CONSTANTS
    a = a
    b = b
    Texts <- MCTexts
    BlockSize = 2
    TotalPages = 3
    Capacities = {2}
    NoCapacity = NoCapacity
    NoHandle = NoHandle
    MaxClock = 9
    MaxBlocks = 5
INVARIANTS
    TypeOK
    PagesConserved
    CachedIsBacked
    StoreMatchesAllocator
PROPERTIES
    PrefillResolvesPages
    CachedPagesStay
CHECK_DEADLOCK FALSE
