SPECIFICATION Spec
CONSTANTS
    a = a
    b = b
    Texts <- MCTexts
    Capacities = {4}
    NoCapacity = NoCapacity
    NoHandle = NoHandle
    MaxClock = 6
INVARIANTS
    TreeWellFormed
    ResidentExact
    WithinCapacity
PROPERTIES
    RefinesPrefixMap
CHECK_DEADLOCK FALSE
