SPECIFICATION EngineSpec
CONSTANTS
    NoCapacity = NoCapacity
    NoHandle = NoHandle
    Texts <- MCTexts
    BlockSize = 2
    TotalPages = 7
    Capacities = {3}
    MaxClock = 30
    MaxBlocks = 20
    VocabSize = 3
    DraftLogits <- MCDraftLogits
    TargetLogits <- MCTargetLogits
    DraftWindow = 2
    MaxSlots = 3
    Batches <- MCBatches
    Start = Start
    Broken = Broken
    Follows <- MCFollows
    NoMatcher = NoMatcher
    MaxCalls = 2
INVARIANTS
    BoundPagesLive
    OutputsBacked
    BatchLossless
PROPERTIES
    SlotsSafe
CHECK_DEADLOCK FALSE
