SPECIFICATION Spec
CONSTANTS
    NodeCount = 4
    PrefillCount = 2
    BlockBytes = 4
    DmaPool = 0
    Capacity = 2
    Reports <- MCReports
    Tasks <- MCTasks
    NoPeer = NoPeer
    MaxBlocks = 2
    MaxTasks = 4
INVARIANTS
    DeliveredOnce
    PrefillAnswered
    LoadsBalanced
CHECK_DEADLOCK FALSE
