CONSTANTS
    P = 5
    NormScale <- MCNormScale
    Silu <- MCSilu
    Softmax <- MCSoftmax
    Cos <- MCCos
    Sin <- MCSin
    Weights <- MCWeights
    RunFiles <- MCRunFiles
    RunArgs <- MCRunArgs
    ApiCalls <- MCApiCalls
    MaxFed = 4
    MetalMeta <- MCMetalMeta
    MetalWeights <- MCMetalWeights
    Pages = 2
    BlockTokens = 2
    SlotCount = 2
    RowChoices <- MCRowChoices
    Handles = {h1}
    MetalText <- MCMetalText
    ContextLengths = {0, 1, 2, 3, 5}
    SetupRuns = 0
    MaxRuns = 4
    MaxBinds = 2
    TpModels <- MCTpModels
    Degrees = {0, 1, 2, 3}
    KvEntry <- MCKvEntry
    MaxPasses = 2
    MaxPos = 1
    PoolFiles <- MCPoolFiles
    Loaded <- MCLoaded
    Names = {n1}
    MaxPrefetches = 2
    MaxSwitches = 1
    MaxRequests = 1
    TreeTokens = {0, 1}
    DraftScores <- MCDraftScores
    TargetToken <- MCTargetToken
    TreeContext <- MCTreeContext
    DraftLengths = {0, 1, 3}
    DraftWidths = {0, 1, 2, 3}
    MaxNodes = 4
SPECIFICATION PoolSpec
INVARIANT SwitchTakesEffect
CHECK_DEADLOCK FALSE
