SPECIFICATION FairSpec
CONSTANTS
    a = a
    b = b
    Tokens = {a, b}
    Target <- MCTarget
    Prompts <- MCPrompts
    MaxNewTokens = {0, 1, 5}
    DraftWindow = 2
    MaxWindow = 3
    EmptyRounds = 2
    None = None
INVARIANTS
    TypeOK
    WithinBudget
    OutputIsContext
    WindowInRange
    StatsAgree
    Lossless
PROPERTIES
    RefinesGreedyDecoding
    GenerateTerminates
CHECK_DEADLOCK FALSE
