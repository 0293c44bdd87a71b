SPECIFICATION Spec
CONSTANTS
    p1 = p1
    p2 = p2
    Prompts = {p1, p2}
    PagesFor <- MCPagesFor
    MaxSlots = 2
    DraftWindow = 2
    TotalPages = 1
    Budgets = {0, 3}
    BindMayFail = TRUE
    MaxRequests = 3
SYMMETRY PromptSymmetry
INVARIANTS
    TypeOK
    SlotIsolation
    SlotsAccountedFor
    GeneratedWithinBudget
    DoneMeansComplete
    NoOvertaking
    MetricsAgree
CHECK_DEADLOCK FALSE
