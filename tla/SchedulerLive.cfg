SPECIFICATION FairSpec
CONSTANTS
    p1 = p1
    p2 = p2
    Prompts = {p1}
    PagesFor <- MCPagesFor
    MaxSlots = 2
    DraftWindow = 2
    TotalPages = 1
    Budgets = {2}
    BindMayFail = TRUE
    MaxRequests = 3
PROPERTIES
    HangUpFreesSlot
    EveryRequestResolves
CHECK_DEADLOCK FALSE
