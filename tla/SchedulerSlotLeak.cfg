SPECIFICATION Spec
CONSTANTS
    p1 = p1
    p2 = p2
    Prompts = {p1, p2}
    PagesFor <- MCPagesFor
    MaxSlots = 1
    DraftWindow = 1
    TotalPages = 1
    Budgets = {1}
    BindMayFail = FALSE
    MaxRequests = 3
INVARIANTS
    FreeSlotWhenAdmitting
CHECK_DEADLOCK FALSE
