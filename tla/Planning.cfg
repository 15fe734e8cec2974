SPECIFICATION Spec
CONSTANTS
    u1 = u1
    u2 = u2
    food = food
    Users = {u1, u2}
    Categories = {food}
    NoCategory = NoCategory
    EntryForms <- MCEntryForms
    PlanForms <- MCPlanForms
    EveryMonth = EveryMonth
    LastMonth = 2
    Floor = 0
    Ahead = TRUE
    MaxEntry = 2
    MaxPlan = 1
    MaxMade = 2
    Procs = {p1, p2}
    NoRow = NoRow
SYMMETRY Handlers
INVARIANTS
    TypeOK
    MatchedOnce
    LinksMeant
    GhostsExisted
CHECK_DEADLOCK FALSE
