SPECIFICATION Spec
CHECK_DEADLOCK FALSE
CONSTANTS
    Handlers = {u1, u2}
    Readers = {r1}
    Promises <- MCPromises
    ParamSchedule <- Raised
    Budgets = {2}
    TicksPerMinute = 2
    MaxTime = 2
    MaxFailures = 1
INVARIANTS
    OccupancyExact
PROPERTIES
    BudgetHonoured
    KeepsShards
    OrphansExplained
    ExpiredReclaimed
