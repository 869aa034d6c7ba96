SPECIFICATION Spec
CHECK_DEADLOCK FALSE
CONSTANTS
    Puts = {"p1", "p2", "p3"}
    amount <- MCAmount
    Async = {"a1"}
    LowWatermark = 1
    HighWatermark = 2
    InitialEscrow = 3
    Configs <- MCConfigs
INVARIANTS
    LedgerCovered
PROPERTIES
    PutReturns
