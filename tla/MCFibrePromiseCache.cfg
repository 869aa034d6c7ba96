SPECIFICATION CacheSpec
CHECK_DEADLOCK FALSE
CONSTANTS
    Signers = {1}
    Promises <- MCPromises
    ParamInputs <- MCParams
    BlockTimes = {11, 12, 14, 15, 16, 17, 18, 19}
    WallTimes = {11, 14, 15, 16, 18}
    ClockDrift = 1
    GenesisTime = 10
    ZeroTime = 0
    Amounts = {2}
    Funds = 2
    MaxPromiseClockSkew = 1
    MinPaymentPromiseTimeout = 1
    MaxPaymentPromiseTimeout = 1
    MinTimeoutSettlementWindow = 1
    MaxWithdrawalDelay = 4
    MaxInt64 = 7
    promiseCacheStaleAfter = 1
    promiseCacheEvictBuffer = 3
    promiseCacheEvictInterval = 1
INVARIANTS
    BudgetBalanced
    DroppedNeverSettles

    
