SPECIFICATION Spec
CHECK_DEADLOCK FALSE
CONSTANTS
    Signers = {1, 2}
    Promises <- MCPromises
    ParamInputs <- MCParams
    BlockTimes = {11, 12, 13, 15, 16, 17}
    GenesisTime = 10
    ZeroTime = 0
    Amounts = {1, 2}
    Funds = 2
    MaxPromiseClockSkew = 1
    MinPaymentPromiseTimeout = 1
    MaxPaymentPromiseTimeout = 2
    MinTimeoutSettlementWindow = 1
    MaxWithdrawalDelay = 5
    MaxInt64 = 7
INVARIANTS
    NoDoubleSettlement
    TimeoutWindowOpen
    FundsBacked
PROPERTIES
    PayoutAfterNormalExpiry
