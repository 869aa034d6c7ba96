SPECIFICATION Spec
CHECK_DEADLOCK FALSE
CONSTANTS
    PowerSets <- MCPowerSets
    TransferSets <- MCTransferSets
    OriginalRows = 8
    TotalRows = 32
    MinRows = 3
    MaxRetries = 1
INVARIANTS
    BlobLifetime
    Retrievable
    RowsSpread
PROPERTIES
    TransfersEnd
