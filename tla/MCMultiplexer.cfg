SPECIFICATION FairMuxSpec
CHECK_DEADLOCK FALSE
CONSTANTS
    Embedded = {3, 4, 5}
    V1Versions = {3}
    Schedules <- AnySchedule
    HaltHeights = {0, 2}
    MaxCrashes = 1
    MaxErrors = 1
    Snapshots = {1, 2}
INVARIANTS
    WrongBinaryOnlyAfterMock
    OneApplication
PROPERTIES
    NodeCatchesUp
    QueryReturns
