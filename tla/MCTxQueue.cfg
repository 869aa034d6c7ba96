SPECIFICATION FairSpec
CHECK_DEADLOCK FALSE
CONSTANTS
    Owned = {5, 6}
    WorkerAccounts <- WorkersAround
    Options <- AllOptions
    Jobs = {j1, j2, j3}
    defaultParallelQueueSize = 2
    ParallelQueueSize = 2
    MaxStarts = 3
    Cancellable = TRUE
INVARIANTS
    WorkersReady
PROPERTIES
    QueuedJobAnswered
