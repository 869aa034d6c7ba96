SPECIFICATION FairSpec
CONSTANTS
    Validators = {1, 2}
    Versions = {1, 2, 3}
    GenesisVersion = 1
    Powers = {0, 1, 4, 5}
    UpgradeHeightDelay = 2
    MaxHeight = 7
INVARIANTS
    PendingCanApply
    MigratedBeforeMessages
PROPERTIES
    QuorumSound
    UpgradeOnSchedule
    PendingResolves
