SPECIFICATION FairSpec
CONSTANTS
    Callers = {c1, c2}
    Rounds = 1
    ConnCounts = {1, 2}
    FaultSets <- NoneOrAll
    MaxEvictions = 2
INVARIANTS
    CommittedOnce
    
    InStep
PROPERTIES
    SubmissionReturns
