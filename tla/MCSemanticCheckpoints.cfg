SPECIFICATION CkptsSpec
CONSTANTS
    h = h
    a = a
    b = b
    Header = h
    Word <- MCWord
    Sampled <- MCSampled
    Tasks <- MCTasks
    NSwa = 2
    NBatch = 2
    NUbatch = 1
    NCtx = 7
    MinStep = 0
    MaxCheckpoints = 2
    CheckpointBytes = 10
    CacheBytes = 20
    MaxRequests = 3
INVARIANTS CkptsTypeOK BudgetsHeld WindowComplete NoAbort ExactButForTail
PROPERTIES RequestEnds
CHECK_DEADLOCK FALSE
