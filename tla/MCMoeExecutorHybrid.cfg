SPECIFICATION ExecutorSpec
CONSTANTS
    l1 = l1
    l2 = l2
    e1 = e1
    e2 = e2
    e3 = e3
    e4 = e4
    Layer = {l1}
    Expert = {e1, e2, e3}
    Key <- MCKey
    NoKey = NoKey
    Capacity = 3
    MaxSerial = 12
    Chunks = 1
    Staged = FALSE
    MaxStream = 2
    Pipeline = TRUE
    Hybrid = TRUE
    BatchLimit = 2
    MaxAssignments = 3
    MaxCalls = 2
INVARIANTS NoLogicError OutputsRight NothingLeftBehind KernelUndisturbed
PROPERTIES CallEnds
CHECK_DEADLOCK FALSE
