SPECIFICATION RuntimeSpec
CONSTANTS
    l1 = l1
    l2 = l2
    Layer = {l1, l2}
    Expert = {1, 2}
    Layout = {1, 2}
    LayoutOf <- MCLayoutOf
    Slots = {1}
    Count = {1, 2}
    TopK = {1, 2}
    Threads = {1, 2}
    ComputeBytes = 4
    TableBytes = 1
    MaxBatches = 2
    MaxCalls = 3
    MaxProbes = 2
INVARIANTS GraphReadsSelected ComputeBudgetHeld MetricsExact
PROPERTIES NothingFreedInUse RuntimeCallEnds
CHECK_DEADLOCK FALSE
