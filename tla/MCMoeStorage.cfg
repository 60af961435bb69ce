SPECIFICATION FairSpec
CONSTANTS
    Key = {k1, k2}
    NoKey = NoKey
    Capacity = 2
    MaxSerial = 4
    Chunks = 2
    Staged = TRUE
    MaxStream = 2
INVARIANTS TypeOK ContentIsExpert NoWorkOnFreeSlot PendingSourceIntact
PROPERTIES LoadEnds
CHECK_DEADLOCK FALSE
