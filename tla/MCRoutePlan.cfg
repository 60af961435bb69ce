SPECIFICATION Spec
CONSTANTS
    Expert = {e1, e2, e3, e4}
    MaxAssignments = 4
    MaxCapacity = 3
INVARIANTS EachAssignmentOnce TilesFit HitsFirst
CHECK_DEADLOCK FALSE
