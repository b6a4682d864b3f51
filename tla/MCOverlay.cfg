CONSTANTS
    Pages = {p1, p2}
    Sources = {a, b}
    MaxSubs = 2
    MaxRows = 2
    Buffer = 2
    MaxBatches = 3
    MaxFaults = 4
SPECIFICATION FairSpec
INVARIANTS
    OneStream
    ShownInOrder
PROPERTIES
    Recovers
CHECK_DEADLOCK FALSE
