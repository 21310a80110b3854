SPECIFICATION Spec
CONSTANTS
    MaxRows = 2
    Publishers = {p1, p2}
    Batch = 2
    Outages = FALSE
    Crashes = FALSE
    LeaseHolds = FALSE
SYMMETRY PublisherSymmetry
INVARIANT
    NeverDoubleClaimed
CHECK_DEADLOCK FALSE
