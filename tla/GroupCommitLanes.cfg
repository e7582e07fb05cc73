SPECIFICATION FairSpec
CONSTANTS
    Members = {m1}
    Partitions = {p1, p2}
    MaxOffset = 2
    MaxGeneration = 2
    InitialEnd = 2
    InitialCommitted = 0
    Unset = unset
    None = none
CHECK_DEADLOCK FALSE
INVARIANTS
    NothingSkipped
PROPERTIES
    HealthyOwnerCatchesUp
