SPECIFICATION LatestSpec
CONSTANTS
    Members = {m1}
    Partitions = {p1}
    MaxOffset = 2
    MaxGeneration = 2
    InitialEnd = 0
    InitialCommitted = unset
    Unset = unset
    None = none
CHECK_DEADLOCK FALSE
INVARIANTS
    StartedInputIsNeverDropped
