SPECIFICATION Spec
CONSTANTS
    Members = {m1, m2}
    Partitions = {p1}
    MaxOffset = 2
    MaxGeneration = 2
    InitialEnd = 1
    InitialCommitted = 0
    Unset = unset
    None = none
SYMMETRY Symmetry
CHECK_DEADLOCK FALSE
INVARIANTS
    TypeOK
PROPERTIES
    LeaseIsKept
    AtLeastOnceSpec
