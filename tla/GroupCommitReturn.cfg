SPECIFICATION Spec
CONSTANTS
    Members = {m1, m2}
    Partitions = {p1}
    MaxOffset = 1
    MaxGeneration = 3
    InitialEnd = 1
    InitialCommitted = 0
    Unset = unset
    None = none
SYMMETRY Symmetry
CHECK_DEADLOCK FALSE
INVARIANTS
    CurrentWorkIsNext
