SPECIFICATION FairSpec
CONSTANTS
    Partitions = {p1, p2}
    MaxOffset = 2
    Concurrency = 1
    MaxPending = 3
    MaxEpoch = 1
    None = none
INVARIANTS
    TypeOK
    LaterOffsetsWait
    ReadAheadBounded
    QuietAfterSettling
    ReturnAccountsForEveryRecord
    SomeTaskCanRun
PROPERTIES
    LanesAreOrdered
    RunSettles
