SPECIFICATION FairSpec
CONSTANTS
    Callers = {c1, c2, c3, c4}
    Capacity = 2
INVARIANTS
    TypeOK
    SlotsAreOwned
    NoIdleSlotWhileWaiting
PROPERTIES
    OverCapacityOnlyByBarging
    WaiterEventuallyHolds
