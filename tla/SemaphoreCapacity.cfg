SPECIFICATION Spec
CONSTANTS
    Callers = {c1, c2, c3}
    Capacity = 1
INVARIANTS
    AtMostCapacityHolders
