SPECIFICATION Spec
CONSTANTS
    M = 16
    W = 4
    Ssn = 13
    Last = 20
    None = None
    Events <- NoEvents
INVARIANTS
    InOrder
CHECK_DEADLOCK FALSE
