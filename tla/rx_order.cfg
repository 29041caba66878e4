SPECIFICATION FairSpec
CONSTANTS
    M = 16
    W = 4
    Ssn = 0
    Last = 4
    None = None
    Events <- BarOnly
INVARIANTS
    InOrder
PROPERTIES
    HeldIsDelivered
CHECK_DEADLOCK FALSE
