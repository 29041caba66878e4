SPECIFICATION Spec
CONSTANTS
    M = 8
    W = 4
    Ssn = 5
    Last = 9
    None = None
    Events <- AllEvents
INVARIANTS
    StoreInBounds
    OwnedOnce
    SlotsMatch
CHECK_DEADLOCK FALSE
VIEW Unordered
CONSTRAINT UntilRace
