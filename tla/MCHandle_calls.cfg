\* Three goroutines, three pools of one connection.
SPECIFICATION FairSpec
CONSTANTS
    Goroutines = {g1, g2, g3}
    Pools = {p1, p2, p3}
    MaxConns = 1
    None = None
CHECK_DEADLOCK FALSE
INVARIANTS
    OnePoolOneOwner
    ClosedPoolsAreUnused
PROPERTIES
    EveryCallReturns
    NoPoolLeaks
