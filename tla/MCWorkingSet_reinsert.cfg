\* A deleted entity is inserted again.
SPECIFICATION Spec
CONSTANTS
    u1 = u1
    u2 = u2
    v0 = v0
    Uids = {u1, u2}
    Vals = {v0}
    ZeroUid = u1
    ZeroVal = v0
    Owned = TRUE
    Ptrs = {o1, o2}
    MaxId = 2
    MaxTxns = 2
    MaxOthers = 1
    ReuseDeleted = TRUE
    NoRow = NoRow
    NotWritten = NotWritten
    NoLock = NoLock
    Nil = Nil
SYMMETRY Symmetry
CHECK_DEADLOCK FALSE
INVARIANTS
    OneEntityPerRow
