\* A table with lock="uid".
SPECIFICATION Spec
CONSTANTS
    u1 = u1
    u2 = u2
    v0 = v0
    Uids = {u1, u2}
    Vals = {v0}
    ZeroUid = u1
    ZeroVal = v0
    Owned = TRUE
    Ptrs = {o1, o2, o3}
    MaxId = 3
    MaxTxns = 1
    MaxOthers = 1
    ReuseDeleted = FALSE
    NoRow = NoRow
    NotWritten = NotWritten
    NoLock = NoLock
    Nil = Nil
SYMMETRY Symmetry
CHECK_DEADLOCK FALSE
INVARIANTS
    OneEntityPerRow
    MemoryIsWritten
PROPERTIES
    ListsMatchTheirPredicate
    OnlyOwnRowsChange
