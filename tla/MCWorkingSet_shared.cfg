\* A table without a lock, two transactions, entities kept in between.
SPECIFICATION Spec
CONSTANTS
    u1 = u1
    v0 = v0
    v1 = v1
    Uids = {u1}
    Vals = {v0, v1}
    ZeroUid = u1
    ZeroVal = v0
    Owned = FALSE
    Ptrs = {o1, o2}
    MaxId = 2
    MaxTxns = 2
    MaxOthers = 1
    ReuseDeleted = FALSE
    NoRow = NoRow
    NotWritten = NotWritten
    NoLock = NoLock
    Nil = Nil
SYMMETRY Symmetry
CHECK_DEADLOCK FALSE
INVARIANTS
    EntitiesBelongToOneTransaction
PROPERTIES
    RollbackRestores
