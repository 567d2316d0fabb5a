\* Two owners, two rows that change owner, with the lock, without one and with one of two int32; a commit that goes unknown is followed by a call under the same lock.
SPECIFICATION Spec
CONSTANTS
    Callers = {p1, p2}
    Keys = {u1, u2}
    PairKeys = {x1}
    Rows = {r1, r2}
    Sessions = {s1, s2}
    MaxConns = 2
    LockSpecs <- LocksVaried
    CtxEnds = {}
    FnErrors = {"app"}
    HooksUsePool = FALSE
    MaxCalls = 2
    MaxVal = 1
    NoKey = NoKey
    NoSession = NoSession
    NoObj = NoObj
SYMMETRY Symmetry
CHECK_DEADLOCK FALSE
INVARIANTS
    NoLostUpdate
    WritersHoldTheirLocks
    CommitsAreAccountedFor
    WritableRowsAreCurrent
PROPERTIES
    TableSpec
