\* Ways a call can end, in a pool of one connection: it is counted, everybody returns and every lock is released, with hooks that need a connection.
SPECIFICATION FairSpec
CONSTANTS
    Callers = {p1, p2}
    Keys = {u1}
    PairKeys = {}
    Rows = {r1}
    Sessions = {s1, s2}
    MaxConns = 1
    LockSpecs <- LocksBlock
    CtxEnds = {"expired"}
    FnErrors = {"panic", "goexit"}
    HooksUsePool = TRUE
    MaxCalls = 2
    MaxVal = 1
    NoKey = NoKey
    NoSession = NoSession
    NoObj = NoObj
CHECK_DEADLOCK FALSE
INVARIANTS
    CountedOnce
    ConnectionsAreReturned
PROPERTIES
    CallsReturn
    LocksAreReleased
