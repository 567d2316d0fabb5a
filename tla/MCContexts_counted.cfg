\* Which calls the counters miss: a hook that calls Goexit.
SPECIFICATION Spec
CONSTANTS
    DBs = {a}
    NoDB = NoDB
    MaxTxns = 1
    MaxTasks = 1
    MaxDepth = 3
CHECK_DEADLOCK FALSE
INVARIANTS
    TypeOK
    CountedUnlessCut
    EachCallIsCounted
