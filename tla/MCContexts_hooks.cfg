\* Two databases, two transactions inside of each other or one after the other, two hooks.
SPECIFICATION Spec
CONSTANTS
    DBs = {a, b}
    NoDB = NoDB
    MaxTxns = 2
    MaxTasks = 2
    MaxDepth = 4
SYMMETRY Symmetry
CHECK_DEADLOCK FALSE
INVARIANTS
    LiveTransactionsAreInProgress
    GivenContextsAreGood
    HooksFollowTheOutcome
    AbortsAreReturned
