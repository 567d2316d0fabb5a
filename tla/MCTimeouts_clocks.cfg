\* Budgets and timeouts below, at and above each other and a millisecond.
SPECIFICATION Spec
CONSTANTS
    Budgets <- BudgetValues
    Servers <- ServerValues
    Others <- AroundBudget
    Configs <- ManyConfigs
    CallTimeouts <- CallValues
    CallerDeadlines = {2, 10}
    PerMs = 2
    DefaultCommitTimeout = 2
    MaxTime = 9
CHECK_DEADLOCK FALSE
INVARIANTS
    ReportsAreTrue
    LocksAreBounded
PROPERTIES
    BudgetComesFirst
    WaitsAreBounded
    CommittedWritesAreInTime
    CommitIsGivenItsTime
