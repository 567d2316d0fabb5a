\* Who learns of the loss of the session before the budget has run out.
SPECIFICATION Spec
CONSTANTS
    Budgets <- BudgetValues
    Servers <- ServerValues
    Others <- AroundBudget
    Configs <- ManyConfigs
    CallTimeouts <- CallValues
    CallerDeadlines = {2, 10}
    PerMs = 2
    DefaultCommitTimeout = 2
    MaxTime = 9
CHECK_DEADLOCK FALSE
INVARIANTS
    CallerGetsErrTimeout
