CONSTANTS
    Budgets <- MCBudgets
    None = None
    ProbeLimit = 2
    AcquireTimeout = 3
    StatementTimeout = 9
    MaxReads = 2
    MaxWork = 0
SPECIFICATION Spec
CHECK_DEADLOCK FALSE
INVARIANT AnswersWithinItsBudget
