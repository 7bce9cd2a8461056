\* Three probes and two connections, two instances, two requests per window.
SPECIFICATION Spec
CONSTANTS
    MaxAttempts = 3
    BaseDelay = 2
    MaxDelay = 6
    RetryAttempts = 2
    Instance = {i1, i2}
    Limit = 2
    Escaped <- Errors
    i1 = i1
    i2 = i2
INVARIANTS
    BudgetHolds
PROPERTIES
    NothingHangs
\* The process may have ended, and the budget be used up.
CHECK_DEADLOCK FALSE
