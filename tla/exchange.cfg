CONSTANTS
    Tool = {t1, t2}
    Undeclared = undeclared
    None = None
    MaxAttempts = 3
    Interval = 1
    BaseDelay = 1
    MaxDelay = 1
    RetryAfter = {None, 0}
    Billed = {1}
    ContextLimits = {3, 6}
    ResultSize = {2}
    Limit <- Allowance
    ElapsedLimit = 0
SPECIFICATION Spec
INVARIANTS TypeOK ConversationsWellFormed AttemptsAccounted
PROPERTIES ImplementsTurns
CHECK_DEADLOCK FALSE
SYMMETRY ToolSymmetry
