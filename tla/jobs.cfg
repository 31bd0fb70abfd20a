SPECIFICATION FairSpec
CONSTANTS
    Books = {b1}
    Unlocked = {b1}
    MaxRetries = 2
    DbMayFail = TRUE
    SlowEdits = FALSE
    MaxRequests = 1
    MaxRestarts = 1
    None = none
INVARIANTS
    
    RetriesEarned
PROPERTIES
    JobsSettle
    BudgetKept
CHECK_DEADLOCK FALSE
