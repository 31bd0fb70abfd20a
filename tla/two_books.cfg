SPECIFICATION Spec
CONSTANTS
    Books = {b1, b2}
    Clients = {absebook, grimmory}
    Abs = abs
    Grimmory = grimmory
    Leading = {grimmory}
    EbookOnly = {b1, b2}
    Aligned = {}
    Daemon = daemon
    Instants = {i1}
    Clears = {c1}
    NoThread = none
    NoBook = nobook
    Last = 1
    Pct <- MCPct
    Duration = 36000
    Between = 100
    SmartReset = TRUE
    UserStatuses = {}
    MayFail = FALSE
    DbMayFail = FALSE
    LocatorMayFail = TRUE
    ScanRaces = FALSE
    StaleStart = FALSE
    MaxReads = 1
    MaxClears = 2
    MaxRestarts = 0
INVARIANTS
    NoClearLost

    
