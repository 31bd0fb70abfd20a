SPECIFICATION FairSpec
CONSTANTS
    Books = {b1}
    Clients = {abs, grimmory}
    Abs = abs
    Grimmory = grimmory
    Leading = {abs, grimmory}
    EbookOnly = {}
    Aligned = {b1}
    Daemon = daemon
    Instants = {}
    Clears = {c1}
    NoThread = none
    NoBook = nobook
    Last = 1
    Pct <- MCPct
    Duration = 36000
    Between = 100
    SmartReset = TRUE
    UserStatuses = {"active"}
    MayFail = FALSE
    DbMayFail = FALSE
    LocatorMayFail = FALSE
    ScanRaces = TRUE
    StaleStart = TRUE
    MaxReads = 1
    MaxClears = 1
    MaxRestarts = 0
PROPERTY
    ClearsServed
    
