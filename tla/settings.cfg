SPECIFICATION Spec
CONSTANTS
    t1 = t1
    t2 = t2
    Tokens = {t1, t2}
    Servers = {"home"}
    Periods <- MCPeriods
    Forms <- MCForms
    Containers <- MCContainers
    MasterKeys = {"own", "file"}
    FileKey = "file"
    Deploys <- MCDeploys
    Requests = {r1, r2}
    Blank = blank
    Junk = junk
    None = none
    MaxSaves = 2
    MaxRestarts = 1
    MaxFaults = 1
    MaxListeners = 2
SYMMETRY Symmetry
INVARIANTS
    SecretReadable
    
PROPERTY
    SecretKept
CHECK_DEADLOCK FALSE
