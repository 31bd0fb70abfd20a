SPECIFICATION FairSpec
CONSTANTS
    Uuids = {u1, u2}
    Threads = {t1}
    MaxRequests = 2
    MaxFaults = 1
    None = none

    
    
PROPERTIES
    TriggersNew
    
CHECK_DEADLOCK FALSE
