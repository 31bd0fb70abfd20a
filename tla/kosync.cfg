SPECIFICATION Spec
CONSTANTS
    h1 = h1
    Hashes = {h1, h2}
    Files = {f1}
    HashOf <- MCHashOf
    Remote = {h2}
    RemoteName = cached
    Devices = {d1, d2}
    Threads = {t1, t2}
    Last = 2
    MaxBooks = 2
    MaxScans = 1
    DbMayFail = TRUE
    MaxRequests = 2
    MaxEdits = 1
    None = none
INVARIANTS
    SlotsOwned
    OneBookPerHash
    

    
SYMMETRY Alike
CHECK_DEADLOCK FALSE
