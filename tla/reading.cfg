SPECIFICATION Spec
CONSTANTS
    HcBooks = {h1, h2}
    HasEdition = {h1}
    None = none
    Ops = {o1, o2}
    Kinds = {"status", "progress", "complete", "auto", "promote", "sync", "link", "automatch",
             "rate", "cover", "dates", "journal", "push_dates", "pull_dates", "tbr", "import",
             "start", "report"}
    Percents = {1, 100}
    MaxRequests = 2
    MaxFaults = 1
    MaxItems = 2
SYMMETRY Symmetry
INVARIANTS
    CountBacked
    
    LinkIsWhole
PROPERTIES
    VerdictStays
    ChangeIsWhole
CHECK_DEADLOCK FALSE
