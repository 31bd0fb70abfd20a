SPECIFICATION Spec
CONSTANTS
    LongGram = 2
    ShortGram = 1
    LateChar = 1000
    LateTime = 30
    SentinelRate = 1000
    ValidShare = 60
    Stories <- AllStories
    MaxEnds = 2
    MaxFlaws = 1
    Clients = {abs, kosync, grimmory}
    Abs = abs
    Leading = {abs, kosync, grimmory}
    Places = {0, 6, 50, 3000, 6000}
    Read <- ReadStories
    Between = 100
    None = none
INVARIANTS
    ReaderLeads
    
    AlignmentTrue
    LookupsAgree
CHECK_DEADLOCK FALSE
