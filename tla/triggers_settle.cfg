SPECIFICATION FairSpec
CONSTANTS
    Books = {b1}
    Abs = abs
    Polled = {storyteller}
    Kosync = kosync
    Last = 1
    Window = 6
    Debounce = 3
    Stale = 5
    Latency = 1
    Losses = FALSE
    MaxReads = 1
    None = none
PROPERTY
    Settles
