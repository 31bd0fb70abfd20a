SPECIFICATION Spec
CONSTANTS
    Books = {b1}
    Abs = abs
    Polled = {}
    Kosync = kosync
    Last = 1
    Window = 6
    Debounce = 3
    Stale = 5
    Latency = 1
    Losses = TRUE
    MaxReads = 2
    None = none
INVARIANTS
    NoSocketEcho
    NoEventLost
    NoPutLost
