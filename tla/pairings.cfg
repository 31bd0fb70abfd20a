SPECIFICATION Spec
CONSTANTS
    Audios = {a1}
    GAudios = {g1}
    Docs = {d1}
    Requests = {r1, r2}
    Kinds = {"map", "link", "audio_only", "ebook_only", "attach_ebook", "attach_audio"}
    MaxBooks = 3
    SlowRequests = FALSE
    MaxEvents = 1
    None = none
INVARIANTS
    PairedOnce
    ClaimBacked
PROPERTIES
    JudgedStays
    
    OwnedAlone
SYMMETRY Alike
CHECK_DEADLOCK FALSE
