---------------------------- MODULE ClearPromise ----------------------------
(***************************************************************************)
(* What clearing the progress of a book promises, whatever runs beside it: *)
(* a book is cleared only while a clear that somebody asked for is open, a *)
(* clear that was accepted stays open until it reached the services, and   *)
(* services that were all taken back stay there until somebody reads.      *)
(***************************************************************************)
CONSTANTS
    Books,      \* the books
    Clients,    \* the reading services
    Takers,     \* Takers[b]: the services that take part in book b
    Places,     \* the places in the story
    Start       \* the first of them

VARIABLES
    place,      \* the place each service holds
    open,       \* the books a clear is under way for
    owed,       \* those of them it has not reached yet
    still       \* the services the last clear of a book reached, none once
                \* somebody read again

vars == <<place, open, owed, still>>

Init ==
    /\ place \in [Books -> [Clients -> Places]]
    /\ open = {} /\ owed = {}
    /\ still = [b \in Books |-> {}]

Cleared(b) == still[b] = Takers[b]

Ask(b) ==
    /\ owed' = owed \cup {b} /\ open' = open \cup {b}
    /\ UNCHANGED <<place, still>>

\* What may happen while a clear of b is open.  A second clear of the
\* book shares its fate:
Join(b) == owed' = owed \ {b} /\ UNCHANGED <<place, open, still>>

\* The services in S are taken back to the start, all at once.
Reset(b, S) ==
    /\ place' = [place EXCEPT ![b] = [c \in Clients |-> IF c \in S THEN Start ELSE @[c]]]
    /\ still' = [still EXCEPT ![b] = S]
    /\ owed' = owed \ {b}
    /\ UNCHANGED open

Close(b) ==
    /\ b \notin owed
    /\ open' = open \ {b}
    /\ UNCHANGED <<place, owed, still>>

\* The clear ends with an error; another one of the book may go on.
Refuse(b) ==
    /\ owed' = owed \ {b} /\ open' \in {open, open \ {b}}
    /\ UNCHANGED <<place, still>>

\* The process ends.
Lose == open' = {} /\ owed' = {} /\ UNCHANGED <<place, still>>

Read(b, c, p) ==
    /\ place' = [place EXCEPT ![b][c] = p]
    /\ still' = [still EXCEPT ![b] = {}]
    /\ UNCHANGED <<open, owed>>

\* A service is taken to where another one is said to be.
Follow(b, c, p) ==
    /\ ~Cleared(b)
    /\ place' = [place EXCEPT ![b][c] = p]
    /\ UNCHANGED <<open, owed, still>>

Next ==
    \/ \E b \in Books :
           Ask(b) \/ \E c \in Clients, p \in Places : Read(b, c, p) \/ Follow(b, c, p)
    \/ \E b \in open :
           Join(b) \/ Close(b) \/ Refuse(b) \/ \E S \in SUBSET Takers[b] : Reset(b, S)
    \/ Lose

Spec == Init /\ [][Next]_vars
=============================================================================
