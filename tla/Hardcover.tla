----------------------------- MODULE Hardcover -----------------------------
(***************************************************************************)
(* The mirror of one book at Hardcover: the row of hardcover_details that  *)
(* links it (db/hardcover_repository.py), the user's books there with      *)
(* their reads, and what one call of services/hardcover_service.py,        *)
(* sync_clients/hardcover_sync_client.py and api/hardcover_client.py makes *)
(* of the two.  ReadingTracker composes these calls into the requests and  *)
(* the sync cycle.                                                         *)
(*                                                                         *)
(* A call is answered, refused, or done without an answer arriving.  The   *)
(* client returns None for the last two, and also where nothing was found: *)
(* its callers cannot tell them apart.                                     *)
(***************************************************************************)
EXTENDS Naturals, Sequences

CONSTANTS
    HcBooks,    \* books at Hardcover
    HasEdition, \* those with an edition whose pages or seconds are known
    None        \* no such thing

ASSUME HardcoverAssumption == HasEdition \subseteq HcBooks /\ None \notin HcBooks

Answers == {"done", "refused", "lost"}
Took(answer) == answer # "refused"

\* hardcover_service: the ids of the statuses.
NoBook == 0
WantToRead == 1
CurrentlyReading == 2
Read == 3
Paused == 4
Dnf == 5
Ignored == 6
HcStatuses == NoBook .. Ignored
LocalToHc ==
    [not_started |-> WantToRead, active |-> CurrentlyReading, completed |-> Read,
     paused |-> Paused, dnf |-> Dnf]

\* A date is there or not; which day it is, only the user's own edits decide.  A read
\* is known by its place in the list.
Day == "day"
Dates == {None, Day}
NotADate == "cached"
ReadRow == [started : Dates, finished : Dates]
Remote == [status : HcStatuses, reads : Seq(ReadRow)]

\* HardcoverDetails; "edition" is the book whose edition was chosen, None while it is
\* not resolved, and user and read belong to the user's entry for a book.
NotLinked == [hc |-> None, edition |-> None, user |-> None, read |-> 0, status |-> NoBook]
Details ==
    [hc : HcBooks \cup {None}, edition : HcBooks \cup {None, "none"}, user : HcBooks \cup {None},
     read : Nat, status : HcStatuses]

\* A link made by the route: a new object, its cached ids empty.
Linked(h, edition) == [NotLinked EXCEPT !.hc = h, !.edition = edition]

\* Mutant: an empty id of the object leaves the stored one.
SavedDetailsKeeping(stored, d) ==
    IF d.user = None THEN [d EXCEPT !.user = stored.user, !.read = stored.read] ELSE d

\* save_hardcover_details: every column of the object, the empty ones too.
SavedDetails(stored, d) == d

\* insert_user_book creates the user's entry or changes its status.
Told(remote, h, status, answer) ==
    IF Took(answer) THEN [remote EXCEPT ![h].status = status] ELSE remote

\* resolve_editions: a failed query looks like a book without editions, and is kept.
Resolved(d, answer) ==
    IF d.edition # None THEN d
    ELSE [d EXCEPT !.edition = IF answer = "done" /\ d.hc \in HasEdition THEN d.hc ELSE "none"]

\* get_user_book
Found(remote, h, answer) == answer = "done" /\ remote[h].status # NoBook

Adopted(d, remote) == [d EXCEPT !.user = d.hc, !.status = remote[d.hc].status]

\* _get_or_create_user_book: the cached ids, else the entry found, else a new one.
NeedsUserBook(d) == d.user = None \/ d.status = NoBook
Owned(d, remote, status, lookup, create) ==
    IF ~NeedsUserBook(d) THEN d
    ELSE IF Found(remote, d.hc, lookup) THEN Adopted(d, remote)
    ELSE IF create = "done" THEN [d EXCEPT !.user = d.hc, !.status = status]
    ELSE d
OwnedRemote(d, remote, status, lookup, create) ==
    IF NeedsUserBook(d) /\ ~Found(remote, d.hc, lookup)
    THEN Told(remote, d.hc, status, create) ELSE remote

\* Mutant: any status short of Read starts again.
StatusForAny(cached, pct) ==
    IF pct > 99 /\ cached \notin {Read, Dnf} THEN Read
    ELSE IF pct > 2 THEN CurrentlyReading
    ELSE cached

\* Mutant: finished at the bar of auto-complete, not above it.
StatusForEarly(cached, pct) ==
    IF pct >= 99 /\ cached \notin {Read, Dnf} THEN Read
    ELSE IF pct > 2 /\ cached \in {WantToRead, Paused} THEN CurrentlyReading
    ELSE cached

\* _handle_status_transition: the status the progress asks for.
StatusFor(cached, pct) ==
    IF pct > 99 /\ cached \notin {Read, Dnf} THEN Read
    ELSE IF pct > 2 /\ cached \in {WantToRead, Paused} THEN CurrentlyReading
    ELSE cached

Cached(d) == IF d.status = NoBook THEN WantToRead ELSE d.status

(***************************************************************************)
(* The client's update_progress: one read of the user's entry is changed,  *)
(* or a first one made.                                                    *)
(***************************************************************************)
Or(x, y) == IF x = None THEN y ELSE x

\* What is sent of the dates: a read that is not cached keeps its own and gets
\* missing ones; for a cached one the client has only the word "cached".
SentDates(d, remote, book, pct, lookup) ==
    LET reads == remote[d.user].reads
        old   == IF lookup = "done" /\ reads # << >> THEN reads[Len(reads)]
                 ELSE [started |-> None, finished |-> None]
    IN  IF d.read # 0 THEN [started |-> NotADate, finished |-> NotADate]
        ELSE [started  |-> IF pct > 2 THEN Or(old.started, Or(book.started, Day)) ELSE old.started,
              finished |-> IF pct > 99 THEN Or(old.finished, Or(book.finished, Day)) ELSE old.finished]

\* The read that is written: the cached one, the last one found, or a new one.
ReadTarget(d, remote, lookup) ==
    LET reads == remote[d.user].reads
    IN  IF d.read # 0 THEN d.read
        ELSE IF lookup = "done" /\ reads # << >> THEN Len(reads)
        ELSE Len(reads) + 1

\* Hardcover takes dates only.
Accepts(sent) == sent \in ReadRow

WithRead(remote, h, n, row) ==
    [remote EXCEPT ![h].reads = [i \in 1 .. (IF n > Len(@) THEN n ELSE Len(@)) |->
                                    IF i = n THEN row ELSE @[i]]]

(***************************************************************************)
(* push_dates_to_hardcover and pull_dates_from_hardcover                   *)
(***************************************************************************)
\* What is left of the dates at Hardcover after a push of the book's.
PushedDates(old, book, force) ==
    [started  |-> IF book.started # None /\ (force \/ old.started = None)
                  THEN book.started ELSE old.started,
     finished |-> IF book.finished # None /\ (force \/ old.finished = None)
                  THEN book.finished ELSE old.finished]

\* The dates of the last read, where it has any.
LastRead(remote, h) ==
    LET reads == remote[h].reads
    IN  IF reads = << >> THEN [started |-> None, finished |-> None] ELSE reads[Len(reads)]
=============================================================================
