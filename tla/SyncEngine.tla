----------------------------- MODULE SyncEngine -----------------------------
(***************************************************************************)
(* The sync engine of PageKeeper and the clear-progress operation that     *)
(* shares its lock: sync_manager.py, services/progress_reset_service.py,   *)
(* what sync_clients/*.py do to a reading service, the Book and State rows *)
(* of the database, and the in-memory library cache of api/grimmory_client *)
(* through which Grimmory positions are read.                              *)
(*                                                                         *)
(* Three kinds of thread run concurrently: the scheduler daemon (all       *)
(* active books, never waits for the lock), instant cycles (one book, wait *)
(* at most 10 s) and clear requests (one book, wait at most 30 s).  Behind *)
(* them, readers move on their devices and library scans refresh the       *)
(* Grimmory cache.                                                         *)
(*                                                                         *)
(* A position is a place in the story, 0 .. Last; what a client reports at *)
(* that place is Pct[client][place], so that a place is a different        *)
(* percentage in the audiobook and in the ebook.                           *)
(***************************************************************************)
EXTENDS SyncDecision

CONSTANTS
    Books,           \* the mapped books
    Clients,         \* the configured sync clients
    Abs,             \* the Audiobookshelf audiobook client
    Grimmory,        \* the Grimmory client, read through a cache
    Leading,         \* the clients with can_be_leader()
    EbookOnly,       \* the books with sync_mode "ebook_only"
    Aligned,         \* the books that have an alignment map
    Daemon,          \* the scheduler thread
    Instants,        \* threads that run an instant (targeted) cycle
    Clears,          \* threads that run a clear-progress request
    NoThread,        \* the sync lock is free
    NoBook,          \* a thread works on no book
    Last,            \* the last place in the story
    Pct,             \* Pct[c][p]: what client c reports at place p
    Duration,        \* audiobook duration in seconds
    Between,         \* sync_delta_between_clients
    SmartReset,      \* REPROCESS_ON_CLEAR_IF_NO_ALIGNMENT
    UserStatuses,    \* statuses the user may give a book
    MayFail,         \* calls to the reading services may fail
    DbMayFail,       \* database calls may fail
    LocatorMayFail,  \* text, locator and normalisation lookups may fail
    ScanRaces,       \* a library scan may overlap a write to Grimmory
    StaleStart,      \* the library scans after a restart may fail
    MaxReads,        \* bound on the moves of readers
    MaxClears,       \* bound on clear requests
    MaxRestarts      \* bound on process restarts

Threads  == {Daemon} \cup Instants \cup Clears
Cyclers  == {Daemon} \cup Instants
Pos      == 0 .. Last
Absent   == -1
MaybePos == Pos \cup {Absent}
Statuses == {"active", "not_started", "paused", "pending", "processing"}
Row      == [status : Statuses, started : BOOLEAN, managed : BOOLEAN]

ASSUME EngineAssumption ==
    /\ Last \in Nat
    /\ Pct \in [Clients -> [Pos -> 0 .. Unit]]
    /\ \A c \in Clients : Pct[c][0] = 0
    /\ \A c \in Clients : \A p, q \in Pos : p < q => Pct[c][p] < Pct[c][q]
    /\ Grimmory \in Clients /\ Grimmory # Abs
    /\ Leading \subseteq Clients
    /\ Duration \in Nat
    /\ EbookOnly \subseteq Books
    /\ UserStatuses \subseteq {"active", "paused", "not_started"}
    /\ NoThread \notin Threads
    /\ NoBook \notin Books
    /\ Daemon \notin Instants \cup Clears
    /\ Instants \cap Clears = {}
    /\ {MayFail, DbMayFail, LocatorMayFail, ScanRaces, StaleStart, SmartReset} \subseteq BOOLEAN
    /\ MaxReads \in Nat
    /\ MaxClears \in Nat
    /\ MaxRestarts \in Nat

VARIABLES
    lock,       \* _sync_lock: the thread that holds it
    pending,    \* _pending_clears
    row,        \* the Book row of each book
    states,     \* the State rows: position recorded per book and client
                \* (no row reads as 0, as in get_service_state)
    doc,        \* the books that have a KosyncDocument record
    ext,        \* the position each reading service holds
    cache,      \* the Grimmory position in the library cache
    disk,       \* the library cache in the database, as of the last scan
    scan,       \* a library scan under way: what its pages said
    pc,         \* where each thread stands
    todo,       \* books the thread still has to visit
    snap,       \* the detached Book objects the thread holds
    bulk,       \* positions pre-fetched at the start of a daemon cycle
    book,       \* the book the thread works on
    goal,       \* positions still to be pushed to the followers
    result,     \* positions to be recorded as State rows
    reads,      \* moves of readers so far
    clears,     \* clear requests so far
    restarts,   \* restarts so far
    owed,       \* history: a clear was accepted, no reset ran since
    crossed,    \* history: those of them whose mark another clear or a restart may take
    quiet       \* history: the clients the last reset of a book reached, none
                \* once somebody read again

db      == <<row, states, doc>>
remote  == <<ext, cache, disk, scan>>
local   == <<todo, snap, bulk, book, goal, result>>
bounds  == <<reads, clears, restarts>>
history == <<owed, crossed, quiet>>
vars    == <<lock, pending, db, remote, pc, local, bounds, history>>

Nowhere == [c \in Clients |-> Absent]
NoBulk  == [b \in Books |-> Nowhere]
NoSnap  == [b \in Books |-> [status |-> "paused", started |-> FALSE, managed |-> FALSE]]

Init ==
    /\ lock = NoThread /\ pending = {}
    /\ row \in [Books -> {r \in Row : r.status \in {"active", "not_started"}}]
    /\ \A b \in Books : row[b].started <=> row[b].status = "active"
    /\ \A b \in Books : row[b].managed => b \in Aligned
    /\ \E place \in [Books -> Pos] :         \* every service agrees
           states = [b \in Books |-> [c \in Clients |-> place[b]]]
    /\ ext = states /\ cache = [b \in Books |-> ext[b][Grimmory]]
    /\ disk = cache /\ scan = <<>>
    /\ doc = Books
    /\ pc = [t \in Threads |-> "idle"]
    /\ todo = [t \in Threads |-> {}]
    /\ snap = [t \in Threads |-> NoSnap]
    /\ bulk = [t \in Threads |-> NoBulk]
    /\ book = [t \in Threads |-> NoBook]
    /\ goal = [t \in Threads |-> Nowhere]
    /\ result = [t \in Threads |-> Nowhere]
    /\ reads = 0 /\ clears = 0 /\ restarts = 0
    /\ owed = {} /\ crossed = {} /\ quiet = [b \in Books |-> {}]

(***************************************************************************)
(* Operations of the database and of the services.                         *)
(***************************************************************************)

\* save_book: every column of the detached object is written, however old
\* the object is, and a missing KosyncDocument is created again.
SaveBook(b, r) ==
    /\ row' = [row EXCEPT ![b] = r]
    /\ doc' = doc \cup {b}

\* The clients that take part in the synchronisation of a book.
ActiveClients(b) == IF b \in EbookOnly THEN Clients \ {Abs} ELSE Clients

\* What get_service_state sees: Grimmory answers from the library cache.
Observed(b, c) == IF c = Grimmory THEN cache[b] ELSE ext[b][c]

\* Mutant: the library cache is not patched after a write.
StoreUncached(places, cached, b, S, p) ==
    /\ ext' = [ext EXCEPT ![b] = [c \in Clients |-> IF c \in S THEN p ELSE places[b][c]]]
    /\ cache' = cached

\* A client stores position p; Grimmory also patches its cache in place.
Store(places, cached, b, S, p) ==
    /\ ext' = [ext EXCEPT ![b] = [c \in Clients |-> IF c \in S THEN p ELSE places[b][c]]]
    /\ cache' = IF Grimmory \in S THEN [cached EXCEPT ![b] = p] ELSE cached

\* The subsets of S whose calls may go wrong.
Failing(S) == IF MayFail THEN SUBSET S ELSE {{}}

(***************************************************************************)
(* The data of the decision about one book.                                *)
(***************************************************************************)
\* The ServiceState of every client that answered; view maps them to places.
Config(b, view) ==
    [c \in DOMAIN view |->
        ServiceState(c = Abs, Pct[c][view[c]], Pct[c][states[b][c]], Duration)]

\* normalize_for_cross_format_comparison: against ABS, the story order of
\* those ebook clients it can convert, nothing without an alignment; between
\* ebook clients, the story order of all of them or nothing.
Normalised(b, view) ==
    LET ebooks == DOMAIN view \ {Abs}
        found  == IF Abs \notin DOMAIN view
                  THEN IF LocatorMayFail THEN {{}, ebooks} ELSE {ebooks}
                  ELSE IF b \notin Aligned THEN {{}}
                  ELSE {S \cup {Abs} : S \in IF LocatorMayFail THEN SUBSET ebooks ELSE {ebooks}}
    IN  {[c \in S |-> view[c]] : S \in found}

\* The last place of client c whose percentage does not exceed pct (the
\* places beyond the start, counted): where a follower lands when only the
\* leader's percentage is known.
PlaceAt(c, pct) == Cardinality({p \in 1 .. Last : Pct[c][p] <= pct})

(***************************************************************************)
(* Where client c is to be moved when l leads at place p: to that place    *)
(* when the text was located, to the leader's percentage otherwise; ABS    *)
(* needs an alignment to find a timestamp, except for the start of the     *)
(* book.                                                                   *)
(***************************************************************************)
GoalOf(b, c, l, p, located) ==
    IF c = Abs /\ p # 0
    THEN IF located /\ b \in Aligned THEN p ELSE Absent
    ELSE IF located THEN p ELSE PlaceAt(c, Pct[l][p])

(***************************************************************************)
(* A sync cycle.  The daemon starts one when it finds the lock free; an    *)
(* instant cycle waits for it, and gives up while another thread has it.   *)
(***************************************************************************)
Goto(t, label) == pc' = [pc EXCEPT ![t] = label]

DaemonStart(t) ==
    /\ t = Daemon /\ pc[t] = "idle" /\ lock = NoThread
    /\ lock' = t /\ Goto(t, "discover")
    /\ UNCHANGED <<pending, db, remote, local, bounds, history>>

InstantStart(t, b) ==
    /\ t \in Instants /\ pc[t] = "idle"
    /\ book' = [book EXCEPT ![t] = b] /\ Goto(t, "await")
    /\ UNCHANGED <<lock, pending, db, remote, todo, snap, bulk, goal, result, bounds, history>>

\* Mutant: an instant cycle that ignores that it could not get the lock.
InstantAnyway(t) ==
    /\ t \in Instants /\ pc[t] = "await"
    /\ lock' = t /\ Goto(t, "prepare")
    /\ UNCHANGED <<pending, db, remote, local, bounds, history>>

InstantAcquire(t) ==
    /\ t \in Instants /\ pc[t] = "await" /\ lock = NoThread
    /\ lock' = t /\ Goto(t, "prepare")
    /\ UNCHANGED <<pending, db, remote, local, bounds, history>>

InstantTimeout(t) ==
    /\ t \in Instants /\ pc[t] = "await" /\ lock # NoThread
    /\ book' = [book EXCEPT ![t] = NoBook] /\ Goto(t, "idle")
    /\ UNCHANGED <<lock, pending, db, remote, todo, snap, bulk, goal, result, bounds, history>>

\* _promote_discovered_ebooks, first half: the not_started books without a
\* pending clear, as they are now.
DiscoverScan(t) ==
    /\ pc[t] = "discover"
    /\ todo' = [todo EXCEPT ![t] = {b \in Books \ pending : row[b].status = "not_started"}]
    /\ snap' = [snap EXCEPT ![t] = row]
    /\ Goto(t, "promote")
    /\ UNCHANGED <<lock, pending, db, remote, bulk, book, goal, result, bounds, history>>

\* Second half, book by book: fetch the Grimmory progress and, above 1
\* percent, save the object of the first half as active (promote_not_started,
\* with the start date transition fills in afterwards).
DiscoverPromote(t, b) ==
    /\ pc[t] = "promote" /\ b \in todo[t]
    /\ todo' = [todo EXCEPT ![t] = @ \ {b}]
    /\ \/ /\ Pct[Grimmory][cache[b]] > Unit \div 100
          /\ SaveBook(b, [snap[t][b] EXCEPT !.status = "active", !.started = TRUE])
       \/ /\ Pct[Grimmory][cache[b]] <= Unit \div 100 \/ MayFail
          /\ UNCHANGED <<row, doc>>
    /\ UNCHANGED <<lock, pending, states, remote, pc, snap, bulk, book, goal, result, bounds, history>>

DiscoverDone(t) ==
    /\ pc[t] = "promote" /\ todo[t] = {}
    /\ snap' = [snap EXCEPT ![t] = NoSnap]
    /\ Goto(t, "prepare")
    /\ UNCHANGED <<lock, pending, db, remote, todo, bulk, book, goal, result, bounds, history>>

\* A database error ends the discovery, and the cycle goes on without it.
DiscoverFails(t) ==
    /\ DbMayFail /\ pc[t] \in {"discover", "promote"}
    /\ todo' = [todo EXCEPT ![t] = {}]
    /\ snap' = [snap EXCEPT ![t] = NoSnap]
    /\ Goto(t, "prepare")
    /\ UNCHANGED <<lock, pending, db, remote, bulk, book, goal, result, bounds, history>>

\* A database error before the main loop ends the cycle.
CycleFails(t) ==
    /\ DbMayFail /\ pc[t] = "prepare"
    /\ book' = [book EXCEPT ![t] = NoBook]
    /\ lock' = NoThread /\ Goto(t, "idle")
    /\ UNCHANGED <<pending, db, remote, todo, snap, bulk, goal, result, bounds, history>>

\* _prepare_sync_books: the active books (the target only if it is active),
\* and for the daemon the positions ABS and Grimmory deliver in bulk.
Prepare(t) ==
    LET active == {b \in Books : row[b].status = "active" /\ (t = Daemon \/ b = book[t])}
        bulky  == IF t = Daemon THEN {Abs, Grimmory} \cap Clients ELSE {}
    IN  /\ pc[t] = "prepare"
        /\ todo' = [todo EXCEPT ![t] = active]
        /\ snap' = [snap EXCEPT ![t] = [b \in Books |-> IF b \in active THEN row[b] ELSE NoSnap[b]]]
        /\ \E F \in Failing(bulky) :
               bulk' = [bulk EXCEPT ![t] = [b \in Books |-> [c \in Clients |->
                           IF b \in active /\ c \in bulky \ F THEN Observed(b, c) ELSE Absent]]]
        /\ book' = [book EXCEPT ![t] = NoBook]
        /\ Goto(t, "visit")
        /\ UNCHANGED <<lock, pending, db, remote, goal, result, bounds, history>>

\* The main loop skips a book whose clear is pending, and gives up one whose
\* rows it cannot load or save.
SkipBook(t, b) ==
    /\ pc[t] = "visit" /\ b \in todo[t] /\ (b \in pending \/ DbMayFail)
    /\ todo' = [todo EXCEPT ![t] = @ \ {b}]
    /\ UNCHANGED <<lock, pending, db, remote, pc, snap, bulk, book, goal, result, bounds, history>>

\* Otherwise it goes on with it; the object of an aligned book is first
\* upgraded to DB_MANAGED and saved.
VisitBook(t, b) ==
    /\ pc[t] = "visit" /\ b \in todo[t] /\ b \notin pending
    /\ todo' = [todo EXCEPT ![t] = @ \ {b}]
    /\ book' = [book EXCEPT ![t] = b]
    /\ IF b \in Aligned /\ ~snap[t][b].managed
       THEN SaveBook(b, [snap[t][b] EXCEPT !.managed = TRUE])
       ELSE UNCHANGED <<row, doc>>
    /\ Goto(t, "fetch")
    /\ UNCHANGED <<lock, pending, states, remote, snap, bulk, goal, result, bounds, history>>

\* The positions the clients of b may come back with.
Views(t, b) ==
    LET fresh == {c \in ActiveClients(b) : bulk[t][b][c] = Absent}
    IN  {[c \in ActiveClients(b) \ F |->
             IF c \in fresh THEN Observed(b, c) ELSE bulk[t][b][c]] : F \in Failing(fresh)}

\* Whether the leader's text can be read and located in the ebook.
TextOutcomes(b, l) ==
    LET mute == b \notin Aligned /\ l = Abs        \* no transcript to read from
    IN  (IF mute THEN {} ELSE {"located"})
        \cup (IF mute \/ LocatorMayFail THEN {"no text"} ELSE {})
        \cup (IF ~mute /\ LocatorMayFail THEN {"percentage"} ELSE {})

BackToLoop(t) == book' = [book EXCEPT ![t] = NoBook] /\ Goto(t, "visit")

\* _fetch_states_parallel and _evaluate_sync_significance: no client that may
\* lead answered, or nothing is to be done, or the fetch as a whole failed (a
\* client needed more than 15 s, the State rows could not be read).
FetchNothing(t) ==
    /\ pc[t] = "fetch"
    /\ \/ MayFail \/ DbMayFail
       \/ \E view \in Views(t, book[t]) :
              \/ DOMAIN view \cap Leading = {}
              \/ ~EvaluateSyncSignificance(Config(book[t], view), Between)
    /\ BackToLoop(t)
    /\ UNCHANGED <<lock, pending, db, remote, todo, snap, bulk, goal, result, bounds, history>>

\* _execute_sync_update up to the first push: leader l at place view[l] is
\* chosen, its row is to be recorded, and the other clients, those that did
\* not report included, get a goal unless the leader's text cannot be read.
FetchAndLead(t) ==
    LET b == book[t] IN
    /\ pc[t] = "fetch"
    /\ \E view \in Views(t, b) :
           /\ EvaluateSyncSignificance(Config(b, view), Between)
           /\ \E norm \in Normalised(b, view) :
              \E l \in Leaders(Config(b, view), Leading, Duration, norm) :
              \E text \in TextOutcomes(b, l) :
                  /\ result' = [result EXCEPT ![t] = [Nowhere EXCEPT ![l] = view[l]]]
                  /\ goal' = [goal EXCEPT ![t] = [c \in Clients |->
                        IF text = "no text" \/ c = l \/ c \notin ActiveClients(b)
                        THEN Absent
                        ELSE GoalOf(b, c, l, view[l], text = "located")]]
    /\ Goto(t, "push")
    /\ UNCHANGED <<lock, pending, db, remote, todo, snap, bulk, book, bounds, history>>

\* update_progress of one follower.  ABS keeps its own position, and reports
\* it as success, when it is already past a goal other than the start.
Push(t, c) ==
    LET b == book[t]
        p == goal[t][c]
    IN  /\ pc[t] = "push" /\ p # Absent
        /\ goal' = [goal EXCEPT ![t][c] = Absent]
        /\ \/ /\ c = Abs /\ 0 < p /\ p < ext[b][c]
              /\ result' = [result EXCEPT ![t][c] = ext[b][c]]
              /\ UNCHANGED remote
           \/ /\ ~(c = Abs /\ 0 < p /\ p < ext[b][c])
              /\ Store(ext, cache, b, {c}, p)
              /\ result' = [result EXCEPT ![t][c] = p]
              /\ UNCHANGED <<disk, scan>>
           \/ MayFail /\ UNCHANGED <<remote, result>>        \* not delivered
           \/ /\ MayFail /\ ~(c = Abs /\ 0 < p /\ p < ext[b][c])
              /\ ext' = [ext EXCEPT ![b][c] = p]              \* reply lost
              /\ UNCHANGED <<cache, disk, scan, result>>
        /\ UNCHANGED <<lock, pending, db, pc, todo, snap, bulk, book, bounds, history>>

\* The State rows of the leader and of every follower that succeeded; a
\* database error leaves some of them as they were and is swallowed.
RecordStates(t) ==
    /\ pc[t] = "push" /\ goal[t] = Nowhere
    /\ \E S \in IF DbMayFail THEN SUBSET Clients ELSE {Clients} :
           states' = [states EXCEPT ![book[t]] = [c \in Clients |->
               IF c \in S /\ result[t][c] # Absent THEN result[t][c] ELSE @[c]]]
    /\ result' = [result EXCEPT ![t] = Nowhere]
    /\ BackToLoop(t)
    /\ UNCHANGED <<lock, pending, row, doc, remote, todo, snap, bulk, goal, bounds, history>>

\* Mutant: the cycle ends without looking at the pending set.
LoopDoneEarly(t) ==
    /\ pc[t] = "visit" /\ todo[t] = {}
    /\ snap' = [snap EXCEPT ![t] = NoSnap]
    /\ bulk' = [bulk EXCEPT ![t] = NoBulk]
    /\ Goto(t, "deferred")
    /\ UNCHANGED <<lock, pending, db, remote, todo, book, goal, result, bounds, history>>

\* The loop is over: _process_deferred_clears copies the pending set.
LoopDone(t) ==
    /\ pc[t] = "visit" /\ todo[t] = {}
    /\ todo' = [todo EXCEPT ![t] = pending]
    /\ snap' = [snap EXCEPT ![t] = NoSnap]
    /\ bulk' = [bulk EXCEPT ![t] = NoBulk]
    /\ Goto(t, "deferred")
    /\ UNCHANGED <<lock, pending, db, remote, book, goal, result, bounds, history>>

CycleEnd(t) ==
    /\ pc[t] = "deferred" /\ todo[t] = {}
    /\ lock' = NoThread /\ Goto(t, "idle")
    /\ UNCHANGED <<pending, db, remote, local, bounds, history>>

(***************************************************************************)
(* Clearing.  The two halves that a clear request and a cycle's deferred   *)
(* processing share come first.                                            *)
(***************************************************************************)

\* _reset_external_clients: 0 is pushed to every client, a failure of one is
\* logged and the others go on.
ResetClients(b) ==
    /\ \E F \in Failing(ActiveClients(b)) :
           /\ Store(ext, cache, b, ActiveClients(b) \ F, 0)
           /\ quiet' = [quiet EXCEPT ![b] = ActiveClients(b) \ F]
    /\ owed' = owed \ {b} /\ crossed' = crossed \ {b}
    /\ UNCHANGED <<disk, scan>>

\* _finalize_clear_status: a book without an alignment goes back to pending.
FinalizeStatus(b) ==
    IF SmartReset /\ b \notin Aligned
    THEN SaveBook(b, [row[b] EXCEPT !.status = "pending"])
    ELSE UNCHANGED <<row, doc>>

DeferredReset(t, b) ==
    /\ pc[t] = "deferred" /\ b \in todo[t]
    /\ todo' = [todo EXCEPT ![t] = @ \ {b}]
    /\ book' = [book EXCEPT ![t] = b]
    /\ ResetClients(b)
    /\ Goto(t, "finish")
    /\ UNCHANGED <<lock, pending, db, snap, bulk, goal, result, bounds>>

DeferredFinish(t) ==
    /\ t \in Cyclers /\ pc[t] = "finish"
    /\ FinalizeStatus(book[t])
    /\ pending' = pending \ {book[t]}
    /\ book' = [book EXCEPT ![t] = NoBook]
    /\ Goto(t, "deferred")
    /\ UNCHANGED <<lock, states, remote, todo, snap, bulk, goal, result, bounds, history>>

\* A database error before the reset, or after it: the book stays pending,
\* the next cycle tries again.
DeferredFails(t, b) ==
    /\ DbMayFail /\ pc[t] = "deferred" /\ b \in todo[t]
    /\ todo' = [todo EXCEPT ![t] = @ \ {b}]
    /\ UNCHANGED <<lock, pending, db, remote, pc, snap, bulk, book, goal, result, bounds, history>>

DeferredUnfinished(t) ==
    /\ DbMayFail /\ t \in Cyclers /\ pc[t] = "finish"
    /\ book' = [book EXCEPT ![t] = NoBook]
    /\ Goto(t, "deferred")
    /\ UNCHANGED <<lock, pending, db, remote, todo, snap, bulk, goal, result, bounds, history>>

\* Another clear of b has not left the pending set yet.
Crossing(b) ==
    b \in pending \/ \E t \in Threads : book[t] = b /\ (t \in Clears \/ pc[t] = "finish")

\* clear_progress: load the book, mark it pending.
ClearStart(t, b) ==
    /\ t \in Clears /\ pc[t] = "idle" /\ clears < MaxClears
    /\ clears' = clears + 1
    /\ book' = [book EXCEPT ![t] = b]
    /\ snap' = [snap EXCEPT ![t][b] = row[b]]
    /\ pending' = pending \cup {b}
    /\ owed' = owed \cup {b}
    /\ crossed' = IF Crossing(b) THEN crossed \cup {b} ELSE crossed \ {b}
    /\ Goto(t, "local")
    /\ UNCHANGED <<lock, db, remote, todo, bulk, goal, result, reads, restarts, quiet>>

\* Phase 1, without the lock: the State rows become 0 (those of ABS are
\* deleted for an ebook-only book, which reads the same), the dates go.
ClearLocal(t) ==
    /\ pc[t] = "local"
    /\ states' = [states EXCEPT ![book[t]] = [c \in Clients |-> 0]]
    /\ row' = [row EXCEPT ![book[t]].started = FALSE]
    /\ Goto(t, "status")
    /\ UNCHANGED <<lock, pending, doc, remote, local, bounds, history>>

\* The object loaded at the start is saved as not_started.
ClearStatus(t) ==
    LET b == book[t] IN
    /\ pc[t] = "status"
    /\ IF snap[t][b].status \in {"pending", "processing"}
       THEN UNCHANGED <<row, doc>>
       ELSE SaveBook(b, [snap[t][b] EXCEPT !.status = "not_started"])
    /\ Goto(t, "await")
    /\ UNCHANGED <<lock, pending, states, remote, local, bounds, history>>

\* The end of a clear request: its object is dropped.
EndClear(t) ==
    /\ book' = [book EXCEPT ![t] = NoBook]
    /\ snap' = [snap EXCEPT ![t] = NoSnap]
    /\ Goto(t, "idle")

\* Mutant: a request that times out also discards the pending mark.
ClearForgotten(t) ==
    /\ t \in Clears /\ pc[t] = "await" /\ lock # NoThread
    /\ doc' = doc \ {book[t]}
    /\ pending' = pending \ {book[t]}
    /\ EndClear(t)
    /\ UNCHANGED <<lock, row, states, remote, todo, bulk, goal, result, bounds, history>>

\* Phase 2 cannot have the lock within 30 s: the documents are deleted, the
\* book is left pending for the cycle that holds the lock.
ClearDeferred(t) ==
    /\ t \in Clears /\ pc[t] = "await" /\ lock # NoThread
    /\ doc' = doc \ {book[t]}
    /\ EndClear(t)
    /\ UNCHANGED <<lock, pending, row, states, remote, todo, bulk, goal, result, bounds, history>>

\* Mutant: Phase 2 goes on without the lock.
ClearAnyway(t) ==
    /\ t \in Clears /\ pc[t] = "await"
    /\ lock' = t /\ Goto(t, "reset")
    /\ UNCHANGED <<pending, db, remote, local, bounds, history>>

ClearAcquire(t) ==
    /\ t \in Clears /\ pc[t] = "await" /\ lock = NoThread
    /\ lock' = t /\ Goto(t, "reset")
    /\ UNCHANGED <<pending, db, remote, local, bounds, history>>

ClearReset(t) ==
    /\ pc[t] = "reset"
    /\ ResetClients(book[t])
    /\ Goto(t, "finish")
    /\ UNCHANGED <<lock, pending, db, local, bounds>>

ClearFinish(t) ==
    /\ t \in Clears /\ pc[t] = "finish"
    /\ FinalizeStatus(book[t])
    /\ Goto(t, "documents")
    /\ UNCHANGED <<lock, pending, states, remote, local, bounds, history>>

\* The documents go last; then the lock is released ...
ClearRelease(t) ==
    /\ pc[t] = "documents"
    /\ doc' = doc \ {book[t]}
    /\ lock' = NoThread /\ Goto(t, "discard")
    /\ UNCHANGED <<pending, row, states, remote, local, bounds, history>>

\* ... and only then the book leaves the pending set.
ClearDiscard(t) ==
    /\ pc[t] = "discard"
    /\ pending' = pending \ {book[t]}
    /\ EndClear(t)
    /\ UNCHANGED <<lock, db, remote, todo, bulk, goal, result, bounds, history>>

\* A database error in either phase, or on the way out of a timeout, ends
\* the request with an error; the lock is released if it was taken.
ClearFails(t) ==
    /\ DbMayFail /\ t \in Clears
    /\ \/ pc[t] \in {"local", "status", "reset", "finish", "documents"}
       \/ pc[t] = "await" /\ lock # NoThread
    /\ lock' = IF lock = t THEN NoThread ELSE lock
    /\ pending' = pending \ {book[t]}
    /\ owed' = owed \ {book[t]} /\ crossed' = crossed \ {book[t]}
    /\ EndClear(t)
    /\ UNCHANGED <<db, remote, todo, bulk, goal, result, bounds, quiet>>

(***************************************************************************)
(* The surroundings: readers, the user, library scans, restarts.           *)
(***************************************************************************)

\* A reader moves on the device of client c.
ReaderMoves(b, c, p) ==
    /\ reads < MaxReads /\ p # ext[b][c] /\ c \in ActiveClients(b)
    /\ reads' = reads + 1
    /\ ext' = [ext EXCEPT ![b][c] = p]
    /\ quiet' = [quiet EXCEPT ![b] = {}]
    /\ UNCHANGED <<lock, pending, db, cache, disk, scan, pc, local, clears, restarts, owed, crossed>>

\* The user changes the status of a book (StatusMachine.transition).
UserSetsStatus(b, s) ==
    /\ s \in UserStatuses /\ s # row[b].status
    /\ SaveBook(b, [row[b] EXCEPT !.status = s, !.started = @ \/ s = "active"])
    /\ UNCHANGED <<lock, pending, states, remote, pc, local, bounds, history>>

\* _refresh_book_cache: the pages are read, later the cache is rebuilt from
\* them.  Without ScanRaces nothing is written to Grimmory in between.
ScanStart ==
    /\ ScanRaces /\ scan = <<>>
    /\ scan' = [b \in Books |-> ext[b][Grimmory]]
    /\ UNCHANGED <<lock, pending, db, ext, cache, disk, pc, local, bounds, history>>

ScanInstall ==
    /\ scan # <<>>
    /\ cache' = scan /\ disk' = scan /\ scan' = <<>>
    /\ UNCHANGED <<lock, pending, db, ext, pc, local, bounds, history>>

ScanAtOnce ==
    /\ cache' = [b \in Books |-> ext[b][Grimmory]] /\ disk' = cache'
    /\ <<cache, disk>>' # <<cache, disk>>
    /\ UNCHANGED <<lock, pending, db, ext, scan, pc, local, bounds, history>>

\* The process ends and is started again: what is in memory is lost.  The
\* cache is loaded from the database and scanned anew on first use; where
\* that scan fails, the loaded positions stay in use.
Restart ==
    /\ restarts < MaxRestarts
    /\ restarts' = restarts + 1
    /\ lock' = NoThread /\ pending' = {} /\ scan' = <<>>
    /\ \/ cache' = [b \in Books |-> ext[b][Grimmory]] /\ disk' = cache'
       \/ StaleStart /\ cache' = disk /\ UNCHANGED disk
    /\ pc' = [t \in Threads |-> "idle"]
    /\ todo' = [t \in Threads |-> {}]
    /\ snap' = [t \in Threads |-> NoSnap]
    /\ bulk' = [t \in Threads |-> NoBulk]
    /\ book' = [t \in Threads |-> NoBook]
    /\ goal' = [t \in Threads |-> Nowhere]
    /\ result' = [t \in Threads |-> Nowhere]
    /\ crossed' = owed
    /\ UNCHANGED <<db, ext, reads, clears, owed, quiet>>

CycleStep(t) ==
    \/ InstantAcquire(t) \/ InstantTimeout(t)
    \/ DiscoverScan(t) \/ DiscoverDone(t) \/ DiscoverFails(t)
    \/ Prepare(t) \/ CycleFails(t)
    \/ \E b \in Books : DiscoverPromote(t, b) \/ SkipBook(t, b) \/ VisitBook(t, b)
    \/ FetchNothing(t) \/ FetchAndLead(t)
    \/ \E c \in Clients : Push(t, c)
    \/ RecordStates(t) \/ LoopDone(t) \/ CycleEnd(t)
    \/ \E b \in Books : DeferredReset(t, b) \/ DeferredFails(t, b)
    \/ DeferredFinish(t) \/ DeferredUnfinished(t)

ClearStep(t) ==
    \/ ClearLocal(t) \/ ClearStatus(t) \/ ClearAcquire(t) \/ ClearDeferred(t)
    \/ ClearReset(t) \/ ClearFinish(t) \/ ClearRelease(t) \/ ClearDiscard(t)
    \/ ClearFails(t)

Environment ==
    \/ \E t \in Instants, b \in Books : InstantStart(t, b)
    \/ \E t \in Clears, b \in Books : ClearStart(t, b)
    \/ \E b \in Books, c \in Clients, p \in Pos : ReaderMoves(b, c, p)
    \/ \E b \in Books, s \in Statuses : UserSetsStatus(b, s)
    \/ ScanStart \/ ScanInstall \/ ScanAtOnce
    \/ Restart

Next ==
    \/ \E t \in Cyclers : DaemonStart(t) \/ CycleStep(t)
    \/ \E t \in Clears : ClearStep(t)
    \/ Environment

Spec == Init /\ [][Next]_vars

(***************************************************************************)
(* Every thread that has work goes on with it, the scheduler fires again   *)
(* and again, and a stale library cache is scanned anew (it expires after  *)
(* an hour).  Nobody is obliged to read, to clear or to restart.           *)
(***************************************************************************)
Fairness ==
    /\ SF_vars(DaemonStart(Daemon))
    /\ \A t \in Cyclers : WF_vars(CycleStep(t))
    /\ \A t \in Clears : WF_vars(ClearStep(t))
    /\ WF_vars(ScanAtOnce) /\ WF_vars(ScanInstall)

FairSpec == Spec /\ Fairness

(***************************************************************************)
(* Properties.                                                             *)
(***************************************************************************)
PcLabels == {"idle", "await", "discover", "promote", "prepare", "visit",
             "fetch", "push", "deferred", "finish", "local", "status",
             "reset", "documents", "discard"}

\* The type invariant of the engine.
TypeOK ==
    /\ lock \in Threads \cup {NoThread}
    /\ pending \in SUBSET Books
    /\ row \in [Books -> Row]
    /\ states \in [Books -> [Clients -> Pos]]
    /\ doc \in SUBSET Books
    /\ ext \in [Books -> [Clients -> Pos]]
    /\ cache \in [Books -> Pos]
    /\ disk \in [Books -> Pos]
    /\ scan \in [Books -> Pos] \cup {<<>>}
    /\ pc \in [Threads -> PcLabels]
    /\ todo \in [Threads -> SUBSET Books]
    /\ snap \in [Threads -> [Books -> Row]]
    /\ bulk \in [Threads -> [Books -> [Clients -> MaybePos]]]
    /\ book \in [Threads -> Books \cup {NoBook}]
    /\ goal \in [Threads -> [Clients -> MaybePos]]
    /\ result \in [Threads -> [Clients -> MaybePos]]
    /\ reads \in 0 .. MaxReads
    /\ clears \in 0 .. MaxClears
    /\ restarts \in 0 .. MaxRestarts
    /\ owed \in SUBSET Books
    /\ crossed \in SUBSET Books
    /\ quiet \in [Books -> SUBSET Clients]

\* A thread at one of these labels is inside the sync lock.
Inside == PcLabels \ {"idle", "await", "local", "status", "discard"}

\* Whoever talks to the services, a cycle or a clear, holds the sync lock;
\* hence never two threads at once (sync_cycle and clear_progress acquire
\* and release it on every path).
LockOwned ==
    \A t \in Threads : pc[t] \in Inside <=> lock = t

\* A clear whose every reset succeeded sticks: until somebody reads again,
\* no cycle that was under way, no deferred clear and no discovery brings a
\* cleared position back to any service.
ClearSticks ==
    \A b \in Books : quiet[b] = ActiveClients(b) =>
        \A c \in ActiveClients(b) : ext[b][c] = 0

\* The same when the reset of some client failed: the clients it did reach stay at 0
\* ("so the sync daemon sees "already up to date" and won't pull stale progress from
\* external services").  A book that is resumed is synchronised from the client whose
\* reset failed.
ResetStays == \A b \in Books : \A c \in quiet[b] : ext[b][c] = 0

\* No accepted clear is forgotten: until a reset of the book has run it stays in the
\* pending set ("Keep book_id in _pending_clears so _process_deferred_clears picks it
\* up"), unless another clear of the book had not left the set when it began, or
\* the process ends, which loses the set.
NoClearLost == owed \ crossed \subseteq pending

(***************************************************************************)
(* Who leads a book.  What the services answer now, or answered before the *)
(* loop, meets the State rows as they are when the cycle comes to the book.*)
(***************************************************************************)
Choosing == {t \in Cyclers : pc[t] = "fetch"}

\* The reader is followed: when one client that may lead is past its threshold, not
\* at the start, and all the others that answered are where their State rows say,
\* the book is synchronised and that client leads, also when the reader went back
\* ("Most recent change wins", sync_manager.py:311).
MoverLeads ==
    \A t \in Choosing : \A view \in Views(t, book[t]) : \A c \in Leading \cap DOMAIN view :
        LET b      == book[t]
            config == Config(b, view)
        IN  /\ config[c].delta >= config[c].threshold
            /\ config[c].pct >= 10
            /\ \A d \in DOMAIN view \ {c} : view[d] = states[b][d]
            => /\ EvaluateSyncSignificance(config, Between)
               /\ \A norm \in Normalised(b, view) : Leaders(config, Leading, Duration, norm) = {c}

\* A client at the start of the book that is new or was reset leads only when the
\* others that may lead are at the start as well, or could not be compared with those
\* that could ("A newly-added client reporting 0% from being elected leader",
\* sync_manager.py:262): it does not take the others back to the start.
ZeroFollows ==
    \A t \in Choosing : \A view \in Views(t, book[t]) : \A norm \in Normalised(book[t], view) :
    \A l \in Leaders(Config(book[t], view), Leading, Duration, norm) :
        /\ view[l] = 0
        /\ states[book[t]][l] = 0 \/ Pct[l][states[book[t]][l]] > 100
        => \A c \in Leading \cap DOMAIN view :
               view[c] = 0 \/ (c \notin DOMAIN norm /\ \E d, e \in DOMAIN norm : d # e)

\* Who leads is who read: the cycle neither overlooks the client that alone moved nor
\* takes a new or reset client for one that moved (_determine_leader).
WhoLeads == MoverLeads /\ ZeroFollows

(***************************************************************************)
(* The promise of a clear.  It is open while its mark is in the pending    *)
(* set or in the copy a cycle works through, or a thread works on it.      *)
(***************************************************************************)
Deferring == {t \in Cyclers : pc[t] \in {"deferred", "finish"}}
Open == {b \in Books : Crossing(b) \/ \E t \in Deferring : b \in todo[t]}

Promise == INSTANCE ClearPromise
           WITH Takers <- [b \in Books |-> ActiveClients(b)], Places <- Pos, Start <- 0,
                place <- ext, open <- Open, owed <- owed \ crossed, still <- quiet

\* The requests, the cycles and the readers together keep the promise of a clear: no
\* book is cleared that nobody asked for, an accepted clear is not closed before it
\* reached the services, and no cycle moves a service of a book that was cleared
\* (progress_reset_service.py:37, sync_manager.py:789).
PromiseKept == Promise!Spec

\* Every accepted clear gets its reset, even when the request timed out.
ClearsServed == \A b \in Books : b \in owed ~> b \notin owed

\* When readers stop, the services of an active book come to agree, and its State
\* rows come to say where they are: no move of a reader stays unnoticed.
Agreement ==
    \A b \in Books :
        <>[](\/ row[b].status # "active"
             \/ \A c, d \in ActiveClients(b) : /\ ext[b][c] = ext[b][d]
                                                /\ states[b][c] = ext[b][c])
=============================================================================
