---------------------------- MODULE ChangeEvents ----------------------------
(***************************************************************************)
(* Who notices that a reader moved, and who is to keep quiet about the     *)
(* system's own writes: services/write_tracker.py, the debounced socket    *)
(* events of services/abs_socket_listener.py, services/client_poller.py    *)
(* and the debounced PUTs of utils/debounce_manager.py.  A noticed change  *)
(* starts an instant cycle; the cycle is reduced to what it writes (module *)
(* SyncEngine has the rest).                                               *)
(*                                                                         *)
(* Time passes in ticks of ten seconds, the period of the two debounce     *)
(* loops.  Two events that are k ticks apart are between k - 1 and k + 1   *)
(* times ten seconds apart; a comparison with a duration that falls into   *)
(* that interval may come out either way.                                  *)
(***************************************************************************)
EXTENDS Integers

CONSTANTS
    Books,       \* the mapped books
    Abs,         \* the Audiobookshelf client, heard through its socket
    Polled,      \* the clients in poll mode "custom"
    Kosync,      \* the KOReader devices, heard through their PUTs
    Last,        \* the last place in the story; 0 is below 1 percent
    Window,      \* the suppression window of the write tracker, in ticks
    Debounce,    \* ABS_SOCKET_DEBOUNCE_SECONDS, in ticks
    Stale,       \* stale_seconds of the debounce manager, in ticks
    Latency,     \* ticks from the note of a write to ABS to its announcement
    Losses,      \* pushes, their answers and socket events may be lost
    MaxReads,    \* bound on the moves of readers
    None         \* no such thing

Clients == {Abs, Kosync} \cup Polled
Places  == 0 .. Last
Sources == {Abs} \cup Polled
Statuses == {"active", "not_started", "paused"}
Loops    == {"socket", "puts"}
Write    == [age : 0 .. Window, place : Places \cup {None}]
Event    == [book : Books, age : 0 .. Latency, place : Places, reader : BOOLEAN]
Ages     == 0 .. Debounce + 1
Entry    == [age : 0 .. Stale, synced : BOOLEAN]
Due      == [book : Books, heard : BOOLEAN]
Seen     == [book : Books, client : Polled, place : Places, reader : BOOLEAN]
Job      == [book : Books, leader : Clients, place : Places, left : SUBSET Clients,
             noted : SUBSET Clients, done : SUBSET Clients]

ASSUME EventsAssumption ==
    /\ Last \in Nat /\ Latency \in Nat /\ MaxReads \in Nat
    /\ Window \in Nat \ {0} /\ Debounce \in Nat /\ Stale \in Nat
    /\ Losses \in BOOLEAN
    /\ Abs # Kosync /\ {Abs, Kosync} \cap Polled = {}
    /\ None \notin Nat \cup Books \cup Write \cup Entry \cup Seen \cup Job

\* The echo of an own write reaches the check while the write tracker still
\* remembers it: so the numbers of the code (60 s, 30 s) and a server that
\* stores and announces a write within 10 s.
WindowCoversDebounce == Latency + Debounce + 1 < Window

\* A PUT is answered before its entry is purged (30 s, 300 s).
DebounceBelowStale == Debounce < Stale

VARIABLES
    status,      \* Book.status
    activity,    \* the books with Book.activity_flag
    ext,         \* the place each service is at
    rec,         \* the State rows
    wrote,       \* _recent_writes: age and place (None: no state) of a write
    flight,      \* socket events on their way, with their age and place
    pending,     \* _pending of the listener: age of the last event
    fired,       \* _fired of the listener
    due,         \* to_fire: taken from _pending, not yet looked at
    checked,     \* the two loops that have run since the last tick
    puts,        \* _entries of the debounce manager
    putDue,      \* to_sync: marked synced, not yet triggered
    known,       \* _last_known of the poller
    seen,        \* a position the poller has fetched and not yet judged
    triggered,   \* the books with an instant cycle waiting to run
    job,         \* the cycle that holds the sync lock
    reads,       \* moves of readers so far
    heard,       \* history: a reader's event is among those pending
    owed,        \* history: a PUT that no cycle was started for yet
    moved,       \* history: moves that the poller has not fetched
    echoes       \* history: sources that took an own write for a reader

books    == <<status, activity>>
places   == <<ext, rec>>
socket   == <<flight, pending, fired, due>>
debounce == <<puts, putDue>>
poller   == <<known, seen>>
cycles   == <<triggered, job>>
history  == <<heard, owed, moved, echoes>>
vars == <<books, places, wrote, socket, checked, debounce, poller, cycles, reads, history>>

Init ==
    /\ status \in [Books -> Statuses] /\ activity = {}
    /\ \E p \in [Books -> Places] : ext = [b \in Books |-> [c \in Clients |-> p[b]]]
    /\ rec = ext
    /\ wrote = [b \in Books |-> [c \in Sources |-> None]]
    /\ flight = {} /\ fired = {} /\ due = {} /\ checked = {}
    /\ pending = [b \in Books |-> None]
    /\ puts = [b \in Books |-> None] /\ putDue = {}
    /\ known = [b \in Books |-> [c \in Polled |-> None]] /\ seen = None
    /\ triggered = {} /\ job = None
    /\ reads = 0
    /\ heard = {} /\ owed = {} /\ moved = {} /\ echoes = {}

(***************************************************************************)
(* The write tracker.                                                      *)
(***************************************************************************)
RecordWrite(b, c, p) == [wrote EXCEPT ![b][c] = [age |-> 0, place |-> p]]

\* The answers is_own_write may give for a change to place p: within the
\* window, whether the places match, a missing one matching any.
IsOwnWrite(b, c, p) ==
    IF wrote[b][c] = None THEN {FALSE}
    ELSE LET match == None \in {p, wrote[b][c].place} \/ p = wrote[b][c].place
         IN  {match} \cup IF wrote[b][c].age < Window THEN {} ELSE {FALSE}

(***************************************************************************)
(* Readers.                                                                *)
(***************************************************************************)

\* A reader listens on: the server stores the place and announces it.
ReaderListens(b, p) ==
    /\ reads < MaxReads /\ p # ext[b][Abs]
    /\ reads' = reads + 1
    /\ ext' = [ext EXCEPT ![b][Abs] = p]
    /\ flight' = flight \cup {[book |-> b, age |-> 0, place |-> p, reader |-> TRUE]}
    /\ UNCHANGED <<books, rec, wrote, pending, fired, due, checked, debounce, poller, cycles, history>>

\* A reader moves in a polled client.
ReaderMoves(b, c, p) ==
    /\ reads < MaxReads /\ c \in Polled /\ p # ext[b][c]
    /\ reads' = reads + 1
    /\ ext' = [ext EXCEPT ![b][c] = p]
    /\ moved' = moved \cup {<<b, c>>}
    /\ UNCHANGED <<books, rec, wrote, socket, checked, debounce, poller, cycles, heard, owed, echoes>>

\* A KOReader device sends a PUT that furthest-wins accepts: the document is
\* stored, and record_event is called when the book is active, else the book
\* is flagged.
KosyncPut(b, p) ==
    /\ reads < MaxReads /\ p # ext[b][Kosync]
    /\ reads' = reads + 1
    /\ ext' = [ext EXCEPT ![b][Kosync] = p]
    /\ IF status[b] = "active"
       THEN /\ puts' = [puts EXCEPT ![b] = [age |-> 0, synced |-> FALSE]]
            /\ owed' = owed \cup {b}
            /\ UNCHANGED activity
       ELSE /\ activity' = activity \cup {b}
            /\ UNCHANGED <<puts, owed>>
    /\ UNCHANGED <<status, rec, wrote, socket, checked, putDue, poller, cycles, heard, moved, echoes>>

(***************************************************************************)
(* The socket listener.                                                    *)
(***************************************************************************)

\* _handle_progress_event: progress makes a not_started book active, other
\* events of books that are not active only flag them.
HandleProgressEvent(e) ==
    LET b == e.book
        promote == status[b] = "not_started" /\ e.place > 0
    IN  /\ e \in flight
        /\ flight' = flight \ {e}
        /\ IF promote \/ status[b] = "active"
           THEN /\ status' = [status EXCEPT ![b] = "active"]
                /\ pending' = [pending EXCEPT ![b] = 0]
                /\ fired' = fired \ {b}
                /\ heard' = IF e.reader THEN heard \cup {b} ELSE heard
                /\ UNCHANGED activity
           ELSE /\ activity' = activity \cup {b}
                /\ UNCHANGED <<status, pending, fired, heard>>
        /\ UNCHANGED <<places, wrote, due, checked, debounce, poller, cycles, reads, owed, moved, echoes>>

\* A socket that is not connected delivers nothing, now or later.
LoseEvent(e) ==
    /\ Losses /\ e \in flight
    /\ flight' = flight \ {e}
    /\ UNCHANGED <<books, places, wrote, pending, fired, due, checked, debounce, poller, cycles, reads, history>>

\* _check_and_fire under its lock: the events that are older than the
\* debounce window are taken.
CheckAndFire ==
    /\ "socket" \notin checked /\ due = {}
    /\ \E B \in SUBSET {b \in Books \ fired : pending[b] # None /\ pending[b] >= Debounce} :
           /\ \A b \in Books \ fired : pending[b] # None /\ pending[b] > Debounce => b \in B
           /\ due' = {[book |-> b, heard |-> b \in heard] : b \in B}
           /\ heard' = heard \ B
           /\ fired' = fired \cup B
           /\ pending' = [b \in Books |-> IF b \in B THEN None ELSE pending[b]]
    /\ checked' = checked \cup {"socket"}
    /\ UNCHANGED <<books, places, wrote, flight, debounce, poller, cycles, reads, owed, moved, echoes>>

\* Mutant: the pending event is removed here, outside the lock.
SocketFireForgets(d) ==
    /\ d \in due
    /\ due' = due \ {d}
    /\ pending' = [pending EXCEPT ![d.book] = None]
    /\ \E own \in IsOwnWrite(d.book, Abs, None) :
           IF own THEN UNCHANGED <<triggered, echoes>>
           ELSE /\ triggered' = triggered \cup {d.book}
                /\ echoes' = IF d.heard THEN echoes ELSE echoes \cup {Abs}
    /\ UNCHANGED <<books, places, wrote, flight, fired, checked, debounce, poller, job, reads, heard, owed, moved>>

\* The loop without the lock: each book taken starts a cycle unless it was an
\* own write; no position is compared.
SocketFire(d) ==
    /\ d \in due
    /\ due' = due \ {d}
    /\ \E own \in IsOwnWrite(d.book, Abs, None) :
           IF own THEN UNCHANGED <<triggered, echoes>>
           ELSE /\ triggered' = triggered \cup {d.book}
                /\ echoes' = IF d.heard THEN echoes ELSE echoes \cup {Abs}
    /\ UNCHANGED <<books, places, wrote, flight, pending, fired, checked, debounce, poller, job, reads, heard, owed, moved>>

\* A database error ends the loop; what was taken is lost.
SocketLoopFails ==
    /\ due # {} /\ due' = {}
    /\ UNCHANGED <<books, places, wrote, flight, pending, fired, checked, debounce, poller, cycles, reads, history>>

(***************************************************************************)
(* The debounce manager.                                                   *)
(***************************************************************************)

\* Mutant: an entry is not marked but left for _trigger_sync to mark.
CheckPutsUnmarked ==
    /\ "puts" \notin checked /\ putDue = {}
    /\ \E B \in SUBSET {b \in Books : puts[b] # None /\ ~puts[b].synced /\ puts[b].age >= Debounce} :
           /\ \A b \in Books : puts[b] # None /\ ~puts[b].synced /\ puts[b].age > Debounce => b \in B
           /\ putDue' = B
           /\ puts' = [b \in Books |-> IF b \in B THEN None ELSE puts[b]]
    /\ checked' = checked \cup {"puts"}
    /\ UNCHANGED <<books, places, wrote, socket, poller, cycles, reads, history>>

\* _poll_loop under its lock: the entries that rested are marked and taken.
CheckPuts ==
    /\ "puts" \notin checked /\ putDue = {}
    /\ \E B \in SUBSET {b \in Books : puts[b] # None /\ ~puts[b].synced /\ puts[b].age >= Debounce} :
           /\ \A b \in Books : puts[b] # None /\ ~puts[b].synced /\ puts[b].age > Debounce => b \in B
           /\ putDue' = B
           /\ puts' = [b \in Books |-> IF b \in B THEN [puts[b] EXCEPT !.synced = TRUE] ELSE puts[b]]
           /\ owed' = owed \ B
    /\ checked' = checked \cup {"puts"}
    /\ UNCHANGED <<books, places, wrote, socket, poller, cycles, reads, heard, moved, echoes>>

\* _trigger_sync, without the lock.
TriggerSync(b) ==
    /\ b \in putDue
    /\ putDue' = putDue \ {b}
    /\ triggered' = triggered \cup {b}
    /\ UNCHANGED <<books, places, wrote, socket, checked, puts, poller, job, reads, history>>

\* A database error ends the round; what was marked is lost.
PutLoopFails ==
    /\ putDue # {} /\ putDue' = {}
    /\ UNCHANGED <<books, places, wrote, socket, checked, puts, poller, cycles, reads, history>>

(***************************************************************************)
(* The poller.                                                             *)
(***************************************************************************)

\* _poll_client fetches the position of an active book ...
PollFetch(b, c) ==
    /\ seen = None /\ status[b] = "active"
    /\ seen' = [book |-> b, client |-> c, place |-> ext[b][c], reader |-> <<b, c>> \in moved]
    /\ moved' = moved \ {<<b, c>>}
    /\ UNCHANGED <<books, places, wrote, socket, checked, debounce, known, cycles, reads, heard, owed, echoes>>

\* Mutant: the last known position is only ever set once.
PollJudgeOnce ==
    /\ seen # None
    /\ LET b == seen.book
           c == seen.client
           p == seen.place
       IN  /\ known' = [known EXCEPT ![b][c] = IF @ = None THEN p ELSE @]
           /\ IF known[b][c] \in {None, p} THEN UNCHANGED <<triggered, echoes>>
              ELSE \E own \in IsOwnWrite(b, c, p) :
                       IF own THEN UNCHANGED <<triggered, echoes>>
                       ELSE /\ triggered' = triggered \cup {b}
                            /\ echoes' = IF seen.reader THEN echoes ELSE echoes \cup {c}
    /\ seen' = None
    /\ UNCHANGED <<books, places, wrote, socket, checked, debounce, job, reads, heard, owed, moved>>

\* ... and starts a cycle when it is not the last known one and not its own
\* write; in every case the position becomes the last known one.
PollJudge ==
    /\ seen # None
    /\ LET b == seen.book
           c == seen.client
           p == seen.place
       IN  /\ known' = [known EXCEPT ![b][c] = p]
           /\ IF known[b][c] \in {None, p} THEN UNCHANGED <<triggered, echoes>>
              ELSE \E own \in IsOwnWrite(b, c, p) :
                       IF own THEN UNCHANGED <<triggered, echoes>>
                       ELSE /\ triggered' = triggered \cup {b}
                            /\ echoes' = IF seen.reader THEN echoes ELSE echoes \cup {c}
    /\ seen' = None
    /\ UNCHANGED <<books, places, wrote, socket, checked, debounce, job, reads, heard, owed, moved>>

(***************************************************************************)
(* The cycles, reduced to their writes.                                    *)
(***************************************************************************)
Agrees(b) == \A c \in Clients : ext[b][c] = rec[b][c] /\ ext[b][c] = ext[b][Abs]

\* A cycle of the scheduler, or a triggered one, finds the book out of step:
\* a client that moved leads, the others are to follow.
CycleStart(b, c) ==
    /\ job = None /\ status[b] = "active" /\ ~Agrees(b)
    /\ ext[b][c] = rec[b][c] => \A d \in Clients : ext[b][d] = rec[b][d]
    /\ job' = [book |-> b, leader |-> c, place |-> ext[b][c],
               left |-> Clients \ {c}, noted |-> {}, done |-> {}]
    /\ triggered' = triggered \ {b}
    /\ UNCHANGED <<books, places, wrote, socket, checked, debounce, poller, reads, history>>

\* A triggered cycle has nothing to do, or gives up waiting for the lock.
CycleIdle(b) ==
    /\ b \in triggered
    /\ job # None \/ status[b] # "active" \/ Agrees(b)
    /\ triggered' = triggered \ {b}
    /\ UNCHANGED <<books, places, wrote, socket, checked, debounce, poller, job, reads, history>>

\* How long ago the write to ABS that is under way was recorded.
SinceNote(b) == IF wrote[b][Abs] = None THEN 0 ELSE wrote[b][Abs].age

\* Mutant: ABS does not record its write.
NoteNothing ==
    /\ job # None /\ Abs \in job.left \ job.noted
    /\ wrote' = wrote
    /\ job' = [job EXCEPT !.noted = @ \cup {Abs}]
    /\ UNCHANGED <<books, places, socket, checked, debounce, poller, triggered, reads, history>>

\* ABS records its write before the PUT, without a state.
NoteBefore ==
    /\ job # None /\ Abs \in job.left \ job.noted
    /\ wrote' = RecordWrite(job.book, Abs, None)
    /\ job' = [job EXCEPT !.noted = @ \cup {Abs}]
    /\ UNCHANGED <<books, places, socket, checked, debounce, poller, triggered, reads, history>>

\* The PUT, which may fail, or be carried out and its answer lost; ABS
\* announces what it stored.
Push(c) ==
    /\ job # None /\ c \in job.left
    /\ c = Abs => Abs \in job.noted
    /\ \E stored, answered \in BOOLEAN :
           /\ answered => stored
           /\ ~Losses => answered
           /\ ext' = IF stored THEN [ext EXCEPT ![job.book][c] = job.place] ELSE ext
           /\ job' = [job EXCEPT !.left = @ \ {c}, !.done = IF answered THEN @ \cup {c} ELSE @]
           /\ flight' = IF c # Abs \/ ~stored THEN flight
                        ELSE flight \cup {[book |-> job.book, age |-> SinceNote(job.book),
                                          place |-> job.place, reader |-> FALSE]}
    /\ UNCHANGED <<books, rec, wrote, pending, fired, due, checked, debounce, poller, triggered, reads, history>>

\* A polled client records its write after it succeeded, without a state.
Note(c) ==
    /\ job # None /\ c \in (job.done \cap Polled) \ job.noted
    /\ wrote' = RecordWrite(job.book, c, None)
    /\ job' = [job EXCEPT !.noted = @ \cup {c}]
    /\ UNCHANGED <<books, places, socket, checked, debounce, poller, triggered, reads, history>>

\* At the end the manager saves the State rows and records the writes once
\* more, with their state; for ABS under the other id of the book, which
\* nothing looks up.
CycleEnd ==
    /\ job # None /\ job.left = {} /\ job.done \cap Polled \subseteq job.noted
    /\ rec' = [rec EXCEPT ![job.book] = [c \in Clients |->
                    IF c \in job.done \cup {job.leader} THEN job.place ELSE @[c]]]
    /\ wrote' = [wrote EXCEPT ![job.book] = [c \in Sources |->
                    IF c \in job.done \cap Polled THEN [age |-> 0, place |-> job.place] ELSE @[c]]]
    /\ job' = None
    /\ UNCHANGED <<books, ext, socket, checked, debounce, poller, triggered, reads, history>>

(***************************************************************************)
(* Time.                                                                   *)
(***************************************************************************)
\* Ten seconds pass.  Both loops ran in the meantime and finished their
\* rounds; no write to ABS takes longer than Latency, with its announcement;
\* what exceeds its window is forgotten, an entry of the debounce manager is purged.
Tick ==
    /\ checked = Loops /\ due = {} /\ putDue = {}
    /\ \A e \in flight : e.age < Latency
    /\ job # None /\ Abs \in job.left \cap job.noted => SinceNote(job.book) < Latency
    /\ checked' = {}
    /\ flight' = {[e EXCEPT !.age = @ + 1] : e \in flight}
    /\ pending' = [b \in Books |-> IF pending[b] = None THEN None ELSE pending[b] + 1]
    /\ wrote' = [b \in Books |-> [c \in Sources |->
                    IF wrote[b][c] = None \/ wrote[b][c].age = Window THEN None
                    ELSE [wrote[b][c] EXCEPT !.age = @ + 1]]]
    /\ puts' = [b \in Books |->
                    IF puts[b] = None \/ puts[b].age = Stale THEN None
                    ELSE [puts[b] EXCEPT !.age = @ + 1]]
    /\ UNCHANGED <<books, places, fired, due, putDue, poller, cycles, reads, history>>

Readers ==
    \E b \in Books, p \in Places :
        ReaderListens(b, p) \/ KosyncPut(b, p) \/ \E c \in Polled : ReaderMoves(b, c, p)

Listener ==
    \/ \E e \in flight : HandleProgressEvent(e) \/ LoseEvent(e)
    \/ CheckAndFire \/ SocketLoopFails
    \/ \E d \in due : SocketFire(d)

Debouncer == CheckPuts \/ PutLoopFails \/ \E b \in putDue : TriggerSync(b)

Poller == PollJudge \/ \E b \in Books, c \in Polled : PollFetch(b, c)

Cycle ==
    \/ \E b \in Books, c \in Clients : CycleStart(b, c)
    \/ \E b \in triggered : CycleIdle(b)
    \/ NoteBefore \/ CycleEnd
    \/ \E c \in Clients : Push(c) \/ Note(c)

Next == Readers \/ Listener \/ Debouncer \/ Poller \/ Cycle \/ Tick

Spec == Init /\ [][Next]_vars

(***************************************************************************)
(* The loops and the cycles go on, and time passes; the poller may sleep   *)
(* as long as it likes.                                                    *)
(***************************************************************************)
Fairness ==
    /\ WF_vars(Listener) /\ WF_vars(Debouncer) /\ WF_vars(PollJudge)
    /\ WF_vars(Cycle) /\ WF_vars(Tick)

FairSpec == Spec /\ Fairness

(***************************************************************************)
(* Properties.                                                             *)
(***************************************************************************)
\* The type invariant; ages stay within their windows.
TypeOK ==
    /\ status \in [Books -> Statuses] /\ activity \subseteq Books
    /\ ext \in [Books -> [Clients -> Places]] /\ rec \in [Books -> [Clients -> Places]]
    /\ wrote \in [Books -> [Sources -> Write \cup {None}]]
    /\ flight \subseteq Event
    /\ pending \in [Books -> Ages \cup {None}]
    /\ fired \subseteq Books /\ due \subseteq Due /\ checked \subseteq Loops
    /\ puts \in [Books -> Entry \cup {None}] /\ putDue \subseteq Books
    /\ known \in [Books -> [Polled -> Places \cup {None}]]
    /\ seen \in Seen \cup {None}
    /\ triggered \subseteq Books /\ job \in Job \cup {None}
    /\ reads \in 0 .. MaxReads
    /\ heard \subseteq Books /\ owed \subseteq Books
    /\ moved \subseteq Books \X Polled /\ echoes \subseteq Sources

\* The socket never takes the echo of the system's own write for a reader:
\* no cycle is started by the listener unless a reader's event was among
\* those it debounced ("if PageKeeper just pushed a position to a client, it
\* ignores the echo that comes back").
NoSocketEcho == Abs \notin echoes

\* A reader's event that came in stays pending until a round of the debounce
\* loop takes it, also when it comes in while that round is at work on an
\* earlier event of the same book.
NoEventLost == \A b \in heard : pending[b] # None /\ b \notin fired

\* A PUT of a device is not forgotten before a round of the debounce manager
\* takes it: its entry is there and not marked as synced, also when the PUT
\* comes in while an earlier one is being answered.
NoPutLost == \A b \in owed : puts[b] # None /\ ~puts[b].synced

\* Triggers die out: when the readers stop, no cycle goes on for ever
\* answering the writes of another, and the services agree.
Settles ==
    <>[](/\ triggered = {} /\ job = None
         /\ \A b \in Books : status[b] = "active" =>
                \A c, d \in Clients : ext[b][c] = ext[b][d])
=============================================================================
