------------------------- MODULE ChangeEventsProofs -------------------------
(***************************************************************************)
(* Theorems about ChangeEvents, for any books, clients, places and bounds: *)
(* the listener and the debounce manager lose no event, and the listener   *)
(* never takes an own write for a reader as long as the suppression window *)
(* covers the debounce window.                                             *)
(***************************************************************************)
EXTENDS ChangeEvents, TLAPS

(***************************************************************************)
(* Types.                                                                  *)
(***************************************************************************)

\* A pending event is not marked as fired, and once the loop has run since
\* the last tick it is not older than the debounce window.
FreshEvents ==
    \A b \in Books : pending[b] # None =>
        /\ b \notin fired
        /\ "socket" \in checked => pending[b] <= Debounce

\* A write to ABS under way was recorded a short time ago.
NotedRecently ==
    job # None /\ Abs \in job.left \cap job.noted => SinceNote(job.book) <= Latency

EventsInv == TypeOK /\ FreshEvents /\ NotedRecently

LEMMA NotNone ==
    /\ \A n \in Nat : n # None
    /\ \A w \in Write : w # None
    /\ \A e \in Entry : e # None
    /\ \A s \in Seen : s # None
    /\ \A j \in Job : j # None
  BY EventsAssumption

LEMMA EventsInit == Init => EventsInv
  BY EventsAssumption DEF Init, EventsInv, TypeOK, FreshEvents, NotedRecently, Sources, Clients, Places

\* What actions that leave some variables alone preserve.
LEMMA FreshFrame ==
  ASSUME FreshEvents, UNCHANGED <<pending, fired, checked>>
  PROVE  FreshEvents'
  BY DEF FreshEvents

LEMMA NotedFrame ==
  ASSUME NotedRecently, UNCHANGED <<job, wrote>>
  PROVE  NotedRecently'
  BY DEF NotedRecently, SinceNote

LEMMA ReadersType ==
  ASSUME EventsInv, Readers
  PROVE  EventsInv'
<1>1. PICK b \in Books, p \in Places :
         ReaderListens(b, p) \/ KosyncPut(b, p) \/ \E c \in Polled : ReaderMoves(b, c, p)
  BY DEF Readers
<1>2. reads < MaxReads => reads + 1 \in 0 .. MaxReads
  BY EventsAssumption DEF EventsInv, TypeOK
<1>3. \A c \in Clients : [ext EXCEPT ![b][c] = p] \in [Books -> [Clients -> Places]]
  BY DEF EventsInv, TypeOK
<1>4. CASE ReaderListens(b, p)
  <2>1. [book |-> b, age |-> 0, place |-> p, reader |-> TRUE] \in Event
    BY EventsAssumption DEF Event
  <2>2. Abs \in Clients
    BY DEF Clients
  <2>3. TypeOK'
    BY <1>2, <1>3, <1>4, <2>1, <2>2 DEF ReaderListens, EventsInv, TypeOK, books, debounce,
       poller, cycles, history
  <2> QED
    BY <1>4, <2>3, FreshFrame, NotedFrame DEF ReaderListens, EventsInv, cycles
<1>5. CASE KosyncPut(b, p)
  <2>1. [age |-> 0, synced |-> FALSE] \in Entry
    BY EventsAssumption DEF Entry
  <2>2. Kosync \in Clients
    BY DEF Clients
  <2>3. TypeOK'
    BY <1>2, <1>3, <1>5, <2>1, <2>2 DEF KosyncPut, EventsInv, TypeOK, socket, poller, cycles
  <2> QED
    BY <1>5, <2>3, FreshFrame, NotedFrame DEF KosyncPut, EventsInv, socket, cycles
<1>6. CASE \E c \in Polled : ReaderMoves(b, c, p)
  <2>1. PICK c \in Polled : ReaderMoves(b, c, p)
    BY <1>6
  <2>2. c \in Clients
    BY DEF Clients
  <2>3. TypeOK'
    BY <1>2, <1>3, <2>1, <2>2 DEF ReaderMoves, EventsInv, TypeOK, books, socket, debounce,
       poller, cycles
  <2> QED
    BY <2>1, <2>3, FreshFrame, NotedFrame DEF ReaderMoves, EventsInv, socket, cycles
<1> QED
  BY <1>1, <1>4, <1>5, <1>6

LEMMA ListenerType ==
  ASSUME EventsInv, Listener
  PROVE  EventsInv'
<1>1. CASE \E e \in flight : HandleProgressEvent(e)
  <2>1. PICK e \in flight : HandleProgressEvent(e)
    BY <1>1
  <2>2. e \in Event /\ e.book \in Books /\ 0 \in Ages /\ 0 # None
    BY <2>1, EventsAssumption DEF EventsInv, TypeOK, Event, Ages
  <2> DEFINE b == e.book
  <2>7. \/ /\ status' = [status EXCEPT ![b] = "active"]
           /\ pending' = [pending EXCEPT ![b] = 0]
           /\ fired' = fired \ {b}
           /\ heard' \in {heard, heard \cup {b}}
           /\ UNCHANGED activity
        \/ /\ activity' = activity \cup {b}
           /\ UNCHANGED <<status, pending, fired, heard>>
    BY <2>1 DEF HandleProgressEvent
  <2>8. flight' \subseteq flight
    BY <2>1 DEF HandleProgressEvent
  <2>9. b \in Books
    BY <2>2
  <2> HIDE DEF b
  <2>3. /\ status' \in [Books -> Statuses] /\ activity' \subseteq Books
        /\ fired' \subseteq Books /\ heard' \subseteq Books /\ flight' \subseteq Event
    BY <2>7, <2>8, <2>9 DEF EventsInv, TypeOK, Statuses
  <2>4. pending' \in [Books -> Ages \cup {None}]
    <3>1. \A a \in Ages : [pending EXCEPT ![b] = a] \in [Books -> Ages \cup {None}]
      BY DEF EventsInv, TypeOK
    <3>2. pending \in [Books -> Ages \cup {None}]
      BY DEF EventsInv, TypeOK
    <3> QED
      BY <2>2, <2>7, <3>1, <3>2, Zenon
  <2>5. TypeOK'
    BY <2>1, <2>3, <2>4 DEF HandleProgressEvent, EventsInv, TypeOK, places, debounce,
       poller, cycles
  <2>6. FreshEvents'
    <3>1. checked' = checked
      BY <2>1 DEF HandleProgressEvent
    <3> QED
      BY <2>7, <2>9, <3>1, EventsAssumption DEF EventsInv, TypeOK, FreshEvents
  <2> QED
    BY <2>1, <2>5, <2>6, NotedFrame DEF HandleProgressEvent, EventsInv, cycles
<1>2. CASE CheckAndFire
  <2>1. PICK B \in SUBSET {b \in Books \ fired : pending[b] # None /\ pending[b] >= Debounce} :
          /\ \A b \in Books \ fired : pending[b] # None /\ pending[b] > Debounce => b \in B
          /\ due' = {[book |-> b, heard |-> b \in heard] : b \in B}
          /\ heard' = heard \ B
          /\ fired' = fired \cup B
          /\ pending' = [b \in Books |-> IF b \in B THEN None ELSE pending[b]]
    BY <1>2 DEF CheckAndFire
  <2>2. due' \subseteq Due
    <3>1. \A b \in B : [book |-> b, heard |-> b \in heard] \in Due
      <4>1. \A b \in B : (b \in heard) \in BOOLEAN
        OBVIOUS
      <4> QED
        BY <2>1, <4>1, Zenon DEF Due
    <3> QED
      BY <2>1, <3>1
  <2>3. pending' \in [Books -> Ages \cup {None}]
    BY <2>1 DEF EventsInv, TypeOK
  <2>6. fired' \subseteq Books /\ heard' \subseteq Books /\ checked' \subseteq Loops
    BY <1>2, <2>1 DEF CheckAndFire, EventsInv, TypeOK, Loops
  <2>4. TypeOK'
    BY <1>2, <2>2, <2>3, <2>6 DEF CheckAndFire, EventsInv, TypeOK, books, places, debounce, poller, cycles
  <2>5. FreshEvents'
    <3>1. ASSUME NEW b \in Books, pending'[b] # None
          PROVE  b \notin B /\ pending'[b] = pending[b]
      BY <2>1, <3>1
    <3>2. ASSUME NEW b \in Books, pending'[b] # None
          PROVE  b \notin fired' /\ pending'[b] <= Debounce
      <4>1. pending[b] # None /\ pending[b] \in Int /\ b \notin fired
        BY <3>1, <3>2 DEF EventsInv, TypeOK, FreshEvents, Ages
      <4> QED
        BY <2>1, <3>1, <3>2, <4>1, EventsAssumption
    <3> QED
      BY <3>2 DEF FreshEvents
  <2> QED
    BY <1>2, <2>4, <2>5, NotedFrame DEF CheckAndFire, EventsInv, cycles
<1>3. CASE SocketLoopFails
  BY <1>3, FreshFrame, NotedFrame DEF SocketLoopFails, EventsInv, TypeOK, books, places, debounce, poller,
     cycles, history
<1>4. CASE \E d \in due : SocketFire(d)
  <2>1. PICK d \in due : SocketFire(d)
    BY <1>4
  <2>2. d.book \in Books
    BY <2>1 DEF EventsInv, TypeOK, Due
  <2> QED
    BY <2>1, <2>2, FreshFrame, NotedFrame DEF SocketFire, EventsInv, TypeOK, Sources, books, places,
       debounce, poller
<1>5. ASSUME NEW e \in flight, LoseEvent(e)
      PROVE  EventsInv'
  BY <1>5, FreshFrame, NotedFrame DEF LoseEvent, EventsInv, TypeOK, books, places, debounce, poller,
     cycles, history
<1> QED
  BY <1>1, <1>2, <1>3, <1>4, <1>5 DEF Listener

LEMMA DebouncerType ==
  ASSUME EventsInv, Debouncer
  PROVE  EventsInv'
<1>1. CASE CheckPuts
  <2>1. PICK B \in SUBSET {b \in Books : puts[b] # None /\ ~puts[b].synced /\ puts[b].age >= Debounce} :
          /\ putDue' = B
          /\ puts' = [b \in Books |-> IF b \in B THEN [puts[b] EXCEPT !.synced = TRUE] ELSE puts[b]]
          /\ owed' = owed \ B
    BY <1>1 DEF CheckPuts
  <2>2. puts' \in [Books -> Entry \cup {None}]
    <3>1. \A b \in B : puts[b] \in Entry
      BY <2>1 DEF EventsInv, TypeOK
    <3>2. \A b \in B : [puts[b] EXCEPT !.synced = TRUE] \in Entry
      BY <3>1 DEF Entry
    <3> QED
      BY <2>1, <3>2 DEF EventsInv, TypeOK
  <2>3. TypeOK'
    BY <1>1, <2>1, <2>2 DEF CheckPuts, EventsInv, TypeOK, Loops, books, places, socket, poller, cycles
  <2>4. FreshEvents'
    BY <1>1 DEF CheckPuts, EventsInv, FreshEvents, socket
  <2> QED
    BY <1>1, <2>3, <2>4, NotedFrame DEF CheckPuts, EventsInv, cycles
<1>2. CASE PutLoopFails
  BY <1>2, FreshFrame, NotedFrame DEF PutLoopFails, EventsInv, TypeOK, books, places, socket, poller, cycles, history
<1>3. CASE \E b \in putDue : TriggerSync(b)
  BY <1>3, FreshFrame, NotedFrame DEF TriggerSync, EventsInv, TypeOK, books, places, socket, poller, history
<1> QED
  BY <1>1, <1>2, <1>3 DEF Debouncer

LEMMA PollerType ==
  ASSUME EventsInv, Poller
  PROVE  EventsInv'
<1>1. CASE PollJudge
  <2>1. seen \in Seen
    BY <1>1 DEF PollJudge, EventsInv, TypeOK
  <2>2. /\ known' = [known EXCEPT ![seen.book][seen.client] = seen.place]
        /\ triggered' \in {triggered, triggered \cup {seen.book}}
        /\ echoes' \in {echoes, echoes \cup {seen.client}}
        /\ seen' = None
        /\ UNCHANGED <<books, places, wrote, socket, checked, debounce, job, reads, heard, owed, moved>>
    BY <1>1 DEF PollJudge
  <2> QED
    BY <2>1, <2>2, FreshFrame, NotedFrame DEF EventsInv, TypeOK, Seen, Sources, books, places, socket, debounce
<1>2. CASE \E b \in Books, c \in Polled : PollFetch(b, c)
  <2>1. PICK b \in Books, c \in Polled : PollFetch(b, c)
    BY <1>2
  <2>2. ext[b][c] \in Places /\ (<<b, c>> \in moved) \in BOOLEAN
    BY DEF EventsInv, TypeOK, Clients
  <2>3. seen' \in Seen
    BY <2>1, <2>2, Zenon DEF PollFetch, Seen
  <2> QED
    BY <2>1, <2>3, FreshFrame, NotedFrame DEF PollFetch, EventsInv, TypeOK, books, places, socket,
       debounce, cycles
<1> QED
  BY <1>1, <1>2 DEF Poller

LEMMA RecordType ==
  ASSUME NEW b \in Books, NEW c \in Sources, NEW p \in Places \cup {None},
         wrote \in [Books -> [Sources -> Write \cup {None}]]
  PROVE  RecordWrite(b, c, p) \in [Books -> [Sources -> Write \cup {None}]]
<1>1. [age |-> 0, place |-> p] \in Write
  BY EventsAssumption DEF Write
<1>2. \A w \in Write : [wrote EXCEPT ![b][c] = w] \in [Books -> [Sources -> Write \cup {None}]]
  OBVIOUS
<1> QED
  BY <1>1, <1>2 DEF RecordWrite

LEMMA CycleType ==
  ASSUME EventsInv, Cycle
  PROVE  EventsInv'
<1> USE DEF EventsInv
<1>1. ASSUME NEW b \in Books, NEW c \in Clients, CycleStart(b, c)
      PROVE  EventsInv'
  <2>1. ext[b][c] \in Places
    BY DEF TypeOK
  <2>2. job' \in Job
    BY <1>1, <2>1 DEF CycleStart, Job
  <2>3. TypeOK'
    BY <1>1, <2>2 DEF CycleStart, TypeOK, books, places, socket, debounce, poller, history
  <2> QED
    BY <1>1, <2>3, FreshFrame DEF CycleStart, socket, NotedRecently
<1>2. ASSUME NEW b \in triggered, CycleIdle(b)
      PROVE  EventsInv'
  BY <1>2, FreshFrame, NotedFrame DEF CycleIdle, TypeOK, books, places, socket, debounce, poller, history
<1>3. CASE NoteBefore
  <2>1. job \in Job /\ job.book \in Books /\ Abs \in Clients /\ Abs \in Sources
    BY <1>3 DEF NoteBefore, TypeOK, Job, Clients, Sources
  <2>2. wrote' \in [Books -> [Sources -> Write \cup {None}]]
    BY <1>3, <2>1, RecordType DEF NoteBefore, TypeOK
  <2>3. job' \in Job
    BY <1>3, <2>1 DEF NoteBefore, Job
  <2>4. TypeOK'
    BY <1>3, <2>2, <2>3 DEF NoteBefore, TypeOK, books, places, socket, debounce, poller, history
  <2>5. NotedRecently'
    BY <1>3, <2>1, EventsAssumption DEF NoteBefore, NotedRecently, SinceNote, RecordWrite, TypeOK, Job
  <2> QED
    BY <1>3, <2>4, <2>5, FreshFrame DEF NoteBefore, socket
<1>4. ASSUME NEW c \in Clients, Push(c)
      PROVE  EventsInv'
  <2>1. job \in Job /\ job.book \in Books /\ job.place \in Places /\ Abs \in Sources
    BY <1>4 DEF Push, TypeOK, Job, Sources
  <2>2. job' \in Job
    <3>1. \A D \in SUBSET Clients : [job EXCEPT !.left = @ \ {c}, !.done = D] \in Job
      BY <2>1 DEF Job
    <3>2. job.done \in SUBSET Clients /\ job.done \cup {c} \in SUBSET Clients
      BY <2>1 DEF Job
    <3>3. \E D \in {job.done, job.done \cup {c}} : job' = [job EXCEPT !.left = @ \ {c}, !.done = D]
      BY <1>4 DEF Push
    <3> QED
      BY <3>1, <3>2, <3>3
  <2>3. ext' \in [Books -> [Clients -> Places]]
    <3>1. [ext EXCEPT ![job.book][c] = job.place] \in [Books -> [Clients -> Places]]
      BY <2>1 DEF TypeOK
    <3>2. ext' \in {ext, [ext EXCEPT ![job.book][c] = job.place]}
      BY <1>4 DEF Push
    <3> QED
      BY <3>1, <3>2 DEF TypeOK
  <2>4. flight' \subseteq Event
    <3>1. CASE c # Abs
      BY <1>4, <3>1 DEF Push, TypeOK
    <3>2. CASE c = Abs
      <4>1. SinceNote(job.book) <= Latency
        BY <1>4, <3>2 DEF Push, NotedRecently
      <4>3. SinceNote(job.book) \in Nat
        BY <2>1, EventsAssumption DEF SinceNote, TypeOK, Write
      <4>2. [book |-> job.book, age |-> SinceNote(job.book), place |-> job.place,
             reader |-> FALSE] \in Event
        BY <2>1, <4>1, <4>3, EventsAssumption DEF Event
      <4> QED
        BY <1>4, <3>2, <4>2 DEF Push, TypeOK
    <3> QED
      BY <3>1, <3>2
  <2>5. TypeOK'
    BY <1>4, <2>2, <2>3, <2>4 DEF Push, TypeOK, books, debounce, poller, history
  <2>6. NotedRecently'
    BY <1>4, <2>1, EventsAssumption DEF Push, NotedRecently, SinceNote, Job
  <2> QED
    BY <1>4, <2>5, <2>6, FreshFrame DEF Push
<1>5. ASSUME NEW c \in Clients, Note(c)
      PROVE  EventsInv'
  <2>1. job \in Job /\ job.book \in Books /\ c \in Sources
    BY <1>5 DEF Note, TypeOK, Job, Sources
  <2>2. wrote' \in [Books -> [Sources -> Write \cup {None}]]
    BY <1>5, <2>1, RecordType DEF Note, TypeOK
  <2>3. job' \in Job
    BY <1>5, <2>1 DEF Note, Job
  <2>4. TypeOK'
    BY <1>5, <2>2, <2>3 DEF Note, TypeOK, books, places, socket, debounce, poller, history
  <2>5. NotedRecently'
    <3>1. c # Abs
      BY <1>5, EventsAssumption DEF Note
    <3>2. wrote'[job.book][Abs] = wrote[job.book][Abs]
      BY <1>5, <2>1, <3>1 DEF Note, RecordWrite, TypeOK
    <3>3. /\ job'.book = job.book /\ job'.left = job.left
          /\ Abs \in job'.noted => Abs \in job.noted
      BY <1>5, <2>1, <3>1 DEF Note, Job
    <3> QED
      BY <1>5, <3>2, <3>3 DEF Note, NotedRecently, SinceNote
  <2> QED
    BY <1>5, <2>4, <2>5, FreshFrame DEF Note, socket
<1>6. CASE CycleEnd
  <2>1. job \in Job /\ job.book \in Books /\ job.place \in Places
    BY <1>6 DEF CycleEnd, TypeOK, Job
  <2>2. rec' \in [Books -> [Clients -> Places]]
    BY <1>6, <2>1 DEF CycleEnd, TypeOK
  <2>3. [age |-> 0, place |-> job.place] \in Write
    BY <2>1, EventsAssumption DEF Write
  <2>4. wrote' \in [Books -> [Sources -> Write \cup {None}]]
    BY <1>6, <2>1, <2>3 DEF CycleEnd, TypeOK
  <2>5. TypeOK'
    BY <1>6, <2>2, <2>4 DEF CycleEnd, TypeOK, books, socket, debounce, poller, history
  <2> QED
    BY <1>6, <2>5, FreshFrame DEF CycleEnd, socket, NotedRecently
<1> QED
  BY <1>1, <1>2, <1>3, <1>4, <1>5, <1>6 DEF Cycle

LEMMA TickType ==
  ASSUME EventsInv, Tick
  PROVE  EventsInv'
<1>1. flight' \subseteq Event
  <2>1. ASSUME NEW e \in flight
        PROVE  [e EXCEPT !.age = @ + 1] \in Event
    <3>1. e \in Event /\ e.age < Latency
      BY <2>1 DEF Tick, EventsInv, TypeOK
    <3>2. e.age + 1 \in 0 .. Latency
      BY <3>1, EventsAssumption DEF Event
    <3> QED
      BY <3>1, <3>2 DEF Event
  <2> QED
    BY <2>1 DEF Tick
<1>2. pending' \in [Books -> Ages \cup {None}]
  <2>1. ASSUME NEW b \in Books, pending[b] # None
        PROVE  pending[b] + 1 \in Ages
    BY <2>1, EventsAssumption DEF Tick, EventsInv, TypeOK, FreshEvents, Loops, Ages
  <2> QED
    BY <2>1 DEF Tick
<1>3. wrote' \in [Books -> [Sources -> Write \cup {None}]]
  <2>1. ASSUME NEW w \in Write, w.age # Window
        PROVE  [w EXCEPT !.age = @ + 1] \in Write
    BY <2>1, EventsAssumption DEF Write
  <2>2. ASSUME NEW b \in Books, NEW c \in Sources
        PROVE  wrote[b][c] \in Write \cup {None}
    BY <2>2 DEF EventsInv, TypeOK
  <2> QED
    BY <2>1, <2>2 DEF Tick
<1>4. puts' \in [Books -> Entry \cup {None}]
  <2>1. ASSUME NEW e \in Entry, e.age # Stale
        PROVE  [e EXCEPT !.age = @ + 1] \in Entry
    BY <2>1, EventsAssumption DEF Entry
  <2>2. ASSUME NEW b \in Books
        PROVE  puts[b] \in Entry \cup {None}
    BY <2>2 DEF EventsInv, TypeOK
  <2> QED
    BY <2>1, <2>2 DEF Tick
<1>5. TypeOK'
  BY <1>1, <1>2, <1>3, <1>4 DEF Tick, EventsInv, TypeOK, books, places, poller, cycles, history
<1>6. FreshEvents'
  BY DEF Tick, EventsInv, FreshEvents
<1>7. NotedRecently'
  <2>1. SUFFICES ASSUME job # None, Abs \in job.left \cap job.noted
                 PROVE  SinceNote(job.book)' <= Latency
    BY DEF Tick, NotedRecently, cycles, SinceNote
  <2>2. SinceNote(job.book) < Latency /\ job.book \in Books /\ Abs \in Sources
    BY <2>1 DEF Tick, EventsInv, TypeOK, Job, Sources
  <2>3. wrote[job.book][Abs] \in Write \cup {None}
    BY <2>2 DEF EventsInv, TypeOK
  <2>4. wrote'[job.book][Abs] \in {None, [wrote[job.book][Abs] EXCEPT !.age = @ + 1]}
    BY <2>2 DEF Tick
  <2>5. CASE wrote[job.book][Abs] = None \/ wrote'[job.book][Abs] = None
    BY <2>2, <2>5, EventsAssumption DEF Tick, SinceNote, cycles
  <2>6. CASE wrote[job.book][Abs] # None /\ wrote'[job.book][Abs] # None
    BY <2>2, <2>3, <2>4, <2>6, EventsAssumption DEF Tick, SinceNote, cycles, Write
  <2> QED
    BY <2>5, <2>6
<1> QED
  BY <1>5, <1>6, <1>7 DEF EventsInv

LEMMA TypeStep == EventsInv /\ [Next]_vars => EventsInv'
<1> SUFFICES ASSUME EventsInv, [Next]_vars
             PROVE  EventsInv'
  OBVIOUS
<1>1. CASE UNCHANGED vars
  BY <1>1, FreshFrame, NotedFrame DEF vars, EventsInv, TypeOK, books, places, socket, debounce, poller,
     cycles, history
<1> QED
  BY <1>1, ReadersType, ListenerType, DebouncerType, PollerType, CycleType, TickType DEF Next

\* Every behaviour stays within the types; in particular no event is pending
\* for longer than the debounce window and one round of its loop
\* (_check_and_fire).
THEOREM TypeCorrect == Spec => []TypeOK
<1>1. EventsInv => TypeOK
  BY DEF EventsInv
<1> QED
  BY <1>1, EventsInit, TypeStep, PTL DEF Spec

(***************************************************************************)
(* No event is lost.                                                       *)
(***************************************************************************)

\* A reader's event that came in is pending; FreshEvents says that it is not
\* marked as fired either.
HeardPending == \A b \in heard : pending[b] # None

LEMMA HeardStep ==
  ASSUME EventsInv, HeardPending, [Next]_vars
  PROVE  HeardPending'
<1> USE DEF EventsInv, HeardPending
<1>1. CASE \E e \in flight : HandleProgressEvent(e)
  <2>1. PICK e \in flight : HandleProgressEvent(e)
    BY <1>1
  <2>2. e.book \in Books /\ 0 # None
    BY <2>1, EventsAssumption DEF TypeOK, Event
  <2>3. CASE UNCHANGED <<pending, heard>>
    BY <2>3
  <2>4. CASE pending' = [pending EXCEPT ![e.book] = 0] /\ heard' \subseteq heard \cup {e.book}
    BY <2>2, <2>4 DEF TypeOK
  <2> QED
    BY <2>1, <2>3, <2>4 DEF HandleProgressEvent
<1>2. CASE CheckAndFire
  <2>1. PICK B \in SUBSET Books :
          /\ heard' = heard \ B
          /\ pending' = [b \in Books |-> IF b \in B THEN None ELSE pending[b]]
    BY <1>2 DEF CheckAndFire
  <2> QED
    BY <2>1 DEF TypeOK
<1>3. CASE Tick
  <2>1. \A b \in Books : pending[b] # None => pending[b] + 1 # None
    BY EventsAssumption DEF TypeOK, Ages
  <2>2. heard' = heard /\ heard \subseteq Books
    BY <1>3 DEF Tick, history, TypeOK
  <2> QED
    BY <1>3, <2>1, <2>2 DEF Tick
<1>4. CASE UNCHANGED <<pending, heard>>
  BY <1>4
<1>5. Next => \/ UNCHANGED <<pending, heard>> \/ Tick \/ CheckAndFire
              \/ \E e \in flight : HandleProgressEvent(e)
  BY DEF Next, Readers, ReaderListens, ReaderMoves, KosyncPut, Listener, LoseEvent, SocketLoopFails, SocketFire,
     Debouncer, CheckPuts, PutLoopFails, TriggerSync, Poller, PollJudge, PollFetch, Cycle, CycleStart,
     CycleIdle, NoteBefore, CycleEnd, Push, Note, socket, history
<1> QED
  BY <1>1, <1>2, <1>3, <1>4, <1>5 DEF vars, socket, history

\* A reader's event stays pending until a round of the debounce loop takes
\* it, also when it comes in between the moment a round takes an earlier
\* event of the book and the moment it fires (_check_and_fire).
THEOREM NoEventLostCorrect == Spec => []NoEventLost
<1>1. Init => HeardPending
  BY DEF Init, HeardPending
<1>2. EventsInv /\ HeardPending /\ [Next]_vars => HeardPending'
  BY HeardStep
<1>3. EventsInv /\ HeardPending => NoEventLost
  BY DEF EventsInv, HeardPending, FreshEvents, NoEventLost, TypeOK
<1> QED
  BY <1>1, <1>2, <1>3, EventsInit, TypeStep, PTL DEF Spec

(***************************************************************************)
(* No PUT is lost.                                                         *)
(***************************************************************************)

\* Once the loop has run since the last tick, an entry that still waits is
\* not older than the debounce window, so that it is answered before a tick
\* can purge it.
FreshPuts ==
    \A b \in Books : puts[b] # None /\ ~puts[b].synced /\ "puts" \in checked => puts[b].age <= Debounce

PutsInv == FreshPuts /\ NoPutLost

LEMMA PutsStep ==
  ASSUME DebounceBelowStale, EventsInv, PutsInv, [Next]_vars
  PROVE  PutsInv'
<1> USE DEF EventsInv, PutsInv
<1>1. ASSUME NEW b \in Books, NEW p \in Places, KosyncPut(b, p)
      PROVE  PutsInv'
  <2> DEFINE fresh == [age |-> 0, synced |-> FALSE]
  <2>1. fresh \in Entry /\ 0 <= Debounce
    BY EventsAssumption DEF Entry
  <2>2. fresh # None /\ ~fresh.synced /\ fresh.age = 0
    BY <2>1, NotNone
  <2>3. checked' = checked
    BY <1>1 DEF KosyncPut
  <2>4. CASE UNCHANGED <<puts, owed>>
    BY <2>3, <2>4 DEF FreshPuts, NoPutLost
  <2>5. CASE puts' = [puts EXCEPT ![b] = fresh] /\ owed' = owed \cup {b}
    <3> HIDE DEF fresh
    <3>1. puts'[b] = fresh /\ \A d \in Books \ {b} : puts'[d] = puts[d]
      BY <2>5 DEF TypeOK
    <3>2. FreshPuts'
      BY <2>1, <2>2, <2>3, <3>1 DEF FreshPuts
    <3>3. NoPutLost'
      BY <2>2, <2>5, <3>1 DEF NoPutLost, TypeOK
    <3> QED
      BY <3>2, <3>3
  <2> QED
    BY <1>1, <2>4, <2>5 DEF KosyncPut
<1>2. CASE CheckPuts
  <2>1. PICK B \in SUBSET {b \in Books : puts[b] # None /\ ~puts[b].synced /\ puts[b].age >= Debounce} :
          /\ \A b \in Books : puts[b] # None /\ ~puts[b].synced /\ puts[b].age > Debounce => b \in B
          /\ puts' = [b \in Books |-> IF b \in B THEN [puts[b] EXCEPT !.synced = TRUE] ELSE puts[b]]
          /\ owed' = owed \ B
    BY <1>2 DEF CheckPuts
  <2>2. \A b \in B : puts[b] \in Entry
    BY <2>1 DEF TypeOK
  <2>3. \A b \in B : puts'[b].synced
    BY <2>1, <2>2 DEF Entry
  <2>4. \A b \in Books \ B : puts'[b] = puts[b]
    BY <2>1
  <2>5. FreshPuts'
    <3>1. SUFFICES ASSUME NEW b \in Books, puts'[b] # None, ~puts'[b].synced
                   PROVE  puts'[b].age <= Debounce
      BY DEF FreshPuts
    <3>2. b \notin B /\ puts'[b] = puts[b] /\ puts[b] \in Entry
      BY <2>3, <2>4, <3>1 DEF TypeOK
    <3> QED
      BY <2>1, <3>1, <3>2, EventsAssumption DEF Entry
  <2>6. NoPutLost'
    BY <2>1, <2>4 DEF NoPutLost, TypeOK
  <2> QED
    BY <2>5, <2>6
<1>3. CASE Tick
  <2>1. "puts" \in checked /\ checked' = {} /\ owed' = owed /\ owed \subseteq Books
    BY <1>3 DEF Tick, Loops, history, TypeOK
  <2>2. ASSUME NEW b \in owed
        PROVE  puts'[b] # None /\ ~puts'[b].synced
    <3>1. b \in Books /\ puts[b] \in Entry /\ ~puts[b].synced /\ puts[b].age <= Debounce
      BY <2>1 DEF FreshPuts, NoPutLost, TypeOK
    <3>2. puts[b].age # Stale /\ puts[b] # None
      BY <3>1, EventsAssumption DEF DebounceBelowStale, Entry, NoPutLost
    <3>3. puts'[b] = [puts[b] EXCEPT !.age = @ + 1]
      BY <1>3, <3>1, <3>2 DEF Tick
    <3>4. puts[b].age + 1 \in 0 .. Stale
      BY <3>1, <3>2, EventsAssumption DEF Entry
    <3>5. puts'[b] \in Entry /\ ~puts'[b].synced
      BY <3>1, <3>3, <3>4 DEF Entry
    <3> QED
      BY <3>5, NotNone
  <2> QED
    BY <2>1, <2>2 DEF FreshPuts, NoPutLost
<1>4. CASE UNCHANGED puts /\ UNCHANGED owed /\ ("puts" \in checked' => "puts" \in checked)
  BY <1>4 DEF FreshPuts, NoPutLost
<1>5. Next => \/ UNCHANGED puts /\ UNCHANGED owed /\ ("puts" \in checked' => "puts" \in checked)
              \/ Tick \/ CheckPuts \/ \E b \in Books, p \in Places : KosyncPut(b, p)
  BY DEF Next, Readers, ReaderListens, ReaderMoves, Listener, LoseEvent, HandleProgressEvent, CheckAndFire,
     SocketLoopFails, SocketFire, Debouncer, PutLoopFails, TriggerSync, Poller, PollJudge, PollFetch,
     Cycle, CycleStart, CycleIdle, NoteBefore, CycleEnd, Push, Note, debounce, history
<1> QED
  BY <1>1, <1>2, <1>3, <1>4, <1>5 DEF vars, debounce, history

\* Provided that the debounce window is shorter than the time after which an
\* entry is purged, a device's PUT is not forgotten before a round of the
\* debounce manager takes it (record_event, _poll_loop).
THEOREM NoPutLostCorrect ==
  ASSUME DebounceBelowStale
  PROVE  Spec => []NoPutLost
<1>1. Init => PutsInv
  BY DEF Init, PutsInv, FreshPuts, NoPutLost
<1>2. EventsInv /\ PutsInv /\ [Next]_vars => PutsInv'
  BY DebounceBelowStale, PutsStep
<1>3. PutsInv => NoPutLost
  BY DEF PutsInv
<1> QED
  BY <1>1, <1>2, <1>3, EventsInit, TypeStep, PTL DEF Spec

(***************************************************************************)
(* No echo of an own write starts a cycle.                                 *)
(***************************************************************************)

\* The write tracker remembers a write of the book to ABS, of at most k ticks ago.
Remembered(b, k) == wrote[b][Abs] # None /\ wrote[b][Abs].age <= k

EchoesInFlight == \A e \in flight : ~e.reader => Remembered(e.book, e.age)

EchoesPending ==
    \A b \in Books : pending[b] # None /\ b \notin heard => Remembered(b, Latency + pending[b])

EchoesDue == \A d \in due : ~d.heard => Remembered(d.book, Latency + Debounce + 1)

EchoesToCome ==
    job # None /\ Abs \in job.left \cap job.noted => Remembered(job.book, Latency)

\* On its way from the note of the write to the check of the listener, an
\* event that no reader caused is always younger than the window: by Latency
\* until it arrives, by Debounce while it rests, and by one round.
EchoInv == EchoesInFlight /\ EchoesPending /\ EchoesDue /\ EchoesToCome /\ NoSocketEcho

\* Time apart, no step makes the tracker forget a write to ABS or makes the
\* write older.
LEMMA RememberedKept ==
  ASSUME EventsInv, [Next]_vars, ~Tick, NEW b \in Books, NEW k \in Nat, Remembered(b, k)
  PROVE  Remembered(b, k)'
<1>1. Abs \in Sources /\ wrote \in [Books -> [Sources -> Write \cup {None}]]
  BY DEF EventsInv, TypeOK, Sources
<1>2. CASE UNCHANGED wrote
  BY <1>2 DEF Remembered
<1>3. CASE NoteBefore
  <2>1. wrote' = [wrote EXCEPT ![job.book][Abs] = [age |-> 0, place |-> None]]
    BY <1>3 DEF NoteBefore, RecordWrite
  <2>2. [age |-> 0, place |-> None] \in Write
    BY EventsAssumption DEF Write
  <2>3. [age |-> 0, place |-> None] # None
    BY <2>2, NotNone
  <2> QED
    BY <1>1, <2>1, <2>3 DEF Remembered
<1>4. ASSUME NEW c \in Clients, Note(c)
      PROVE  Remembered(b, k)'
  <2>1. c # Abs
    BY <1>4, EventsAssumption DEF Note
  <2>2. wrote'[b][Abs] = wrote[b][Abs]
    BY <1>1, <1>4, <2>1 DEF Note, RecordWrite
  <2> QED
    BY <2>2 DEF Remembered
<1>5. CASE CycleEnd
  <2>1. Abs \notin Polled
    BY EventsAssumption
  <2>2. wrote'[b][Abs] = wrote[b][Abs]
    BY <1>1, <1>5, <2>1 DEF CycleEnd
  <2> QED
    BY <2>2 DEF Remembered
<1>6. Next => \/ UNCHANGED wrote \/ NoteBefore \/ CycleEnd \/ \E c \in Clients : Note(c)
  BY DEF Next, Readers, ReaderListens, ReaderMoves, KosyncPut, Listener, LoseEvent, HandleProgressEvent,
     CheckAndFire, SocketLoopFails, SocketFire, Debouncer, CheckPuts, PutLoopFails, TriggerSync,
     Poller, PollJudge, PollFetch, Cycle, CycleStart, CycleIdle, Push
<1> QED
  BY <1>2, <1>3, <1>4, <1>5, <1>6 DEF vars

\* A tick makes it one tick older, unless it is at the end of the window.
LEMMA RememberedAges ==
  ASSUME EventsInv, Tick, NEW b \in Books, NEW k \in Nat, k < Window, Remembered(b, k)
  PROVE  Remembered(b, k + 1)'
<1>1. Abs \in Sources /\ wrote[b][Abs] \in Write
  BY DEF EventsInv, TypeOK, Sources, Remembered
<1>2. wrote[b][Abs].age \in Nat /\ wrote[b][Abs].age <= k /\ wrote[b][Abs].age # Window
  BY <1>1, EventsAssumption DEF Remembered, Write
<1>3. wrote'[b][Abs] = [wrote[b][Abs] EXCEPT !.age = @ + 1]
  BY <1>1, <1>2 DEF Tick, Remembered
<1>4. wrote[b][Abs].age + 1 \in 0 .. Window
  BY <1>1, <1>2, EventsAssumption DEF Write
<1>5. wrote'[b][Abs] \in Write /\ wrote'[b][Abs].age = wrote[b][Abs].age + 1
  BY <1>1, <1>3, <1>4 DEF Write
<1> QED
  BY <1>2, <1>5, NotNone DEF Remembered

LEMMA EchoTick ==
  ASSUME WindowCoversDebounce, EventsInv, EchoInv, Tick
  PROVE  EchoInv'
<1> USE DEF EventsInv
<1>1. EchoesInFlight'
  <2>1. SUFFICES ASSUME NEW f \in flight', ~f.reader
                 PROVE  Remembered(f.book, f.age)'
    BY DEF EchoesInFlight
  <2>2. PICK e \in flight : f = [e EXCEPT !.age = @ + 1]
    BY <2>1 DEF Tick
  <2>3. e \in Event /\ e.age < Latency
    BY <2>2 DEF Tick, TypeOK
  <2>4. e.book \in Books /\ e.age \in Nat /\ e.age < Window
    BY <2>3, EventsAssumption DEF Event, WindowCoversDebounce
  <2>5. f.book = e.book /\ f.age = e.age + 1 /\ ~e.reader
    BY <2>1, <2>2, <2>3 DEF Event
  <2>6. Remembered(e.book, e.age)
    BY <2>2, <2>5 DEF EchoInv, EchoesInFlight
  <2> QED
    BY <2>4, <2>5, <2>6, RememberedAges
<1>2. EchoesPending'
  <2>1. SUFFICES ASSUME NEW b \in Books, pending'[b] # None, b \notin heard'
                 PROVE  /\ wrote'[b][Abs] # None
                        /\ wrote'[b][Abs].age <= Latency + pending'[b]
    BY DEF EchoesPending, Remembered
  <2>2. pending[b] # None /\ pending'[b] = pending[b] + 1 /\ b \notin heard
    BY <2>1 DEF Tick, history
  <2>3. pending[b] \in Nat /\ pending[b] <= Debounce
    BY <2>2, EventsAssumption DEF Tick, TypeOK, FreshEvents, Loops, Ages
  <2>4. PICK k \in Nat : k = Latency + pending[b]
    BY <2>3, EventsAssumption
  <2>5. k < Window
    BY <2>3, <2>4, EventsAssumption DEF WindowCoversDebounce
  <2>6. Remembered(b, k)
    BY <2>2, <2>4 DEF EchoInv, EchoesPending
  <2>7. Remembered(b, k + 1)'
    BY <2>5, <2>6, RememberedAges
  <2>8. k + 1 = Latency + pending'[b]
    BY <2>2, <2>3, <2>4, EventsAssumption
  <2> QED
    BY <2>7, <2>8 DEF Remembered
<1>3. EchoesDue'
  BY DEF Tick, EchoesDue
<1>4. EchoesToCome'
  <2>1. SUFFICES ASSUME job # None, Abs \in job.left \cap job.noted
                 PROVE  Remembered(job.book, Latency)'
    BY DEF EchoesToCome, Tick, cycles
  <2>2. job.book \in Books /\ Abs \in Sources /\ SinceNote(job.book) < Latency
    BY <2>1 DEF Tick, TypeOK, Job, Sources
  <2>3. wrote[job.book][Abs] # None /\ wrote[job.book][Abs] \in Write
    BY <2>1, <2>2 DEF EchoInv, EchoesToCome, Remembered, TypeOK
  <2>4. Latency - 1 \in Nat /\ Latency - 1 < Window /\ Remembered(job.book, Latency - 1)
    BY <2>2, <2>3, EventsAssumption DEF SinceNote, Remembered, Write, WindowCoversDebounce
  <2>5. Remembered(job.book, (Latency - 1) + 1)'
    <3>1. ASSUME NEW b \in Books, Remembered(b, Latency - 1)
          PROVE  Remembered(b, (Latency - 1) + 1)'
      BY <2>4, <3>1, RememberedAges
    <3>2. PICK b \in Books : b = job.book /\ b = job'.book
      BY <2>2 DEF Tick, cycles
    <3> QED
      BY <2>4, <3>1, <3>2 DEF Remembered
  <2> QED
    BY <2>5, EventsAssumption DEF Remembered
<1> QED
  BY <1>1, <1>2, <1>3, <1>4 DEF EchoInv, NoSocketEcho, Tick, history

\* Only readers and the cycles cause events.
LEMMA NewEvents ==
  ASSUME [Next]_vars, ~Tick, NEW f \in flight', ~f.reader, f \notin flight
  PROVE  \E c \in Clients : Push(c)
<1>1. ASSUME NEW b \in Books, NEW p \in Places, ReaderListens(b, p)
      PROVE  FALSE
  BY <1>1 DEF ReaderListens
<1>2. ~\E e \in flight : HandleProgressEvent(e)
  BY DEF HandleProgressEvent
<1>3. flight' # flight
  OBVIOUS
<1> QED
  BY <1>1, <1>2, <1>3 DEF Next, vars, socket, Readers, ReaderMoves, KosyncPut, Listener, LoseEvent,
     CheckAndFire, SocketLoopFails, SocketFire, Debouncer, CheckPuts, PutLoopFails, TriggerSync, Poller,
     PollJudge, PollFetch, Cycle, CycleStart, CycleIdle, NoteBefore, CycleEnd, Note

LEMMA EchoStep ==
  ASSUME WindowCoversDebounce, EventsInv, EchoInv, [Next]_vars
  PROVE  EchoInv'
<1> SUFFICES ASSUME ~Tick
             PROVE  EchoInv'
  BY EchoTick
<1>1. EchoesInFlight'
  <2>1. SUFFICES ASSUME NEW f \in flight', ~f.reader
                 PROVE  Remembered(f.book, f.age)'
    BY DEF EchoesInFlight
  <2>2. CASE f \in flight
    <3>1. f.book \in Books /\ f.age \in Nat
      BY <2>2, EventsAssumption DEF EventsInv, TypeOK, Event
    <3> QED
      BY <2>1, <2>2, <3>1, RememberedKept DEF EchoInv, EchoesInFlight
  <2>3. CASE f \notin flight
    <3>1. PICK c \in Clients : Push(c)
      BY <2>1, <2>3, NewEvents
    <3>2. /\ c = Abs /\ job # None /\ Abs \in job.left \cap job.noted /\ wrote' = wrote
          /\ f.book = job.book /\ f.age = SinceNote(job.book)
      BY <2>3, <3>1 DEF Push
    <3>3. Remembered(job.book, Latency)
      BY <3>2 DEF EchoInv, EchoesToCome
    <3>4. job.book \in Books /\ wrote[job.book][Abs] \in Write
      BY <3>2, <3>3 DEF EventsInv, TypeOK, Job, Sources, Remembered
    <3> QED
      BY <3>2, <3>3, <3>4, EventsAssumption DEF Remembered, SinceNote, Write
  <2> QED
    BY <2>2, <2>3
<1>2. EchoesPending'
  <2>1. SUFFICES ASSUME NEW b \in Books, pending'[b] # None, b \notin heard'
                 PROVE  /\ wrote'[b][Abs] # None
                        /\ wrote'[b][Abs].age <= Latency + pending'[b]
    BY DEF EchoesPending, Remembered
  <2>2. CASE pending[b] # None /\ pending'[b] = pending[b] /\ b \notin heard
    <3>1. PICK k \in Nat : k = Latency + pending[b]
      BY <2>2, EventsAssumption DEF EventsInv, TypeOK, Ages
    <3>2. Remembered(b, k)
      BY <2>2, <3>1 DEF EchoInv, EchoesPending
    <3>3. Remembered(b, k)'
      BY <3>2, RememberedKept
    <3> QED
      BY <2>2, <3>1, <3>3 DEF Remembered
  <2>3. ASSUME NEW e \in flight, HandleProgressEvent(e), ~(pending'[b] = pending[b] /\ b \notin heard)
        PROVE  /\ wrote'[b][Abs] # None
               /\ wrote'[b][Abs].age <= Latency + pending'[b]
    <3>1. e.book = b /\ pending'[b] = 0 /\ ~e.reader
      BY <2>1, <2>3 DEF HandleProgressEvent, EventsInv, TypeOK
    <3>2. e.age \in Nat /\ e.age <= Latency
      BY <2>3, EventsAssumption DEF EventsInv, TypeOK, Event
    <3>3. Remembered(b, e.age)
      BY <2>3, <3>1 DEF EchoInv, EchoesInFlight
    <3>4. Remembered(b, e.age)'
      BY <3>2, <3>3, RememberedKept
    <3>5. wrote'[b][Abs] # None /\ wrote'[b][Abs].age <= e.age
      BY <3>4 DEF Remembered
    <3>6. wrote' = wrote /\ wrote[b][Abs] \in Write \cup {None}
      BY <2>3 DEF HandleProgressEvent, EventsInv, TypeOK, Sources, places
    <3>7. wrote[b][Abs].age \in Nat
      BY <3>5, <3>6, EventsAssumption DEF Write
    <3> QED
      BY <3>1, <3>2, <3>5, <3>6, <3>7, EventsAssumption
  <2>4. CASE CheckAndFire
    <3>1. PICK B \in SUBSET Books :
            /\ heard' = heard \ B
            /\ pending' = [x \in Books |-> IF x \in B THEN None ELSE pending[x]]
      BY <2>4 DEF CheckAndFire
    <3> QED
      BY <2>1, <2>2, <3>1
  <2>5. CASE UNCHANGED <<pending, heard>>
    BY <2>1, <2>2, <2>5
  <2>6. Next => \/ UNCHANGED <<pending, heard>> \/ CheckAndFire
                \/ \E e \in flight : HandleProgressEvent(e)
    BY DEF Next, Readers, ReaderListens, ReaderMoves, KosyncPut, Listener, LoseEvent, SocketLoopFails, SocketFire,
       Debouncer, CheckPuts, PutLoopFails, TriggerSync, Poller, PollJudge, PollFetch, Cycle, CycleStart,
       CycleIdle, NoteBefore, CycleEnd, Push, Note, socket, history
  <2>7. ASSUME NEW e \in flight, HandleProgressEvent(e), pending'[b] = pending[b], b \notin heard
        PROVE  /\ wrote'[b][Abs] # None
               /\ wrote'[b][Abs].age <= Latency + pending'[b]
    BY <2>1, <2>2, <2>7
  <2> QED
    BY <2>3, <2>4, <2>5, <2>6, <2>7 DEF vars, socket, history
<1>3. EchoesDue'
  <2>1. SUFFICES ASSUME NEW d \in due', ~d.heard
                 PROVE  Remembered(d.book, Latency + Debounce + 1)'
    BY DEF EchoesDue
  <2>2. Latency + Debounce + 1 \in Nat
    BY EventsAssumption
  <2>3. CASE d \in due
    BY <2>1, <2>2, <2>3, RememberedKept DEF EventsInv, TypeOK, Due, EchoInv, EchoesDue
  <2>4. CASE d \notin due
    <3>1. CheckAndFire
      BY <2>1, <2>4 DEF Next, vars, socket, Readers, ReaderListens, ReaderMoves, KosyncPut, Listener, LoseEvent,
         HandleProgressEvent, SocketLoopFails, SocketFire, Debouncer, CheckPuts,
         PutLoopFails, TriggerSync, Poller, PollJudge, PollFetch, Cycle, CycleStart, CycleIdle,
         NoteBefore, CycleEnd, Note, Push
    <3>2. PICK b \in Books : pending[b] # None /\ d = [book |-> b, heard |-> b \in heard]
      BY <2>1, <3>1 DEF CheckAndFire
    <3>3. b \notin heard /\ d.book = b
      BY <2>1, <3>2
    <3>4. Remembered(b, Latency + pending[b])
      BY <3>2, <3>3 DEF EchoInv, EchoesPending
    <3>5. pending[b] \in Nat /\ pending[b] <= Debounce + 1
      BY <3>2, EventsAssumption DEF EventsInv, TypeOK, Ages
    <3>6. wrote' = wrote /\ wrote[b][Abs] \in Write
      BY <3>1, <3>2, <3>4 DEF CheckAndFire, EventsInv, TypeOK, Sources, Remembered
    <3> QED
      BY <3>3, <3>4, <3>5, <3>6, EventsAssumption DEF Remembered, Write
  <2> QED
    BY <2>3, <2>4
<1>4. EchoesToCome'
  <2>1. SUFFICES ASSUME job' # None, Abs \in job'.left \cap job'.noted
                 PROVE  /\ wrote'[job'.book][Abs] # None
                        /\ wrote'[job'.book][Abs].age <= Latency
    BY DEF EchoesToCome, Remembered
  <2>2. CASE /\ job # None /\ job'.book = job.book
             /\ Abs \in job.left \cap job.noted
    <3>1. job.book \in Books /\ Latency \in Nat /\ Remembered(job.book, Latency)
      BY <2>2, EventsAssumption DEF EventsInv, TypeOK, Job, EchoInv, EchoesToCome
    <3>2. ASSUME NEW b \in Books, Remembered(b, Latency)
          PROVE  Remembered(b, Latency)'
      BY <3>1, <3>2, RememberedKept
    <3>3. wrote'[job.book][Abs] # None /\ wrote'[job.book][Abs].age <= Latency
      BY <3>1, <3>2 DEF Remembered
    <3> QED
      BY <2>2, <3>3
  <2>3. CASE NoteBefore
    <3>1. job \in Job /\ job.book \in Books /\ Abs \in Sources /\ job'.book = job.book
      BY <2>3 DEF NoteBefore, EventsInv, TypeOK, Job, Sources
    <3>2. wrote' = [wrote EXCEPT ![job.book][Abs] = [age |-> 0, place |-> None]]
      BY <2>3 DEF NoteBefore, RecordWrite
    <3>3. [age |-> 0, place |-> None] \in Write /\ 0 <= Latency
      BY EventsAssumption DEF Write
    <3>4. [age |-> 0, place |-> None] # None
      BY <3>3, NotNone
    <3>5. wrote'[job.book][Abs] = [age |-> 0, place |-> None]
      BY <3>1, <3>2 DEF EventsInv, TypeOK
    <3> QED
      BY <3>1, <3>3, <3>4, <3>5
  <2>4. CASE UNCHANGED job
    BY <2>1, <2>2, <2>4
  <2>5. ASSUME NEW c \in Clients, Push(c) \/ Note(c)
        PROVE  /\ wrote'[job'.book][Abs] # None
               /\ wrote'[job'.book][Abs].age <= Latency
    <3>1. job # None /\ job \in Job
      BY <2>5 DEF Push, Note, EventsInv, TypeOK
    <3>2. CASE Push(c)
      BY <2>1, <2>2, <3>1, <3>2 DEF Push, Job
    <3>3. CASE Note(c)
      <4>1. c # Abs
        BY <3>3, EventsAssumption DEF Note
      <4> QED
        BY <2>1, <2>2, <3>1, <3>3, <4>1 DEF Note, Job
    <3> QED
      BY <2>5, <3>2, <3>3
  <2>6. ASSUME NEW b \in Books, NEW c \in Clients, CycleStart(b, c)
        PROVE  FALSE
    BY <2>1, <2>6 DEF CycleStart
  <2>7. ~CycleEnd
    BY <2>1 DEF CycleEnd
  <2>8. Next => \/ UNCHANGED job \/ NoteBefore \/ CycleEnd
                \/ \E c \in Clients : Push(c) \/ Note(c)
                \/ \E b \in Books, c \in Clients : CycleStart(b, c)
    BY DEF Next, Readers, ReaderListens, ReaderMoves, KosyncPut, Listener, LoseEvent, HandleProgressEvent,
       CheckAndFire, SocketLoopFails, SocketFire, Debouncer, CheckPuts, PutLoopFails, TriggerSync,
       Poller, PollJudge, PollFetch, Cycle, CycleIdle, cycles
  <2> QED
    BY <2>3, <2>4, <2>5, <2>6, <2>7, <2>8 DEF vars, cycles
<1>5. NoSocketEcho'
  <2>1. ASSUME NEW d \in due, SocketFire(d), ~d.heard
        PROVE  echoes' = echoes
    <3>1. Remembered(d.book, Latency + Debounce + 1) /\ d.book \in Books /\ Abs \in Sources
      BY <2>1 DEF EchoInv, EchoesDue, EventsInv, TypeOK, Due, Sources
    <3>2. wrote[d.book][Abs] # None /\ wrote[d.book][Abs].age < Window
      <4>1. wrote[d.book][Abs] \in Write
        BY <3>1 DEF EventsInv, TypeOK, Remembered
      <4> QED
        BY <3>1, <4>1, EventsAssumption DEF Remembered, Write, WindowCoversDebounce
    <3>3. IsOwnWrite(d.book, Abs, None) = {TRUE}
      BY <3>2 DEF IsOwnWrite
    <3> QED
      BY <2>1, <3>3 DEF SocketFire
  <2>2. ASSUME NEW d \in due, SocketFire(d), d.heard
        PROVE  echoes' = echoes
    BY <2>2 DEF SocketFire
  <2>3. CASE PollJudge
    <3>1. seen \in Seen
      BY <2>3 DEF PollJudge, EventsInv, TypeOK
    <3>2. seen.client # Abs
      BY <3>1, EventsAssumption DEF Seen
    <3>3. echoes' \in {echoes, echoes \cup {seen.client}}
      BY <2>3 DEF PollJudge
    <3> QED
      BY <3>2, <3>3 DEF EchoInv, NoSocketEcho
  <2>4. Next => UNCHANGED echoes \/ PollJudge \/ \E d \in due : SocketFire(d)
    BY DEF Next, Readers, ReaderListens, ReaderMoves, KosyncPut, Listener, LoseEvent, HandleProgressEvent,
       CheckAndFire, SocketLoopFails, Debouncer, CheckPuts, PutLoopFails, TriggerSync,
       Poller, PollFetch, Cycle, CycleStart, CycleIdle, NoteBefore, CycleEnd, Push, Note, history
  <2> QED
    BY <2>1, <2>2, <2>3, <2>4 DEF vars, history, EchoInv, NoSocketEcho
<1> QED
  BY <1>1, <1>2, <1>3, <1>4, <1>5 DEF EchoInv

\* Provided that the suppression window covers the time a write to ABS takes
\* and its event rests, the listener never takes the echo of an own write
\* for a reader (_check_and_fire with is_own_write).
THEOREM NoSocketEchoCorrect ==
  ASSUME WindowCoversDebounce
  PROVE  Spec => []NoSocketEcho
<1>1. Init => EchoInv
  BY DEF Init, EchoInv, EchoesInFlight, EchoesPending, EchoesDue, EchoesToCome, NoSocketEcho
<1>2. EventsInv /\ EchoInv /\ [Next]_vars => EchoInv'
  BY WindowCoversDebounce, EchoStep
<1>3. EchoInv => NoSocketEcho
  BY DEF EchoInv
<1> QED
  BY <1>1, <1>2, <1>3, EventsInit, TypeStep, PTL DEF Spec
=============================================================================
