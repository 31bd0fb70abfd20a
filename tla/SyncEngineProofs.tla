-------------------------- MODULE SyncEngineProofs --------------------------
(***************************************************************************)
(* Proofs about SyncEngine, for any number of books, clients and threads.  *)
(***************************************************************************)
EXTENDS SyncEngine, FiniteSetTheorems, SequenceTheorems, WellFoundedInduction, TLAPS

(***************************************************************************)
(* Facts about the data of a decision.                                     *)
(***************************************************************************)

\* A percentage always has a place in the story (GoalOf's last case).
LEMMA PlaceAtType ==
  ASSUME NEW c, NEW pct
  PROVE  PlaceAt(c, pct) \in Pos
<1> DEFINE S == {p \in 1 .. Last : Pct[c][p] <= pct}
<1>1. IsFiniteSet(1 .. Last) /\ Cardinality(1 .. Last) = Last
  BY EngineAssumption, FS_Interval
<1>2. IsFiniteSet(S) /\ Cardinality(S) <= Last
  BY <1>1, FS_Subset
<1>3. Cardinality(S) \in Nat
  BY <1>2, FS_CardinalityType
<1> QED
  BY <1>2, <1>3, EngineAssumption DEF PlaceAt, Pos

\* Nothing but the start of the book is at 0 percent.
LEMMA PlaceAtStart ==
  ASSUME NEW c \in Clients
  PROVE  PlaceAt(c, 0) = 0
<1>1. ASSUME NEW p \in 1 .. Last
      PROVE  ~(Pct[c][p] <= 0)
  <2>1. p \in Pos /\ 0 \in Pos /\ 0 < p
    BY EngineAssumption DEF Pos
  <2>2. Pct[c][0] = 0 /\ Pct[c][0] < Pct[c][p]
    BY <2>1, EngineAssumption
  <2>3. Pct[c] \in [Pos -> 0 .. Unit]
    BY EngineAssumption
  <2>4. Pct[c][p] \in 0 .. Unit
    BY <2>1, <2>3
  <2>5. 0 < Pct[c][p]
    BY <2>2
  <2>6. Unit \in Int
    BY DEF Unit
  <2>7. Pct[c][p] \in Int
    BY <2>4, <2>6
  <2> QED
    BY <2>5, <2>7
<1>2. {p \in 1 .. Last : Pct[c][p] <= 0} = {}
  BY <1>1
<1> QED
  BY <1>2, FS_EmptySet DEF PlaceAt

\* The goal of a follower is a place or none.
LEMMA GoalOfType ==
  ASSUME NEW b, NEW c, NEW l, NEW p \in Pos, NEW located
  PROVE  GoalOf(b, c, l, p, located) \in MaybePos
BY PlaceAtType DEF GoalOf, MaybePos

\* A leader at the start of the book sends every follower to the start.
LEMMA GoalOfStart ==
  ASSUME NEW b, NEW c \in Clients, NEW l \in Clients, NEW located
  PROVE  GoalOf(b, c, l, 0, located) = 0
BY PlaceAtStart, EngineAssumption DEF GoalOf

\* The leader is one of the clients that answered.
LEMMA LeaderAnswered ==
  ASSUME NEW config, NEW eligible, NEW duration, NEW norm,
         NEW l \in Leaders(config, eligible, duration, norm)
  PROVE  l \in DOMAIN config
BY DEF Leaders, Candidates, ArgMax

(***************************************************************************)
(* Type correctness.  A thread that is past the choice of a book has one:  *)
(* without that, saving "its" book would not preserve the types.           *)
(***************************************************************************)
AtWork == {"await", "fetch", "push", "finish", "local", "status", "reset",
           "documents", "discard"}

HasBook == \A t \in Threads : pc[t] \in AtWork => book[t] \in Books

TypeInv == TypeOK /\ HasBook

\* What the clients of a book report are places.
LEMMA ViewsType ==
  ASSUME TypeOK, NEW t \in Threads, NEW b \in Books, NEW view \in Views(t, b)
  PROVE  /\ DOMAIN view \subseteq ActiveClients(b)
         /\ \A c \in DOMAIN view : view[c] \in Pos
<1> DEFINE fresh == {c \in ActiveClients(b) : bulk[t][b][c] = Absent}
<1>1. PICK F \in Failing(fresh) :
         view = [c \in ActiveClients(b) \ F |->
                   IF c \in fresh THEN Observed(b, c) ELSE bulk[t][b][c]]
  BY DEF Views
<1>2. ActiveClients(b) \subseteq Clients
  BY DEF ActiveClients
<1>3. \A c \in ActiveClients(b) : Observed(b, c) \in Pos
  BY <1>2 DEF TypeOK, Observed
<1>4. \A c \in ActiveClients(b) \ fresh : bulk[t][b][c] \in Pos
  BY <1>2 DEF TypeOK, MaybePos
<1> QED
  BY <1>1, <1>3, <1>4

\* Every initial state is well typed.
LEMMA TypeInit == Init => TypeInv
BY EngineAssumption
   DEF Init, TypeInv, TypeOK, HasBook, AtWork, Row, Statuses, Pos, MaybePos,
       Absent, Nowhere, NoBulk, NoSnap, Threads, PcLabels

\* Saving a well typed row keeps the rows and the documents well typed.
LEMMA SaveBookType ==
  ASSUME TypeOK, NEW b \in Books, NEW r \in Row, SaveBook(b, r)
  PROVE  row' \in [Books -> Row] /\ doc' \in SUBSET Books
BY DEF TypeOK, SaveBook

\* The changes the code makes to the columns of a Book row.
LEMMA RowChanges ==
  ASSUME NEW r \in Row
  PROVE  /\ \A s \in Statuses : [r EXCEPT !.status = s] \in Row
         /\ \A s \in Statuses, x \in BOOLEAN :
               [r EXCEPT !.status = s, !.started = x] \in Row
         /\ [r EXCEPT !.managed = TRUE] \in Row
         /\ [r EXCEPT !.started = FALSE] \in Row
BY DEF Row

\* Storing a place keeps the services and the library cache well typed.
LEMMA StoreType ==
  ASSUME TypeOK, NEW b \in Books, NEW S, NEW p \in Pos, Store(ext, cache, b, S, p)
  PROVE  ext' \in [Books -> [Clients -> Pos]] /\ cache' \in [Books -> Pos]
BY DEF TypeOK, Store

\* Resetting the clients keeps services, cache and history well typed.
LEMMA ResetType ==
  ASSUME TypeOK, NEW b \in Books, ResetClients(b)
  PROVE  /\ ext' \in [Books -> [Clients -> Pos]] /\ cache' \in [Books -> Pos]
         /\ owed' \in SUBSET Books /\ crossed' \in SUBSET Books
         /\ quiet' \in [Books -> SUBSET Clients]
         /\ UNCHANGED <<disk, scan>>
<1>1. PICK F : /\ Store(ext, cache, b, ActiveClients(b) \ F, 0)
               /\ quiet' = [quiet EXCEPT ![b] = ActiveClients(b) \ F]
  BY DEF ResetClients
<1>2. 0 \in Pos
  BY EngineAssumption DEF Pos
<1>3. ext' \in [Books -> [Clients -> Pos]] /\ cache' \in [Books -> Pos]
  BY <1>1, <1>2, StoreType
<1>4. quiet' \in [Books -> SUBSET Clients]
  BY <1>1 DEF TypeOK, ActiveClients
<1> QED
  BY <1>3, <1>4 DEF ResetClients, TypeOK

\* Finalising a clear keeps the rows and the documents well typed.
LEMMA FinalizeType ==
  ASSUME TypeOK, NEW b \in Books, FinalizeStatus(b)
  PROVE  row' \in [Books -> Row] /\ doc' \in SUBSET Books
<1>1. [row[b] EXCEPT !.status = "pending"] \in Row
  BY RowChanges DEF TypeOK, Statuses
<1> QED
  BY <1>1, SaveBookType DEF FinalizeStatus, TypeOK

\* The step that chooses the leader and the goals of the followers.
LEMMA FetchAndLeadType ==
  ASSUME TypeInv, NEW t \in Threads, FetchAndLead(t)
  PROVE  TypeInv'
<1> DEFINE b == book[t]
           Chosen(view, l, text) ==
              /\ result' = [result EXCEPT ![t] = [Nowhere EXCEPT ![l] = view[l]]]
              /\ goal' = [goal EXCEPT ![t] = [c \in Clients |->
                    IF text = "no text" \/ c = l \/ c \notin ActiveClients(b)
                    THEN Absent
                    ELSE GoalOf(b, c, l, view[l], text = "located")]]
<1>1. b \in Books
  BY DEF FetchAndLead, TypeInv, HasBook, AtWork
<1>2. PICK view \in Views(t, b) : \E norm \in Normalised(b, view) :
         \E l \in Leaders(Config(b, view), Leading, Duration, norm) :
         \E text \in TextOutcomes(b, l) : Chosen(view, l, text)
  BY DEF FetchAndLead
<1>3. PICK l, text : l \in DOMAIN Config(b, view) /\ Chosen(view, l, text)
  <2> HIDE DEF Chosen
  <2> QED
    BY <1>2, LeaderAnswered
<1>4. l \in DOMAIN view /\ view[l] \in Pos /\ l \in Clients
  BY <1>1, <1>2, <1>3, ViewsType DEF Config, ActiveClients, TypeInv
<1>5. goal' \in [Threads -> [Clients -> MaybePos]]
  BY <1>3, <1>4, GoalOfType DEF TypeInv, TypeOK, MaybePos
<1>6. result' \in [Threads -> [Clients -> MaybePos]]
  BY <1>3, <1>4 DEF TypeInv, TypeOK, MaybePos, Nowhere
<1>7. TypeOK'
  BY <1>5, <1>6 DEF FetchAndLead, TypeInv, TypeOK, Goto, PcLabels,
     db, remote, local, bounds, history
<1>8. HasBook'
  BY <1>1 DEF FetchAndLead, TypeInv, TypeOK, HasBook, AtWork, Goto,
     db, remote, local, bounds, history
<1> QED
  BY <1>7, <1>8 DEF TypeInv

\* The push to one follower, whether or not it arrives.
LEMMA PushType ==
  ASSUME TypeInv, NEW t \in Threads, NEW c \in Clients, Push(t, c)
  PROVE  TypeInv'
<1>1. book[t] \in Books
  BY DEF Push, TypeInv, HasBook, AtWork
<1>2. goal[t][c] \in Pos
  BY DEF Push, TypeInv, TypeOK, MaybePos
<1>3. ext' \in [Books -> [Clients -> Pos]] /\ cache' \in [Books -> Pos] /\ UNCHANGED <<disk, scan>>
  <2>1. CASE UNCHANGED remote
    BY <2>1 DEF TypeInv, TypeOK, remote
  <2>2. CASE Store(ext, cache, book[t], {c}, goal[t][c]) /\ UNCHANGED <<disk, scan>>
    BY <2>2, <1>1, <1>2, StoreType DEF TypeInv
  <2>3. CASE /\ ext' = [ext EXCEPT ![book[t]][c] = goal[t][c]]
             /\ UNCHANGED <<cache, disk, scan>>
    BY <2>3, <1>1, <1>2 DEF TypeInv, TypeOK
  <2> QED
    BY <2>1, <2>2, <2>3 DEF Push
<1>4. result' \in [Threads -> [Clients -> MaybePos]]
  <2>1. ext[book[t]][c] \in MaybePos /\ goal[t][c] \in MaybePos
    BY <1>1, <1>2 DEF TypeInv, TypeOK, MaybePos
  <2>2. CASE result' = [result EXCEPT ![t][c] = ext[book[t]][c]]
    BY <2>1, <2>2 DEF TypeInv, TypeOK
  <2>3. CASE result' = [result EXCEPT ![t][c] = goal[t][c]]
    BY <2>1, <2>3 DEF TypeInv, TypeOK
  <2>4. CASE UNCHANGED result
    BY <2>4 DEF TypeInv, TypeOK
  <2> QED
    BY <2>2, <2>3, <2>4 DEF Push
<1>5. goal' \in [Threads -> [Clients -> MaybePos]]
  BY DEF Push, TypeInv, TypeOK, MaybePos
<1>6. TypeOK'
  BY <1>3, <1>4, <1>5 DEF Push, TypeInv, TypeOK, db, bounds, history
<1>7. HasBook'
  BY DEF Push, TypeInv, TypeOK, HasBook, AtWork, db, bounds, history
<1> QED
  BY <1>6, <1>7 DEF TypeInv

\* Every step of a sync cycle is well typed.
LEMMA CyclerType ==
  ASSUME TypeInv, NEW t \in Cyclers, DaemonStart(t) \/ CycleStep(t)
  PROVE  TypeInv'
<1> t \in Threads
  BY DEF Threads, Cyclers
<1>1. CASE DaemonStart(t)
  <2>1. TypeOK'
    BY <1>1 DEF DaemonStart, TypeInv, TypeOK, Goto, PcLabels, db, remote,
       local, bounds, history
  <2>2. HasBook'
    BY <1>1 DEF DaemonStart, TypeInv, TypeOK, HasBook, AtWork, Goto, db,
       remote, local, bounds, history
  <2> QED
    BY <2>1, <2>2 DEF TypeInv
<1>2. CASE InstantAcquire(t) \/ InstantTimeout(t)
  <2>1. TypeOK'
    BY <1>2 DEF InstantAcquire, InstantTimeout, TypeInv, TypeOK, Goto,
       PcLabels, db, remote, local, bounds, history
  <2>2. HasBook'
    BY <1>2 DEF InstantAcquire, InstantTimeout, TypeInv, TypeOK, HasBook,
       AtWork, Goto, db, remote, local, bounds, history
  <2> QED
    BY <2>1, <2>2 DEF TypeInv
<1>3. CASE DiscoverScan(t)
  <2>1. TypeOK'
    BY <1>3 DEF DiscoverScan, TypeInv, TypeOK, Goto, PcLabels, db, remote,
       local, bounds, history
  <2>2. HasBook'
    BY <1>3 DEF DiscoverScan, TypeInv, TypeOK, HasBook, AtWork, Goto, db,
       remote, local, bounds, history
  <2> QED
    BY <2>1, <2>2 DEF TypeInv
<1>4. CASE \E b \in Books : DiscoverPromote(t, b)
  <2>1. row' \in [Books -> Row] /\ doc' \in SUBSET Books
    <3> PICK b \in Books : DiscoverPromote(t, b)
      BY <1>4
    <3>1. snap[t][b] \in Row /\ "active" \in Statuses
      BY DEF TypeInv, TypeOK, Statuses
    <3>2. [snap[t][b] EXCEPT !.status = "active", !.started = TRUE] \in Row
      BY <3>1, RowChanges
    <3> QED
      BY <3>2, SaveBookType DEF DiscoverPromote, TypeInv, TypeOK
  <2>2. TypeOK'
    BY <1>4, <2>1 DEF DiscoverPromote, TypeInv, TypeOK, db, remote, local,
       bounds, history
  <2>3. HasBook'
    BY <1>4 DEF DiscoverPromote, TypeInv, TypeOK, HasBook, AtWork, db,
       remote, local, bounds, history
  <2> QED
    BY <2>2, <2>3 DEF TypeInv
<1>5. CASE DiscoverDone(t)
  <2>1. TypeOK'
    BY <1>5 DEF DiscoverDone, TypeInv, TypeOK, Goto, PcLabels, NoSnap, Row,
       Statuses, db, remote, local, bounds, history
  <2>2. HasBook'
    BY <1>5 DEF DiscoverDone, TypeInv, TypeOK, HasBook, AtWork, Goto, db,
       remote, local, bounds, history
  <2> QED
    BY <2>1, <2>2 DEF TypeInv
<1>6. CASE Prepare(t)
  <2>1. TypeOK'
    BY <1>6 DEF Prepare, TypeInv, TypeOK, Goto, PcLabels, Failing, Observed,
       NoSnap, Absent, MaybePos, Row, Statuses, db, remote, local, bounds,
       history
  <2>2. HasBook'
    BY <1>6 DEF Prepare, TypeInv, TypeOK, HasBook, AtWork, Goto, db, remote,
       local, bounds, history
  <2> QED
    BY <2>1, <2>2 DEF TypeInv
<1>7. CASE \E b \in Books : SkipBook(t, b)
  <2>1. TypeOK'
    BY <1>7 DEF SkipBook, TypeInv, TypeOK, db, remote, local, bounds,
       history
  <2>2. HasBook'
    BY <1>7 DEF SkipBook, TypeInv, TypeOK, HasBook, AtWork, db, remote,
       local, bounds, history
  <2> QED
    BY <2>1, <2>2 DEF TypeInv
<1>8. CASE \E b \in Books : VisitBook(t, b)
  <2>1. row' \in [Books -> Row] /\ doc' \in SUBSET Books
    <3> PICK b \in Books : VisitBook(t, b)
      BY <1>8
    <3>1. snap[t][b] \in Row
      BY DEF TypeInv, TypeOK
    <3>2. [snap[t][b] EXCEPT !.managed = TRUE] \in Row
      BY <3>1, RowChanges
    <3> QED
      BY <3>2, SaveBookType DEF VisitBook, TypeInv, TypeOK
  <2>2. TypeOK'
    BY <1>8, <2>1 DEF VisitBook, TypeInv, TypeOK, Goto, PcLabels, db, remote,
       local, bounds, history
  <2>3. HasBook'
    BY <1>8 DEF VisitBook, TypeInv, TypeOK, HasBook, AtWork, Goto, db,
       remote, local, bounds, history
  <2> QED
    BY <2>2, <2>3 DEF TypeInv
<1>9. CASE FetchNothing(t)
  <2>1. TypeOK'
    BY <1>9 DEF FetchNothing, TypeInv, TypeOK, Goto, PcLabels, BackToLoop,
       db, remote, local, bounds, history
  <2>2. HasBook'
    BY <1>9 DEF FetchNothing, TypeInv, TypeOK, HasBook, AtWork, BackToLoop,
       Goto, db, remote, local, bounds, history
  <2> QED
    BY <2>1, <2>2 DEF TypeInv
<1>10. CASE FetchAndLead(t)
  BY <1>10, FetchAndLeadType
<1>11. CASE \E c \in Clients : Push(t, c)
  BY <1>11, PushType
<1>12. CASE RecordStates(t)
  <2>1. states' \in [Books -> [Clients -> Pos]]
    <3>1. \A c \in Clients : result[t][c] # Absent => result[t][c] \in Pos
      BY DEF TypeInv, TypeOK, MaybePos
    <3>2. book[t] \in Books
      BY <1>12 DEF RecordStates, TypeInv, HasBook, AtWork
    <3> QED
      BY <1>12, <3>1, <3>2 DEF RecordStates, TypeInv, TypeOK
  <2>2. TypeOK'
    BY <1>12, <2>1 DEF RecordStates, TypeInv, TypeOK, Goto, PcLabels,
       BackToLoop, Nowhere, MaybePos, Absent, db, remote, local, bounds,
       history
  <2>3. HasBook'
    BY <1>12 DEF RecordStates, TypeInv, TypeOK, HasBook, AtWork, BackToLoop,
       Goto, db, remote, local, bounds, history
  <2> QED
    BY <2>2, <2>3 DEF TypeInv
<1>13. CASE LoopDone(t)
  <2>1. TypeOK'
    BY <1>13 DEF LoopDone, TypeInv, TypeOK, Goto, PcLabels, NoSnap, NoBulk,
       Nowhere, Absent, MaybePos, Row, Statuses, db, remote, local, bounds,
       history
  <2>2. HasBook'
    BY <1>13 DEF LoopDone, TypeInv, TypeOK, HasBook, AtWork, Goto, db,
       remote, local, bounds, history
  <2> QED
    BY <2>1, <2>2 DEF TypeInv
<1>14. CASE CycleEnd(t)
  <2>1. TypeOK'
    BY <1>14 DEF CycleEnd, TypeInv, TypeOK, Goto, PcLabels, db, remote,
       local, bounds, history
  <2>2. HasBook'
    BY <1>14 DEF CycleEnd, TypeInv, TypeOK, HasBook, AtWork, Goto, db,
       remote, local, bounds, history
  <2> QED
    BY <2>1, <2>2 DEF TypeInv
<1>15. CASE \E b \in Books : DeferredReset(t, b)
  <2> PICK b \in Books : DeferredReset(t, b)
    BY <1>15
  <2>1. TypeOK'
    <3>1. /\ ext' \in [Books -> [Clients -> Pos]] /\ cache' \in [Books -> Pos]
          /\ owed' \in SUBSET Books /\ crossed' \in SUBSET Books
         /\ quiet' \in [Books -> SUBSET Clients]
          /\ UNCHANGED <<disk, scan>>
      BY ResetType DEF DeferredReset, TypeInv
    <3> QED
      BY <3>1 DEF DeferredReset, TypeInv, TypeOK, Goto, PcLabels, db, local,
         bounds
  <2>2. HasBook'
    BY <1>15 DEF DeferredReset, TypeInv, TypeOK, HasBook, AtWork, Goto, db,
       remote, local, bounds, history
  <2> QED
    BY <2>1, <2>2 DEF TypeInv
<1>16. CASE \E b \in Books : DeferredFails(t, b)
  <2>1. TypeOK'
    BY <1>16 DEF DeferredFails, TypeInv, TypeOK, db, remote, local, bounds,
       history
  <2>2. HasBook'
    BY <1>16 DEF DeferredFails, TypeInv, TypeOK, HasBook, AtWork, db, remote,
       local, bounds, history
  <2> QED
    BY <2>1, <2>2 DEF TypeInv
<1>17. CASE DeferredFinish(t)
  <2>1. row' \in [Books -> Row] /\ doc' \in SUBSET Books
    BY <1>17, FinalizeType DEF DeferredFinish, TypeInv, HasBook, AtWork
  <2>2. TypeOK'
    BY <1>17, <2>1 DEF DeferredFinish, TypeInv, TypeOK, Goto, PcLabels, db,
       remote, local, bounds, history
  <2>3. HasBook'
    BY <1>17 DEF DeferredFinish, TypeInv, TypeOK, HasBook, AtWork, Goto, db,
       remote, local, bounds, history
  <2> QED
    BY <2>2, <2>3 DEF TypeInv
<1>18. CASE DeferredUnfinished(t)
  <2>1. TypeOK'
    BY <1>18 DEF DeferredUnfinished, TypeInv, TypeOK, Goto, PcLabels, db,
       remote, local, bounds, history
  <2>2. HasBook'
    BY <1>18 DEF DeferredUnfinished, TypeInv, TypeOK, HasBook, AtWork, Goto,
       db, remote, local, bounds, history
  <2> QED
    BY <2>1, <2>2 DEF TypeInv
<1>19. CASE DiscoverFails(t)
  <2>1. TypeOK'
    BY <1>19 DEF DiscoverFails, TypeInv, TypeOK, Goto, PcLabels, NoSnap, Row,
       Statuses, db, remote, local, bounds, history
  <2>2. HasBook'
    BY <1>19 DEF DiscoverFails, TypeInv, TypeOK, HasBook, AtWork, Goto, db,
       remote, local, bounds, history
  <2> QED
    BY <2>1, <2>2 DEF TypeInv
<1>20. CASE CycleFails(t)
  <2>1. TypeOK'
    BY <1>20 DEF CycleFails, TypeInv, TypeOK, Goto, PcLabels, db, remote,
       local, bounds, history
  <2>2. HasBook'
    BY <1>20 DEF CycleFails, TypeInv, TypeOK, HasBook, AtWork, Goto, db,
       remote, local, bounds, history
  <2> QED
    BY <2>1, <2>2 DEF TypeInv
<1> QED
  BY <1>1, <1>2, <1>3, <1>4, <1>5, <1>6, <1>7, <1>8, <1>9, <1>10, <1>11,
     <1>12, <1>13, <1>14, <1>15, <1>16, <1>17, <1>18, <1>19, <1>20 DEF CycleStep

\* Every step of a clear request is well typed.
LEMMA ClearType ==
  ASSUME TypeInv, NEW t \in Clears, ClearStep(t)
  PROVE  TypeInv'
<1> t \in Threads
  BY DEF Threads, Cyclers
<1>1. CASE ClearLocal(t)
  <2>1. row' \in [Books -> Row] /\ states' \in [Books -> [Clients -> Pos]]
    <3>1. book[t] \in Books
      BY <1>1 DEF ClearLocal, TypeInv, HasBook, AtWork
    <3>2. row[book[t]] \in Row
      BY <3>1 DEF TypeInv, TypeOK
    <3>3. [row[book[t]] EXCEPT !.started = FALSE] \in Row
      BY <3>2, RowChanges
    <3>4. row' = [row EXCEPT ![book[t]] = [row[book[t]] EXCEPT !.started = FALSE]]
      BY <1>1, <3>1 DEF ClearLocal, TypeInv, TypeOK
    <3>5. 0 \in Pos
      BY EngineAssumption DEF Pos
    <3> QED
      BY <1>1, <3>1, <3>3, <3>4, <3>5 DEF ClearLocal, TypeInv, TypeOK
  <2>2. TypeOK'
    BY <1>1, <2>1, EngineAssumption DEF ClearLocal, TypeInv, TypeOK, Goto,
       PcLabels, Pos, Row, Statuses, db, remote, local, bounds, history
  <2>3. HasBook'
    BY <1>1 DEF ClearLocal, TypeInv, TypeOK, HasBook, AtWork, Goto, db,
       remote, local, bounds, history
  <2> QED
    BY <2>2, <2>3 DEF TypeInv
<1>2. CASE ClearStatus(t)
  <2>1. row' \in [Books -> Row] /\ doc' \in SUBSET Books
    <3>1. book[t] \in Books
      BY <1>2 DEF ClearStatus, TypeInv, HasBook, AtWork
    <3>2. snap[t][book[t]] \in Row /\ "not_started" \in Statuses
      BY <3>1 DEF TypeInv, TypeOK, Statuses
    <3>3. [snap[t][book[t]] EXCEPT !.status = "not_started"] \in Row
      BY <3>2, RowChanges
    <3> QED
      BY <1>2, <3>1, <3>3, SaveBookType DEF ClearStatus, TypeInv, TypeOK
  <2>2. TypeOK'
    BY <1>2, <2>1 DEF ClearStatus, TypeInv, TypeOK, Goto, PcLabels, db,
       remote, local, bounds, history
  <2>3. HasBook'
    BY <1>2 DEF ClearStatus, TypeInv, TypeOK, HasBook, AtWork, Goto, db,
       remote, local, bounds, history
  <2> QED
    BY <2>2, <2>3 DEF TypeInv
<1>3. CASE ClearAcquire(t)
  <2>1. TypeOK'
    BY <1>3 DEF ClearAcquire, TypeInv, TypeOK, Goto, PcLabels, db, remote,
       local, bounds, history
  <2>2. HasBook'
    BY <1>3 DEF ClearAcquire, TypeInv, TypeOK, HasBook, AtWork, Goto, db,
       remote, local, bounds, history
  <2> QED
    BY <2>1, <2>2 DEF TypeInv
<1>4. CASE ClearDeferred(t)
  <2>1. TypeOK'
    BY <1>4 DEF ClearDeferred, TypeInv, TypeOK, Goto, PcLabels, EndClear,
       NoSnap, Row, Statuses, db, remote, local, bounds, history
  <2>2. HasBook'
    BY <1>4 DEF ClearDeferred, TypeInv, TypeOK, HasBook, AtWork, EndClear,
       Goto, db, remote, local, bounds, history
  <2> QED
    BY <2>1, <2>2 DEF TypeInv
<1>5. CASE ClearReset(t)
  <2>1. TypeOK'
    <3>1. book[t] \in Books
      BY <1>5 DEF ClearReset, TypeInv, HasBook, AtWork
    <3>2. /\ ext' \in [Books -> [Clients -> Pos]] /\ cache' \in [Books -> Pos]
          /\ owed' \in SUBSET Books /\ crossed' \in SUBSET Books
         /\ quiet' \in [Books -> SUBSET Clients]
          /\ UNCHANGED <<disk, scan>>
      BY <1>5, <3>1, ResetType DEF ClearReset, TypeInv
    <3> QED
      BY <1>5, <3>2 DEF ClearReset, TypeInv, TypeOK, Goto, PcLabels, db,
         local, bounds
  <2>2. HasBook'
    BY <1>5 DEF ClearReset, TypeInv, TypeOK, HasBook, AtWork, Goto, db,
       remote, local, bounds, history
  <2> QED
    BY <2>1, <2>2 DEF TypeInv
<1>6. CASE ClearFinish(t)
  <2>1. row' \in [Books -> Row] /\ doc' \in SUBSET Books
    BY <1>6, FinalizeType DEF ClearFinish, TypeInv, HasBook, AtWork
  <2>2. TypeOK'
    BY <1>6, <2>1 DEF ClearFinish, TypeInv, TypeOK, Goto, PcLabels, db,
       remote, local, bounds, history
  <2>3. HasBook'
    BY <1>6 DEF ClearFinish, TypeInv, TypeOK, HasBook, AtWork, Goto, db,
       remote, local, bounds, history
  <2> QED
    BY <2>2, <2>3 DEF TypeInv
<1>7. CASE ClearRelease(t)
  <2>1. TypeOK'
    BY <1>7 DEF ClearRelease, TypeInv, TypeOK, Goto, PcLabels, db, remote,
       local, bounds, history
  <2>2. HasBook'
    BY <1>7 DEF ClearRelease, TypeInv, TypeOK, HasBook, AtWork, Goto, db,
       remote, local, bounds, history
  <2> QED
    BY <2>1, <2>2 DEF TypeInv
<1>8. CASE ClearDiscard(t)
  <2>1. TypeOK'
    BY <1>8 DEF ClearDiscard, TypeInv, TypeOK, Goto, PcLabels, EndClear,
       NoSnap, Row, Statuses, db, remote, local, bounds, history
  <2>2. HasBook'
    BY <1>8 DEF ClearDiscard, TypeInv, TypeOK, HasBook, AtWork, EndClear,
       Goto, db, remote, local, bounds, history
  <2> QED
    BY <2>1, <2>2 DEF TypeInv
<1>9. CASE ClearFails(t)
  <2>1. TypeOK'
    BY <1>9 DEF ClearFails, TypeInv, TypeOK, Goto, PcLabels, EndClear,
       NoSnap, Row, Statuses, db, remote, local, bounds, history
  <2>2. HasBook'
    BY <1>9 DEF ClearFails, TypeInv, TypeOK, HasBook, AtWork, EndClear, Goto,
       db, remote, local, bounds, history
  <2> QED
    BY <2>1, <2>2 DEF TypeInv
<1> QED
  BY <1>1, <1>2, <1>3, <1>4, <1>5, <1>6, <1>7, <1>8, <1>9 DEF ClearStep

\* Readers, the user, scans and restarts keep the types.
LEMMA EnvironmentType ==
  ASSUME TypeInv, Environment
  PROVE  TypeInv'
<1>1. CASE \E t \in Instants, b \in Books : InstantStart(t, b)
  <2>1. TypeOK'
    BY <1>1 DEF InstantStart, TypeInv, TypeOK, Goto, PcLabels, Threads, db,
       remote, local, bounds, history
  <2>2. HasBook'
    BY <1>1 DEF InstantStart, TypeInv, TypeOK, HasBook, AtWork, Goto,
       Threads, db, remote, local, bounds, history
  <2> QED
    BY <2>1, <2>2 DEF TypeInv
<1>2. CASE \E t \in Clears, b \in Books : ClearStart(t, b)
  <2>1. TypeOK'
    BY <1>2, EngineAssumption DEF ClearStart, TypeInv, TypeOK, Goto,
       PcLabels, Threads, db, remote, local, bounds, history
  <2>2. HasBook'
    BY <1>2 DEF ClearStart, TypeInv, TypeOK, HasBook, AtWork, Goto, Threads,
       db, remote, local, bounds, history
  <2> QED
    BY <2>1, <2>2 DEF TypeInv
<1>3. CASE \E b \in Books, c \in Clients, p \in Pos : ReaderMoves(b, c, p)
  <2>1. ext' \in [Books -> [Clients -> Pos]] /\ reads' \in 0 .. MaxReads
    BY <1>3, EngineAssumption DEF ReaderMoves, TypeInv, TypeOK
  <2>2. TypeOK'
    BY <1>3, <2>1, EngineAssumption DEF ReaderMoves, TypeInv, TypeOK, db,
       remote, local, bounds, history
  <2>3. HasBook'
    BY <1>3 DEF ReaderMoves, TypeInv, TypeOK, HasBook, AtWork, db, remote,
       local, bounds, history
  <2> QED
    BY <2>2, <2>3 DEF TypeInv
<1>4. CASE \E b \in Books, s \in Statuses : UserSetsStatus(b, s)
  <2>1. row' \in [Books -> Row] /\ doc' \in SUBSET Books
    <3> PICK b \in Books, s \in Statuses : UserSetsStatus(b, s)
      BY <1>4
    <3> DEFINE r == [row[b] EXCEPT !.status = s, !.started = @ \/ s = "active"]
    <3>1. row[b] \in Row /\ row[b].started \in BOOLEAN
      BY DEF TypeInv, TypeOK, Row
    <3>2. r \in Row
      BY <3>1, RowChanges
    <3>3. SaveBook(b, r)
      BY DEF UserSetsStatus
    <3> HIDE DEF r
    <3> QED
      BY <3>2, <3>3, SaveBookType DEF TypeInv
  <2>2. TypeOK'
    BY <1>4, <2>1 DEF UserSetsStatus, TypeInv, TypeOK, db, remote, local,
       bounds, history
  <2>3. HasBook'
    BY <1>4 DEF UserSetsStatus, TypeInv, TypeOK, HasBook, AtWork, db, remote,
       local, bounds, history
  <2> QED
    BY <2>2, <2>3 DEF TypeInv
<1>5. CASE ScanStart
  <2>1. TypeOK'
    BY <1>5, EngineAssumption DEF ScanStart, TypeInv, TypeOK, db, remote,
       local, bounds, history
  <2>2. HasBook'
    BY <1>5 DEF ScanStart, TypeInv, TypeOK, HasBook, AtWork, db, remote,
       local, bounds, history
  <2> QED
    BY <2>1, <2>2 DEF TypeInv
<1>6. CASE ScanInstall
  <2>1. TypeOK'
    BY <1>6 DEF ScanInstall, TypeInv, TypeOK, db, remote, local, bounds,
       history
  <2>2. HasBook'
    BY <1>6 DEF ScanInstall, TypeInv, TypeOK, HasBook, AtWork, db, remote,
       local, bounds, history
  <2> QED
    BY <2>1, <2>2 DEF TypeInv
<1>7. CASE ScanAtOnce
  <2>1. TypeOK'
    BY <1>7, EngineAssumption DEF ScanAtOnce, TypeInv, TypeOK, db, remote,
       local, bounds, history
  <2>2. HasBook'
    BY <1>7 DEF ScanAtOnce, TypeInv, TypeOK, HasBook, AtWork, db, remote,
       local, bounds, history
  <2> QED
    BY <2>1, <2>2 DEF TypeInv
<1>8. CASE Restart
  <2>1. TypeOK'
    BY <1>8, EngineAssumption DEF Restart, TypeInv, TypeOK, PcLabels, NoSnap,
       NoBulk, Nowhere, Absent, MaybePos, Row, Statuses, db, remote, local,
       bounds, history
  <2>2. HasBook'
    BY <1>8 DEF Restart, TypeInv, TypeOK, HasBook, AtWork, db, remote, local,
       bounds, history
  <2> QED
    BY <2>1, <2>2 DEF TypeInv
<1> QED
  BY <1>1, <1>2, <1>3, <1>4, <1>5, <1>6, <1>7, <1>8 DEF Environment

\* Every step of the engine is well typed.
LEMMA TypeStep == TypeInv /\ [Next]_vars => TypeInv'
<1> SUFFICES ASSUME TypeInv, [Next]_vars PROVE TypeInv'
  OBVIOUS
<1>1. CASE \E t \in Cyclers : DaemonStart(t) \/ CycleStep(t)
  BY <1>1, CyclerType
<1>2. CASE \E t \in Clears : ClearStep(t)
  BY <1>2, ClearType
<1>3. CASE Environment
  BY <1>3, EnvironmentType
<1>4. CASE UNCHANGED vars
  BY <1>4 DEF vars, TypeInv, TypeOK, HasBook, db, remote, local, bounds, history
<1> QED
  BY <1>1, <1>2, <1>3, <1>4 DEF Next

\* The variables have their types in every reachable state, however many
\* books, clients and threads there are (TypeOK, the type invariant of the
\* engine of sync_manager.py).
THEOREM TypeCorrect == Spec => []TypeOK
BY TypeInit, TypeStep, PTL DEF Spec, TypeInv

(***************************************************************************)
(* The sync lock.                                                          *)
(***************************************************************************)

\* The lock is free at the start, and nobody is inside.
LEMMA LockInit == Init => LockOwned
BY EngineAssumption DEF Init, LockOwned, Inside

\* A step that leaves the lock and every thread where they are.
LEMMA LockUntouched ==
  ASSUME LockOwned, UNCHANGED <<lock, pc>>
  PROVE  LockOwned'
BY DEF LockOwned

\* A step of thread t, within the critical section or outside it.
LEMMA LockStays ==
  ASSUME TypeOK, LockOwned, NEW t \in Threads, NEW label,
         pc' = [pc EXCEPT ![t] = label], lock' = lock,
         label \in Inside <=> pc[t] \in Inside
  PROVE  LockOwned'
BY DEF LockOwned, TypeOK

\* A step by which thread t acquires the lock: it found it free.
LEMMA LockEnters ==
  ASSUME TypeOK, LockOwned, NEW t \in Threads, NEW label \in Inside,
         pc' = [pc EXCEPT ![t] = label], lock = NoThread, lock' = t
  PROVE  LockOwned'
BY EngineAssumption DEF LockOwned, TypeOK

\* A step by which thread t leaves the critical section.
LEMMA LockLeaves ==
  ASSUME TypeOK, LockOwned, NEW t \in Threads, NEW label, label \notin Inside,
         pc' = [pc EXCEPT ![t] = label], pc[t] \in Inside, lock' = NoThread
  PROVE  LockOwned'
BY EngineAssumption DEF LockOwned, TypeOK

\* Every step of the engine is one of these four.
LEMMA LockStep ==
  ASSUME TypeOK, LockOwned, [Next]_vars
  PROVE  LockOwned'
<1>1. ASSUME NEW t \in Cyclers, DaemonStart(t)
      PROVE  LockOwned'
  BY <1>1, LockEnters DEF DaemonStart, Cyclers, Threads, Goto, Inside, PcLabels
<1>2. ASSUME NEW t \in Cyclers, CycleStep(t)
      PROVE  LockOwned'
  <2> t \in Threads
    BY DEF Cyclers, Threads
  <2>1. CASE InstantAcquire(t)
    BY <2>1, LockEnters DEF InstantAcquire, Goto, Inside, PcLabels
  <2>2. CASE InstantTimeout(t)
    BY <2>2, LockStays DEF InstantTimeout, Goto, Inside, PcLabels
  <2>3. CASE DiscoverScan(t)
    BY <2>3, LockStays DEF DiscoverScan, Goto, Inside, PcLabels
  <2>4. CASE \E b \in Books : DiscoverPromote(t, b) \/ SkipBook(t, b)
    BY <2>4, LockUntouched DEF DiscoverPromote, SkipBook
  <2>5. CASE \E b \in Books : VisitBook(t, b)
    BY <2>5, LockStays DEF VisitBook, Goto, Inside, PcLabels
  <2>6. CASE DiscoverDone(t)
    BY <2>6, LockStays DEF DiscoverDone, Goto, Inside, PcLabels
  <2>7. CASE Prepare(t)
    BY <2>7, LockStays DEF Prepare, Goto, Inside, PcLabels
  <2>8. CASE FetchNothing(t)
    BY <2>8, LockStays DEF FetchNothing, BackToLoop, Goto, Inside, PcLabels
  <2>9. CASE FetchAndLead(t)
    BY <2>9, LockStays DEF FetchAndLead, Goto, Inside, PcLabels
  <2>10. CASE \E c \in Clients : Push(t, c)
    BY <2>10, LockUntouched DEF Push
  <2>11. CASE RecordStates(t)
    BY <2>11, LockStays DEF RecordStates, BackToLoop, Goto, Inside, PcLabels
  <2>12. CASE LoopDone(t)
    BY <2>12, LockStays DEF LoopDone, Goto, Inside, PcLabels
  <2>13. CASE CycleEnd(t)
    BY <2>13, LockLeaves DEF CycleEnd, Goto, Inside, PcLabels
  <2>14. CASE \E b \in Books : DeferredReset(t, b)
    BY <2>14, LockStays DEF DeferredReset, Goto, Inside, PcLabels
  <2>15. CASE \E b \in Books : DeferredFails(t, b)
    BY <2>15, LockUntouched DEF DeferredFails
  <2>16. CASE DeferredFinish(t)
    BY <2>16, LockStays DEF DeferredFinish, Goto, Inside, PcLabels
  <2>17. CASE DeferredUnfinished(t)
    BY <2>17, LockStays DEF DeferredUnfinished, Goto, Inside, PcLabels
  <2>18. CASE DiscoverFails(t)
    BY <2>18, LockStays DEF DiscoverFails, Goto, Inside, PcLabels
  <2>19. CASE CycleFails(t)
    BY <2>19, LockLeaves DEF CycleFails, Goto, Inside, PcLabels
  <2> QED
    BY <1>2, <2>1, <2>2, <2>3, <2>4, <2>5, <2>6, <2>7, <2>8, <2>9, <2>10,
       <2>11, <2>12, <2>13, <2>14, <2>15, <2>16, <2>17, <2>18, <2>19
       DEF CycleStep
<1>3. ASSUME NEW t \in Clears, ClearStep(t)
      PROVE  LockOwned'
  <2>0. t \in Threads /\ (pc[t] \in Inside <=> lock = t)
    BY DEF Threads, LockOwned
  <2>1. CASE ClearLocal(t)
    BY <2>1, <2>0, LockStays DEF ClearLocal, Goto, Inside, PcLabels
  <2>2. CASE ClearStatus(t)
    BY <2>2, <2>0, LockStays DEF ClearStatus, Goto, Inside, PcLabels
  <2>3. CASE ClearAcquire(t)
    BY <2>3, <2>0, LockEnters DEF ClearAcquire, Goto, Inside, PcLabels
  <2>4. CASE ClearDeferred(t)
    BY <2>4, <2>0, LockStays DEF ClearDeferred, EndClear, Goto, Inside, PcLabels
  <2>5. CASE ClearReset(t)
    BY <2>5, <2>0, LockStays DEF ClearReset, Goto, Inside, PcLabels
  <2>6. CASE ClearFinish(t)
    BY <2>6, <2>0, LockStays DEF ClearFinish, Goto, Inside, PcLabels
  <2>7. CASE ClearRelease(t)
    BY <2>7, <2>0, LockLeaves DEF ClearRelease, Goto, Inside, PcLabels
  <2>8. CASE ClearDiscard(t)
    BY <2>8, <2>0, LockStays DEF ClearDiscard, EndClear, Goto, Inside, PcLabels
  <2>9. CASE ClearFails(t) /\ lock = t
    BY <2>9, <2>0, LockLeaves DEF ClearFails, EndClear, Goto, Inside, PcLabels
  <2>10. CASE ClearFails(t) /\ lock # t
    BY <2>10, LockStays, <2>0 DEF ClearFails, EndClear, LockOwned, Goto, Inside, PcLabels
  <2> QED
    BY <1>3, <2>1, <2>2, <2>3, <2>4, <2>5, <2>6, <2>7, <2>8, <2>9, <2>10 DEF ClearStep
<1>4. CASE Environment
  <2>1. CASE \E t \in Instants, b \in Books : InstantStart(t, b)
    BY <2>1, LockStays DEF InstantStart, Threads, Goto, Inside, PcLabels
  <2>2. CASE \E t \in Clears, b \in Books : ClearStart(t, b)
    BY <2>2, LockStays DEF ClearStart, Threads, Goto, Inside, PcLabels
  <2>3. CASE \/ \E b \in Books, c \in Clients, p \in Pos : ReaderMoves(b, c, p)
             \/ \E b \in Books, s \in Statuses : UserSetsStatus(b, s)
             \/ ScanStart \/ ScanInstall \/ ScanAtOnce
    BY <2>3, LockUntouched
       DEF ReaderMoves, UserSetsStatus, ScanStart, ScanInstall, ScanAtOnce
  <2>4. CASE Restart
    BY <2>4, EngineAssumption DEF Restart, LockOwned, Inside
  <2> QED
    BY <1>4, <2>1, <2>2, <2>3, <2>4 DEF Environment
<1>5. CASE UNCHANGED vars
  BY <1>5, LockUntouched DEF vars
<1> QED
  BY <1>1, <1>2, <1>3, <1>4, <1>5 DEF Next

\* A thread is inside the critical section exactly when it holds the lock;
\* no two cycles, and no cycle and a clear, talk to the services at the same
\* time (sync_cycle, clear_progress).
THEOREM LockCorrect == Spec => []LockOwned
<1>1. TypeOK /\ LockOwned /\ [Next]_vars => LockOwned'
  BY LockStep
<1> QED
  BY <1>1, LockInit, TypeCorrect, PTL DEF Spec

(***************************************************************************)
(* A clear sticks, as long as no library scan overlaps a write to          *)
(* Grimmory.  Not only the services are at 0: whatever a cycle that is     *)
(* under way still remembers of a cleared book, the cached Grimmory        *)
(* position, the positions pre-fetched in bulk and the goals still to be   *)
(* pushed, is 0 too, or a later step would bring the old position back.    *)
(***************************************************************************)
Settled(b) == quiet[b] = ActiveClients(b)

\* A thread at one of these labels works from pre-fetched positions.
Looping == {"visit", "fetch", "push"}

QuietInv ==
  /\ scan = <<>>
  /\ \A b \in Books : Settled(b) =>
       /\ \A c \in ActiveClients(b) : ext[b][c] = 0
       /\ cache[b] = 0
       /\ \A s \in Threads : pc[s] \in Looping =>
            \A c \in ActiveClients(b) : bulk[s][b][c] \in {0, Absent}
       /\ \A s \in Threads : pc[s] = "push" /\ book[s] = b =>
            \A c \in Clients : goal[s][c] \in {0, Absent}

EngineInv == TypeInv /\ LockOwned /\ QuietInv

\* Grimmory takes part in the synchronisation of every book.
LEMMA GrimmoryActive ==
  ASSUME NEW b \in Books
  PROVE  Grimmory \in ActiveClients(b) /\ ActiveClients(b) \subseteq Clients
BY EngineAssumption DEF ActiveClients

\* Nobody was reset yet in an initial state.
LEMMA QuietInit == Init => QuietInv
BY GrimmoryActive DEF Init, QuietInv, Settled

\* Steps that move no position, pre-fetch nothing and set no goal.
LEMMA QuietFrame ==
  ASSUME QuietInv, UNCHANGED <<ext, cache, scan, quiet>>,
         \A s \in Threads : pc'[s] \in Looping =>
             pc[s] \in Looping /\ bulk'[s] = bulk[s],
         \A s \in Threads : pc'[s] = "push" =>
             pc[s] = "push" /\ book'[s] = book[s] /\ goal'[s] = goal[s]
  PROVE  QuietInv'
BY DEF QuietInv, Settled

\* What a client reports of a settled book is 0.
LEMMA QuietObserved ==
  ASSUME QuietInv, NEW b \in Books, Settled(b), NEW c \in ActiveClients(b)
  PROVE  Observed(b, c) = 0
BY DEF QuietInv, Observed

\* The positions pre-fetched of a settled book are 0.
LEMMA QuietPrepare ==
  ASSUME EngineInv, NEW t \in Threads, Prepare(t)
  PROVE  QuietInv'
<1>1. UNCHANGED <<ext, cache, scan, quiet, goal>>
  BY DEF Prepare, remote, history
<1>2. \A s \in Threads \ {t} : pc'[s] = pc[s] /\ bulk'[s] = bulk[s] /\ book'[s] = book[s]
  BY DEF Prepare, Goto, EngineInv, TypeInv, TypeOK
<1>3. pc'[t] = "visit"
  BY DEF Prepare, Goto, EngineInv, TypeInv, TypeOK
<1>4. ASSUME NEW b \in Books, Settled(b), NEW c \in ActiveClients(b)
      PROVE  bulk'[t][b][c] \in {0, Absent}
  <2>1. bulk'[t][b][c] \in {Observed(b, c), Absent}
    BY GrimmoryActive DEF Prepare, EngineInv, TypeInv, TypeOK
  <2> QED
    BY <2>1, <1>4, QuietObserved DEF EngineInv
<1> QED
  BY <1>1, <1>2, <1>3, <1>4 DEF EngineInv, QuietInv, Settled, Looping

\* Every client of a settled book reports 0, so the leader is at 0 and so is
\* every goal.
LEMMA QuietLead ==
  ASSUME EngineInv, NEW t \in Threads, FetchAndLead(t)
  PROVE  QuietInv'
<1> DEFINE b == book[t]
           Chosen(view, l, text) ==
              /\ result' = [result EXCEPT ![t] = [Nowhere EXCEPT ![l] = view[l]]]
              /\ goal' = [goal EXCEPT ![t] = [c \in Clients |->
                    IF text = "no text" \/ c = l \/ c \notin ActiveClients(b)
                    THEN Absent
                    ELSE GoalOf(b, c, l, view[l], text = "located")]]
<1>1. b \in Books
  BY DEF FetchAndLead, EngineInv, TypeInv, HasBook, AtWork
<1>2. PICK view \in Views(t, b) : \E norm \in Normalised(b, view) :
         \E l \in Leaders(Config(b, view), Leading, Duration, norm) :
         \E text \in TextOutcomes(b, l) : Chosen(view, l, text)
  BY DEF FetchAndLead
<1>3. PICK l, text : l \in DOMAIN Config(b, view) /\ Chosen(view, l, text)
  <2> HIDE DEF Chosen
  <2> QED
    BY <1>2, LeaderAnswered
<1>4. l \in DOMAIN view /\ l \in ActiveClients(b) /\ l \in Clients
  BY <1>1, <1>2, <1>3, ViewsType, GrimmoryActive DEF Config, EngineInv, TypeInv
<1>5. Settled(b) => view[l] = 0
  <2> SUFFICES ASSUME Settled(b) PROVE view[l] = 0
    OBVIOUS
  <2>1. view[l] = Observed(b, l) \/ (view[l] = bulk[t][b][l] /\ bulk[t][b][l] # Absent)
    BY <1>2, <1>4 DEF Views
  <2>2. Observed(b, l) = 0
    BY <1>1, <1>4, QuietObserved DEF EngineInv
  <2>3. bulk[t][b][l] \in {0, Absent}
    BY <1>1, <1>4 DEF FetchAndLead, EngineInv, QuietInv, Looping
  <2> QED
    BY <2>1, <2>2, <2>3
<1>6. Settled(b) => \A c \in Clients : goal'[t][c] \in {0, Absent}
  <2> SUFFICES ASSUME Settled(b), NEW c \in Clients
               PROVE  goal'[t][c] \in {0, Absent}
    OBVIOUS
  <2>1. GoalOf(b, c, l, 0, text = "located") = 0
    BY <1>4, GoalOfStart
  <2>2. GoalOf(b, c, l, view[l], text = "located") = 0
    BY <1>5, <2>1
  <2>3. goal'[t][c] \in {GoalOf(b, c, l, view[l], text = "located"), Absent}
    BY <1>3 DEF EngineInv, TypeInv, TypeOK
  <2> QED
    BY <2>2, <2>3
<1>7. UNCHANGED <<ext, cache, scan, quiet, bulk, book>>
  BY DEF FetchAndLead, remote, history
<1>8. pc' = [pc EXCEPT ![t] = "push"] /\ pc[t] \in Looping
  BY DEF FetchAndLead, Goto, Looping
<1>9. \A s \in Threads \ {t} : goal'[s] = goal[s]
  BY <1>3 DEF EngineInv, TypeInv, TypeOK
<1> QED
  BY <1>6, <1>7, <1>8, <1>9 DEF EngineInv, TypeInv, TypeOK, QuietInv, Settled, Looping

\* A push of 0 leaves a settled book settled, other books are not touched.
LEMMA QuietPush ==
  ASSUME EngineInv, NEW t \in Threads, NEW c \in Clients, Push(t, c)
  PROVE  QuietInv'
<1>1. book[t] \in Books
  BY DEF Push, EngineInv, TypeInv, HasBook, AtWork
<1>2. Settled(book[t]) => goal[t][c] = 0
  BY <1>1 DEF Push, EngineInv, QuietInv
<1>3. UNCHANGED <<scan, quiet, bulk, book, pc>>
  BY DEF Push, remote, history, Store
<1>4. \A s \in Threads, d \in Clients : goal'[s][d] \in {goal[s][d], Absent}
  BY DEF Push, EngineInv, TypeInv, TypeOK
<1>5. \A b \in Books, d \in Clients :
         ext'[b][d] = ext[b][d] \/ (b = book[t] /\ ext'[b][d] = goal[t][c])
  BY <1>1 DEF Push, Store, remote, EngineInv, TypeInv, TypeOK
<1>6. \A b \in Books :
         cache'[b] = cache[b] \/ (b = book[t] /\ cache'[b] = goal[t][c])
  BY <1>1 DEF Push, Store, remote, EngineInv, TypeInv, TypeOK
<1> QED
  BY <1>2, <1>3, <1>4, <1>5, <1>6, GrimmoryActive DEF EngineInv, QuietInv, Settled

\* A reset by the thread that holds the lock: no cycle is in its loop.
LEMMA QuietReset ==
  ASSUME EngineInv, NEW t \in Threads, NEW b \in Books, ResetClients(b),
         pc[t] \in Inside, pc' = [pc EXCEPT ![t] = "finish"]
  PROVE  QuietInv'
<1>1. \A s \in Threads : pc'[s] \notin Looping
  BY DEF EngineInv, TypeInv, TypeOK, LockOwned, Inside, PcLabels, Looping
<1>2. PICK F \in Failing(ActiveClients(b)) :
         /\ Store(ext, cache, b, ActiveClients(b) \ F, 0)
         /\ quiet' = [quiet EXCEPT ![b] = ActiveClients(b) \ F]
  BY DEF ResetClients
<1>3. \A d \in Books \ {b} : ext'[d] = ext[d] /\ cache'[d] = cache[d] /\ quiet'[d] = quiet[d]
  BY <1>2 DEF Store, EngineInv, TypeInv, TypeOK
<1>4. quiet'[b] = ActiveClients(b) =>
         cache'[b] = 0 /\ \A c \in ActiveClients(b) : ext'[b][c] = 0
  BY <1>2, GrimmoryActive DEF Store, EngineInv, TypeInv, TypeOK
<1>5. scan' = <<>>
  BY DEF ResetClients, EngineInv, QuietInv
<1> QED
  BY <1>1, <1>3, <1>4, <1>5 DEF EngineInv, QuietInv, Settled, Looping

\* Every step keeps a settled book settled or takes it out of that state.
LEMMA QuietStep ==
  ASSUME ~ScanRaces, ~StaleStart, EngineInv, [Next]_vars
  PROVE  QuietInv'
<1> USE DEF EngineInv, TypeInv
<1>1. ASSUME NEW t \in Cyclers, DaemonStart(t)
      PROVE  QuietInv'
  BY <1>1, QuietFrame DEF DaemonStart, Looping, TypeOK, Goto, remote, local, history
<1>2. ASSUME NEW t \in Cyclers, CycleStep(t)
      PROVE  QuietInv'
  <2> t \in Threads
    BY DEF Cyclers, Threads
  <2>1. CASE InstantAcquire(t) \/ InstantTimeout(t)
    BY <2>1, QuietFrame DEF InstantAcquire, InstantTimeout, Looping, TypeOK,
       Goto, remote, local, db, history
  <2>2. CASE DiscoverScan(t)
    BY <2>2, QuietFrame DEF DiscoverScan, Looping, TypeOK, Goto, remote,
       local, db, history
  <2>3. CASE \E b \in Books : DiscoverPromote(t, b)
    BY <2>3, QuietFrame DEF DiscoverPromote, Looping, TypeOK, Goto, remote,
       local, db, history
  <2>4. CASE DiscoverDone(t)
    BY <2>4, QuietFrame DEF DiscoverDone, Looping, TypeOK, Goto, remote,
       local, db, history
  <2>5. CASE Prepare(t)
    BY <2>5, QuietPrepare
  <2>6. CASE \E b \in Books : SkipBook(t, b)
    BY <2>6, QuietFrame DEF SkipBook, Looping, TypeOK, Goto, remote,
       local, db, history
  <2>7. CASE \E b \in Books : VisitBook(t, b)
    BY <2>7, QuietFrame DEF VisitBook, Looping, TypeOK, Goto, remote, local,
       db, history
  <2>8. CASE FetchNothing(t)
    BY <2>8, QuietFrame DEF FetchNothing, BackToLoop, Looping, TypeOK, Goto,
       remote, local, db, history
  <2>9. CASE FetchAndLead(t)
    BY <2>9, QuietLead
  <2>10. CASE \E c \in Clients : Push(t, c)
    BY <2>10, QuietPush
  <2>11. CASE RecordStates(t)
    BY <2>11, QuietFrame DEF RecordStates, BackToLoop, Looping, TypeOK, Goto,
       remote, local, db, history
  <2>12. CASE LoopDone(t)
    BY <2>12, QuietFrame DEF LoopDone, Looping, TypeOK, Goto, remote, local,
       db, history
  <2>13. CASE CycleEnd(t)
    BY <2>13, QuietFrame DEF CycleEnd, Looping, TypeOK, Goto, remote, local,
       db, history
  <2>14. CASE \E b \in Books : DeferredReset(t, b)
    BY <2>14, QuietReset DEF DeferredReset, Inside, PcLabels, TypeOK, Goto,
       remote, local, db, history
  <2>15. CASE \E b \in Books : DeferredFails(t, b)
    BY <2>15, QuietFrame DEF DeferredFails, Looping, TypeOK, Goto, remote,
       local, db, history
  <2>16. CASE DeferredFinish(t)
    BY <2>16, QuietFrame DEF DeferredFinish, Looping, TypeOK, Goto, remote,
       local, db, history
  <2>17. CASE DeferredUnfinished(t)
    BY <2>17, QuietFrame DEF DeferredUnfinished, Looping, TypeOK, Goto,
       remote, local, db, history
  <2>18. CASE DiscoverFails(t)
    BY <2>18, QuietFrame DEF DiscoverFails, Looping, TypeOK, Goto, remote,
       local, db, history
  <2>19. CASE CycleFails(t)
    BY <2>19, QuietFrame DEF CycleFails, Looping, TypeOK, Goto, remote,
       local, db, history
  <2> QED
    BY <1>2, <2>1, <2>2, <2>3, <2>4, <2>5, <2>6, <2>7, <2>8, <2>9, <2>10,
       <2>11, <2>12, <2>13, <2>14, <2>15, <2>16, <2>17, <2>18, <2>19
       DEF CycleStep
<1>3. ASSUME NEW t \in Clears, ClearStep(t)
      PROVE  QuietInv'
  <2> t \in Threads
    BY DEF Threads
  <2>1. CASE ClearLocal(t)
    BY <2>1, QuietFrame DEF ClearLocal, Looping, TypeOK, Goto, remote, local,
       db, history
  <2>2. CASE ClearStatus(t)
    BY <2>2, QuietFrame DEF ClearStatus, Looping, TypeOK, Goto, remote,
       local, db, history
  <2>3. CASE ClearAcquire(t)
    BY <2>3, QuietFrame DEF ClearAcquire, Looping, TypeOK, Goto, remote,
       local, db, history
  <2>4. CASE ClearDeferred(t)
    BY <2>4, QuietFrame DEF ClearDeferred, EndClear, Looping, TypeOK, Goto,
       remote, local, db, history
  <2>5. CASE ClearReset(t)
    BY <2>5, QuietReset DEF ClearReset, TypeInv, HasBook, AtWork, Inside,
       PcLabels, TypeOK, Goto, remote, local, db, history
  <2>6. CASE ClearFinish(t)
    BY <2>6, QuietFrame DEF ClearFinish, Looping, TypeOK, Goto, remote,
       local, db, history
  <2>7. CASE ClearRelease(t)
    BY <2>7, QuietFrame DEF ClearRelease, Looping, TypeOK, Goto, remote,
       local, db, history
  <2>8. CASE ClearDiscard(t)
    BY <2>8, QuietFrame DEF ClearDiscard, EndClear, Looping, TypeOK, Goto,
       remote, local, db, history
  <2>9. CASE ClearFails(t)
    BY <2>9, QuietFrame DEF ClearFails, EndClear, Looping, TypeOK, Goto,
       remote, local, db, history
  <2> QED
    BY <1>3, <2>1, <2>2, <2>3, <2>4, <2>5, <2>6, <2>7, <2>8, <2>9 DEF ClearStep
<1>4. CASE Environment
  <2>1. CASE \E t \in Instants, b \in Books : InstantStart(t, b)
    BY <2>1, QuietFrame DEF InstantStart, Looping, TypeOK, Goto, remote, history
  <2>2. CASE \E t \in Clears, b \in Books : ClearStart(t, b)
    BY <2>2, QuietFrame DEF ClearStart, Looping, TypeOK, Goto, remote
  <2>3. CASE \E b \in Books, c \in Clients, p \in Pos : ReaderMoves(b, c, p)
    BY <2>3, GrimmoryActive DEF ReaderMoves, QuietInv, Settled, TypeOK, local
  <2>4. CASE \E b \in Books, s \in Statuses : UserSetsStatus(b, s)
    BY <2>4, QuietFrame DEF UserSetsStatus, remote, local, history
  <2>5. CASE ScanStart \/ ScanInstall
    BY <2>5 DEF ScanStart, ScanInstall, QuietInv
  <2>6. CASE ScanAtOnce
    BY <2>6, GrimmoryActive DEF ScanAtOnce, QuietInv, Settled, local, history
  <2>7. CASE Restart
    BY <2>7, GrimmoryActive DEF Restart, QuietInv, Settled, Looping, history
  <2> QED
    BY <1>4, <2>1, <2>2, <2>3, <2>4, <2>5, <2>6, <2>7 DEF Environment
<1>5. CASE UNCHANGED vars
  BY <1>5, QuietFrame DEF vars, remote, local, history
<1> QED
  BY <1>1, <1>2, <1>3, <1>4, <1>5 DEF Next

\* When library scans neither overlap writes to Grimmory nor fail right after
\* a restart, a clear whose every reset succeeded sticks: no cycle under way,
\* no deferred clear and no discovery brings a position back before somebody
\* reads again (clear_progress, _process_deferred_clears,
\* _promote_discovered_ebooks).
THEOREM ClearSticksCorrect ==
  ASSUME ~ScanRaces, ~StaleStart
  PROVE  Spec => []ClearSticks
<1>1. Init => EngineInv
  BY TypeInit, LockInit, QuietInit DEF EngineInv
<1>2. EngineInv /\ [Next]_vars => EngineInv'
  BY TypeStep, LockStep, QuietStep DEF EngineInv, TypeInv
<1>3. EngineInv => ClearSticks
  BY DEF EngineInv, QuietInv, Settled, ClearSticks
<1> QED
  BY <1>1, <1>2, <1>3, PTL DEF Spec

(***************************************************************************)
(* No clear is forgotten.  A book whose clear is owed stays in the pending *)
(* set because nobody is about to take it out: a thread that will has      *)
(* reset the book already, and a clear that begins meanwhile is crossed.   *)
(***************************************************************************)
\* Thread t takes its book out of the pending set without another reset.
Unmarks(t) == pc[t] = "finish" \/ (t \in Clears /\ pc[t] \in {"documents", "discard"})

Marked ==
    \A b \in owed \ crossed :
        /\ b \in pending
        /\ \A t \in Threads : book[t] = b => ~Unmarks(t)

\* Steps that touch no mark, after which no other thread is about to.
LEMMA MarkedFrame ==
  ASSUME Marked, UNCHANGED <<pending, owed, crossed>>,
         \A t \in Threads : Unmarks(t)' => Unmarks(t) /\ book'[t] = book[t]
  PROVE  Marked'
BY DEF Marked

\* A step of one thread, seen by the frame above.
LEMMA MarkedThread ==
  ASSUME TypeInv, Marked, UNCHANGED <<pending, owed, crossed>>, NEW t \in Threads, NEW label \in PcLabels,
         pc' = [pc EXCEPT ![t] = label], \A s \in Threads \ {t} : book'[s] = book[s],
         \/ label \notin {"finish", "documents", "discard"}
         \/ Unmarks(t) /\ label \in {"documents", "discard"} /\ book'[t] = book[t]
  PROVE  Marked'
<1>1. ASSUME NEW s \in Threads, Unmarks(s)'
      PROVE  Unmarks(s) /\ book'[s] = book[s]
  BY <1>1 DEF Unmarks, TypeInv, TypeOK
<1> QED
  BY <1>1, MarkedFrame

\* A reset serves the clear; the thread that made it may now take the mark.
LEMMA MarkedReset ==
  ASSUME TypeInv, Marked, NEW t \in Threads, NEW b \in Books, ResetClients(b), UNCHANGED pending,
         pc' = [pc EXCEPT ![t] = "finish"], book' = [book EXCEPT ![t] = b]
  PROVE  Marked'
<1>1. owed' \ crossed' = (owed \ crossed) \ {b}
  BY DEF ResetClients
<1>2. \A s \in Threads \ {t} : book'[s] = book[s] /\ pc'[s] = pc[s]
  BY DEF TypeInv, TypeOK
<1>3. book'[t] = b
  BY DEF TypeInv, TypeOK
<1> QED
  BY <1>1, <1>2, <1>3 DEF Marked, Unmarks

\* A thread that takes the mark of its book did not owe it, or is excused.
LEMMA MarkedDiscard ==
  ASSUME TypeInv, Marked, NEW t \in Threads, pending' = pending \ {book[t]},
         book' = [book EXCEPT ![t] = NoBook], NEW label \in PcLabels \ {"finish", "documents", "discard"},
         pc' = [pc EXCEPT ![t] = label],
         \/ Unmarks(t) /\ UNCHANGED <<owed, crossed>>
         \/ owed' = owed \ {book[t]} /\ crossed' = crossed \ {book[t]}
  PROVE  Marked'
<1>1. \A b \in owed' \ crossed' : b \in owed \ crossed /\ b # book[t]
  BY DEF Marked
<1>2. \A s \in Threads \ {t} : book'[s] = book[s] /\ pc'[s] = pc[s]
  BY DEF TypeInv, TypeOK
<1>3. ~Unmarks(t)'
  BY DEF Unmarks, TypeInv, TypeOK
<1> QED
  BY <1>1, <1>2, <1>3 DEF Marked, Unmarks

\* A clear marks its book; it is crossed if somebody is about to take the mark.
LEMMA MarkedStart ==
  ASSUME TypeInv, Marked, NEW t \in Clears, NEW b \in Books, ClearStart(t, b)
  PROVE  Marked'
<1> t \in Threads
  BY DEF Threads
<1>1. pc'[t] = "local" /\ \A s \in Threads \ {t} : book'[s] = book[s] /\ pc'[s] = pc[s]
  BY DEF ClearStart, Goto, TypeInv, TypeOK
<1>2. b \in pending' /\ pending \subseteq pending'
  BY DEF ClearStart
<1>3. ASSUME NEW c \in owed' \ crossed'
      PROVE  /\ c \in pending'
             /\ \A s \in Threads \ {t} : book[s] = c => ~Unmarks(s)
  <2>1. CASE c = b
    <3>1. ~Crossing(b)
      BY <1>3, <2>1 DEF ClearStart
    <3> QED
      BY <1>2, <2>1, <3>1 DEF Crossing, Unmarks
  <2>2. CASE c # b
    <3>1. c \in owed \ crossed
      BY <1>3, <2>2 DEF ClearStart
    <3> QED
      BY <1>2, <3>1 DEF Marked
  <2> QED
    BY <2>1, <2>2
<1>4. ~Unmarks(t)'
  BY <1>1 DEF Unmarks
<1> QED
  BY <1>1, <1>3, <1>4 DEF Marked, Unmarks

\* Every step keeps the marks of the clears that are owed.
LEMMA MarkedStep ==
  ASSUME TypeInv, Marked, [Next]_vars
  PROVE  Marked'
<1> USE DEF PcLabels
<1>1. ASSUME NEW t \in Cyclers, DaemonStart(t)
      PROVE  Marked'
  BY <1>1, "discover" \in PcLabels, MarkedThread DEF DaemonStart, Goto, Cyclers, Threads, local, history
<1>2. ASSUME NEW t \in Cyclers, CycleStep(t)
      PROVE  Marked'
  <2> t \in Threads
    BY DEF Cyclers, Threads
  <2>1. CASE InstantAcquire(t)
    BY <2>1, "prepare" \in PcLabels, MarkedThread DEF InstantAcquire, Goto, TypeInv, TypeOK, local, history
  <2>2. CASE InstantTimeout(t)
    BY <2>2, "idle" \in PcLabels, MarkedThread DEF InstantTimeout, Goto, TypeInv, TypeOK, local, history
  <2>3. CASE DiscoverScan(t)
    BY <2>3, "promote" \in PcLabels, MarkedThread DEF DiscoverScan, Goto, TypeInv, TypeOK, local, history
  <2>4. CASE DiscoverDone(t)
    BY <2>4, "prepare" \in PcLabels, MarkedThread DEF DiscoverDone, Goto, TypeInv, TypeOK, local, history
  <2>5. CASE DiscoverFails(t)
    BY <2>5, "prepare" \in PcLabels, MarkedThread DEF DiscoverFails, Goto, TypeInv, TypeOK, local, history
  <2>6. CASE Prepare(t)
    BY <2>6, "visit" \in PcLabels, MarkedThread DEF Prepare, Goto, TypeInv, TypeOK, local, history
  <2>7. CASE CycleFails(t)
    BY <2>7, "idle" \in PcLabels, MarkedThread DEF CycleFails, Goto, TypeInv, TypeOK, local, history
  <2>8. CASE \E b \in Books : DiscoverPromote(t, b)
    BY <2>8, MarkedFrame DEF DiscoverPromote, Unmarks, local, history
  <2>9. CASE \E b \in Books : SkipBook(t, b)
    BY <2>9, MarkedFrame DEF SkipBook, Unmarks, local, history
  <2>10. CASE \E b \in Books : VisitBook(t, b)
    BY <2>10, "fetch" \in PcLabels, MarkedThread DEF VisitBook, Goto, TypeInv, TypeOK, local, history
  <2>11. CASE FetchNothing(t)
    BY <2>11, "visit" \in PcLabels, MarkedThread DEF FetchNothing, Goto, BackToLoop, TypeInv, TypeOK, local, history
  <2>12. CASE FetchAndLead(t)
    BY <2>12, "push" \in PcLabels, MarkedThread DEF FetchAndLead, Goto, TypeInv, TypeOK, local, history
  <2>13. CASE \E c \in Clients : Push(t, c)
    BY <2>13, MarkedFrame DEF Push, Unmarks, local, history
  <2>14. CASE RecordStates(t)
    BY <2>14, "visit" \in PcLabels, MarkedThread DEF RecordStates, Goto, BackToLoop, TypeInv, TypeOK, local, history
  <2>15. CASE LoopDone(t)
    BY <2>15, "deferred" \in PcLabels, MarkedThread DEF LoopDone, Goto, TypeInv, TypeOK, local, history
  <2>16. CASE CycleEnd(t)
    BY <2>16, "idle" \in PcLabels, MarkedThread DEF CycleEnd, Goto, TypeInv, TypeOK, local, history
  <2>17. CASE \E b \in Books : DeferredReset(t, b)
    BY <2>17, MarkedReset DEF DeferredReset, Goto, TypeInv, TypeOK, HasBook, AtWork, local
  <2>18. CASE \E b \in Books : DeferredFails(t, b)
    BY <2>18, MarkedFrame DEF DeferredFails, Unmarks, local, history
  <2>19. CASE DeferredFinish(t)
    BY <2>19, "deferred" \in PcLabels, MarkedDiscard DEF DeferredFinish, Goto, Unmarks, history
  <2>20. CASE DeferredUnfinished(t)
    BY <2>20, "deferred" \in PcLabels, MarkedThread DEF DeferredUnfinished, Goto, TypeInv, TypeOK, local, history
  <2> QED
    BY <1>2, <2>1, <2>2, <2>3, <2>4, <2>5, <2>6, <2>7, <2>8, <2>9, <2>10, <2>11, <2>12, <2>13, <2>14, <2>15, <2>16, <2>17, <2>18, <2>19, <2>20 DEF CycleStep
<1>3. ASSUME NEW t \in Clears, ClearStep(t)
      PROVE  Marked'
  <2> t \in Threads
    BY DEF Threads
  <2>1. CASE ClearLocal(t)
    BY <2>1, "status" \in PcLabels, MarkedThread DEF ClearLocal, Goto, TypeInv, TypeOK, local, history
  <2>2. CASE ClearStatus(t)
    BY <2>2, "await" \in PcLabels, MarkedThread DEF ClearStatus, Goto, TypeInv, TypeOK, local, history
  <2>3. CASE ClearAcquire(t)
    BY <2>3, "reset" \in PcLabels, MarkedThread DEF ClearAcquire, Goto, TypeInv, TypeOK, local, history
  <2>4. CASE ClearDeferred(t)
    BY <2>4, "idle" \in PcLabels, MarkedThread DEF ClearDeferred, Goto, EndClear, TypeInv, TypeOK, local, history
  <2>5. CASE ClearReset(t)
    BY <2>5, MarkedReset DEF ClearReset, Goto, TypeInv, TypeOK, HasBook, AtWork, local
  <2>6. CASE ClearFinish(t)
    BY <2>6, "documents" \in PcLabels, MarkedThread DEF ClearFinish, Goto, TypeInv, TypeOK, local, history, Unmarks
  <2>7. CASE ClearRelease(t)
    BY <2>7, "discard" \in PcLabels, MarkedThread DEF ClearRelease, Goto, TypeInv, TypeOK, local, history, Unmarks
  <2>8. CASE ClearDiscard(t)
    BY <2>8, "idle" \in PcLabels, MarkedDiscard DEF ClearDiscard, Goto, EndClear, Unmarks, history
  <2>9. CASE ClearFails(t)
    BY <2>9, "idle" \in PcLabels, MarkedDiscard DEF ClearFails, Goto, EndClear, Unmarks, history
  <2> QED
    BY <1>3, <2>1, <2>2, <2>3, <2>4, <2>5, <2>6, <2>7, <2>8, <2>9 DEF ClearStep
<1>4. CASE Environment
  <2>1. CASE \E t \in Instants, b \in Books : InstantStart(t, b)
    <3> PICK t \in Instants, b \in Books : InstantStart(t, b)
      BY <2>1
    <3> t \in Threads
      BY DEF Threads
    <3> QED
      BY "await" \in PcLabels, MarkedThread DEF InstantStart, Goto, TypeInv, TypeOK, history
  <2>2. CASE \E t \in Clears, b \in Books : ClearStart(t, b)
    BY <2>2, MarkedStart
  <2>3. CASE \E b \in Books, c \in Clients, p \in Pos : ReaderMoves(b, c, p)
    BY <2>3, MarkedFrame DEF ReaderMoves, Unmarks, local
  <2>4. CASE \E b \in Books, s \in Statuses : UserSetsStatus(b, s)
    BY <2>4, MarkedFrame DEF UserSetsStatus, Unmarks, local, history
  <2>5. CASE ScanStart \/ ScanInstall \/ ScanAtOnce
    BY <2>5, MarkedFrame DEF ScanStart, ScanInstall, ScanAtOnce, Unmarks, local, history
  <2>6. CASE Restart
    BY <2>6 DEF Restart, Marked
  <2> QED
    BY <1>4, <2>1, <2>2, <2>3, <2>4, <2>5, <2>6 DEF Environment
<1>5. CASE UNCHANGED vars
  BY <1>5, MarkedFrame DEF vars, Unmarks, local, history
<1> QED
  BY <1>1, <1>2, <1>3, <1>4, <1>5 DEF Next

\* Whatever fails, whoever waits and gives up: an accepted clear stays in the pending
\* set until a reset of its book has run, unless it met another clear of that book or
\* the process ended (clear_progress, _process_deferred_clears).
THEOREM NoClearLostCorrect == Spec => []NoClearLost
<1>1. Init => TypeInv /\ Marked
  BY TypeInit DEF Init, Marked
<1>2. TypeInv /\ Marked /\ [Next]_vars => (TypeInv /\ Marked)'
  BY TypeStep, MarkedStep
<1>3. Marked => NoClearLost
  BY DEF Marked, NoClearLost
<1> QED
  BY <1>1, <1>2, <1>3, PTL DEF Spec
(***************************************************************************)
(* The promise of a clear.  What is open is open by some thread or by its  *)
(* mark; a goal is set only for a client that takes part, or a follower    *)
(* outside the book could be moved after a clear; and a clear request that *)
(* is over holds no book.                                                  *)
(***************************************************************************)
OpenAt(t, b) ==
    \/ t \in Deferring /\ b \in todo[t]
    \/ book[t] = b /\ (t \in Clears \/ pc[t] = "finish")

Tidy ==
    /\ \A t \in Clears : pc[t] = "idle" => book[t] = NoBook
    /\ \A t \in Threads : pc[t] = "push" =>
           \A c \in Clients : goal[t][c] # Absent => c \in ActiveClients(book[t])

LEMMA TidyInit == Init => Tidy
BY DEF Init, Tidy, Threads

\* A step of one thread that neither ends a clear nor sets a goal.
LEMMA TidyThread ==
  ASSUME TypeInv, Tidy, NEW t \in Threads,
         \A s \in Threads \ {t} : pc'[s] = pc[s] /\ book'[s] = book[s] /\ goal'[s] = goal[s],
         t \in Clears /\ pc'[t] = "idle" => book'[t] = NoBook,
         pc'[t] = "push" => /\ pc[t] = "push" /\ book'[t] = book[t]
                            /\ \A c \in Clients : goal'[t][c] \in {goal[t][c], Absent}
  PROVE  Tidy'
<1>1. \A s \in Clears : s \in Threads
  BY DEF Threads
<1> QED
  BY <1>1 DEF Tidy, ActiveClients

\* No thread moves.
LEMMA TidyFrame ==
  ASSUME Tidy, UNCHANGED <<pc, book, goal>>
  PROVE  Tidy'
BY DEF Tidy, ActiveClients

LEMMA TidyLead ==
  ASSUME TypeInv, Tidy, NEW t \in Cyclers, FetchAndLead(t)
  PROVE  Tidy'
<1>1. t \in Threads /\ t \notin Clears
  BY EngineAssumption DEF Cyclers, Threads
<1>2. book[t] \in Books /\ book' = book
  BY <1>1 DEF FetchAndLead, TypeInv, HasBook, AtWork
<1> DEFINE b == book[t]
           Chosen(view, l, text) ==
              /\ result' = [result EXCEPT ![t] = [Nowhere EXCEPT ![l] = view[l]]]
              /\ goal' = [goal EXCEPT ![t] = [c \in Clients |->
                    IF text = "no text" \/ c = l \/ c \notin ActiveClients(b)
                    THEN Absent
                    ELSE GoalOf(b, c, l, view[l], text = "located")]]
<1>3. PICK view \in Views(t, b) : \E norm \in Normalised(b, view) :
         \E l \in Leaders(Config(b, view), Leading, Duration, norm) :
         \E text \in TextOutcomes(b, l) : Chosen(view, l, text)
  BY DEF FetchAndLead
<1>4. PICK l, text : Chosen(view, l, text)
  <2> HIDE DEF Chosen
  <2> QED
    BY <1>3
<1>5. \A c \in Clients : goal'[t][c] # Absent => c \in ActiveClients(book[t])
  BY <1>1, <1>4 DEF TypeInv, TypeOK
<1>6. \A s \in Threads \ {t} : pc'[s] = pc[s] /\ goal'[s] = goal[s]
  BY <1>4 DEF FetchAndLead, Goto, TypeInv, TypeOK
<1>7. \A s \in Clears : s \in Threads \ {t}
  BY <1>1 DEF Threads
<1> QED
  BY <1>2, <1>5, <1>6, <1>7 DEF Tidy, ActiveClients

LEMMA TidyStep ==
  ASSUME TypeInv, Tidy, [Next]_vars
  PROVE  Tidy'
<1> USE DEF Goto, TypeInv, TypeOK
<1>1. ASSUME NEW t \in Cyclers, DaemonStart(t) \/ CycleStep(t)
      PROVE  Tidy'
  <2>1. t \in Threads /\ t \notin Clears
    BY EngineAssumption DEF Cyclers, Threads
  <2>2. CASE DaemonStart(t) \/ InstantAcquire(t) \/ InstantTimeout(t)
    BY <2>1, <2>2, TidyThread DEF DaemonStart, InstantAcquire, InstantTimeout, local
  <2>3. CASE DiscoverScan(t) \/ DiscoverDone(t) \/ DiscoverFails(t)
    BY <2>1, <2>3, TidyThread DEF DiscoverScan, DiscoverDone, DiscoverFails
  <2>4. CASE Prepare(t) \/ CycleFails(t)
    BY <2>1, <2>4, TidyThread DEF Prepare, CycleFails
  <2>5. CASE \E b \in Books : DiscoverPromote(t, b) \/ SkipBook(t, b) \/ DeferredFails(t, b)
    BY <2>5, TidyFrame DEF DiscoverPromote, SkipBook, DeferredFails
  <2>6. CASE \E b \in Books : VisitBook(t, b) \/ DeferredReset(t, b)
    BY <2>1, <2>6, TidyThread DEF VisitBook, DeferredReset
  <2>7. CASE FetchNothing(t) \/ RecordStates(t)
    BY <2>1, <2>7, TidyThread DEF FetchNothing, RecordStates, BackToLoop
  <2>8. CASE FetchAndLead(t)
    BY <2>8, TidyLead
  <2>9. CASE \E c \in Clients : Push(t, c)
    <3> PICK c \in Clients : Push(t, c)
      BY <2>9
    <3> QED
      BY <2>1, TidyThread DEF Push
  <2>10. CASE LoopDone(t) \/ CycleEnd(t) \/ DeferredFinish(t) \/ DeferredUnfinished(t)
    BY <2>1, <2>10, TidyThread DEF LoopDone, CycleEnd, DeferredFinish, DeferredUnfinished, local
  <2> QED
    BY <1>1, <2>2, <2>3, <2>4, <2>5, <2>6, <2>7, <2>8, <2>9, <2>10 DEF CycleStep
<1>2. ASSUME NEW t \in Clears, ClearStep(t)
      PROVE  Tidy'
  <2>1. t \in Threads
    BY DEF Threads
  <2>2. CASE ClearLocal(t) \/ ClearStatus(t) \/ ClearAcquire(t)
    BY <2>1, <2>2, TidyThread DEF ClearLocal, ClearStatus, ClearAcquire, local
  <2>3. CASE ClearReset(t) \/ ClearFinish(t) \/ ClearRelease(t)
    BY <2>1, <2>3, TidyThread DEF ClearReset, ClearFinish, ClearRelease, local
  <2>4. CASE ClearDeferred(t) \/ ClearDiscard(t) \/ ClearFails(t)
    BY <2>1, <2>4, TidyThread DEF ClearDeferred, ClearDiscard, ClearFails, EndClear
  <2> QED
    BY <1>2, <2>2, <2>3, <2>4 DEF ClearStep
<1>3. CASE Environment
  <2>1. CASE \E t \in Instants, b \in Books : InstantStart(t, b)
    <3> PICK t \in Instants, b \in Books : InstantStart(t, b)
      BY <2>1
    <3> t \in Threads
      BY DEF Threads
    <3> QED
      BY TidyThread DEF InstantStart
  <2>2. CASE \E t \in Clears, b \in Books : ClearStart(t, b)
    <3> PICK t \in Clears, b \in Books : ClearStart(t, b)
      BY <2>2
    <3> t \in Threads
      BY DEF Threads
    <3> QED
      BY TidyThread DEF ClearStart
  <2>3. CASE Restart
    BY <2>3 DEF Restart, Tidy, Threads
  <2>4. CASE \E b \in Books, c \in Clients, p \in Pos : ReaderMoves(b, c, p)
    BY <2>4, TidyFrame DEF ReaderMoves, local
  <2>5. CASE \E b \in Books, s \in Statuses : UserSetsStatus(b, s)
    BY <2>5, TidyFrame DEF UserSetsStatus, local
  <2>6. CASE ScanStart \/ ScanInstall \/ ScanAtOnce
    BY <2>6, TidyFrame DEF ScanStart, ScanInstall, ScanAtOnce, local
  <2> QED
    BY <1>3, <2>1, <2>2, <2>3, <2>4, <2>5, <2>6 DEF Environment
<1>4. CASE UNCHANGED vars
  BY <1>4, TidyFrame DEF vars, local
<1> QED
  BY <1>1, <1>2, <1>3, <1>4 DEF Next

\* What is open by a thread, or by its mark.
LEMMA OpenThreads ==
  ASSUME NEW b \in Books
  PROVE  /\ b \in Open <=> b \in pending \/ \E t \in Threads : OpenAt(t, b)
         /\ b \in Open' <=> b \in pending' \/ \E t \in Threads : OpenAt(t, b)'
<1>1. Cyclers \subseteq Threads
  BY DEF Cyclers, Threads
<1> QED
  BY <1>1 DEF Open, OpenAt, Crossing, Deferring

\* A step of one thread that reaches no service and makes no request keeps what is open,
\* or takes a book out of it whose clear has reached the services.
LEMMA QuietPromise ==
  ASSUME Marked', NEW t \in Threads, NEW b, UNCHANGED <<ext, quiet, owed, crossed>>,
         \A s \in Threads \ {t} : pc'[s] = pc[s] /\ book'[s] = book[s] /\ todo'[s] = todo[s],
         pending' \subseteq pending, pending \ {b} \subseteq pending',
         \A d \in Books : OpenAt(t, d)' => OpenAt(t, d) \/ d \in pending,
         \A d \in Books \ {b} : OpenAt(t, d) => OpenAt(t, d)' \/ d \in pending'
  PROVE  [Promise!Next]_(Promise!vars)
<1>1. ASSUME NEW s \in Threads \ {t}, NEW d \in Books
      PROVE  OpenAt(s, d)' <=> OpenAt(s, d)
  BY <1>1 DEF OpenAt, Deferring
<1>2. Open' \subseteq Open /\ Open \ {b} \subseteq Open'
  BY <1>1, OpenThreads DEF Open
<1>3. CASE b \in Open \ Open'
  <2>1. b \in Books
    BY <1>3 DEF Open
  <2>2. b \notin owed \ crossed
    BY <1>3, <2>1, OpenThreads DEF Marked
  <2>3. Promise!Close(b)
    BY <1>2, <1>3, <2>2 DEF Promise!Close
  <2> QED
    BY <1>3, <2>3 DEF Promise!Next
<1>4. CASE ~(b \in Open \ Open')
  <2>1. Open' = Open
    BY <1>2, <1>4
  <2> QED
    BY <2>1 DEF Promise!vars
<1> QED
  BY <1>3, <1>4

LEMMA CyclerPromise ==
  ASSUME TypeInv, Marked', NEW t \in Cyclers, DaemonStart(t) \/ CycleStep(t),
         UNCHANGED <<ext, quiet>>, ~\E b \in Books : DeferredReset(t, b)
  PROVE  [Promise!Next]_(Promise!vars)
<1> USE DEF Goto, TypeInv, TypeOK, OpenAt, Deferring
<1>1. t \in Threads /\ t \notin Clears
  BY EngineAssumption DEF Cyclers, Threads
<1>2. CASE DaemonStart(t) \/ InstantAcquire(t) \/ InstantTimeout(t)
  BY <1>1, <1>2, QuietPromise DEF DaemonStart, InstantAcquire, InstantTimeout, local, history
<1>3. CASE DiscoverScan(t) \/ DiscoverDone(t) \/ DiscoverFails(t)
  BY <1>1, <1>3, QuietPromise DEF DiscoverScan, DiscoverDone, DiscoverFails, history
<1>4. CASE Prepare(t) \/ CycleFails(t)
  BY <1>1, <1>4, QuietPromise DEF Prepare, CycleFails, history
<1>5. CASE \E b \in Books : DiscoverPromote(t, b) \/ SkipBook(t, b) \/ VisitBook(t, b)
  BY <1>1, <1>5, QuietPromise DEF DiscoverPromote, SkipBook, VisitBook, history
<1>6. CASE FetchNothing(t) \/ RecordStates(t)
  BY <1>1, <1>6, QuietPromise DEF FetchNothing, RecordStates, BackToLoop, history
<1>7. CASE FetchAndLead(t)
  <2>1. /\ pc[t] = "fetch" /\ pc' = [pc EXCEPT ![t] = "push"]
        /\ UNCHANGED <<pending, todo, book, owed, crossed>>
    BY <1>7 DEF FetchAndLead, history
  <2> QED
    BY <1>1, <2>1, QuietPromise
<1>8. CASE \E c \in Clients : Push(t, c)
  <2>1. UNCHANGED <<pc, pending, todo, book, owed, crossed>>
    BY <1>8 DEF Push, history
  <2> QED
    BY <1>1, <2>1, QuietPromise
<1>9. CASE LoopDone(t) \/ CycleEnd(t)
  BY <1>1, <1>9, QuietPromise DEF LoopDone, CycleEnd, local, history
<1>10. CASE \E b \in Books : DeferredFails(t, b)
  <2> PICK b \in Books : DeferredFails(t, b)
    BY <1>10
  <2> QED
    BY <1>1, QuietPromise DEF DeferredFails, history
<1>11. CASE DeferredFinish(t) \/ DeferredUnfinished(t)
  BY <1>1, <1>11, QuietPromise DEF DeferredFinish, DeferredUnfinished, history
<1> QED
  BY <1>2, <1>3, <1>4, <1>5, <1>6, <1>7, <1>8, <1>9, <1>10, <1>11 DEF CycleStep

LEMMA RequestPromise ==
  ASSUME TypeInv, Marked', NEW t \in Clears, ClearStep(t), ~ClearReset(t), ~ClearFails(t)
  PROVE  [Promise!Next]_(Promise!vars)
<1> USE DEF Goto, TypeInv, TypeOK, OpenAt, Deferring
<1>1. t \in Threads /\ t \notin Cyclers
  BY EngineAssumption DEF Cyclers, Threads
<1>2. CASE ClearLocal(t) \/ ClearStatus(t) \/ ClearAcquire(t)
  BY <1>1, <1>2, QuietPromise DEF ClearLocal, ClearStatus, ClearAcquire, local, remote, history
<1>3. CASE ClearFinish(t) \/ ClearRelease(t)
  <2>1. UNCHANGED <<pending, ext, todo, book, owed, crossed, quiet>>
    BY <1>3 DEF ClearFinish, ClearRelease, local, remote, history
  <2>2. \A s \in Threads \ {t} : pc'[s] = pc[s]
    BY <1>3 DEF ClearFinish, ClearRelease
  <2>3. pc[t] = "finish" \/ pc'[t] # "finish"
    BY <1>1, <1>3 DEF ClearFinish, ClearRelease
  <2> QED
    BY <1>1, <2>1, <2>2, <2>3, QuietPromise
<1>4. CASE ClearDeferred(t) \/ ClearDiscard(t)
  <2>1. /\ UNCHANGED <<ext, todo, owed, crossed, quiet>>
        /\ pending' \in {pending, pending \ {book[t]}}
        /\ book' = [book EXCEPT ![t] = NoBook] /\ pc' = [pc EXCEPT ![t] = "idle"]
    BY <1>4 DEF ClearDeferred, ClearDiscard, EndClear, remote, history
  <2>2. \A d \in Books : ~OpenAt(t, d)'
    BY <1>1, <2>1, EngineAssumption
  <2>3. \A d \in Books \ {book[t]} : ~OpenAt(t, d)
    BY <1>1
  <2> QED
    BY <1>1, <2>1, <2>2, <2>3, QuietPromise
<1> QED
  BY <1>2, <1>3, <1>4 DEF ClearStep

\* The reset of a book with an open clear is the promised one.
LEMMA ResetPromise ==
  ASSUME TypeInv, NEW t \in Threads, NEW b \in Books, ResetClients(b), UNCHANGED pending,
         pc' = [pc EXCEPT ![t] = "finish"], book' = [book EXCEPT ![t] = b], OpenAt(t, b),
         \A s \in Threads : todo'[s] = todo[s] \/ (s = t /\ s \in Deferring /\ todo'[s] = todo[s] \ {b}),
         pc[t] # "finish", \A d \in Books \ {b} : ~(book[t] = d /\ t \in Clears),
         t \in Cyclers <=> t \in Deferring
  PROVE  [Promise!Next]_(Promise!vars)
<1>1. PICK F \in Failing(ActiveClients(b)) :
         /\ Store(ext, cache, b, ActiveClients(b) \ F, 0)
         /\ quiet' = [quiet EXCEPT ![b] = ActiveClients(b) \ F]
  BY DEF ResetClients
<1> DEFINE S == ActiveClients(b) \ F
<1>2. ext' = [ext EXCEPT ![b] = [c \in Clients |-> IF c \in S THEN 0 ELSE @[c]]]
  BY <1>1 DEF Store, TypeInv, TypeOK
<1>3. owed' \ crossed' = (owed \ crossed) \ {b}
  BY DEF ResetClients
<1>4. ASSUME NEW d \in Books
      PROVE  /\ d \in Open <=> d \in Open'
             /\ b \in Open
  <2>1. \A s \in Threads \ {t} : OpenAt(s, d)' <=> OpenAt(s, d)
    BY DEF OpenAt, Deferring, TypeInv, TypeOK
  <2>2. OpenAt(t, b)'
    BY DEF OpenAt, TypeInv, TypeOK
  <2>3. d # b => (OpenAt(t, d)' <=> OpenAt(t, d))
    BY DEF OpenAt, Deferring, TypeInv, TypeOK
  <2> QED
    BY <2>1, <2>2, <2>3, OpenThreads
<1>5. Open' = Open
  BY <1>4 DEF Open
<1>6. S \in SUBSET ActiveClients(b) /\ quiet' = [quiet EXCEPT ![b] = S]
  BY <1>1
<1> HIDE DEF S
<1>7. Promise!Reset(b, S)
  BY <1>2, <1>3, <1>4, <1>5, <1>6 DEF Promise!Reset
<1> QED
  BY <1>4, <1>6, <1>7 DEF Promise!Next

\* A push moves a service that takes part in a book which is not cleared, or it leaves
\* every service where it is.
LEMMA PushPromise ==
  ASSUME EngineInv, Tidy, Marked', NEW t \in Cyclers, NEW c \in Clients, Push(t, c)
  PROVE  [Promise!Next]_(Promise!vars)
<1> DEFINE b == book[t]
           p == goal[t][c]
<1>1. t \in Threads /\ b \in Books /\ c \in ActiveClients(b) /\ p \in Pos
  BY DEF Cyclers, Threads, Push, Tidy, EngineInv, TypeInv, TypeOK, HasBook, AtWork, MaybePos
<1>2. ext' = ext \/ ext' = [ext EXCEPT ![b][c] = p]
  BY <1>1 DEF Push, Store, remote, EngineInv, TypeInv, TypeOK
<1>3. UNCHANGED quiet
  BY DEF Push, history
<1>4. CASE ext' = ext
  <2>1. ~\E d \in Books : DeferredReset(t, d)
    BY DEF Push, DeferredReset
  <2> QED
    BY <1>3, <1>4, <2>1, CyclerPromise DEF CycleStep, EngineInv
<1>5. CASE ext' = [ext EXCEPT ![b][c] = p] /\ ext' # ext
  <2>1. ~Settled(b)
    <3> SUFFICES ASSUME Settled(b) PROVE FALSE
      OBVIOUS
    <3>1. p = 0 /\ ext[b][c] = 0
      BY <1>1 DEF Push, EngineInv, QuietInv, Absent
    <3> QED
      BY <1>1, <1>5, <3>1 DEF EngineInv, TypeInv, TypeOK
  <2>2. UNCHANGED <<pc, pending, todo, book, owed, crossed>>
    BY DEF Push, history
  <2>3. Open' = Open
    BY <2>2 DEF Open, Crossing, Deferring
  <2>4. Promise!Follow(b, c, p)
    BY <1>1, <1>3, <1>5, <2>1, <2>2, <2>3 DEF Promise!Follow, Promise!Cleared, Settled
  <2> QED
    BY <1>1, <2>4 DEF Promise!Next
<1> QED
  BY <1>2, <1>4, <1>5

\* A request opens a clear, or joins the one that is open.
LEMMA StartPromise ==
  ASSUME TypeInv, Tidy, NEW t \in Clears, NEW b \in Books, ClearStart(t, b)
  PROVE  [Promise!Next]_(Promise!vars)
<1>1. t \in Threads /\ t \notin Cyclers /\ book[t] = NoBook
  BY EngineAssumption DEF Cyclers, Threads, ClearStart, Tidy
<1>2. /\ pending' = pending \cup {b} /\ book' = [book EXCEPT ![t] = b]
      /\ pc' = [pc EXCEPT ![t] = "local"] /\ pc[t] = "idle" /\ UNCHANGED <<ext, quiet, todo>>
      /\ owed' = owed \cup {b}
      /\ crossed' = IF Crossing(b) THEN crossed \cup {b} ELSE crossed \ {b}
  BY DEF ClearStart, Goto, remote
<1>3. ASSUME NEW d \in Books
      PROVE  d \in Open' <=> d \in Open \/ d = b
  <2>1. \A s \in Threads \ {t} : OpenAt(s, d)' <=> OpenAt(s, d)
    BY <1>2 DEF OpenAt, Deferring, TypeInv, TypeOK
  <2>2. ~OpenAt(t, d)
    BY <1>1, <1>2, EngineAssumption DEF OpenAt, Deferring
  <2>3. OpenAt(t, d)' <=> d = b
    BY <1>1, <1>2 DEF OpenAt, Deferring, TypeInv, TypeOK
  <2> QED
    BY <1>1, <1>2, <2>1, <2>2, <2>3, OpenThreads
<1>4. Open' = Open \cup {b}
  BY <1>3 DEF Open
<1>5. CASE Crossing(b)
  <2>1. b \in Open
    BY <1>5 DEF Open
  <2>2. owed' \ crossed' = (owed \ crossed) \ {b}
    BY <1>2, <1>5
  <2>3. Promise!Join(b)
    BY <1>2, <1>4, <2>1, <2>2 DEF Promise!Join
  <2> QED
    BY <2>1, <2>3 DEF Promise!Next
<1>6. CASE ~Crossing(b)
  <2>1. owed' \ crossed' = (owed \ crossed) \cup {b}
    BY <1>2, <1>6
  <2>2. Promise!Ask(b)
    BY <1>2, <1>4, <2>1 DEF Promise!Ask
  <2> QED
    BY <2>2 DEF Promise!Next
<1> QED
  BY <1>5, <1>6

LEMMA FailPromise ==
  ASSUME TypeInv, NEW t \in Clears, ClearFails(t)
  PROVE  [Promise!Next]_(Promise!vars)
<1> DEFINE b == book[t]
<1>1. t \in Threads /\ t \notin Cyclers /\ b \in Books
  BY EngineAssumption DEF Cyclers, Threads, ClearFails, TypeInv, HasBook, AtWork
<1>2. /\ pending' = pending \ {b} /\ book' = [book EXCEPT ![t] = NoBook]
      /\ pc' = [pc EXCEPT ![t] = "idle"] /\ UNCHANGED <<ext, quiet, todo>>
      /\ owed' \ crossed' = (owed \ crossed) \ {b}
  BY DEF ClearFails, EndClear, Goto, remote
<1>3. b \in Open
  BY <1>1 DEF Open, Crossing
<1>4. ASSUME NEW d \in Books, d # b
      PROVE  d \in Open' <=> d \in Open
  <2>1. \A s \in Threads \ {t} : OpenAt(s, d)' <=> OpenAt(s, d)
    BY <1>2 DEF OpenAt, Deferring, TypeInv, TypeOK
  <2>2. ~OpenAt(t, d) /\ ~OpenAt(t, d)'
    BY <1>1, <1>2, <1>4, EngineAssumption DEF OpenAt, Deferring, TypeInv, TypeOK
  <2> QED
    BY <1>2, <1>4, <2>1, <2>2, OpenThreads
<1>5. Open' = Open \/ Open' = Open \ {b}
  BY <1>3, <1>4 DEF Open
<1>6. Promise!Refuse(b)
  BY <1>2, <1>5 DEF Promise!Refuse
<1> QED
  BY <1>3, <1>6 DEF Promise!Next

LEMMA RestPromise ==
  ASSUME TypeInv, Marked', Environment \/ UNCHANGED vars, Tidy
  PROVE  [Promise!Next]_(Promise!vars)
<1>1. CASE \E t \in Instants, b \in Books : InstantStart(t, b)
  <2> PICK t \in Instants, b \in Books : InstantStart(t, b)
    BY <1>1
  <2>1. t \in Threads /\ t \notin Clears
    BY EngineAssumption DEF Threads
  <2> QED
    BY <2>1, QuietPromise DEF InstantStart, Goto, TypeInv, TypeOK, OpenAt, Deferring, remote, history
<1>2. CASE \E t \in Clears, b \in Books : ClearStart(t, b)
  BY <1>2, StartPromise
<1>3. CASE \E b \in Books, c \in Clients, p \in Pos : ReaderMoves(b, c, p)
  <2> PICK b \in Books, c \in Clients, p \in Pos : ReaderMoves(b, c, p)
    BY <1>3
  <2>1. /\ UNCHANGED <<pc, pending, todo, book, owed, crossed>>
        /\ ext' = [ext EXCEPT ![b][c] = p] /\ quiet' = [quiet EXCEPT ![b] = {}]
    BY DEF ReaderMoves, local
  <2>2. Open' = Open
    BY <2>1 DEF Open, Crossing, Deferring
  <2>3. Promise!Read(b, c, p)
    BY <2>1, <2>2 DEF Promise!Read
  <2> QED
    BY <2>3 DEF Promise!Next
<1>4. CASE \/ \E b \in Books, s \in Statuses : UserSetsStatus(b, s)
           \/ ScanStart \/ ScanInstall \/ ScanAtOnce \/ UNCHANGED vars
  <2>1. UNCHANGED <<pc, pending, todo, book, owed, crossed, ext, quiet>>
    BY <1>4 DEF UserSetsStatus, ScanStart, ScanInstall, ScanAtOnce, vars, local, remote, history
  <2>2. Open' = Open
    BY <2>1 DEF Open, Crossing, Deferring
  <2> QED
    BY <2>1, <2>2 DEF Promise!vars
<1>5. CASE Restart
  <2>1. /\ pending' = {} /\ crossed' = owed /\ UNCHANGED <<ext, quiet, owed>>
        /\ \A t \in Threads : pc'[t] = "idle" /\ book'[t] = NoBook
    BY <1>5 DEF Restart
  <2>2. Open' = {}
    <3>1. \A b \in Books, t \in Threads : ~OpenAt(t, b)'
      BY <2>1, EngineAssumption DEF OpenAt, Deferring
    <3> QED
      BY <2>1, <3>1, OpenThreads DEF Open
  <2>3. owed' \ crossed' = {}
    BY <2>1
  <2>4. Promise!Lose
    BY <2>1, <2>2, <2>3 DEF Promise!Lose
  <2> QED
    BY <2>4 DEF Promise!Next
<1> QED
  BY <1>1, <1>2, <1>3, <1>4, <1>5 DEF Environment

LEMMA PromiseStep ==
  ASSUME EngineInv, Tidy, Marked', [Next]_vars
  PROVE  [Promise!Next]_(Promise!vars)
<1>1. ASSUME NEW t \in Cyclers, DaemonStart(t) \/ CycleStep(t)
      PROVE  [Promise!Next]_(Promise!vars)
  <2>1. CASE \E c \in Clients : Push(t, c)
    BY <2>1, PushPromise
  <2>2. CASE \E b \in Books : DeferredReset(t, b)
    <3> PICK b \in Books : DeferredReset(t, b)
      BY <2>2
    <3>1. /\ t \in Threads /\ t \notin Clears /\ t \in Deferring /\ OpenAt(t, b)
          /\ pc[t] = "deferred"
      BY EngineAssumption DEF Cyclers, Threads, DeferredReset, OpenAt, Deferring
    <3>2. todo' = [todo EXCEPT ![t] = todo[t] \ {b}] /\ todo \in [Threads -> SUBSET Books]
      BY DEF DeferredReset, EngineInv, TypeInv, TypeOK
    <3>3. \A s \in Threads :
             todo'[s] = todo[s] \/ (s = t /\ s \in Deferring /\ todo'[s] = todo[s] \ {b})
      BY <3>1, <3>2
    <3>4. /\ ResetClients(b) /\ UNCHANGED pending /\ book' = [book EXCEPT ![t] = b]
          /\ pc' = [pc EXCEPT ![t] = "finish"] /\ TypeInv
      BY DEF DeferredReset, Goto, EngineInv
    <3> QED
      BY <3>1, <3>3, <3>4, ResetPromise
  <2>3. CASE ~(\E c \in Clients : Push(t, c)) /\ ~\E b \in Books : DeferredReset(t, b)
    <3>1. UNCHANGED <<ext, quiet>>
      <4>1. CASE FetchAndLead(t)
        BY <4>1 DEF FetchAndLead, remote, history
      <4>2. CASE ~FetchAndLead(t)
        BY <1>1, <2>3, <4>2 DEF DaemonStart, CycleStep, InstantAcquire, InstantTimeout, DiscoverScan,
           DiscoverDone, DiscoverFails, Prepare, CycleFails, DiscoverPromote, SkipBook, VisitBook,
           FetchNothing, RecordStates, LoopDone, CycleEnd, DeferredFails, DeferredFinish,
           DeferredUnfinished, remote, history
      <4> QED
        BY <4>1, <4>2
    <3> QED
      BY <1>1, <2>3, <3>1, CyclerPromise DEF EngineInv
  <2> QED
    BY <2>1, <2>2, <2>3
<1>2. ASSUME NEW t \in Clears, ClearStep(t)
      PROVE  [Promise!Next]_(Promise!vars)
  <2>1. CASE ClearReset(t)
    <3>1. /\ t \in Threads /\ t \notin Cyclers /\ book[t] \in Books /\ OpenAt(t, book[t])
          /\ t \notin Deferring
      BY <2>1, EngineAssumption
         DEF Cyclers, Threads, ClearReset, EngineInv, TypeInv, HasBook, AtWork, OpenAt, Deferring
    <3>2. book' = [book EXCEPT ![t] = book[t]] /\ UNCHANGED <<pending, todo>> /\ pc[t] = "reset"
      BY <2>1 DEF ClearReset, local, EngineInv, TypeInv, TypeOK
    <3>3. /\ ResetClients(book[t]) /\ pc' = [pc EXCEPT ![t] = "finish"] /\ TypeInv
      BY <2>1 DEF ClearReset, Goto, EngineInv
    <3>4. \A s \in Threads :
             todo'[s] = todo[s] \/ (s = t /\ s \in Deferring /\ todo'[s] = todo[s] \ {book[t]})
      BY <3>2
    <3>5. \A d \in Books \ {book[t]} : ~(book[t] = d /\ t \in Clears)
      OBVIOUS
    <3> QED
      BY <3>1, <3>2, <3>3, <3>4, <3>5, ResetPromise
  <2>2. CASE ClearFails(t)
    BY <2>2, FailPromise DEF EngineInv
  <2> QED
    BY <1>2, <2>1, <2>2, RequestPromise DEF EngineInv
<1>3. CASE Environment \/ UNCHANGED vars
  BY <1>3, RestPromise DEF EngineInv
<1> QED
  BY <1>1, <1>2, <1>3 DEF Next

\* Requests, cycles, readers, failures and restarts together keep the promise of a
\* clear, as long as library scans neither overlap a write to Grimmory nor fail right
\* after a restart: the services of a book are taken back only while a clear of it is
\* open, it is not closed before that, and no cycle moves them afterwards.
THEOREM PromiseKeptCorrect ==
  ASSUME ~ScanRaces, ~StaleStart
  PROVE  Spec => PromiseKept
<1>1. Init => EngineInv /\ Marked /\ Tidy
  BY TypeInit, LockInit, QuietInit, TidyInit DEF EngineInv, Init, Marked
<1>2. EngineInv /\ Marked /\ Tidy /\ [Next]_vars => (EngineInv /\ Marked /\ Tidy)'
  BY TypeStep, LockStep, QuietStep, MarkedStep, TidyStep DEF EngineInv, TypeInv
<1>3. Init => Promise!Init
  <2> SUFFICES ASSUME Init PROVE Promise!Init
    OBVIOUS
  <2>1. ext \in [Books -> [Clients -> Pos]] /\ quiet = [b \in Books |-> {}] /\ owed = {}
    BY TypeInit DEF Init, TypeInv, TypeOK
  <2>2. \A b \in Books, t \in Threads : ~OpenAt(t, b)
    BY EngineAssumption DEF Init, OpenAt, Deferring, Threads
  <2>3. Open = {}
    BY <2>2, OpenThreads DEF Init, Open
  <2> QED
    BY <2>1, <2>3 DEF Promise!Init
<1>4. EngineInv /\ Tidy /\ Marked' /\ [Next]_vars => [Promise!Next]_(Promise!vars)
  BY PromiseStep
<1> QED
  BY <1>1, <1>2, <1>3, <1>4, PTL DEF Spec, PromiseKept, Promise!Spec

(***************************************************************************)
(* Who leads.  Only the clients with a significant delta are candidates    *)
(* when there is one, and of the candidates the furthest leads, on the     *)
(* common axis or by percentage.                                           *)
(***************************************************************************)
LEMMA LeadersMoved ==
  ASSUME NEW config, NEW eligible, NEW duration, NEW norm,
         NEW c \in DOMAIN config \cap eligible,
         \A d \in DOMAIN config \cap eligible :
             HasSignificantDelta(config[d], duration) <=> d = c,
         config[c].pct \in Int, c \in DOMAIN norm => norm[c] \in Int
  PROVE  Leaders(config, eligible, duration, norm) = {c}
<1>1. Candidates(config, eligible, duration) = {c}
  BY DEF Candidates
<1> QED
  BY <1>1 DEF Leaders, ArgMax

\* A leader without a significant delta is the furthest of all that may lead, among
\* those that were compared.
LEMMA LeaderUnmoved ==
  ASSUME NEW config, NEW eligible, NEW duration, NEW norm,
         NEW l \in Leaders(config, eligible, duration, norm),
         ~HasSignificantDelta(config[l], duration),
         NEW c \in DOMAIN config \cap eligible
  PROVE  \/ config[c].pct <= config[l].pct
         \/ l \in DOMAIN norm /\ c \in DOMAIN norm /\ norm[c] <= norm[l]
         \/ c \notin DOMAIN norm /\ \E d, e \in DOMAIN norm : d # e
<1> DEFINE cand == Candidates(config, eligible, duration)
<1>1. cand = DOMAIN config \cap eligible
  BY DEF Leaders, Candidates, ArgMax
<1>2. CASE cand \cap DOMAIN norm # {} /\ \E d, e \in DOMAIN norm : d # e
  BY <1>1, <1>2 DEF Leaders, ArgMax
<1>3. CASE ~(cand \cap DOMAIN norm # {} /\ \E d, e \in DOMAIN norm : d # e)
  BY <1>1, <1>3 DEF Leaders, ArgMax
<1> QED
  BY <1>2, <1>3

\* The percentages of places are numbers, one for each place.
LEMMA PctType ==
  ASSUME NEW c \in Clients, NEW p \in Pos
  PROVE  Pct[c][p] \in Nat /\ Pct[c][0] = 0 /\ (p # 0 => Pct[c][p] > 0)
<1>1. Pct[c][p] \in 0 .. Unit /\ Pct[c][0] = 0 /\ 0 \in Pos
  BY EngineAssumption DEF Pos
<1>2. p # 0 => Pct[c][0] < Pct[c][p]
  <2>1. p # 0 => 0 < p
    BY DEF Pos
  <2> QED
    BY <1>1, <2>1, EngineAssumption
<1>3. Pct[c][p] \in Nat
  BY <1>1
<1> QED
  BY <1>1, <1>2, <1>3

\* What the decision reads of a client.  One that stands where its row says, and one
\* that fell back to the start, has no significant delta.
LEMMA ServiceStateFacts ==
  ASSUME NEW isAbs, NEW pct \in Nat, NEW prev \in Nat
  PROVE  LET s == ServiceState(isAbs, pct, prev, Duration)
         IN  /\ s.pct = pct /\ s.delta \in Nat /\ s.threshold \in Nat /\ s.threshold > 5
             /\ pct = prev \/ (pct = 0 /\ prev > 100) => ~HasSignificantDelta(s, Duration)
             /\ s.delta > 5 /\ pct >= 10 => HasSignificantDelta(s, Duration)
<1> DEFINE s == ServiceState(isAbs, pct, prev, Duration)
<1>1. Duration \in Nat
  BY EngineAssumption
<1>2. Gap(pct, prev) \in Nat /\ (pct = prev => Gap(pct, prev) = 0)
  BY DEF Gap
<1>3. Gap(pct, prev) * Duration \in Nat
  BY <1>1, <1>2
<1>4. pct = prev => Gap(pct, prev) * Duration = 0
  BY <1>1, <1>2
<1>5. s.pct = pct /\ s.prev = prev
  BY DEF ServiceState
<1>6. s.delta \in Nat /\ (pct = prev => s.delta = 0)
  <2>1. s.delta \in {Gap(pct, prev), 0, Gap(pct, prev) * Duration}
    BY DEF ServiceState
  <2>2. pct = prev => s.delta = 0
    BY <1>2, <1>4, <2>1
  <2> QED
    BY <1>2, <1>3, <2>1, <2>2
<1>7. s.threshold \in Nat /\ s.threshold > 5
  <2>1. s.threshold \in {60 * Unit, Unit \div 100}
    BY DEF ServiceState
  <2> QED
    BY <2>1 DEF Unit
<1> HIDE DEF s
<1>8. pct = prev \/ (pct = 0 /\ prev > 100) => ~HasSignificantDelta(s, Duration)
  <2>1. pct = prev => s.delta * Duration = 0
    BY <1>1, <1>6
  <2> QED
    BY <1>5, <1>6, <2>1 DEF HasSignificantDelta, JumpedToZero, Unit
<1>9. s.delta > 5 /\ pct >= 10 => HasSignificantDelta(s, Duration)
  BY <1>5 DEF HasSignificantDelta, JumpedToZero
<1> QED
  BY <1>5, <1>6, <1>7, <1>8, <1>9 DEF s

LEMMA ConfigAt ==
  ASSUME TypeOK, NEW t \in Threads, NEW b \in Books, NEW view \in Views(t, b),
         NEW c \in DOMAIN view
  PROVE  LET s    == Config(b, view)[c]
             pct  == Pct[c][view[c]]
             prev == Pct[c][states[b][c]]
         IN  /\ c \in DOMAIN Config(b, view) /\ view[c] \in Pos
             /\ pct \in Nat /\ (view[c] = 0 => pct = 0) /\ (view[c] # 0 => pct > 0)
             /\ s.pct = pct /\ s.delta \in Nat /\ s.threshold \in Nat /\ s.threshold > 5
             /\ view[c] = states[b][c] \/ (pct = 0 /\ prev > 100)
                => ~HasSignificantDelta(s, Duration)
             /\ s.delta > 5 /\ pct >= 10 => HasSignificantDelta(s, Duration)
<1>1. c \in Clients /\ view[c] \in Pos /\ states[b][c] \in Pos
  BY ViewsType DEF ActiveClients, TypeOK
<1>2. /\ Pct[c][view[c]] \in Nat /\ Pct[c][states[b][c]] \in Nat
      /\ Pct[c][0] = 0 /\ (view[c] # 0 => Pct[c][view[c]] > 0)
  BY <1>1, PctType
<1>3. /\ c \in DOMAIN Config(b, view)
      /\ Config(b, view)[c] = ServiceState(c = Abs, Pct[c][view[c]], Pct[c][states[b][c]], Duration)
  BY DEF Config
<1>4. view[c] = states[b][c] => Pct[c][view[c]] = Pct[c][states[b][c]]
  OBVIOUS
<1> QED
  BY <1>1, <1>2, <1>3, <1>4, ServiceStateFacts

\* The places a normalisation compares are those that were answered.
LEMMA NormalisedType ==
  ASSUME NEW b, NEW view, NEW norm \in Normalised(b, view), NEW c \in DOMAIN norm
  PROVE  c \in DOMAIN view /\ norm[c] = view[c]
BY DEF Normalised

LEMMA MoverLeadsTyped == TypeInv => MoverLeads
<1> SUFFICES ASSUME TypeInv, NEW t \in Choosing, NEW view \in Views(t, book[t]),
                    NEW c \in Leading \cap DOMAIN view,
                    Config(book[t], view)[c].delta >= Config(book[t], view)[c].threshold,
                    Config(book[t], view)[c].pct >= 10,
                    \A d \in DOMAIN view \ {c} : view[d] = states[book[t]][d]
             PROVE  /\ EvaluateSyncSignificance(Config(book[t], view), Between)
                    /\ \A norm \in Normalised(book[t], view) :
                          Leaders(Config(book[t], view), Leading, Duration, norm) = {c}
  BY DEF MoverLeads
<1> DEFINE b == book[t]
           config == Config(b, view)
           s == config[c]
<1>1. t \in Threads /\ b \in Books /\ TypeOK
  BY DEF Choosing, Cyclers, Threads, TypeInv, HasBook, AtWork
<1>2. /\ s.delta > 5 /\ s.delta # 0 /\ HasSignificantDelta(s, Duration)
      /\ s.pct \in Int /\ c \in DOMAIN config
  BY <1>1, ConfigAt
<1>3. \A d \in DOMAIN view \ {c} : ~HasSignificantDelta(config[d], Duration)
  BY <1>1, ConfigAt
<1>4. EvaluateSyncSignificance(config, Between)
  BY <1>2 DEF EvaluateSyncSignificance
<1>5. ASSUME NEW norm \in Normalised(b, view)
      PROVE  Leaders(config, Leading, Duration, norm) = {c}
  <2>1. c \in DOMAIN norm => norm[c] \in Int
    BY <1>1, NormalisedType, ConfigAt DEF Pos
  <2>2. DOMAIN config = DOMAIN view
    BY DEF Config
  <2> HIDE DEF config, b
  <2> QED
    BY <1>2, <1>3, <2>1, <2>2, LeadersMoved
<1> QED
  BY <1>4, <1>5

LEMMA ZeroFollowsTyped == TypeInv => ZeroFollows
<1> SUFFICES ASSUME TypeInv, NEW t \in Choosing, NEW view \in Views(t, book[t]),
                    NEW norm \in Normalised(book[t], view),
                    NEW l \in Leaders(Config(book[t], view), Leading, Duration, norm),
                    view[l] = 0, states[book[t]][l] = 0 \/ Pct[l][states[book[t]][l]] > 100,
                    NEW c \in Leading \cap DOMAIN view, view[c] # 0
             PROVE  c \notin DOMAIN norm /\ \E d, e \in DOMAIN norm : d # e
  BY DEF ZeroFollows
<1> DEFINE b == book[t]
           config == Config(b, view)
<1>1. t \in Threads /\ b \in Books /\ TypeOK
  BY DEF Choosing, Cyclers, Threads, TypeInv, HasBook, AtWork
<1>2. l \in DOMAIN view /\ DOMAIN config = DOMAIN view
  BY LeaderAnswered DEF Config
<1>3. ~HasSignificantDelta(config[l], Duration) /\ config[l].pct = 0
  <2>1. view[l] = 0 => Pct[l][view[l]] = 0
    BY <1>1, <1>2, ConfigAt
  <2> QED
    BY <1>1, <1>2, <2>1, ConfigAt
<1>4. ~(config[c].pct <= config[l].pct)
  BY <1>1, <1>3, ConfigAt
<1>5. ~(l \in DOMAIN norm /\ c \in DOMAIN norm /\ norm[c] <= norm[l])
  <2>1. view[c] \in Pos /\ view[c] > 0
    BY <1>1, ConfigAt DEF Pos
  <2> QED
    BY <2>1, NormalisedType DEF Pos
<1>6. l \in Leaders(config, Leading, Duration, norm)
  OBVIOUS
<1> HIDE DEF config, b
<1> QED
  BY <1>2, <1>3, <1>4, <1>5, <1>6, LeaderUnmoved

\* Who leads is who read, for any places, percentages, thresholds between the clients,
\* failures of services and lookups, and pre-fetched positions: the client that alone
\* moved is followed, and one at the start that is new or was reset does not take the
\* others there.
THEOREM WhoLeadsCorrect == Spec => []WhoLeads
<1>1. TypeInv => WhoLeads
  BY MoverLeadsTyped, ZeroFollowsTyped DEF WhoLeads
<1> QED
  BY <1>1, TypeInit, TypeStep, PTL DEF Spec

(***************************************************************************)
(* The axis on which the cycle compares the clients.  SyncEngine takes the *)
(* order of the normalised times for the order of the places; this is what *)
(* justifies it: AlignmentService's two lookups, for any alignment map.    *)
(* The constants have the values of the code; those of the anchors do not  *)
(* matter here.                                                            *)
(***************************************************************************)

Lookup == INSTANCE Alignment
          WITH LongGram <- 12, ShortGram <- 6, LateChar <- 1000, LateTime <- 30,
               SentinelRate <- 1000, None <- -1

\* A quotient is rounded down.
LEMMA RoundedDown ==
  ASSUME NEW m \in Nat, NEW k \in Nat, k > 0
  PROVE  m \div k \in Nat /\ k * (m \div k) <= m /\ m < k * (m \div k) + k
OBVIOUS

\* A product grows with its factor.
LEMMA Scaled ==
  ASSUME NEW i \in Nat, NEW j \in Nat, NEW k \in Nat, i <= j
  PROVE  k * i \in Nat /\ k * j \in Nat /\ k * i <= k * j
<1>1. k * j = k * i + k * (j - i)
  OBVIOUS
<1>2. j - i \in Nat /\ k * (j - i) \in Nat /\ k * i \in Nat
  OBVIOUS
<1> QED
  BY <1>1, <1>2

\* Between two points the time grows with the character.
LEMMA Interpolated ==
  ASSUME NEW a \in Nat, NEW b \in Nat, b > 0, NEW x \in Nat, NEW y \in Nat, x <= y, y <= b
  PROVE  /\ (a * x) \div b \in Nat /\ (a * y) \div b \in Nat
         /\ (a * x) \div b <= (a * y) \div b /\ (a * y) \div b <= a
<1> DEFINE p == (a * x) \div b
           q == (a * y) \div b
<1>1. a * x \in Nat /\ a * y \in Nat /\ a * x <= a * y /\ a * b \in Nat /\ a * y <= a * b
  BY Scaled
<1>2. p \in Nat /\ b * p <= a * x /\ q \in Nat /\ b * q <= a * y /\ a * y < b * q + b
  BY <1>1, RoundedDown
<1> HIDE DEF p, q
<1>3. p <= q
  <2> SUFFICES ASSUME q + 1 <= p PROVE FALSE
    BY <1>2
  <2>1. b * (q + 1) <= b * p
    BY <1>2, Scaled
  <2>2. b * (q + 1) = b * q + b /\ b * q \in Nat /\ b * p \in Nat
    BY <1>2
  <2> QED
    BY <1>1, <1>2, <2>1, <2>2
<1>4. q <= a
  <2> SUFFICES ASSUME a + 1 <= q PROVE FALSE
    BY <1>2
  <2>1. b * (a + 1) <= b * q
    BY <1>2, Scaled
  <2>2. b * (a + 1) = a * b + b /\ b * q \in Nat
    BY <1>2
  <2> QED
    BY <1>1, <1>2, <2>1, <2>2
<1> QED
  BY <1>2, <1>3, <1>4 DEF p, q

\* The largest index of a set of them is there.
LEMMA LargestIndex ==
  ASSUME NEW n \in Nat, NEW S \in SUBSET (1 .. n), S # {}
  PROVE  Lookup!Max(S) \in S /\ \A i \in S : i <= Lookup!Max(S)
<1> DEFINE T == {n - i : i \in S}
<1>1. T \subseteq Nat /\ T # {}
  <2>1. \A i \in S : n - i \in Nat
    OBVIOUS
  <2> QED
    BY <2>1
<1> HIDE DEF T
<1>2. PICK x \in T : \A y \in T : ~(<<y, x>> \in OpToRel(<, Nat))
  BY <1>1, NatLessThanWellFounded, WFMin
<1>3. \A y \in T : ~(y < x)
  BY <1>1, <1>2 DEF OpToRel
<1>4. PICK m \in S : x = n - m
  BY DEF T
<1>5. \A i \in S : n - i \in T /\ i \in Nat /\ i <= n
  BY DEF T
<1>6. \A i \in S : m >= i
  BY <1>3, <1>4, <1>5
<1>7. Lookup!Max(S) \in S /\ \A i \in S : Lookup!Max(S) >= i
  BY <1>4, <1>6 DEF Lookup!Max
<1> QED
  BY <1>5, <1>7

(***************************************************************************)
(* A map that grows: it has a point, each is further in the text than the  *)
(* one before and not earlier in the audio.                                *)
(***************************************************************************)
Growing(points) ==
    /\ points \in Seq([char : Nat, ts : Nat]) /\ points # <<>>
    /\ \A i, j \in 1 .. Len(points) :
           i < j => points[i].char < points[j].char /\ points[i].ts <= points[j].ts

\* The index of the last point of the text at or before a character.
PointAt(points, char) ==
    Lookup!Max({i \in DOMAIN points : points[i].char =< char} \cup {1})

\* The points of a map that grows are points.
LEMMA GrowingType ==
  ASSUME NEW points, Growing(points)
  PROVE  /\ Len(points) \in Nat /\ Len(points) >= 1 /\ DOMAIN points = 1 .. Len(points)
         /\ \A i \in 1 .. Len(points) : points[i].char \in Nat /\ points[i].ts \in Nat
<1>1. points \in Seq([char : Nat, ts : Nat]) /\ points # <<>>
  BY DEF Growing
<1>2. Len(points) \in Nat /\ DOMAIN points = 1 .. Len(points) /\ Len(points) # 0
  BY <1>1
<1>3. ASSUME NEW i \in 1 .. Len(points)
      PROVE  points[i].char \in Nat /\ points[i].ts \in Nat
  <2>1. points[i] \in [char : Nat, ts : Nat]
    BY <1>1, ElementOfSeq
  <2> QED
    BY <2>1
<1> QED
  BY <1>2, <1>3

\* The character lies behind its point and before the next one.
LEMMA PointAtType ==
  ASSUME NEW points, Growing(points), NEW c \in Nat, points[1].char <= c,
         NEW f, f = PointAt(points, c)
  PROVE  /\ f \in 1 .. Len(points) /\ points[f].char <= c
         /\ \A i \in 1 .. Len(points) : points[i].char <= c => i <= f
         /\ f < Len(points) =>
               /\ f + 1 \in 1 .. Len(points) /\ c < points[f + 1].char
               /\ points[f].char < points[f + 1].char /\ points[f].ts <= points[f + 1].ts
<1> DEFINE n == Len(points)
           S == {i \in DOMAIN points : points[i].char =< c} \cup {1}
<1>1. n \in Nat /\ n >= 1 /\ DOMAIN points = 1 .. n
  BY GrowingType
<1>2. S \in SUBSET (1 .. n) /\ S # {} /\ \A i \in S : points[i].char <= c
  BY <1>1
<1>3. f \in S /\ \A i \in S : i <= f
  BY <1>1, <1>2, LargestIndex DEF PointAt
<1>4. f \in 1 .. n /\ points[f].char <= c
  BY <1>2, <1>3
<1>5. \A i \in 1 .. n : points[i].char <= c => i <= f
  BY <1>1, <1>3
<1>6. ASSUME f < n
      PROVE  /\ f + 1 \in 1 .. n /\ c < points[f + 1].char
             /\ points[f].char < points[f + 1].char /\ points[f].ts <= points[f + 1].ts
  <2>1. f + 1 \in 1 .. n /\ ~(f + 1 <= f) /\ f < f + 1
    BY <1>1, <1>4, <1>6
  <2>2. points[f + 1].char \in Nat
    BY <2>1, GrowingType
  <2>3. c < points[f + 1].char
    BY <1>5, <2>1, <2>2
  <2> QED
    BY <1>4, <2>1, <2>3 DEF Growing
<1> QED
  BY <1>4, <1>5, <1>6

\* t is as far from point f to the next as c is.
AsFar(points, f, c, t) ==
    LET a == points[f + 1].ts - points[f].ts
        b == points[f + 1].char - points[f].char
        x == c - points[f].char
    IN  /\ a \in Nat /\ b \in Nat /\ x \in Nat /\ x < b
        /\ t = points[f].ts + (a * x) \div b /\ t <= points[f + 1].ts

\* The time of a character that has one lies between the points around it, as far as
\* the character does.
LEMMA TimeBetween ==
  ASSUME NEW points, Growing(points), NEW c \in Nat, points[1].char <= c,
         NEW f, f = PointAt(points, c),
         NEW t, t = Lookup!TimeForText(points, c), t # -1
  PROVE  /\ t \in Nat /\ points[f].ts <= t
         /\ f = Len(points) => t = points[f].ts
         /\ f < Len(points) => AsFar(points, f, c, t)
<1> DEFINE n == Len(points)
<1>1. /\ n \in Nat /\ f \in 1 .. n /\ points[f].char <= c
      /\ f < n => f + 1 \in 1 .. n /\ c < points[f + 1].char
  BY GrowingType, PointAtType
<1>2. points[f].ts \in Nat /\ points[f].char \in Nat /\ points[1].char \in Nat
  BY <1>1, GrowingType
<1>3. ~(c < points[1].char)
  BY <1>2
<1>4. t = IF f = n \/ points[f + 1].char = points[f].char THEN points[f].ts
          ELSE points[f].ts + ((points[f + 1].ts - points[f].ts) * (c - points[f].char))
                              \div (points[f + 1].char - points[f].char)
  BY <1>3 DEF Lookup!TimeForText, PointAt
<1>5. CASE f = n
  BY <1>1, <1>2, <1>4, <1>5
<1>6. CASE f < n
  <2>1. /\ points[f + 1].ts \in Nat /\ points[f + 1].char \in Nat
        /\ points[f].char < points[f + 1].char /\ points[f].ts <= points[f + 1].ts
    BY <1>1, <1>6, GrowingType, PointAtType
  <2> DEFINE a == points[f + 1].ts - points[f].ts
             b == points[f + 1].char - points[f].char
             x == c - points[f].char
  <2>2. a \in Nat /\ b \in Nat /\ x \in Nat /\ x < b
    BY <1>1, <1>2, <1>6, <2>1
  <2>3. t = points[f].ts + (a * x) \div b
    BY <1>1, <1>4, <1>6, <2>1
  <2> HIDE DEF a, b, x
  <2>4. (a * x) \div b \in Nat /\ (a * x) \div b <= a
    BY <2>2, Interpolated
  <2>5. t \in Nat /\ points[f].ts <= t /\ t <= points[f + 1].ts
    BY <1>2, <2>1, <2>2, <2>3, <2>4 DEF a
  <2>6. AsFar(points, f, c, t)
    BY <2>2, <2>3, <2>5 DEF AsFar, a, b, x
  <2> QED
    BY <1>6, <2>5, <2>6
<1> QED
  BY <1>1, <1>5, <1>6

\* get_time_for_text keeps the order of the story: of two characters that have a time,
\* the one further in the book is not earlier in the audio, for any alignment map that
\* grows, whatever its points (alignment_service.py:298).  Comparing the clients by these
\* times, as the cycle does, therefore compares their places.
THEOREM LookupKeepsOrder ==
  ASSUME NEW points, Growing(points), NEW c \in Nat, NEW d \in Nat, c <= d,
         Lookup!TimeForText(points, c) # -1, Lookup!TimeForText(points, d) # -1
  PROVE  Lookup!TimeForText(points, c) <= Lookup!TimeForText(points, d)
<1> DEFINE n == Len(points)
<1>1. n \in Nat /\ n >= 1 /\ \A i \in 1 .. n : points[i].char \in Nat /\ points[i].ts \in Nat
  BY GrowingType
<1>2. PICK s : s = Lookup!TimeForText(points, c)
  OBVIOUS
<1>3. PICK t : t = Lookup!TimeForText(points, d)
  OBVIOUS
<1>4. PICK f : f = PointAt(points, c)
  OBVIOUS
<1>5. PICK g : g = PointAt(points, d)
  OBVIOUS
<1>6. \A i, j \in 1 .. n : i <= j => points[i].ts <= points[j].ts
  <2> SUFFICES ASSUME NEW i \in 1 .. n, NEW j \in 1 .. n, i <= j
               PROVE  points[i].ts <= points[j].ts
    OBVIOUS
  <2>1. i = j \/ i < j
    OBVIOUS
  <2> QED
    BY <1>1, <2>1 DEF Growing
<1>7. CASE c < points[1].char
  <2>1. s = points[1].ts
    BY <1>2, <1>7 DEF Lookup!TimeForText
  <2>2. CASE d < points[1].char
    <3>1. t = points[1].ts
      BY <1>3, <2>2 DEF Lookup!TimeForText
    <3> QED
      BY <1>1, <1>2, <1>3, <2>1, <3>1
  <2>3. CASE points[1].char <= d
    <3>1. t \in Nat /\ points[g].ts <= t /\ g \in 1 .. n
      BY <1>3, <1>5, <2>3, TimeBetween, PointAtType
    <3>2. points[1].ts <= points[g].ts /\ points[1].ts \in Nat /\ points[g].ts \in Nat
      BY <1>1, <1>6, <3>1
    <3> QED
      BY <1>2, <1>3, <2>1, <3>1, <3>2
  <2>4. points[1].char \in Nat
    BY <1>1
  <2> QED
    BY <2>2, <2>3, <2>4
<1>8. CASE points[1].char <= c
  <2>1. points[1].char <= d
    BY <1>1, <1>8
  <2>2. f \in 1 .. n /\ g \in 1 .. n /\ points[f].char <= c
    BY <1>4, <1>5, <1>8, <2>1, PointAtType
  <2>3. f <= g
    <3>1. points[f].char <= d
      BY <1>1, <2>2
    <3> QED
      BY <1>5, <2>1, <2>2, <3>1, PointAtType
  <2>4. s \in Nat /\ t \in Nat /\ points[g].ts <= t /\ (f = n => s = points[f].ts)
    BY <1>2, <1>3, <1>4, <1>5, <1>8, <2>1, TimeBetween
  <2>5. f < n => AsFar(points, f, c, s)
    BY <1>2, <1>4, <1>8, TimeBetween
  <2>6. CASE f < g
    <3>1. f + 1 \in 1 .. n /\ f < n /\ f + 1 <= g
      BY <1>1, <2>2, <2>6
    <3>2. points[f + 1].ts <= points[g].ts /\ points[f + 1].ts \in Nat /\ points[g].ts \in Nat
      BY <1>1, <1>6, <2>2, <3>1
    <3>3. s <= points[f + 1].ts
      BY <2>5, <3>1 DEF AsFar
    <3> QED
      BY <1>2, <1>3, <2>4, <3>2, <3>3
  <2>7. CASE f = g /\ f = n
    BY <1>2, <1>3, <2>4, <2>7
  <2>8. CASE f = g /\ f < n
    <3> DEFINE a == points[f + 1].ts - points[f].ts
               b == points[f + 1].char - points[f].char
               x == c - points[f].char
               y == d - points[f].char
    <3>1. AsFar(points, f, c, s) /\ AsFar(points, f, d, t)
      BY <1>3, <1>5, <2>1, <2>5, <2>8, TimeBetween
    <3>2. /\ a \in Nat /\ b \in Nat /\ x \in Nat /\ y \in Nat /\ y < b
          /\ s = points[f].ts + (a * x) \div b /\ t = points[f].ts + (a * y) \div b
      BY <3>1 DEF AsFar
    <3>3. x <= y /\ points[f].ts \in Nat
      BY <1>1, <2>2
    <3> HIDE DEF a, b, x, y
    <3>4. b > 0 /\ y <= b
      BY <3>2
    <3>5. (a * x) \div b \in Nat /\ (a * y) \div b \in Nat /\ (a * x) \div b <= (a * y) \div b
      BY <3>2, <3>3, <3>4, Interpolated
    <3> QED
      BY <1>2, <1>3, <3>2, <3>3, <3>5
  <2> QED
    BY <1>1, <2>2, <2>3, <2>6, <2>7, <2>8
<1>9. points[1].char \in Nat
  BY <1>1
<1> QED
  BY <1>7, <1>8, <1>9

\* The last point in the audio at or before a time.
PointAtTime(points, t) ==
    Lookup!Max({i \in DOMAIN points : points[i].ts =< t} \cup {1})

\* A second lies behind its point and before the next one.
LEMMA PointAtTimeType ==
  ASSUME NEW points, Growing(points), NEW t \in Nat, points[1].ts <= t,
         NEW g, g = PointAtTime(points, t)
  PROVE  /\ g \in 1 .. Len(points) /\ points[g].ts <= t
         /\ \A i \in 1 .. Len(points) : points[i].ts <= t => i <= g
<1> DEFINE S == {i \in DOMAIN points : points[i].ts =< t} \cup {1}
<1>1. Len(points) \in Nat /\ Len(points) >= 1 /\ DOMAIN points = 1 .. Len(points)
  BY GrowingType
<1>2. S \in SUBSET (1 .. Len(points)) /\ S # {} /\ \A i \in S : points[i].ts <= t
  BY <1>1
<1>3. g \in S /\ \A i \in S : i <= g
  BY <1>1, <1>2, LargestIndex DEF PointAtTime
<1> QED
  BY <1>1, <1>2, <1>3

\* The last point that counts is the last one or the one before it.
LEMMA RealEndPoint ==
  ASSUME NEW points, Growing(points)
  PROVE  \E r \in 1 .. Len(points) : Lookup!RealEnd(points) = points[r]
<1>1. Len(points) \in Nat /\ Len(points) >= 1
  BY GrowingType
<1> QED
  BY <1>1 DEF Lookup!RealEnd

\* Later points are further on and not earlier.
LEMMA Ordered ==
  ASSUME NEW points, Growing(points), NEW i \in 1 .. Len(points), NEW j \in 1 .. Len(points),
         i <= j
  PROVE  points[i].char <= points[j].char /\ points[i].ts <= points[j].ts
<1>1. /\ points[i].char \in Nat /\ points[j].char \in Nat
      /\ points[i].ts \in Nat /\ points[j].ts \in Nat /\ Len(points) \in Nat
  BY GrowingType
<1>2. CASE i = j
  BY <1>1, <1>2
<1>3. CASE i < j
  <2>1. points[i].char < points[j].char /\ points[i].ts <= points[j].ts
    BY <1>3 DEF Growing
  <2> QED
    BY <1>1, <2>1
<1> QED
  BY <1>1, <1>2, <1>3

\* A character that has a time has one that the audio reaches.
LEMMA TimeWithin ==
  ASSUME NEW points, Growing(points), NEW c \in Nat, points[1].char <= c,
         NEW t, t = Lookup!TimeForText(points, c), t # -1
  PROVE  t <= Lookup!RealEnd(points).ts
<1>1. PICK r \in 1 .. Len(points) : Lookup!RealEnd(points) = points[r]
  BY RealEndPoint
<1>2. PICK f : f = PointAt(points, c)
  OBVIOUS
<1>3. points[r].char \in Nat /\ points[r].ts \in Nat /\ points[1].char \in Nat /\ Len(points) \in Nat
  BY <1>1, GrowingType
<1>4. c <= points[r].char
  <2>1. ~(c < points[1].char)
    BY <1>3
  <2>2. ~(c > Lookup!RealEnd(points).char)
    BY <2>1 DEF Lookup!TimeForText
  <2>3. ~(c > points[r].char)
    BY <1>1, <2>2
  <2> QED
    BY <1>3, <2>3
<1>5. /\ f \in 1 .. Len(points) /\ points[f].char <= c
      /\ f < Len(points) => f + 1 \in 1 .. Len(points) /\ c < points[f + 1].char
  BY <1>2, PointAtType
<1>6. /\ t \in Nat /\ points[f].ts <= t /\ (f = Len(points) => t = points[f].ts)
      /\ f < Len(points) => AsFar(points, f, c, t)
  BY <1>2, TimeBetween
<1>7. points[f].char \in Nat /\ points[f].ts \in Nat
  BY <1>5, GrowingType
<1>8. CASE f < r
  <2>1. f < Len(points) /\ f + 1 \in 1 .. Len(points) /\ f + 1 <= r
    BY <1>3, <1>5, <1>8
  <2>2. points[f + 1].ts <= points[r].ts /\ points[f + 1].ts \in Nat
    BY <2>1, Ordered, GrowingType
  <2>3. t <= points[f + 1].ts
    BY <1>6, <2>1 DEF AsFar
  <2> QED
    BY <1>1, <1>3, <1>6, <2>2, <2>3
<1>9. CASE r <= f
  <2>1. points[r].char <= points[f].char
    BY <1>5, <1>9, Ordered
  <2>2. c = points[f].char /\ c = points[r].char
    BY <1>3, <1>4, <1>5, <1>7, <2>1
  <2>3. r = f
    <3>1. r < f => points[r].char < points[f].char
      BY <1>5 DEF Growing
    <3> QED
      BY <1>3, <1>5, <1>9, <2>2, <3>1
  <2>4. t = points[f].ts
    <3>1. CASE f < Len(points)
      <4> DEFINE a == points[f + 1].ts - points[f].ts
                 b == points[f + 1].char - points[f].char
      <4>1. /\ a \in Nat /\ b \in Nat /\ c - points[f].char < b
            /\ t = points[f].ts + (a * (c - points[f].char)) \div b
        BY <1>6, <3>1 DEF AsFar
      <4>2. c - points[f].char = 0
        BY <1>7, <2>2
      <4> HIDE DEF a, b
      <4>3. b > 0 /\ a * (c - points[f].char) = 0
        BY <4>1, <4>2
      <4>4. 0 \div b = 0
        BY <4>1, <4>3
      <4> QED
        BY <1>7, <4>1, <4>3, <4>4
    <3> QED
      BY <1>3, <1>5, <1>6, <3>1
  <2> QED
    BY <1>1, <1>3, <2>3, <2>4
<1> QED
  BY <1>3, <1>5, <1>8, <1>9

\* There and back again does not lead beyond the character, nor before the point of the
\* map it lies behind: get_char_for_time finds what get_time_for_text gives, for any map
\* that grows, and whose points after the first are apart in time, as the anchors that
\* _find_anchors keeps are (the first may be 0, where an anchor may be too).
THEOREM LookupReturns ==
  ASSUME NEW points, Growing(points),
         \A i, j \in 2 .. Len(points) : i < j => points[i].ts < points[j].ts,
         NEW c \in Nat, points[1].char <= c, Lookup!TimeForText(points, c) # -1
  PROVE  LET back == Lookup!CharForTime(points, Lookup!TimeForText(points, c))
         IN  /\ back # -1 /\ back <= c
             /\ \A i \in 1 .. Len(points) :
                    points[i].char <= c /\ points[i].ts > points[1].ts => points[i].char <= back
<1> DEFINE n == Len(points)
<1>1. n \in Nat /\ n >= 1 /\ \A i \in 1 .. n : points[i].char \in Nat /\ points[i].ts \in Nat
  BY GrowingType
<1>2. PICK t : t = Lookup!TimeForText(points, c)
  OBVIOUS
<1>3. PICK f : f = PointAt(points, c)
  OBVIOUS
<1>4. PICK back : back = Lookup!CharForTime(points, t)
  OBVIOUS
<1>5. /\ f \in 1 .. n /\ points[f].char <= c /\ \A i \in 1 .. n : points[i].char <= c => i <= f
      /\ f < n => f + 1 \in 1 .. n
  BY <1>3, PointAtType
<1>6. /\ t \in Nat /\ points[f].ts <= t /\ (f = n => t = points[f].ts)
      /\ f < n => AsFar(points, f, c, t)
  BY <1>2, <1>3, TimeBetween
<1>7. t <= Lookup!RealEnd(points).ts /\ Lookup!RealEnd(points).ts \in Nat
  BY <1>1, <1>2, RealEndPoint, TimeWithin
<1> SUFFICES /\ back # -1 /\ back <= c
             /\ \A i \in 1 .. n : points[i].char <= c /\ points[i].ts > points[1].ts => points[i].char <= back
  BY <1>2, <1>4
<1>8. CASE t <= points[1].ts
  <2>1. back = points[1].char
    BY <1>4, <1>8 DEF Lookup!CharForTime
  <2>2. ASSUME NEW i \in 1 .. n, points[i].char <= c PROVE ~(points[i].ts > points[1].ts)
    <3>1. points[i].ts <= points[f].ts
      BY <1>5, <2>2, Ordered
    <3> QED
      BY <1>1, <1>5, <1>6, <1>8, <3>1
  <2> QED
    BY <1>1, <2>1, <2>2
<1>9. CASE points[1].ts < t
  <2>1. PICK g : g = PointAtTime(points, t)
    OBVIOUS
  <2>2. g \in 1 .. n /\ points[g].ts <= t /\ \A i \in 1 .. n : points[i].ts <= t => i <= g
    BY <1>1, <1>6, <1>9, <2>1, PointAtTimeType
  <2>3. ~(t <= points[1].ts) /\ ~(t > Lookup!RealEnd(points).ts)
    BY <1>1, <1>6, <1>7, <1>9
  <2>4. back = IF g = n \/ points[g + 1].ts = points[g].ts THEN points[g].char
               ELSE points[g].char + ((points[g + 1].char - points[g].char) * (t - points[g].ts))
                                     \div (points[g + 1].ts - points[g].ts)
    BY <1>4, <2>1, <2>3 DEF Lookup!CharForTime, PointAtTime
  <2>5. \A i \in 1 .. n : points[i].char <= c => points[i].char <= points[f].char
    BY <1>5, Ordered
  <2>6. CASE f = n
    <3>1. g = n
      BY <1>5, <1>6, <2>2, <2>6
    <3> QED
      BY <1>1, <1>5, <2>4, <2>5, <2>6, <3>1
  <2>7. CASE f < n
    <3> DEFINE a == points[f + 1].ts - points[f].ts
               b == points[f + 1].char - points[f].char
               x == c - points[f].char
               z == t - points[f].ts
    <3>0. points[f].ts \in Nat /\ points[f + 1].ts \in Nat /\ points[f].char \in Nat /\ z \in Nat
      BY <1>1, <1>5, <1>6, <2>7
    <3>1. /\ a \in Nat /\ b \in Nat /\ x \in Nat /\ x < b
          /\ t = points[f].ts + (a * x) \div b
      BY <1>6, <2>7 DEF AsFar
    <3>2. t <= points[f + 1].ts
      BY <1>6, <2>7 DEF AsFar
    <3>3. a * x \in Nat /\ b * z \in Nat /\ b * z <= a * x /\ b > 0
      <4> HIDE DEF a, b, x
      <4>1. a * x \in Nat /\ b > 0
        BY <3>1
      <4>2. (a * x) \div b \in Nat /\ b * ((a * x) \div b) <= a * x
        BY <3>1, <4>1, RoundedDown
      <4>3. z = (a * x) \div b
        BY <3>0, <3>1, <4>2
      <4> HIDE DEF z
      <4> QED
        BY <3>0, <3>1, <4>1, <4>2, <4>3
    <3> HIDE DEF b, x, z
    <3>4. a # 0
      <4> SUFFICES ASSUME a = 0 PROVE FALSE
        OBVIOUS
      <4>1. points[f + 1].ts = points[f].ts /\ t = points[f].ts
        BY <1>6, <3>0, <3>2
      <4>2. f = 1
        <5> SUFFICES ASSUME f # 1 PROVE FALSE
          OBVIOUS
        <5>1. f \in 2 .. n /\ f + 1 \in 2 .. n /\ f < f + 1
          BY <1>1, <1>5, <2>7
        <5> QED
          BY <3>0, <4>1, <5>1
      <4> QED
        BY <1>6, <1>9, <3>0, <4>1, <4>2
    <3>5. t < points[f + 1].ts
      <4> SUFFICES ASSUME t = points[f + 1].ts PROVE FALSE
        BY <1>6, <3>0, <3>2
      <4>1. z = a
        BY DEF z
      <4> HIDE DEF a
      <4>2. a * (x + 1) <= a * b
        BY <3>1, Scaled
      <4>3. a * (x + 1) = a * x + a /\ b * z = a * b /\ a * b \in Nat
        BY <3>1, <4>1
      <4> QED
        BY <3>1, <3>3, <3>4, <4>2, <4>3
    <3>6. g = f
      <4>1. f <= g
        BY <1>5, <1>6, <2>2
      <4>2. ~(f + 1 <= g)
        <5> SUFFICES ASSUME f + 1 <= g PROVE FALSE
          OBVIOUS
        <5>1. points[f + 1].ts <= points[g].ts
          BY <1>5, <2>2, <2>7, Ordered
        <5> QED
          BY <1>1, <1>6, <2>2, <3>0, <3>5, <5>1
      <4> QED
        BY <1>5, <2>2, <4>1, <4>2
    <3>7. back = points[f].char + (b * z) \div a
      BY <1>5, <2>4, <2>7, <3>0, <3>4, <3>6 DEF b, z
    <3> HIDE DEF a
    <3>8. (b * z) \div a \in Nat /\ a * ((b * z) \div a) <= b * z /\ a > 0
      <4>1. a \in Nat /\ b * z \in Nat
        BY <3>1, <3>3
      <4>2. a > 0
        BY <3>4, <4>1
      <4> DEFINE y == b * z
      <4> HIDE DEF y
      <4>3. y \in Nat
        BY <4>1 DEF y
      <4>4. y \div a \in Nat /\ a * (y \div a) <= y
        BY <4>1, <4>2, <4>3, RoundedDown
      <4> QED
        BY <4>2, <4>4 DEF y
    <3> DEFINE w == (b * z) \div a
    <3> HIDE DEF w
    <3>9. w \in Nat /\ a * w <= b * z /\ back = points[f].char + w
      BY <3>7, <3>8 DEF w
    <3>10. w <= x
      <4> SUFFICES ASSUME x + 1 <= w PROVE FALSE
        BY <3>1, <3>9
      <4>1. x + 1 \in Nat /\ a \in Nat
        BY <3>1
      <4>2. a * (x + 1) <= a * w
        BY <3>9, <4>1, Scaled
      <4>3. a * (x + 1) = a * x + a
        BY <3>1
      <4>4. a * w \in Nat
        BY <3>9, <4>1
      <4> DEFINE p == a * x
                 q == b * z
                 r == a * w
      <4>5. p \in Nat /\ q \in Nat /\ r \in Nat /\ r <= q /\ q <= p /\ p + a <= r
        BY <3>3, <3>9, <4>2, <4>3, <4>4
      <4> HIDE DEF p, q, r
      <4> QED
        BY <3>8, <4>1, <4>5
    <3>11. back <= c /\ points[f].char <= back /\ back # -1
      <4>1. c = points[f].char + x /\ x \in Nat
        BY <1>5, <3>0, <3>1 DEF x
      <4> QED
        BY <1>5, <3>0, <3>9, <3>10, <4>1
    <3>12. points[f].char \in Nat /\ back \in Nat
      BY <3>0, <3>9
    <3> HIDE DEF w, n
    <3>13. ASSUME NEW i \in 1 .. n, points[i].char <= c PROVE points[i].char <= back
      <4>1. points[i].char \in Nat /\ points[i].char <= points[f].char
        BY <1>1, <2>5, <3>13
      <4> QED
        BY <3>11, <3>12, <4>1
    <3> QED
      BY <3>11, <3>13
  <2> QED
    BY <1>1, <1>5, <2>6, <2>7
<1> QED
  BY <1>1, <1>6, <1>8, <1>9

=============================================================================
