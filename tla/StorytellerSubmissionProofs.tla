-------------------- MODULE StorytellerSubmissionProofs --------------------
(***************************************************************************)
(* Theorems about StorytellerSubmission, for any threads, books and        *)
(* bounds: what a ready submission stands for, what Storyteller is given,  *)
(* and which book is processed.                                            *)
(***************************************************************************)
EXTENDS StorytellerSubmission, FiniteSetTheorems, SequenceTheorems,
        WellFoundedInduction, TLAPS

(***************************************************************************)
(* The rows that submissions and the job refer to, and the room for those  *)
(* still to come.                                                          *)
(***************************************************************************)
Whole == files \in {"complete", "imported"}
Unwritten == {t \in Threads : thread[t].at \in {"copy", "audio", "find", "write"}}

\* The row of a thread is in the table, and its book is one of the title.
RowFits(q) ==
    /\ q.at = "write" => q.row \in {0} \cup DOMAIN rows
    /\ q.at \in {"snapshot", "poll", "trigger", "tell", "failing"} => q.row \in DOMAIN rows
    /\ q.at \in {"trigger", "tell"} => q.found \in Uuids

JobFits ==
    /\ job.at = "check" => job.row \in DOMAIN rows
    /\ job.at # "check" => job.row = 0
    /\ job.at = "learn" => Len(rows) > 0

RowsFit ==
    /\ IsFiniteSet(Unwritten) /\ Len(rows) + Cardinality(Unwritten) <= 2 * requests
    /\ \A t \in Threads : RowFits(thread[t])
    /\ JobFits

(***************************************************************************)
(* Ready: what was read or written as ready has its transcript.            *)
(***************************************************************************)
Ready ==
    /\ \A i \in DOMAIN rows : rows[i].status = "ready" => Transcripts
    /\ job.at = "check" /\ job.seen.status = "ready" => Transcripts

(***************************************************************************)
(* Whole: Storyteller is due to work on a directory, or an answer of the   *)
(* job may make it so.  A submission that is alone finds none due until it *)
(* has written its row, and by then has copied everything.                 *)
(***************************************************************************)
Due ==
    \/ \E i \in DOMAIN rows : rows[i].dir /\ rows[i].status \in Underway
    \/ job.at = "check" /\ job.seen.status \in Underway /\ rows[job.row].dir

EarlyAt == {"copy", "audio", "find", "write", "fail", "failing"}
WholeAt == {"find", "write", "snapshot", "poll", "trigger", "tell"}

Alone ==
    ~overlapped =>
        /\ \A t, u \in Threads : thread[t].at # "idle" /\ thread[u].at # "idle" => t = u
        /\ \A t \in Threads : thread[t].at \in EarlyAt => ~Due
        /\ \A t \in Threads : thread[t].at \in WholeAt => Whole
        /\ Due => Whole

(***************************************************************************)
(* New: while nothing failed, a submission knows the books that were there *)
(* when it started.                                                        *)
(***************************************************************************)
NewFits(q) ==
    /\ q.before \subseteq shelf
    /\ faults = 0 /\ q.at = "poll" => q.before \subseteq q.known
    /\ faults = 0 /\ q.at = "trigger" => q.found \notin q.before

New == \A t \in Threads : NewFits(thread[t])

Inv == TypeOK /\ RowsFit /\ Ready /\ Alone /\ New

-----------------------------------------------------------------------------
(***************************************************************************)
(* The operators of the model.                                             *)
(***************************************************************************)
\* The largest member of a set of numbers.
LEMMA Largest ==
  ASSUME NEW n \in Nat, NEW S \in SUBSET (0 .. n), S # {}
  PROVE  \E m \in S : \A s \in S : s <= m
<1> DEFINE T == {n - s : s \in S}
<1>1. T \subseteq Nat /\ T # {}
  <2>1. \A s \in S : s \in Nat /\ s <= n
    OBVIOUS
  <2>2. \A s \in S : n - s \in Nat
    BY <2>1
  <2> QED
    BY <2>2
<1>2. IsWellFoundedOn(OpToRel(<, Nat), Nat)
  BY NatLessThanWellFounded
<1> HIDE DEF T
<1>3. PICK x \in T : \A y \in T : ~(<<y, x>> \in OpToRel(<, Nat))
  BY <1>1, <1>2, WFMin
<1>4. \A y \in T : ~(y < x)
  BY <1>1, <1>3 DEF OpToRel
<1>5. PICK m \in S : x = n - m
  BY <1>3 DEF T
<1>6. \A s \in S : n - s \in T
  BY DEF T
<1> QED
  BY <1>1, <1>4, <1>5, <1>6

LEMMA Table ==
  ASSUME TypeOK
  PROVE  /\ Len(rows) \in Nat /\ DOMAIN rows = 1 .. Len(rows)
         /\ \A i \in DOMAIN rows : rows[i] \in Row /\ rows[i].status \in Statuses
                                   /\ rows[i].uuid \in Uuids \cup {None} /\ rows[i].dir \in BOOLEAN
<1>1. rows \in Seq(Row)
  BY DEF TypeOK
<1>2. \A i \in DOMAIN rows : rows[i] \in Row
  BY <1>1
<1> QED
  BY <1>1, <1>2 DEF Row

LEMMA NewestFits ==
  ASSUME TypeOK, ActiveRows # {}
  PROVE  NewestActive \in ActiveRows /\ NewestActive \in DOMAIN rows /\ NewestActive # 0
<1>1. ActiveRows \in SUBSET (0 .. Len(rows)) /\ Len(rows) \in Nat
  BY Table DEF ActiveRows
<1>2. \E i \in ActiveRows : \A j \in ActiveRows : j <= i
  BY <1>1, Largest
<1>3. NewestActive \in ActiveRows
  BY <1>2 DEF NewestActive
<1> QED
  BY <1>3, Table DEF ActiveRows

\* An update changes one row, and never takes its directory away.
LEMMA UpdatedFits ==
  ASSUME TypeOK, NEW i \in DOMAIN rows, NEW status \in Statuses,
         NEW id \in Uuids \cup {None}, NEW dir \in BOOLEAN
  PROVE  LET new == Updated(i, status, id, dir) IN
         /\ new \in Seq(Row) /\ DOMAIN new = DOMAIN rows /\ Len(new) = Len(rows)
         /\ new[i].status = status /\ new[i].dir = (rows[i].dir \/ dir)
         /\ \A j \in DOMAIN rows : j # i => new[j] = rows[j]
<1> DEFINE row == [status |-> status, uuid |-> IF id = None THEN rows[i].uuid ELSE id,
                   dir |-> rows[i].dir \/ dir]
           new == Updated(i, status, id, dir)
<1>1. row \in Row /\ row.status = status /\ row.dir = (rows[i].dir \/ dir)
  <2>1. (IF id = None THEN rows[i].uuid ELSE id) \in Uuids \cup {None}
    BY Table
  <2>2. (rows[i].dir \/ dir) \in BOOLEAN
    BY Table
  <2> QED
    BY <2>1, <2>2 DEF Row
<1>2. new = [rows EXCEPT ![i] = row]
  BY DEF Updated
<1> HIDE DEF row, new
<1>3. rows \in Seq(Row)
  BY DEF TypeOK
<1>4. new \in Seq(Row) /\ DOMAIN new = DOMAIN rows /\ Len(new) = Len(rows)
  BY <1>1, <1>2, <1>3, Table, ExceptSeq
<1>5. new[i] = row /\ \A j \in DOMAIN rows : j # i => new[j] = rows[j]
  BY <1>2, <1>3
<1> QED
  BY <1>1, <1>4, <1>5 DEF new

\* A new row supersedes those under way.
LEMMA SavedFits ==
  ASSUME TypeOK, NEW row \in Row
  PROVE  LET new == Saved(row) IN
         /\ new \in Seq(Row) /\ Len(new) = Len(rows) + 1 /\ DOMAIN new = DOMAIN rows \cup {Len(rows) + 1}
         /\ new[Len(rows) + 1] = row
         /\ \A j \in DOMAIN rows : new[j].dir = rows[j].dir /\ new[j].status \notin Underway
                                   /\ (new[j].status = "ready" => rows[j].status = "ready")
<1> DEFINE old == [i \in DOMAIN rows |-> IF i \in ActiveRows THEN [rows[i] EXCEPT !.status = "superseded"]
                                         ELSE rows[i]]
           new == Saved(row)
<1>1. \A i \in DOMAIN rows :
        /\ old[i] \in Row /\ old[i].dir = rows[i].dir /\ old[i].status \notin Underway
        /\ old[i].status = "ready" => rows[i].status = "ready"
  <2> SUFFICES ASSUME NEW i \in DOMAIN rows
               PROVE  /\ old[i] \in Row /\ old[i].dir = rows[i].dir /\ old[i].status \notin Underway
                      /\ old[i].status = "ready" => rows[i].status = "ready"
    OBVIOUS
  <2>1. rows[i] \in Row
    BY Table
  <2>2. CASE i \in ActiveRows
    <3>1. old[i] = [rows[i] EXCEPT !.status = "superseded"]
      BY <2>2
    <3> QED
      BY <2>1, <3>1 DEF Row, Statuses, Underway
  <2>3. CASE i \notin ActiveRows
    BY <2>1, <2>3 DEF ActiveRows
  <2> QED
    BY <2>2, <2>3
<1>2. new = Append(old, row) /\ DOMAIN old = 1 .. Len(rows) /\ DOMAIN rows = 1 .. Len(rows) /\ Len(rows) \in Nat
  BY Table DEF Saved
<1>3. old \in Seq(Row) /\ Len(old) = Len(rows)
  <2>1. old = [i \in 1 .. Len(rows) |-> old[i]]
    BY <1>2
  <2> HIDE DEF old
  <2>2. old \in [1 .. Len(rows) -> Row]
    BY <1>1, <1>2, <2>1
  <2>3. old \in Seq(Row)
    BY <1>2, <2>2, SeqDef
  <2> QED
    BY <1>2, <2>3, LenProperties
<1> HIDE DEF old, new
<1>4. new \in Seq(Row) /\ Len(new) = Len(rows) + 1 /\ new[Len(rows) + 1] = row
      /\ \A j \in 1 .. Len(rows) : new[j] = old[j]
  BY <1>2, <1>3, AppendProperties
<1>5. DOMAIN new = DOMAIN rows \cup {Len(rows) + 1}
  BY <1>2, <1>4
<1> QED
  BY <1>1, <1>2, <1>4, <1>5 DEF new

-----------------------------------------------------------------------------
(***************************************************************************)
(* Steps of a submission that leave the table and the job alone.           *)
(***************************************************************************)
UnwrittenAt == {"copy", "audio", "find", "write"}

LEMMA FewerUnwritten ==
  ASSUME RowsFit, Len(rows) \in Nat, requests \in Nat, Unwritten' \subseteq Unwritten, Len(rows') = Len(rows),
         requests' = requests
  PROVE  IsFiniteSet(Unwritten') /\ Len(rows') + Cardinality(Unwritten') <= 2 * requests'
<1>1. IsFiniteSet(Unwritten') /\ Cardinality(Unwritten') <= Cardinality(Unwritten)
  BY FS_Subset DEF RowsFit
<1>2. Cardinality(Unwritten') \in Nat /\ Cardinality(Unwritten) \in Nat
  BY <1>1, FS_CardinalityType DEF RowsFit
<1> QED
  BY <1>1, <1>2 DEF RowsFit

\* Only the thread t moves.
LEMMA ThreadMoved ==
  ASSUME TypeOK, NEW t \in Threads, NEW q \in Thread, thread' = [thread EXCEPT ![t] = q]
  PROVE  /\ thread' \in [Threads -> Thread] /\ thread'[t] = q
         /\ \A u \in Threads : u # t => thread'[u] = thread[u]
         /\ (q.at \in UnwrittenAt => thread[t].at \in UnwrittenAt) => Unwritten' \subseteq Unwritten
<1>1. /\ thread' \in [Threads -> Thread] /\ thread'[t] = q
      /\ \A u \in Threads : u # t => thread'[u] = thread[u]
  BY DEF TypeOK
<1> QED
  BY <1>1 DEF Unwritten, UnwrittenAt

LEMMA Moves ==
  ASSUME Inv, NEW t \in Threads, NEW q \in Thread, thread' = [thread EXCEPT ![t] = q],
         UNCHANGED <<rows, uuid, shelf, job, late, overlapped, requests>>,
         files' \in {"absent", "partial", "complete", "imported"},
         work' \in {"none", "begun", "done"}, Transcripts => Transcripts',
         faults' \in 0 .. MaxFaults, faults' = 0 => faults = 0,
         RowFits(q), NewFits(q)',
         thread[t].at # "idle",
         q.at \in UnwrittenAt => thread[t].at \in UnwrittenAt,
         q.at \in EarlyAt => thread[t].at \in EarlyAt,
         ~overlapped /\ q.at \in WholeAt => Whole',
         Whole' \/ ~Whole \/ thread[t].at \in {"copy", "audio"}
  PROVE  Inv'
<1>1. /\ thread' \in [Threads -> Thread] /\ thread'[t] = q
      /\ \A u \in Threads : u # t => thread'[u] = thread[u]
      /\ Unwritten' \subseteq Unwritten
  BY ThreadMoved DEF Inv
<1>2. TypeOK'
  BY <1>1 DEF Inv, TypeOK
<1>3. RowsFit'
  <2>1. IsFiniteSet(Unwritten') /\ Len(rows') + Cardinality(Unwritten') <= 2 * requests'
    BY <1>1, Table, FewerUnwritten DEF Inv, TypeOK
  <2>2. \A u \in Threads : RowFits(thread[u])'
    BY <1>1 DEF Inv, RowsFit, RowFits
  <2>3. JobFits'
    BY DEF Inv, RowsFit, JobFits
  <2> QED
    BY <2>1, <2>2, <2>3 DEF RowsFit
<1>4. Ready'
  BY DEF Inv, Ready
<1>5. Alone'
  <2>1. SUFFICES ASSUME ~overlapped
                 PROVE  /\ \A v, u \in Threads : thread'[v].at # "idle" /\ thread'[u].at # "idle" => v = u
                        /\ \A v \in Threads : thread'[v].at \in EarlyAt => ~Due'
                        /\ \A v \in Threads : thread'[v].at \in WholeAt => Whole'
                        /\ Due' => Whole'
    BY DEF Alone
  <2>2. \A u \in Threads : u # t => thread'[u].at = "idle"
    BY <1>1, <2>1 DEF Inv, Alone
  <2>3. Due' <=> Due
    BY DEF Due
  <2>4. thread[t].at \in EarlyAt => ~Due
    BY <2>1 DEF Inv, Alone
  <2>5. Due => Whole
    BY <2>1 DEF Inv, Alone
  <2>6. "idle" \notin EarlyAt /\ "idle" \notin WholeAt /\ {"copy", "audio"} \subseteq EarlyAt
    BY DEF EarlyAt, WholeAt
  <2> QED
    BY <1>1, <2>1, <2>2, <2>3, <2>4, <2>5, <2>6
<1>6. New'
  BY <1>1 DEF Inv, New, NewFits
<1> QED
  BY <1>2, <1>3, <1>4, <1>5, <1>6 DEF Inv

LEMMA IdleFits ==
  Idle \in Thread /\ Idle.at = "idle" /\ Idle.before = {} /\ Idle.row = 0
  BY DEF Idle, Thread

LEMMA FaultFits ==
  ASSUME TypeOK, Fault \/ UNCHANGED faults
  PROVE  faults' \in 0 .. MaxFaults /\ (faults' = 0 => faults = 0)
  BY SubmissionAssumption DEF TypeOK, Fault

\* The other columns a thread keeps where it goes.
LEMMA Goes ==
  ASSUME TypeOK, NEW t \in Threads,
         NEW at \in {"idle", "copy", "audio", "find", "write", "snapshot", "poll", "trigger", "tell",
                     "fail", "failing"},
         GoTo(t, at)
  PROVE  \E q \in Thread :
           /\ thread' = [thread EXCEPT ![t] = q] /\ q.at = at
           /\ q.row = thread[t].row /\ q.found = thread[t].found
           /\ q.before = thread[t].before /\ q.known = thread[t].known
<1> DEFINE q == [thread[t] EXCEPT !.at = at]
<1>1. thread[t] \in Thread
  BY DEF TypeOK
<1>2. /\ q \in Thread /\ q.at = at
      /\ q.row = thread[t].row /\ q.found = thread[t].found
      /\ q.before = thread[t].before /\ q.known = thread[t].known
  BY <1>1 DEF Thread
<1>3. thread' = [thread EXCEPT ![t] = q]
  BY DEF GoTo
<1> HIDE DEF q
<1> QED
  BY <1>2, <1>3

LEMMA CopySteps ==
  ASSUME Inv, NEW t \in Threads, CopyEbook(t) \/ CopyAudio(t)
  PROVE  Inv'
<1>1. /\ UNCHANGED <<rows, uuid, shelf, work, job, late, overlapped, requests>>
      /\ thread[t].at \in {"copy", "audio"} /\ (Fault \/ UNCHANGED faults)
      /\ files' \in {"absent", "partial", "complete", "imported"}
  BY DEF CopyEbook, CopyAudio, At, remote, Inv, TypeOK
<1>2. faults' \in 0 .. MaxFaults /\ (faults' = 0 => faults = 0)
  BY <1>1, FaultFits DEF Inv
<1>3. work' \in {"none", "begun", "done"} /\ (Transcripts => Transcripts')
  BY <1>1 DEF Inv, TypeOK, Transcripts
<1>4. ASSUME NEW at \in {"audio", "find", "fail"}, GoTo(t, at),
             at = "audio" => thread[t].at = "copy", at = "find" => Whole'
      PROVE  Inv'
  <2>2. PICK q \in Thread : /\ thread' = [thread EXCEPT ![t] = q] /\ q.at = at
                            /\ q.before = thread[t].before
    BY <1>4, Goes DEF Inv
  <2>4. RowFits(q)
    BY <1>4, <2>2 DEF RowFits
  <2>5. NewFits(q)'
    BY <1>1, <1>2, <1>4, <2>2 DEF NewFits, Inv, New
  <2>6. /\ q.at \in UnwrittenAt => thread[t].at \in UnwrittenAt
        /\ q.at \in EarlyAt => thread[t].at \in EarlyAt
        /\ q.at \in WholeAt => Whole'
    BY <1>1, <1>4, <2>2 DEF UnwrittenAt, EarlyAt, WholeAt
  <2> QED
    BY <1>1, <1>2, <1>3, <2>2, <2>4, <2>5, <2>6, Moves
<1>5. CASE Over(t)
  <2>1. RowFits(Idle) /\ NewFits(Idle)' /\ Idle.at \notin UnwrittenAt /\ Idle.at \notin EarlyAt
        /\ Idle.at \notin WholeAt
    BY IdleFits DEF RowFits, NewFits, UnwrittenAt, EarlyAt, WholeAt, Idle
  <2> QED
    BY <1>1, <1>2, <1>3, <1>5, <2>1, IdleFits, Moves DEF Over
<1> QED
  BY <1>4, <1>5 DEF CopyEbook, CopyAudio, Fails, At, Whole

\* A thread that goes nowhere writes nothing.
LEMMA Ends ==
  ASSUME Inv, NEW t \in Threads, Over(t), thread[t].at # "idle",
         UNCHANGED <<rows, uuid, shelf, files, job, late, overlapped, requests>>,
         work' \in {"none", "begun", "done"}, Transcripts => Transcripts', Fault \/ UNCHANGED faults
  PROVE  Inv'
<1>1. RowFits(Idle) /\ NewFits(Idle)' /\ Idle.at \notin UnwrittenAt /\ Idle.at \notin EarlyAt
      /\ Idle.at \notin WholeAt
  BY IdleFits DEF RowFits, NewFits, UnwrittenAt, EarlyAt, WholeAt, Idle
<1>2. faults' \in 0 .. MaxFaults /\ (faults' = 0 => faults = 0)
  BY FaultFits DEF Inv
<1>3. files' \in {"absent", "partial", "complete", "imported"} /\ (Whole' \/ ~Whole)
  BY DEF Inv, TypeOK, Whole
<1> QED
  BY <1>1, <1>2, <1>3, IdleFits, Moves DEF Over

LEMMA FindSteps ==
  ASSUME Inv, NEW t \in Threads, FindRow(t) \/ FindFailed(t)
  PROVE  Inv'
<1>1. /\ UNCHANGED <<rows, uuid, files, shelf, work, job, late, overlapped, requests, faults>>
      /\ thread[t].at # "idle"
  BY DEF FindRow, FindFailed, At, remote, bounds
<1>2. /\ files' \in {"absent", "partial", "complete", "imported"} /\ (Whole' \/ ~Whole)
      /\ work' \in {"none", "begun", "done"} /\ (Transcripts => Transcripts')
      /\ faults' \in 0 .. MaxFaults /\ (faults' = 0 => faults = 0)
  BY <1>1 DEF Inv, TypeOK, Whole, Transcripts
<1>3. ASSUME NEW at \in {"write", "failing"},
             thread' = [thread EXCEPT ![t].at = at, ![t].row = NewestActive],
             at = "write" => thread[t].at = "find",
             at = "failing" => thread[t].at = "fail" /\ NewestActive # 0
      PROVE  Inv'
  <2>1. NewestActive \in {0} \cup DOMAIN rows /\ NewestActive \in Nat
    BY NewestFits, Table DEF NewestActive, Inv
  <2>2. PICK n \in Nat : n = NewestActive
    BY <2>1
  <2>3. PICK q \in Thread : /\ thread' = [thread EXCEPT ![t] = q] /\ q.at = at /\ q.row = n
                            /\ q.before = thread[t].before
    <3> DEFINE one == [thread[t] EXCEPT !.at = at]
               two == [one EXCEPT !.row = n]
    <3>1. thread' = [thread EXCEPT ![t] = two]
      BY <1>3, <2>2 DEF Inv, TypeOK
    <3>2. thread[t] \in Thread
      BY DEF Inv, TypeOK
    <3>3. one \in Thread /\ one.at = at /\ one.before = thread[t].before
      BY <3>2 DEF Thread
    <3> HIDE DEF one
    <3>4. two \in Thread /\ two.at = at /\ two.row = n /\ two.before = thread[t].before
      BY <3>3 DEF Thread
    <3> HIDE DEF two
    <3> QED
      BY <3>1, <3>4
  <2>4. RowFits(q)
    BY <1>3, <2>1, <2>2, <2>3 DEF RowFits
  <2>5. NewFits(q)'
    BY <1>1, <1>3, <2>3 DEF NewFits, Inv, New
  <2>6. /\ q.at \in UnwrittenAt => thread[t].at \in UnwrittenAt
        /\ q.at \in EarlyAt => thread[t].at \in EarlyAt
    BY <1>3, <2>3 DEF UnwrittenAt, EarlyAt
  <2>7. ~overlapped /\ q.at \in WholeAt => Whole'
    BY <1>1, <1>3, <2>3 DEF Inv, Alone, WholeAt, Whole
  <2> QED
    BY <1>1, <1>2, <2>3, <2>4, <2>5, <2>6, <2>7, Moves
<1>4. CASE Over(t)
  BY <1>1, <1>2, <1>4, Ends
<1> QED
  BY <1>3, <1>4 DEF FindRow, FindFailed, At

\* A submission that has written its row: it keeps to it, and to the books it knew.
LEMMA WrittenMoves ==
  ASSUME Inv, NEW t \in Threads, thread[t].at \in {"snapshot", "poll", "trigger"},
         UNCHANGED <<rows, uuid, files, shelf, job, late, overlapped, requests>>,
         work' \in {"none", "begun", "done"}, Transcripts => Transcripts', Fault \/ UNCHANGED faults,
         NEW q \in Thread, thread' = [thread EXCEPT ![t] = q],
         q.at \in {"poll", "trigger", "tell"}, q.row = thread[t].row, q.before = thread[t].before,
         q.at \in {"trigger", "tell"} => q.found \in Uuids, NewFits(q)'
  PROVE  Inv'
<1>1. /\ files' \in {"absent", "partial", "complete", "imported"} /\ (Whole' \/ ~Whole)
      /\ thread[t].at # "idle"
  BY DEF Inv, TypeOK, Whole
<1>2. faults' \in 0 .. MaxFaults /\ (faults' = 0 => faults = 0)
  BY FaultFits DEF Inv
<1>3. RowFits(q)
  BY DEF Inv, RowsFit, RowFits
<1>4. q.at \notin UnwrittenAt /\ q.at \notin EarlyAt
  BY DEF UnwrittenAt, EarlyAt
<1>5. ~overlapped => Whole'
  BY DEF Inv, Alone, WholeAt, Whole
<1> QED
  BY <1>1, <1>2, <1>3, <1>4, <1>5, Moves

LEMMA SnapshotStep ==
  ASSUME Inv, NEW t \in Threads, Snapshot(t)
  PROVE  Inv'
<1>1. /\ UNCHANGED <<rows, uuid, files, shelf, work, job, late, overlapped, requests>>
      /\ thread[t].at = "snapshot"
  BY DEF Snapshot, At, remote
<1>2. work' \in {"none", "begun", "done"} /\ (Transcripts => Transcripts')
  BY <1>1 DEF Inv, TypeOK, Transcripts
<1>3. thread[t] \in Thread /\ thread[t].before \subseteq shelf
  BY DEF Inv, TypeOK, New, NewFits
<1>4. CASE /\ thread' = [thread EXCEPT ![t].at = "poll", ![t].known = shelf]
           /\ UNCHANGED faults
  <2>1. PICK known \in SUBSET Uuids : known = shelf
    BY DEF Inv, TypeOK
  <2>2. PICK q \in Thread : /\ thread' = [thread EXCEPT ![t] = q] /\ q.at = "poll"
                            /\ q.row = thread[t].row /\ q.before = thread[t].before /\ q.known = known
    <3> DEFINE one == [thread[t] EXCEPT !.at = "poll"]
               two == [one EXCEPT !.known = known]
    <3>1. thread' = [thread EXCEPT ![t] = two]
      BY <1>4, <2>1 DEF Inv, TypeOK
    <3>2. one \in Thread /\ one.at = "poll" /\ one.before = thread[t].before /\ one.row = thread[t].row
      BY <1>3 DEF Thread
    <3> HIDE DEF one
    <3>3. /\ two \in Thread /\ two.at = "poll" /\ two.known = known
          /\ two.before = thread[t].before /\ two.row = thread[t].row
      BY <3>2 DEF Thread
    <3> HIDE DEF two
    <3> QED
      BY <3>1, <3>3
  <2>3. NewFits(q)'
    BY <1>1, <1>3, <2>1, <2>2 DEF NewFits
  <2> QED
    BY <1>1, <1>2, <1>4, <2>2, <2>3, WrittenMoves
<1>5. CASE Fault /\ GoTo(t, "poll")
  <2>1. PICK q \in Thread : /\ thread' = [thread EXCEPT ![t] = q] /\ q.at = "poll"
                            /\ q.row = thread[t].row /\ q.before = thread[t].before
    BY <1>5, Goes DEF Inv
  <2>2. faults' # 0
    BY <1>5 DEF Fault, Inv, TypeOK
  <2>3. NewFits(q)'
    BY <1>1, <1>3, <2>1, <2>2 DEF NewFits
  <2> QED
    BY <1>1, <1>2, <1>5, <2>1, <2>3, WrittenMoves
<1> QED
  BY <1>4, <1>5 DEF Snapshot

LEMMA PollStep ==
  ASSUME Inv, NEW t \in Threads, Poll(t)
  PROVE  Inv'
<1>1. /\ UNCHANGED <<rows, uuid, files, shelf, work, job, late, overlapped, requests, faults>>
      /\ thread[t].at = "poll"
  BY DEF Poll, At, remote, bounds
<1>2. work' \in {"none", "begun", "done"} /\ (Transcripts => Transcripts')
  BY <1>1 DEF Inv, TypeOK, Transcripts
<1>3. CASE Over(t)
  BY <1>1, <1>2, <1>3, Ends
<1>4. ASSUME NEW u \in NewBooks(thread[t].known),
             thread' = [thread EXCEPT ![t].at = "trigger", ![t].found = u]
      PROVE  Inv'
  <2>1. u \in Uuids /\ u \notin thread[t].known
    BY DEF NewBooks, Inv, TypeOK
  <2>2. PICK q \in Thread : /\ thread' = [thread EXCEPT ![t] = q] /\ q.at = "trigger"
                            /\ q.row = thread[t].row /\ q.before = thread[t].before /\ q.found = u
    <3> DEFINE one == [thread[t] EXCEPT !.at = "trigger"]
               two == [one EXCEPT !.found = u]
    <3>1. thread' = [thread EXCEPT ![t] = two]
      BY <1>4 DEF Inv, TypeOK
    <3>2. thread[t] \in Thread
      BY DEF Inv, TypeOK
    <3>3. one \in Thread /\ one.at = "trigger" /\ one.before = thread[t].before /\ one.row = thread[t].row
      BY <3>2 DEF Thread
    <3> HIDE DEF one
    <3>4. /\ two \in Thread /\ two.at = "trigger" /\ two.found = u
          /\ two.before = thread[t].before /\ two.row = thread[t].row
      BY <2>1, <3>3 DEF Thread
    <3> HIDE DEF two
    <3> QED
      BY <3>1, <3>4
  <2>3. NewFits(thread[t])
    BY DEF Inv, New
  <2>4. NewFits(q)'
    BY <1>1, <2>1, <2>2, <2>3 DEF NewFits
  <2> QED
    BY <1>1, <1>2, <2>1, <2>2, <2>4, WrittenMoves
<1> QED
  BY <1>3, <1>4 DEF Poll

LEMMA TriggerStep ==
  ASSUME Inv, NEW t \in Threads, Trigger(t)
  PROVE  Inv'
<1>1. /\ UNCHANGED <<rows, uuid, files, shelf, job, late, overlapped, requests>>
      /\ thread[t].at = "trigger" /\ (Fault \/ UNCHANGED faults)
  BY DEF Trigger, At
<1>2. work' \in {"none", "begun", "done"} /\ (Transcripts => Transcripts')
  BY DEF Trigger, Started, Inv, TypeOK, Transcripts
<1>3. CASE Over(t)
  BY <1>1, <1>2, <1>3, Ends
<1>4. CASE GoTo(t, "tell")
  <2>1. PICK q \in Thread : /\ thread' = [thread EXCEPT ![t] = q] /\ q.at = "tell" /\ q.row = thread[t].row
                            /\ q.found = thread[t].found /\ q.before = thread[t].before
    BY <1>4, Goes DEF Inv
  <2>2. q.found \in Uuids
    BY <1>1, <2>1 DEF Inv, RowsFit, RowFits
  <2>3. NewFits(q)'
    BY <1>1, <2>1 DEF NewFits, Inv, New
  <2> QED
    BY <1>1, <1>2, <2>1, <2>2, <2>3, WrittenMoves
<1> QED
  BY <1>3, <1>4 DEF Trigger

-----------------------------------------------------------------------------
(***************************************************************************)
(* Steps of a submission that write a row.                                 *)
(***************************************************************************)
LEMMA Starting ==
  ASSUME Inv, NEW t \in Threads, NEW reserved \in BOOLEAN, Starts(t, reserved),
         rows' \in Seq(Row), Len(rows') <= Len(rows) + 1, Len(rows) <= Len(rows'),
         DOMAIN rows \subseteq DOMAIN rows',
         \A i \in DOMAIN rows' : rows'[i].status = "ready" => Transcripts,
         overlapped' = (overlapped \/ Beside(t)), ~Beside(t) => ~Due',
         UNCHANGED <<uuid, files, remote, job, late, faults>>
  PROVE  Inv'
<1> DEFINE c == [at |-> "copy", reserved |-> reserved, row |-> 0, found |-> None,
                 before |-> shelf, known |-> {}]
<1>1. PICK q \in Thread : thread' = [thread EXCEPT ![t] = q] /\ q.at = "copy" /\ q.before = shelf
  <2>1. c \in Thread
    BY DEF Thread, Inv, TypeOK
  <2>2. thread' = [thread EXCEPT ![t] = c] /\ c.at = "copy" /\ c.before = shelf
    BY DEF Starts
  <2> HIDE DEF c
  <2> QED
    BY <2>1, <2>2
<1>2. /\ thread' \in [Threads -> Thread] /\ thread'[t] = q
      /\ \A u \in Threads : u # t => thread'[u] = thread[u]
  BY <1>1, ThreadMoved DEF Inv
<1>3. thread[t].at = "idle" /\ requests < MaxRequests /\ requests' = requests + 1
  BY DEF Starts, At
<1>4. RowsFit'
  <2>1. Unwritten' = Unwritten \cup {t} /\ t \notin Unwritten
    BY <1>1, <1>2, <1>3 DEF Unwritten
  <2>2. IsFiniteSet(Unwritten) /\ Cardinality(Unwritten) \in Nat
        /\ Len(rows) + Cardinality(Unwritten) <= 2 * requests
    BY FS_CardinalityType DEF Inv, RowsFit
  <2>3. IsFiniteSet(Unwritten') /\ Cardinality(Unwritten') = Cardinality(Unwritten) + 1
    BY <2>1, <2>2, FS_AddElement
  <2>4. Len(rows) \in Nat /\ Len(rows') \in Nat /\ requests \in Nat
    BY Table DEF Inv, TypeOK
  <2>5. Len(rows') + Cardinality(Unwritten') <= 2 * requests'
    BY <1>3, <2>2, <2>3, <2>4
  <2>6. \A u \in Threads : RowFits(thread[u])'
    BY <1>1, <1>2 DEF Inv, RowsFit, RowFits
  <2>7. JobFits'
    BY <2>4 DEF Inv, RowsFit, JobFits
  <2> QED
    BY <2>3, <2>5, <2>6, <2>7 DEF RowsFit
<1>5. TypeOK'
  <2>1. requests' \in 0 .. MaxRequests
    BY <1>3, SubmissionAssumption DEF Inv, TypeOK
  <2>2. Cardinality(Unwritten') \in Nat /\ Len(rows') \in Nat
    BY <1>4, FS_CardinalityType DEF RowsFit
  <2>3. Len(rows') <= 2 * MaxRequests
    BY <1>4, <2>1, <2>2, SubmissionAssumption DEF RowsFit
  <2>4. overlapped' \in BOOLEAN /\ late' \subseteq DOMAIN rows'
    BY DEF Beside, Inv, TypeOK
  <2> QED
    BY <1>2, <2>1, <2>3, <2>4 DEF Inv, TypeOK, remote
<1>6. Ready'
  BY DEF Inv, Ready, remote, Transcripts
<1>7. Alone'
  <2>1. ~overlapped' => ~overlapped /\ ~Due' /\ \A u \in Threads : u # t => thread'[u].at = "idle"
    BY <1>2 DEF Beside
  <2>2. "copy" \notin WholeAt /\ "idle" \notin WholeAt
    BY DEF WholeAt
  <2> QED
    BY <1>1, <1>2, <2>1, <2>2 DEF Alone
<1>8. New'
  BY <1>1, <1>2 DEF Inv, New, NewFits, remote
<1> QED
  BY <1>4, <1>5, <1>6, <1>7, <1>8 DEF Inv

LEMMA StartSteps ==
  ASSUME Inv, NEW t \in Threads, Reserve(t) \/ AutoSubmit(t)
  PROVE  Inv'
<1>1. \A i \in DOMAIN rows : rows[i].status = "ready" => Transcripts
  BY DEF Inv, Ready
<1>2. Len(rows) \in Nat /\ DOMAIN rows = 1 .. Len(rows) /\ rows \in Seq(Row)
  BY Table DEF Inv, TypeOK
<1>3. CASE Reserve(t)
  <2> DEFINE row == [status |-> "queued", uuid |-> uuid, dir |-> FALSE]
             new == Saved(row)
  <2>1. row \in Row /\ row.dir = FALSE /\ row.status = "queued"
    BY DEF Row, Statuses, Inv, TypeOK
  <2>2. /\ Starts(t, TRUE) /\ rows' = new /\ overlapped' = (overlapped \/ Beside(t))
        /\ UNCHANGED <<uuid, files, remote, job, late, faults>>
    BY <1>3 DEF Reserve, SavesNew
  <2> HIDE DEF row
  <2>3. /\ new \in Seq(Row) /\ Len(new) = Len(rows) + 1 /\ DOMAIN new = DOMAIN rows \cup {Len(rows) + 1}
        /\ new[Len(rows) + 1] = row
        /\ \A j \in DOMAIN rows : new[j].dir = rows[j].dir /\ new[j].status \notin Underway
                                  /\ (new[j].status = "ready" => rows[j].status = "ready")
    BY <2>1, SavedFits DEF Inv
  <2> HIDE DEF new
  <2>4. \A i \in DOMAIN rows' : rows'[i].status = "ready" => Transcripts
    BY <1>1, <2>1, <2>2, <2>3
  <2>5. ~Beside(t) => ~Due'
    BY <2>1, <2>2, <2>3 DEF Beside, Due
  <2>6. /\ rows' \in Seq(Row) /\ Len(rows') <= Len(rows) + 1 /\ Len(rows) <= Len(rows')
        /\ DOMAIN rows \subseteq DOMAIN rows'
    BY <1>2, <2>2, <2>3
  <2>7. TRUE \in BOOLEAN
    OBVIOUS
  <2> QED
    BY <2>2, <2>4, <2>5, <2>6, <2>7, Starting
<1>4. CASE AutoSubmit(t)
  <2>1. /\ Starts(t, FALSE) /\ UNCHANGED rows /\ overlapped' = (overlapped \/ Beside(t))
        /\ UNCHANGED <<uuid, files, remote, job, late, faults>>
    BY <1>4 DEF AutoSubmit
  <2>2. ~Beside(t) => ~Due'
    BY <2>1 DEF Beside, Due, ActiveRows
  <2>3. /\ rows' \in Seq(Row) /\ Len(rows') <= Len(rows) + 1 /\ Len(rows) <= Len(rows')
        /\ DOMAIN rows \subseteq DOMAIN rows'
        /\ \A i \in DOMAIN rows' : rows'[i].status = "ready" => Transcripts
    BY <1>1, <1>2, <2>1
  <2>4. FALSE \in BOOLEAN
    OBVIOUS
  <2> QED
    BY <2>1, <2>2, <2>3, <2>4, Starting
<1> QED
  BY <1>3, <1>4

LEMMA Writes ==
  ASSUME Inv, NEW t \in Threads, NEW q \in Thread, thread' = [thread EXCEPT ![t] = q],
         thread[t].at # "idle", q.at \notin EarlyAt, q.at \in WholeAt => thread[t].at \in WholeAt,
         RowFits(q)', NewFits(q),
         rows' \in Seq(Row), DOMAIN rows \subseteq DOMAIN rows',
         Len(rows') = Len(rows) \/ (Len(rows') = Len(rows) + 1 /\ thread[t].at \in UnwrittenAt),
         \A i \in DOMAIN rows' : rows'[i].status = "ready" => Transcripts,
         overlapped' \in BOOLEAN, overlapped => overlapped', ~overlapped' /\ Due' => Whole,
         UNCHANGED <<uuid, files, remote, job, late, bounds>>
  PROVE  Inv'
<1>1. /\ thread' \in [Threads -> Thread] /\ thread'[t] = q
      /\ \A u \in Threads : u # t => thread'[u] = thread[u]
  BY ThreadMoved DEF Inv
<1>2. Len(rows) \in Nat /\ Len(rows') \in Nat /\ requests \in Nat /\ Len(rows) <= Len(rows')
  <2>1. Len(rows) \in Nat /\ Len(rows') \in Nat /\ requests \in Nat
    BY Table DEF Inv, TypeOK
  <2> QED
    BY <2>1
<1>3. RowsFit'
  <2>1. q.at \notin UnwrittenAt
    BY DEF EarlyAt, UnwrittenAt
  <2>2. Unwritten' = Unwritten \ {t} /\ (t \in Unwritten <=> thread[t].at \in UnwrittenAt)
    BY <1>1, <2>1 DEF Unwritten, UnwrittenAt
  <2>3. IsFiniteSet(Unwritten) /\ Cardinality(Unwritten) \in Nat
        /\ Len(rows) + Cardinality(Unwritten) <= 2 * requests
    BY FS_CardinalityType DEF Inv, RowsFit
  <2>4. IsFiniteSet(Unwritten') /\ Cardinality(Unwritten')
          = IF t \in Unwritten THEN Cardinality(Unwritten) - 1 ELSE Cardinality(Unwritten)
    BY <2>2, <2>3, FS_RemoveElement
  <2>5. Len(rows') + Cardinality(Unwritten') <= 2 * requests'
    BY <1>2, <2>2, <2>3, <2>4 DEF bounds
  <2>6. \A u \in Threads : RowFits(thread[u])'
    BY <1>1 DEF Inv, RowsFit, RowFits
  <2>7. JobFits'
    BY <1>2 DEF Inv, RowsFit, JobFits
  <2> QED
    BY <2>4, <2>5, <2>6, <2>7 DEF RowsFit
<1>4. TypeOK'
  <2>1. Cardinality(Unwritten') \in Nat
    BY <1>3, FS_CardinalityType DEF RowsFit
  <2>2. Len(rows') <= 2 * MaxRequests
    BY <1>2, <1>3, <2>1, SubmissionAssumption DEF RowsFit, bounds, Inv, TypeOK
  <2> QED
    BY <1>1, <2>2 DEF Inv, TypeOK, remote, bounds
<1>5. Ready'
  BY DEF Inv, Ready, remote, Transcripts
<1>6. Alone'
  <2>1. SUFFICES ASSUME ~overlapped'
                 PROVE  /\ \A v, u \in Threads : thread'[v].at # "idle" /\ thread'[u].at # "idle" => v = u
                        /\ \A v \in Threads : thread'[v].at \in EarlyAt => ~Due'
                        /\ \A v \in Threads : thread'[v].at \in WholeAt => Whole'
                        /\ Due' => Whole'
    BY DEF Alone
  <2>2. ~overlapped /\ \A u \in Threads : u # t => thread'[u].at = "idle"
    BY <1>1, <2>1 DEF Inv, Alone
  <2>3. q.at \in WholeAt => Whole
    BY <2>2 DEF Inv, Alone
  <2>4. "idle" \notin EarlyAt /\ "idle" \notin WholeAt /\ (Whole' <=> Whole)
    BY DEF EarlyAt, WholeAt, Whole
  <2> QED
    BY <1>1, <2>1, <2>2, <2>3, <2>4
<1>7. New'
  BY <1>1 DEF Inv, New, NewFits, remote, bounds
<1> QED
  BY <1>3, <1>4, <1>5, <1>6, <1>7 DEF Inv

LEMMA WriteStep ==
  ASSUME Inv, NEW t \in Threads, WriteRow(t)
  PROVE  Inv'
<1>1. /\ UNCHANGED <<uuid, files, remote, job, late, bounds>> /\ thread[t].at = "write"
      /\ thread[t] \in Thread
  BY DEF WriteRow, At, Inv, TypeOK
<1>2. \A i \in DOMAIN rows : rows[i].status = "ready" => Transcripts
  BY DEF Inv, Ready
<1>3. thread[t].at \in UnwrittenAt /\ thread[t].at \in WholeAt /\ "snapshot" \notin EarlyAt
      /\ (~overlapped => Whole)
  BY <1>1 DEF UnwrittenAt, WholeAt, EarlyAt, Inv, Alone
<1>4. Len(rows) \in Nat /\ DOMAIN rows = 1 .. Len(rows) /\ rows \in Seq(Row) /\ overlapped \in BOOLEAN
  BY Table DEF Inv, TypeOK
<1>5. CASE thread[t].row = 0
  <2> DEFINE row == [status |-> "queued", uuid |-> None, dir |-> TRUE]
             new == Saved(row)
  <2>1. row \in Row /\ row.status = "queued"
    BY DEF Row, Statuses
  <2>2. /\ rows' = new /\ overlapped' = (overlapped \/ Beside(t))
        /\ thread' = [thread EXCEPT ![t].at = "snapshot", ![t].row = Len(rows) + 1]
    BY <1>5 DEF WriteRow, SavesNew
  <2> HIDE DEF row
  <2>3. /\ new \in Seq(Row) /\ Len(new) = Len(rows) + 1 /\ DOMAIN new = DOMAIN rows \cup {Len(rows) + 1}
        /\ new[Len(rows) + 1] = row
        /\ \A j \in DOMAIN rows : new[j].status = "ready" => rows[j].status = "ready"
    BY <2>1, SavedFits DEF Inv
  <2> HIDE DEF new
  <2>4. PICK n \in Nat : n = Len(rows) + 1
    BY <1>4
  <2>5. PICK q \in Thread : /\ thread' = [thread EXCEPT ![t] = q] /\ q.at = "snapshot" /\ q.row = n
                            /\ q.before = thread[t].before
    <3> DEFINE one == [thread[t] EXCEPT !.at = "snapshot"]
               two == [one EXCEPT !.row = n]
    <3>1. thread' = [thread EXCEPT ![t] = two]
      BY <2>2, <2>4 DEF Inv, TypeOK
    <3>2. one \in Thread /\ one.at = "snapshot" /\ one.before = thread[t].before
      BY <1>1 DEF Thread
    <3> HIDE DEF one
    <3>3. two \in Thread /\ two.at = "snapshot" /\ two.row = n /\ two.before = thread[t].before
      BY <3>2 DEF Thread
    <3> HIDE DEF two
    <3> QED
      BY <3>1, <3>3
  <2>6. \A i \in DOMAIN rows' : rows'[i].status = "ready" => Transcripts
    BY <1>2, <2>1, <2>2, <2>3
  <2>7. RowFits(q)' /\ NewFits(q)
    BY <2>2, <2>3, <2>4, <2>5 DEF RowFits, NewFits, Inv, New
  <2>8. overlapped' \in BOOLEAN /\ (overlapped => overlapped') /\ (~overlapped' => Whole)
    BY <1>3, <1>4, <2>2 DEF Beside
  <2>9. /\ rows' \in Seq(Row) /\ Len(rows') = Len(rows) + 1 /\ DOMAIN rows \subseteq DOMAIN rows'
        /\ Len(rows) <= Len(rows')
    BY <1>4, <2>2, <2>3
  <2>10. thread[t].at # "idle" /\ q.at \notin EarlyAt /\ (~overlapped' /\ Due' => Whole)
    BY <1>1, <1>3, <2>5, <2>8
  <2> QED
    BY <1>1, <1>3, <2>5, <2>6, <2>7, <2>8, <2>9, <2>10, Writes
<1>6. CASE thread[t].row # 0
  <2>1. PICK i \in DOMAIN rows : i = thread[t].row
    BY <1>1, <1>6 DEF Inv, RowsFit, RowFits
  <2> DEFINE new == Updated(i, "queued", None, TRUE)
  <2>2. rows' = new /\ GoTo(t, "snapshot") /\ UNCHANGED overlapped
    BY <1>6, <2>1 DEF WriteRow
  <2>3. /\ new \in Seq(Row) /\ DOMAIN new = DOMAIN rows /\ Len(new) = Len(rows)
        /\ new[i].status = "queued" /\ \A j \in DOMAIN rows : j # i => new[j] = rows[j]
    <3>1. PICK status \in Statuses, id \in Uuids \cup {None}, dir \in BOOLEAN :
            status = "queued" /\ id = None /\ dir = TRUE
      BY DEF Statuses
    <3>2. LET old == Updated(i, status, id, dir) IN
          /\ old \in Seq(Row) /\ DOMAIN old = DOMAIN rows /\ Len(old) = Len(rows)
          /\ old[i].status = status /\ \A j \in DOMAIN rows : j # i => old[j] = rows[j]
      BY UpdatedFits DEF Inv
    <3> QED
      BY <3>1, <3>2
  <2> HIDE DEF new
  <2>4. PICK q \in Thread : /\ thread' = [thread EXCEPT ![t] = q] /\ q.at = "snapshot"
                            /\ q.row = thread[t].row /\ q.before = thread[t].before
    BY <2>2, Goes DEF Inv
  <2>5. \A j \in DOMAIN rows' : rows'[j].status = "ready" => Transcripts
    BY <1>2, <2>2, <2>3
  <2>6. RowFits(q)' /\ NewFits(q)
    BY <2>1, <2>2, <2>3, <2>4 DEF RowFits, NewFits, Inv, New
  <2>7. /\ rows' \in Seq(Row) /\ Len(rows') = Len(rows) /\ DOMAIN rows \subseteq DOMAIN rows'
        /\ Len(rows) <= Len(rows')
    BY <1>4, <2>2, <2>3
  <2>8. /\ thread[t].at # "idle" /\ q.at \notin EarlyAt /\ (~overlapped' /\ Due' => Whole)
        /\ overlapped' \in BOOLEAN /\ (overlapped => overlapped')
    BY <1>1, <1>3, <1>4, <2>2, <2>4
  <2> QED
    BY <1>1, <1>3, <2>4, <2>5, <2>6, <2>7, <2>8, Writes
<1> QED
  BY <1>5, <1>6

\* A status is written over the one that a row has; its directory stays as it is.
LEMMA Rewritten ==
  ASSUME TypeOK, NEW i \in DOMAIN rows, NEW status \in Statuses, NEW id \in Uuids \cup {None},
         rows' = Updated(i, status, id, FALSE)
  PROVE  /\ rows' \in Seq(Row) /\ DOMAIN rows' = DOMAIN rows /\ Len(rows') = Len(rows)
         /\ rows'[i].status = status
         /\ \A j \in DOMAIN rows : /\ rows'[j].dir = rows[j].dir
                                   /\ j # i => rows'[j].status = rows[j].status
<1>1. PICK dir \in BOOLEAN : dir = FALSE
  OBVIOUS
<1> DEFINE new == Updated(i, status, id, dir)
<1>2. /\ new \in Seq(Row) /\ DOMAIN new = DOMAIN rows /\ Len(new) = Len(rows)
      /\ new[i].status = status /\ new[i].dir = (rows[i].dir \/ dir)
      /\ \A j \in DOMAIN rows : j # i => new[j] = rows[j]
  BY UpdatedFits
<1>3. rows' = new
  BY <1>1
<1> HIDE DEF new
<1>4. rows'[i].dir = rows[i].dir
  BY <1>1, <1>2, <1>3, Table
<1> QED
  BY <1>2, <1>3, <1>4

\* The last step of a submission, which ends it.
LEMMA Closes ==
  ASSUME Inv, NEW t \in Threads, thread[t].at \in {"tell", "failing"},
         NEW status \in Statuses \ {"ready"}, NEW id \in Uuids \cup {None},
         rows' = Updated(thread[t].row, status, id, FALSE), Over(t),
         thread[t].at = "failing" => status \notin Underway,
         UNCHANGED <<uuid, files, remote, job, late, overlapped, bounds>>
  PROVE  Inv'
<1>1. PICK i \in DOMAIN rows : i = thread[t].row
  BY DEF Inv, RowsFit, RowFits
<1>2. rows' = Updated(i, status, id, FALSE)
  BY <1>1
<1>3. /\ rows' \in Seq(Row) /\ DOMAIN rows' = DOMAIN rows /\ Len(rows') = Len(rows)
      /\ rows'[i].status = status
      /\ \A j \in DOMAIN rows : /\ rows'[j].dir = rows[j].dir
                                /\ j # i => rows'[j].status = rows[j].status
  BY <1>2, Rewritten DEF Inv
<1>4. \A j \in DOMAIN rows' : rows'[j].status = "ready" => Transcripts
  BY <1>3 DEF Inv, Ready
<1>5. overlapped' \in BOOLEAN /\ (overlapped => overlapped')
  BY DEF Inv, TypeOK
<1>6. ~overlapped' /\ Due' => Whole
  <2>1. CASE thread[t].at = "tell"
    BY <2>1 DEF Inv, Alone, WholeAt
  <2>2. CASE thread[t].at = "failing"
    <3>1. status \notin Underway
      BY <2>2
    <3>2. job.at = "check" => job.row \in DOMAIN rows
      BY DEF Inv, RowsFit, JobFits
    <3>3. UNCHANGED job
      OBVIOUS
    <3>4. \A j \in DOMAIN rows : rows'[j].status \in Underway => rows[j].status \in Underway
      BY <1>3, <3>1
    <3>5. Due' => Due
      BY <1>3, <3>2, <3>3, <3>4, Zenon DEF Due
    <3> QED
      BY <3>5 DEF Inv, Alone, EarlyAt
  <2> QED
    BY <2>1, <2>2
<1>7. DOMAIN rows \subseteq DOMAIN rows'
  BY <1>3, Zenon
<1>8. thread[t].at # "idle" /\ Idle.at \notin EarlyAt /\ Idle.at \notin WholeAt
  BY IdleFits DEF EarlyAt, WholeAt
<1>9. RowFits(Idle)' /\ NewFits(Idle)
  BY IdleFits DEF RowFits, NewFits
<1>10. /\ thread' = [thread EXCEPT ![t] = Idle] /\ Idle \in Thread
       /\ Idle.at \in WholeAt => thread[t].at \in WholeAt
       /\ Len(rows') = Len(rows) \/ (Len(rows') = Len(rows) + 1 /\ thread[t].at \in UnwrittenAt)
       /\ rows' \in Seq(Row)
  BY <1>3, <1>8, IdleFits DEF Over
<1>11. UNCHANGED <<uuid, files, remote, job, late, bounds>>
  OBVIOUS
<1> QED
  BY <1>4, <1>5, <1>6, <1>7, <1>9, <1>8, <1>10, <1>11, Writes

LEMMA CloseSteps ==
  ASSUME Inv, NEW t \in Threads, Tell(t) \/ MarkFailed(t)
  PROVE  Inv'
<1>1. {"processing", "failed"} \subseteq Statuses \ {"ready"} /\ "failed" \notin Underway
      /\ thread[t].found \in Uuids \cup {None} /\ None \in Uuids \cup {None}
      /\ "tell" # "failing"
  BY DEF Statuses, Underway, Inv, TypeOK, Thread
<1>2. CASE Tell(t)
  BY <1>1, <1>2, Closes DEF Tell, At
<1>3. CASE MarkFailed(t)
  BY <1>1, <1>3, Closes DEF MarkFailed, At
<1> QED
  BY <1>2, <1>3

-----------------------------------------------------------------------------
(***************************************************************************)
(* Steps of the job.                                                       *)
(***************************************************************************)
LEMMA JobMoves ==
  ASSUME Inv, UNCHANGED <<files, shelf, thread, late, overlapped, requests>>,
         rows' \in Seq(Row), Len(rows') = Len(rows), uuid' \in Uuids \cup {None},
         work' \in {"none", "begun", "done"}, Transcripts => Transcripts', Fault \/ UNCHANGED faults,
         job' \in Job, JobFits',
         \A i \in DOMAIN rows' : rows'[i].status = "ready" => Transcripts,
         job'.at = "check" /\ job'.seen.status = "ready" => Transcripts,
         Due' => Due
  PROVE  Inv'
<1>1. faults' \in 0 .. MaxFaults /\ (faults' = 0 => faults = 0)
  BY FaultFits DEF Inv
<1>2. DOMAIN rows' = DOMAIN rows /\ Unwritten' = Unwritten
  BY DEF Inv, TypeOK, Unwritten
<1>3. TypeOK'
  BY <1>1, <1>2 DEF Inv, TypeOK
<1>4. RowsFit'
  BY <1>2 DEF Inv, RowsFit, RowFits
<1>5. Ready'
  BY DEF Ready
<1>6. Alone'
  BY DEF Inv, Alone, Whole
<1>7. New'
  BY <1>1 DEF Inv, New, NewFits
<1> QED
  BY <1>3, <1>4, <1>5, <1>6, <1>7 DEF Inv

\* An answer of the job that writes what it read and lets go of the row.
LEMMA Answers ==
  ASSUME Inv, Checking, NEW status \in Statuses, NEW id \in Uuids \cup {None},
         rows' = Updated(job.row, status, id, FALSE),
         job' \in Job, job'.row = 0, job'.at \in {"idle", "learn"},
         UNCHANGED <<uuid, files, shelf, thread, late, overlapped, requests>>,
         work' \in {"none", "begun", "done"}, Transcripts => Transcripts', Fault \/ UNCHANGED faults,
         status = "ready" => Transcripts
  PROVE  Inv'
<1>1. PICK i \in DOMAIN rows : i = job.row
  BY DEF Checking, Inv, RowsFit, JobFits
<1>2. rows' = Updated(i, status, id, FALSE)
  BY <1>1
<1>3. /\ rows' \in Seq(Row) /\ DOMAIN rows' = DOMAIN rows /\ Len(rows') = Len(rows)
      /\ rows'[i].status = status
      /\ \A j \in DOMAIN rows : /\ rows'[j].dir = rows[j].dir
                                /\ j # i => rows'[j].status = rows[j].status
  BY <1>2, Rewritten DEF Inv
<1>4. \A j \in DOMAIN rows' : rows'[j].status = "ready" => Transcripts
  BY <1>3 DEF Inv, Ready
<1>5. Len(rows) > 0
  <2>1. Len(rows) \in Nat /\ DOMAIN rows = 1 .. Len(rows)
    BY Table DEF Inv
  <2> QED
    BY <1>1, <2>1
<1>6. JobFits' /\ job'.at # "check"
  BY <1>3, <1>5 DEF JobFits
<1>7. Due' => Due
  BY <1>1, <1>3, <1>6 DEF Due, Checking
<1>8. uuid' \in Uuids \cup {None}
  BY DEF Inv, TypeOK
<1> QED
  BY <1>3, <1>4, <1>6, <1>7, <1>8, JobMoves

LEMMA NoJobFits ==
  ASSUME NEW at \in {"idle", "learn"}
  PROVE  [NoJob EXCEPT !.at = at] \in Job /\ [NoJob EXCEPT !.at = at].at = at
         /\ [NoJob EXCEPT !.at = at].row = 0 /\ NoJob \in Job /\ NoJob.at = "idle" /\ NoJob.row = 0
<1>1. NoRow \in Row
  BY DEF NoRow, Row, Statuses
<1> QED
  BY <1>1 DEF NoJob, Job

LEMMA AnswerSteps ==
  ASSUME Inv, CheckLate \/ CheckReady \/ CheckSearch \/ CheckWaits
  PROVE  Inv'
<1>1. /\ Checking /\ UNCHANGED <<uuid, files, shelf, thread, late, overlapped, requests>>
      /\ Fault \/ UNCHANGED faults
  BY DEF CheckLate, CheckReady, CheckSearch, CheckWaits, Asked, InTime, remote, bounds
<1>2. work' \in {"none", "begun", "done"} /\ (Transcripts => Transcripts')
  BY DEF CheckLate, CheckReady, CheckSearch, CheckWaits, remote, Started, Transcripts, Inv, TypeOK
<1>3. /\ {"processing", "failed", "ready"} \subseteq Statuses /\ "processing" # "ready" /\ "failed" # "ready"
      /\ job.seen.uuid \in Uuids \cup {None}
  BY DEF Statuses, Inv, TypeOK, Job, Row
<1>4. ASSUME NEW status \in Statuses, NEW at \in {"idle", "learn"}, Answer(status, at),
             status = "ready" => Transcripts
      PROVE  Inv'
  <2>1. job' \in Job /\ job'.row = 0 /\ job'.at \in {"idle", "learn"}
    BY <1>4, NoJobFits DEF Answer
  <2>2. rows' = Updated(job.row, status, job.seen.uuid, FALSE)
    BY <1>4 DEF Answer
  <2> QED
    BY <1>1, <1>2, <1>3, <1>4, <2>1, <2>2, Answers
<1>5. CASE CheckLate
  BY <1>3, <1>4, <1>5 DEF CheckLate
<1>6. CASE CheckReady
  BY <1>3, <1>4, <1>6 DEF CheckReady
<1>7. CASE CheckWaits
  BY <1>3, <1>4, <1>7 DEF CheckWaits
<1>8. CASE CheckSearch
  <2>1. PICK u \in shelf : rows' = Updated(job.row, "processing", u, FALSE)
    BY <1>8 DEF CheckSearch
  <2>2. u \in Uuids \cup {None}
    BY DEF Inv, TypeOK
  <2>3. job' \in Job /\ job'.row = 0 /\ job'.at \in {"idle", "learn"}
    BY <1>8, NoJobFits DEF CheckSearch
  <2> QED
    BY <1>1, <1>2, <1>3, <2>1, <2>2, <2>3, Answers
<1> QED
  BY <1>5, <1>6, <1>7, <1>8

LEMMA ReadyStep ==
  ASSUME Inv, TimelineReady
  PROVE  Inv'
<1>1. /\ job.at = "idle" /\ Transcripts
      /\ UNCHANGED <<uuid, files, shelf, work, thread, job, late, overlapped, requests, faults>>
  BY DEF TimelineReady, remote, bounds
<1>2. PICK i \in DOMAIN rows : i = NewestActive
  BY NewestFits DEF TimelineReady, Inv
<1>3. PICK id \in Uuids \cup {None} : id = rows[i].uuid
  BY Table DEF Inv
<1>4. "ready" \in Statuses /\ "ready" \notin Underway
  BY DEF Statuses, Underway
<1>5. rows' = Updated(i, "ready", id, FALSE)
  BY <1>2, <1>3 DEF TimelineReady
<1>6. /\ rows' \in Seq(Row) /\ DOMAIN rows' = DOMAIN rows /\ Len(rows') = Len(rows)
      /\ rows'[i].status = "ready"
      /\ \A j \in DOMAIN rows : /\ rows'[j].dir = rows[j].dir
                                /\ j # i => rows'[j].status = rows[j].status
  BY <1>4, <1>5, Rewritten DEF Inv
<1>7. Due' => Due
  BY <1>1, <1>4, <1>6 DEF Due
<1>8. /\ uuid' \in Uuids \cup {None} /\ work' \in {"none", "begun", "done"} /\ job' \in Job
      /\ Transcripts => Transcripts'
  BY <1>1 DEF Inv, TypeOK, Transcripts
<1>9. JobFits'
  BY <1>1, <1>6 DEF JobFits, Inv, RowsFit
<1> QED
  BY <1>1, <1>6, <1>7, <1>8, <1>9, JobMoves

\* A step that leaves the table alone.
LEMMA JobReads ==
  ASSUME Inv, UNCHANGED <<rows, files, remote, thread, late, overlapped, bounds>>,
         uuid' \in Uuids \cup {None}, job' \in Job, JobFits',
         job'.at = "check" => job'.row \in DOMAIN rows /\ job'.seen = rows[job'.row]
  PROVE  Inv'
<1>1. /\ UNCHANGED <<files, shelf, thread, late, overlapped, requests>> /\ rows' = rows
      /\ rows' \in Seq(Row) /\ Len(rows') = Len(rows) /\ UNCHANGED faults
  BY DEF remote, bounds, Inv, TypeOK
<1>2. work' \in {"none", "begun", "done"} /\ (Transcripts => Transcripts')
  BY DEF remote, Inv, TypeOK, Transcripts
<1>3. /\ \A i \in DOMAIN rows' : rows'[i].status = "ready" => Transcripts
      /\ job'.at = "check" /\ job'.seen.status = "ready" => Transcripts
  BY <1>1 DEF Inv, Ready
<1>4. Due' => Due
  BY <1>1 DEF Due
<1> QED
  BY <1>1, <1>2, <1>3, <1>4, JobMoves

LEMMA ReadSteps ==
  ASSUME Inv, Look \/ CheckEnded \/ Learn
  PROVE  Inv'
<1>1. Len(rows) \in Nat /\ DOMAIN rows = 1 .. Len(rows) /\ uuid \in Uuids \cup {None}
  BY Table DEF Inv, TypeOK
<1>2. UNCHANGED <<rows, files, remote, thread, late, overlapped, bounds>>
  BY DEF Look, CheckEnded, Learn
<1>3. CASE Look
  <2>1. Latest \in DOMAIN rows /\ Latest \in Nat
    <3>1. Len(rows) # 0
      BY <1>1, <1>3 DEF Look, ActiveRows
    <3> QED
      BY <1>1, <3>1 DEF Latest
  <2>2. rows[Latest] \in Row /\ uuid' = uuid
    BY <1>3, <2>1, Table DEF Inv, Look
  <2>3. job' = [at |-> "check", row |-> Latest, seen |-> rows[Latest]]
    BY <1>3 DEF Look
  <2>4. job' \in Job /\ job'.row = Latest /\ job'.seen = rows[Latest] /\ job'.at = "check"
    BY <2>1, <2>2, <2>3 DEF Job
  <2>5. JobFits'
    BY <1>2, <2>1, <2>4 DEF JobFits
  <2> QED
    BY <1>1, <1>2, <2>1, <2>2, <2>4, <2>5, JobReads
<1>4. CASE CheckEnded
  <2>1. PICK at \in {"idle", "learn"} : job' = [NoJob EXCEPT !.at = at]
    BY <1>4 DEF CheckEnded
  <2>2. job' \in Job /\ job'.at = at /\ job'.row = 0
    BY <2>1, NoJobFits
  <2>3. job.row \in DOMAIN rows
    BY <1>4 DEF CheckEnded, Inv, RowsFit, JobFits
  <2>4. Len(rows') > 0 /\ UNCHANGED uuid
    BY <1>1, <1>2, <1>4, <2>3 DEF CheckEnded
  <2>5. JobFits' /\ job'.at # "check"
    BY <2>2, <2>4 DEF JobFits
  <2> QED
    BY <1>1, <1>2, <2>2, <2>4, <2>5, JobReads
<1>5. CASE Learn
  <2>1. Len(rows) > 0
    BY <1>5 DEF Learn, Inv, RowsFit, JobFits
  <2>2. Latest \in DOMAIN rows
    BY <1>1, <2>1 DEF Latest
  <2>3. rows[Latest].uuid \in Uuids \cup {None}
    BY <2>2, Table DEF Inv
  <2>4. uuid' \in Uuids \cup {None}
    BY <1>1, <1>5, <2>3 DEF Learn
  <2>5. job' \in Job /\ job'.at = "idle" /\ job'.row = 0
    BY <1>5, NoJobFits DEF Learn
  <2>6. JobFits'
    BY <2>5 DEF JobFits
  <2> QED
    BY <1>2, <2>4, <2>5, <2>6, JobReads
<1> QED
  BY <1>3, <1>4, <1>5

LEMMA UuidStep ==
  ASSUME Inv, CheckUuid
  PROVE  Inv'
<1>1. /\ Checking /\ uuid \in Uuids
      /\ UNCHANGED <<uuid, files, shelf, work, thread, late, overlapped, requests, faults>>
  BY DEF CheckUuid, InTime, remote, bounds, Inv, TypeOK
<1>2. PICK i \in DOMAIN rows : i = job.row
  BY <1>1 DEF Checking, Inv, RowsFit, JobFits
<1>3. PICK id \in Uuids \cup {None} : id = uuid
  BY <1>1
<1>4. PICK status \in Statuses : status = job.seen.status
  BY DEF Inv, TypeOK, Job, Row
<1>5. rows' = Updated(i, status, id, FALSE) /\ status \in Underway
  BY <1>1, <1>2, <1>3, <1>4 DEF CheckUuid, Checking
<1>6. /\ rows' \in Seq(Row) /\ DOMAIN rows' = DOMAIN rows /\ Len(rows') = Len(rows)
      /\ rows'[i].status = status
      /\ \A j \in DOMAIN rows : /\ rows'[j].dir = rows[j].dir
                                /\ j # i => rows'[j].status = rows[j].status
  BY <1>5, Rewritten DEF Inv
<1>7. /\ job' \in Job /\ job'.at = "check" /\ job'.row = i /\ job'.seen.status = status
  <2> DEFINE seen == [job.seen EXCEPT !.uuid = uuid]
  <2>1. job \in Job /\ job.at = "check" /\ job.seen \in Row
    BY <1>1 DEF Checking, Inv, TypeOK, Job
  <2>2. seen \in Row /\ seen.status = status
    BY <1>1, <1>4, <2>1 DEF Row
  <2>3. job' = [job EXCEPT !.seen = seen]
    BY <2>1 DEF CheckUuid, Job
  <2> HIDE DEF seen
  <2> QED
    BY <1>2, <2>1, <2>2, <2>3 DEF Job
<1>8. status # "ready"
  BY <1>5 DEF Underway
<1>9. \A j \in DOMAIN rows' : rows'[j].status = "ready" => Transcripts
  BY <1>6, <1>8 DEF Inv, Ready
<1>10. Due' => Due
  BY <1>1, <1>2, <1>4, <1>6, <1>7 DEF Due, Checking
<1>11. /\ uuid' \in Uuids \cup {None} /\ work' \in {"none", "begun", "done"} /\ (Transcripts => Transcripts')
  BY <1>1 DEF Inv, TypeOK, Transcripts
<1>12. JobFits'
  BY <1>6, <1>7 DEF JobFits
<1> QED
  BY <1>1, <1>6, <1>7, <1>8, <1>9, <1>10, <1>11, <1>12, JobMoves

LEMMA JobSteps ==
  ASSUME Inv, JobStep
  PROVE  Inv'
  BY AnswerSteps, ReadyStep, ReadSteps, UuidStep DEF JobStep

LEMMA SubmitSteps ==
  ASSUME Inv, NEW t \in Threads, Submit(t)
  PROVE  Inv'
  BY CopySteps, FindSteps, WriteStep, SnapshotStep, PollStep, TriggerStep, CloseSteps DEF Submit

-----------------------------------------------------------------------------
(***************************************************************************)
(* Storyteller, time and restarts.                                         *)
(***************************************************************************)
LEMMA StorytellerSteps ==
  ASSUME Inv, Detect \/ Transcribe \/ \E i \in 1 .. 2 * MaxRequests : TooLate(i)
  PROVE  Inv'
<1>1. UNCHANGED <<rows, uuid, thread, job, overlapped, requests, faults>>
  BY DEF Detect, Transcribe, TooLate, remote, bounds
<1>2. /\ files' \in {"absent", "partial", "complete", "imported"} /\ (Whole => Whole')
      /\ work' \in {"none", "begun", "done"} /\ (Transcripts => Transcripts')
  BY DEF Detect, Transcribe, TooLate, remote, Whole, Transcripts, Inv, TypeOK
<1>3. shelf \subseteq shelf' /\ shelf' \subseteq Uuids
  <2>1. CASE Detect
    <3>1. \E u \in Uuids : u \notin shelf
      BY <2>1 DEF Detect, Inv, TypeOK
    <3>2. NewUuid \in Uuids
      BY <3>1 DEF NewUuid
    <3> QED
      BY <2>1, <3>2 DEF Detect, Inv, TypeOK
  <2>2. CASE ~Detect
    BY <2>2 DEF Transcribe, TooLate, remote, Inv, TypeOK
  <2> QED
    BY <2>1, <2>2
<1>4. late' \subseteq DOMAIN rows
  <2>1. CASE Detect \/ Transcribe
    BY <2>1 DEF Detect, Transcribe, Inv, TypeOK
  <2>2. ASSUME NEW i \in 1 .. 2 * MaxRequests, TooLate(i)
        PROVE  late' \subseteq DOMAIN rows
    <3>1. i \in {Latest, job.row} \ {0} /\ late' = late \cup {i} /\ late \subseteq DOMAIN rows
      BY <2>2 DEF TooLate, Inv, TypeOK
    <3>2. job.row \in {0} \cup DOMAIN rows
      BY DEF Inv, RowsFit, JobFits
    <3>3. Latest \in {0} \cup DOMAIN rows
      BY Table DEF Latest, Inv
    <3> QED
      BY <3>1, <3>2, <3>3
  <2> QED
    BY <2>1, <2>2
<1>5. TypeOK'
  BY <1>1, <1>2, <1>3, <1>4 DEF Inv, TypeOK
<1>6. RowsFit'
  <2>1. Unwritten' = Unwritten
    BY <1>1 DEF Unwritten
  <2> QED
    BY <1>1, <2>1 DEF Inv, RowsFit, RowFits, JobFits
<1>7. Ready'
  BY <1>1, <1>2 DEF Inv, Ready
<1>8. Alone'
  BY <1>1, <1>2 DEF Inv, Alone, Due
<1>9. New'
  BY <1>1, <1>3 DEF Inv, New, NewFits
<1> QED
  BY <1>5, <1>6, <1>7, <1>8, <1>9 DEF Inv

\* The rows stay, and nobody writes to them any more.
LEMMA RestartStep ==
  ASSUME Inv, Restart
  PROVE  Inv'
<1>1. /\ UNCHANGED <<rows, uuid, files, shelf, work, late, overlapped, requests>>
      /\ thread' = [t \in Threads |-> Idle] /\ job' = NoJob /\ Fault
  BY DEF Restart, remote
<1>2. faults' \in 0 .. MaxFaults
  BY <1>1, FaultFits DEF Inv
<1>3. job' \in Job /\ job'.at = "idle" /\ job'.row = 0
  BY <1>1, NoJobFits
<1>4. \A t \in Threads : thread'[t] = Idle
  BY <1>1
<1>5. TypeOK'
  <2>1. thread' \in [Threads -> Thread]
    BY <1>1, IdleFits
  <2> QED
    BY <1>1, <1>2, <1>3, <2>1 DEF Inv, TypeOK
<1>6. RowsFit'
  <2>1. Unwritten' = {}
    BY <1>4, IdleFits DEF Unwritten
  <2>2. IsFiniteSet(Unwritten') /\ Cardinality(Unwritten') = 0
    BY <2>1, FS_EmptySet
  <2>3. Cardinality(Unwritten) \in Nat /\ Len(rows) \in Nat /\ requests \in Nat
    BY FS_CardinalityType, Table DEF Inv, RowsFit, TypeOK
  <2>4. Len(rows') + Cardinality(Unwritten') <= 2 * requests'
    BY <1>1, <2>2, <2>3 DEF Inv, RowsFit
  <2>5. \A t \in Threads : RowFits(thread[t])'
    BY <1>4, IdleFits DEF RowFits
  <2>6. JobFits'
    BY <1>3 DEF JobFits
  <2> QED
    BY <2>2, <2>4, <2>5, <2>6 DEF RowsFit
<1>7. Ready'
  BY <1>1, <1>3 DEF Inv, Ready, Transcripts
<1>8. Alone'
  <2>1. Due' => Due
    BY <1>1, <1>3 DEF Due
  <2>2. "idle" \notin EarlyAt /\ "idle" \notin WholeAt
    BY DEF EarlyAt, WholeAt
  <2> QED
    BY <1>1, <1>4, <2>1, <2>2, IdleFits DEF Inv, Alone, Whole
<1>9. New'
  BY <1>4, IdleFits DEF New, NewFits
<1> QED
  BY <1>5, <1>6, <1>7, <1>8, <1>9 DEF Inv

LEMMA InitInv ==
  ASSUME Init
  PROVE  Inv
<1>1. /\ rows = << >> /\ work = "none" /\ files = "absent" /\ late = {} /\ overlapped = FALSE
      /\ requests = 0 /\ faults = 0 /\ job = NoJob /\ thread = [t \in Threads |-> Idle]
  BY DEF Init
<1>2. \A t \in Threads : thread[t] = Idle
  BY <1>1
<1>3. job \in Job /\ job.at = "idle" /\ job.row = 0
  BY <1>1, NoJobFits
<1>4. rows \in Seq(Row) /\ Len(rows) = 0 /\ DOMAIN rows = {}
  BY <1>1
<1>5. TypeOK
  <2>1. shelf \subseteq Uuids
    <3>1. (CHOOSE u \in Uuids : TRUE) \in Uuids
      BY SubmissionAssumption
    <3> QED
      BY <3>1 DEF Init
  <2>2. uuid \in Uuids \cup {None}
    BY <2>1 DEF Init
  <2>3. thread \in [Threads -> Thread]
    BY <1>1, IdleFits
  <2>4. 0 \in 0 .. MaxRequests /\ 0 \in 0 .. MaxFaults /\ 0 <= 2 * MaxRequests
    BY SubmissionAssumption
  <2> QED
    BY <1>1, <1>3, <1>4, <2>1, <2>2, <2>3, <2>4 DEF TypeOK
<1>6. RowsFit
  <2>1. Unwritten = {}
    BY <1>2, IdleFits DEF Unwritten
  <2>2. IsFiniteSet(Unwritten) /\ Cardinality(Unwritten) = 0
    BY <2>1, FS_EmptySet
  <2>3. \A t \in Threads : RowFits(thread[t])
    BY <1>2, IdleFits DEF RowFits
  <2> QED
    BY <1>1, <1>3, <1>4, <2>2, <2>3 DEF RowsFit, JobFits
<1>7. Ready
  BY <1>3, <1>4 DEF Ready
<1>8. Alone
  <2>1. "idle" \notin EarlyAt /\ "idle" \notin WholeAt /\ ~Due
    BY <1>3, <1>4 DEF EarlyAt, WholeAt, Due
  <2> QED
    BY <1>2, <2>1, IdleFits DEF Alone
<1>9. New
  BY <1>2, IdleFits DEF New, NewFits
<1> QED
  BY <1>5, <1>6, <1>7, <1>8, <1>9 DEF Inv

LEMMA NextInv ==
  ASSUME Inv, [Next]_vars
  PROVE  Inv'
<1>1. CASE UNCHANGED vars
  <2>1. UNCHANGED <<rows, uuid, files, shelf, work, thread, job, late, overlapped, requests, faults>>
    BY <1>1 DEF vars
  <2>2. Unwritten' = Unwritten
    BY <2>1 DEF Unwritten
  <2>3. TypeOK' /\ Ready' /\ Alone' /\ New'
    BY <2>1 DEF Inv, TypeOK, Ready, Transcripts, Alone, Due, Whole, New, NewFits
  <2>4. RowsFit'
    BY <2>1, <2>2 DEF Inv, RowsFit, RowFits, JobFits
  <2> QED
    BY <2>3, <2>4 DEF Inv
<1>2. CASE Next
  BY <1>2, StartSteps, SubmitSteps, JobSteps, StorytellerSteps, RestartStep DEF Next
<1> QED
  BY <1>1, <1>2

-----------------------------------------------------------------------------
(***************************************************************************)
(* Theorems.                                                               *)
(***************************************************************************)
\* The rows that submissions and the job refer to are in the table, what is ready is
\* transcribed, a submission that is alone has copied what it submits, and one that
\* did not fail knows what was there before (storyteller_submission_service.py:96-369).
THEOREM SubmissionInvariant == Spec => []Inv
<1>1. Init => Inv
  BY InitInv
<1>2. Inv /\ [Next]_vars => Inv'
  BY NextInv
<1> QED
  BY <1>1, <1>2, PTL DEF Spec

\* The variables keep their types, and a ready submission has a transcript, whatever
\* fails or restarts (storyteller_submission_service.py:230).
THEOREM ReadyBackedCorrect == Spec => []ReadyBacked
<1>1. Inv => ReadyBacked
  BY DEF Inv, Ready, ReadyBacked, Transcripts
<1> QED
  BY <1>1, SubmissionInvariant, PTL

\* What Storyteller is to work on has been copied as a whole, while no submission is
\* started or stored beside another (storyteller_submission_service.py:127).
THEOREM SubmittedWholeCorrect == Spec => []SubmittedWhole
<1>1. Inv => SubmittedWhole
  BY DEF Inv, Alone, Due, Whole, SubmittedWhole
<1> QED
  BY <1>1, SubmissionInvariant, PTL

\* The book that is processed is new, unless something failed
\* (storyteller_submission_service.py:340).
THEOREM TriggersNewCorrect == Spec => TriggersNew
<1>1. Inv /\ [Next]_vars => [\A t \in Threads :
        (At(t, "trigger") /\ faults = 0 /\ thread'[t].at = "tell")
          => thread[t].found \notin thread[t].before]_vars
  BY DEF Inv, New, NewFits, At
<1> QED
  BY <1>1, SubmissionInvariant, PTL DEF Spec, TriggersNew
=============================================================================
