------------------------ MODULE BackgroundJobsProofs ------------------------
(***************************************************************************)
(* Theorems about BackgroundJobs, for any books, retries and bounds: no    *)
(* book is stranded in "processing", a book fails at most MaxRetries times *)
(* between two interventions of a user, and only failures use up retries.  *)
(***************************************************************************)
EXTENDS BackgroundJobs, TLAPS

(***************************************************************************)
(* Types.                                                                  *)
(***************************************************************************)
LEMMA NotNone ==
    /\ \A n \in Nat : n # None
    /\ \A c \in Check : c # None
    /\ \A j \in Job : j # None
    /\ \A u \in User : u # None
  BY JobsAssumption

\* What a thread writes back is a Book row.
LEMMA RowFields ==
  ASSUME NEW s \in Row
  PROVE  /\ \A v \in Statuses : [s EXCEPT !.status = v] \in Row
         /\ \A v \in BOOLEAN : [s EXCEPT !.uuid = v] \in Row /\ [s EXCEPT !.hash = v] \in Row
  BY DEF Row

LEMMA JobFields ==
  ASSUME NEW j \in Job
  PROVE  /\ \A p \in Phases \cup Endings : [j EXCEPT !.at = p] \in Job
         /\ \A p \in Phases \cup Endings, s \in Row : [j EXCEPT !.at = p, !.snap = s] \in Job
         /\ \A p \in Phases \cup Endings, n \in Nat : [j EXCEPT !.at = p, !.count = n] \in Job
         /\ [j EXCEPT !.at = "fail", !.failed = TRUE] \in Job
         /\ j.book \in Books /\ j.snap \in Row /\ j.count \in Nat /\ j.failed \in BOOLEAN
  BY DEF Job, Endings

\* A job that moves on is a job for the same book, with what it knows.
LEMMA JobMoves ==
  ASSUME NEW j \in Job
  PROVE  /\ \A p \in Phases \cup Endings :
              LET k == [j EXCEPT !.at = p]
              IN  /\ k # None /\ k.book = j.book /\ k.at = p
                  /\ k.snap = j.snap /\ k.count = j.count /\ k.failed = j.failed
         /\ LET k == [j EXCEPT !.at = "fail", !.failed = TRUE]
            IN  k # None /\ k.book = j.book /\ k.at = "fail" /\ k.snap = j.snap
<1>1. /\ \A p \in Phases \cup Endings : [j EXCEPT !.at = p] # None
      /\ [j EXCEPT !.at = "fail", !.failed = TRUE] # None
  BY JobFields, NotNone
<1> QED
  BY <1>1 DEF Job

LEMMA CountType ==
  ASSUME TypeOK, NEW b \in Books
  PROVE  RetryCount(b) \in Nat
  BY DEF TypeOK, RetryCount

LEMMA WithoutNativePhase ==
  ASSUME NEW s
  PROVE  WithoutNative(s) \in Phases \cup Endings
  BY DEF WithoutNative, Phases, Endings

LEMMA RequestedType ==
  ASSUME NEW kind \in Requests, NEW s \in Row
  PROVE  Requested(kind, s) \in Row
  BY DEF Requested, Row, Statuses, Requests

LEMMA JobsInit == Init => TypeOK
  BY JobsAssumption DEF Init, TypeOK, Row, Statuses, Submissions, Waiting

LEMMA SchedulerType ==
  ASSUME TypeOK, Scheduler
  PROVE  TypeOK'
<1> USE NotNone
<1>1. CASE CheckPending
  <2>1. PICK b \in Books :
           check' = [at |-> "claim", book |-> b, snap |-> row[b], count |-> 0]
    BY <1>1 DEF CheckPending, Pending, Retryable
  <2>2. check' \in Check
    BY <2>1 DEF Check, TypeOK
  <2> QED
    BY <1>1, <2>2 DEF CheckPending, TypeOK, tables, history, bounds
<1>2. CASE Claim
  <2>1. check \in Check
    BY <1>2 DEF Claim, TypeOK
  <2> DEFINE s == [check.snap EXCEPT !.status = "processing"]
  <2>2. s \in Row
    BY <2>1, RowFields DEF Check, Statuses
  <2>3. check' \in Check
    BY <1>2, <2>1, <2>2 DEF Claim, Check
  <2>4. row' \in [Books -> Row]
    BY <1>2, <2>2 DEF Claim, SaveBook, TypeOK
  <2> QED
    BY <1>2, <2>3, <2>4 DEF Claim, TypeOK, history, bounds
<1>3. CASE ClaimLook
  <2>1. check \in Check
    BY <1>3 DEF ClaimLook, TypeOK
  <2>2. RetryCount(check.book) \in Nat
    BY <2>1, CountType DEF Check
  <2>3. check' \in Check
    BY <1>3, <2>1, <2>2 DEF ClaimLook, Check
  <2> QED
    BY <1>3, <2>3 DEF ClaimLook, TypeOK, tables, history, bounds
<1>4. CASE StartJob
  <2>1. check \in Check
    BY <1>4 DEF StartJob, TypeOK
  <2>2. job' \in Job
    BY <1>4, <2>1 DEF StartJob, Check, Job, Phases
  <2>3. jobs' \in [Books -> Nat \cup {None}] /\ cool' \subseteq Books
    BY <1>4, <2>1 DEF StartJob, SaveJob, Check, TypeOK
  <2> QED
    BY <1>4, <2>2, <2>3 DEF StartJob, TypeOK, history, bounds
<1>5. CASE CheckFails
  BY <1>5 DEF CheckFails, TypeOK, tables, bounds, Check
<1> QED
  BY <1>1, <1>2, <1>3, <1>4, <1>5 DEF Scheduler

LEMMA JobThreadType ==
  ASSUME TypeOK, JobThread
  PROVE  TypeOK'
<1> USE NotNone
<1>1. job \in Job
  BY DEF JobThread, AcquireEpub, TimelineReady, NoSubmission, StillWaiting, SubmissionReady,
     AlignNative, AutoSubmit, Transcribe, AlignTranscript, FinishBook, FinishLook, SettleJob,
     PhaseFails, ReadCount, RecordJob, MarkBook, HandlerFails, At, TypeOK
<1>2. job.book \in Books /\ job.snap \in Row /\ job.count \in Nat
  BY <1>1, JobFields
<1>3. RetryCount(job.book) \in Nat
  BY <1>2, CountType
<1>4. \A s : WithoutNative(s) \in Phases \cup Endings
  BY WithoutNativePhase
<1>5. CASE AcquireEpub
  <2> DEFINE s == [job.snap EXCEPT !.hash = TRUE]
  <2>1. s \in Row
    BY <1>2, RowFields
  <2>2. job' \in {[job EXCEPT !.at = "storyteller"], [job EXCEPT !.at = "storyteller", !.snap = s]}
    BY <1>5 DEF AcquireEpub, GoTo
  <2> HIDE DEF s
  <2>4. job' \in Job
    BY <1>1, <2>1, <2>2 DEF Job, Phases
  <2>3. row' \in [Books -> Row]
    BY <1>2, <1>5, <2>1 DEF AcquireEpub, SaveBook, TypeOK, s
  <2> QED
    BY <1>5, <2>4, <2>3 DEF AcquireEpub, TypeOK, history, bounds
<1>6. CASE TimelineReady
  BY <1>1, <1>2, <1>6, JobFields DEF TimelineReady, GoTo, TypeOK, history, bounds, Phases, Submissions
<1>7. CASE NoSubmission
  <2>1. job' \in Job
    BY <1>1, <1>4, <1>7, JobFields DEF NoSubmission, GoTo, Phases
  <2> QED
    BY <1>7, <2>1 DEF NoSubmission, TypeOK, tables, history, bounds
<1>8. CASE StillWaiting
  BY <1>1, <1>2, <1>8, JobFields DEF StillWaiting, GoTo, TypeOK, history, bounds, Endings, Submissions
<1>9. CASE SubmissionReady
  <2>1. PICK known \in BOOLEAN :
          LET snap == [job.snap EXCEPT !.uuid = @ \/ known]
          IN  /\ row' = IF snap = job.snap THEN row ELSE [row EXCEPT ![job.book] = snap]
              /\ job' = [job EXCEPT !.snap = snap,
                             !.at = IF snap.uuid THEN "native" ELSE WithoutNative(snap)]
    BY <1>9 DEF SubmissionReady
  <2> DEFINE s == [job.snap EXCEPT !.uuid = @ \/ known]
             p == IF s.uuid THEN "native" ELSE WithoutNative(s)
  <2>2. s \in Row
    BY <1>2, RowFields DEF Row
  <2>3. p \in Phases \cup Endings
    BY <1>4 DEF Phases
  <2>4. row' \in [Books -> Row]
    BY <1>2, <2>1, <2>2 DEF TypeOK
  <2>5. job' = [job EXCEPT !.snap = s, !.at = p]
    BY <2>1
  <2> HIDE DEF s, p
  <2>6. job' \in Job
    BY <1>1, <2>2, <2>3, <2>5 DEF Job
  <2>7. sub' \in [Books -> Submissions]
    BY <1>2, <1>9 DEF SubmissionReady, TypeOK, Submissions
  <2> QED
    BY <1>9, <2>4, <2>6, <2>7 DEF SubmissionReady, TypeOK, history, bounds
<1>10. CASE AlignNative
  <2>2. job' \in {[job EXCEPT !.at = "finish"], [job EXCEPT !.at = WithoutNative(job.snap)]}
    BY <1>10 DEF AlignNative, GoTo
  <2>1. job' \in Job
    BY <1>1, <1>4, <2>2 DEF Job, Phases
  <2> QED
    BY <1>2, <1>10, <2>1 DEF AlignNative, TypeOK, history, bounds
<1>11. CASE AutoSubmit
  <2>2. job' \in {[job EXCEPT !.at = "defer"], [job EXCEPT !.at = "transcribe"]}
    BY <1>11 DEF AutoSubmit, GoTo
  <2>1. job' \in Job
    BY <1>1, <2>2 DEF Job, Phases, Endings
  <2> QED
    BY <1>2, <1>11, <2>1 DEF AutoSubmit, TypeOK, history, bounds, Submissions, Waiting
<1>12. CASE Transcribe
  BY <1>1, <1>12, JobFields DEF Transcribe, GoTo, TypeOK, tables, history, bounds, Phases
<1>13. CASE AlignTranscript
  BY <1>1, <1>2, <1>13, JobFields DEF AlignTranscript, GoTo, TypeOK, history, bounds, Phases
<1>14. CASE FinishBook
  <2> DEFINE s == [job.snap EXCEPT !.status = "active"]
  <2>1. s \in Row
    BY <1>2, RowFields DEF Statuses
  <2>2. job' \in Job
    BY <1>1, <1>14, <2>1, JobFields DEF FinishBook, Phases
  <2>3. row' \in [Books -> Row]
    BY <1>2, <1>14, <2>1 DEF FinishBook, SaveBook, TypeOK
  <2> QED
    BY <1>14, <2>2, <2>3 DEF FinishBook, TypeOK, history, bounds
<1>15. CASE FinishLook
  <2>2. job' \in {[job EXCEPT !.at = "settle"], None}
    BY <1>15 DEF FinishLook, GoTo
  <2>1. job' \in Job \cup {None}
    BY <1>1, <2>2 DEF Job, Phases
  <2> QED
    BY <1>2, <1>15, <2>1 DEF FinishLook, TypeOK, tables, bounds
<1>16. CASE SettleJob
  BY <1>2, <1>16 DEF SettleJob, TypeOK, bounds
<1>17. CASE PhaseFails
  <2>1. job' \in Job
    BY <1>1, <1>17, JobFields DEF PhaseFails
  <2> QED
    BY <1>17, <2>1 DEF PhaseFails, TypeOK, tables, history, bounds
<1>18. CASE ReadCount
  <2>1. job.failed \in BOOLEAN
    BY <1>1, JobFields
  <2>2. RetryCount(job.book) + (IF job.failed THEN 1 ELSE 0) \in Nat
    BY <1>3, <2>1
  <2>3. job' \in Job
    BY <1>1, <1>18, <2>2, JobFields DEF ReadCount, Endings
  <2> QED
    BY <1>18, <2>3 DEF ReadCount, TypeOK, tables, history, bounds
<1>19. CASE RecordJob
  <2>1. job' \in Job
    BY <1>1, <1>19, JobFields DEF RecordJob, GoTo, Endings
  <2>2. jobs' \in [Books -> Nat \cup {None}] /\ cool' \subseteq Books
    BY <1>2, <1>19 DEF RecordJob, SaveJob, TypeOK
  <2>3. tries' \in [Books -> Nat] /\ fails' \in [Books -> Nat]
    BY <1>2, <1>19 DEF RecordJob, TypeOK
  <2> QED
    BY <1>19, <2>1, <2>2, <2>3 DEF RecordJob, TypeOK, bounds
<1>20. CASE MarkBook
  <2> DEFINE v == IF job.failed /\ job.count >= MaxRetries THEN "failed_permanent"
                                                           ELSE "failed_retry_later"
  <2>1. [job.snap EXCEPT !.status = v] \in Row
    BY <1>2, RowFields DEF Statuses
  <2>2. row' \in [Books -> Row]
    BY <1>2, <1>20, <2>1 DEF MarkBook, SaveBook, TypeOK
  <2> QED
    BY <1>20, <2>2 DEF MarkBook, TypeOK, history, bounds
<1>21. CASE HandlerFails
  BY <1>2, <1>21 DEF HandlerFails, TypeOK, tables, bounds
<1> QED
  BY <1>5, <1>6, <1>7, <1>8, <1>9, <1>10, <1>11, <1>12, <1>13, <1>14, <1>15, <1>16, <1>17,
     <1>18, <1>19, <1>20, <1>21 DEF JobThread

LEMMA UserType ==
  ASSUME TypeOK, Users \/ UserStep
  PROVE  TypeOK'
<1> USE NotNone
<1>1. CASE Users
  <2>1. PICK b \in Books : Realign(b) \/ \E kind \in Requests : Request(kind, b)
    BY <1>1 DEF Users
  <2>2. requests < MaxRequests => requests + 1 \in 0 .. MaxRequests
    BY JobsAssumption DEF TypeOK
  <2>3. CASE Realign(b)
    <3>1. [row[b] EXCEPT !.status = "pending"] \in Row
      BY RowFields DEF TypeOK, Statuses
    <3>2. row' \in [Books -> Row]
      BY <2>3, <3>1 DEF Realign, TypeOK
    <3> QED
      BY <2>2, <2>3, <3>2 DEF Realign, TypeOK, threads
  <2>4. CASE \E kind \in Requests : Request(kind, b)
    <3>1. PICK kind \in Requests : Request(kind, b)
      BY <2>4
    <3>2. user' \in User
      BY <3>1 DEF Request, User, TypeOK
    <3> QED
      BY <2>2, <3>1, <3>2 DEF Request, TypeOK, tables, history
  <2> QED
    BY <2>1, <2>3, <2>4
<1>2. CASE UserStep
  <2>1. user \in User
    BY <1>2 DEF UserStep, DeleteJobs, ClearStatus, ClearLook, UserSaves, UserFails, TypeOK
  <2>2. user.book \in Books /\ user.snap \in Row /\ user.kind \in Requests
    BY <2>1 DEF User
  <2>3. CASE DeleteJobs
    <3>1. user' \in User
      BY <2>1, <2>3 DEF DeleteJobs, User
    <3> QED
      BY <2>2, <2>3, <3>1 DEF DeleteJobs, TypeOK, bounds
  <2>4. CASE ClearStatus
    <3>1. user' \in User
      BY <2>1, <2>4 DEF ClearStatus, User
    <3>2. [user.snap EXCEPT !.status = "not_started"] \in Row
      BY <2>2, RowFields DEF Statuses
    <3>3. row' \in [Books -> Row]
      BY <2>2, <2>4, <3>2 DEF ClearStatus, SaveBook, TypeOK
    <3> QED
      BY <2>4, <3>1, <3>3 DEF ClearStatus, TypeOK, history, bounds
  <2>5. CASE ClearLook
    <3>1. [user EXCEPT !.at = "save", !.snap = row[user.book]] \in User
      BY <2>1, <2>2 DEF User, TypeOK
    <3> QED
      BY <2>5, <3>1 DEF ClearLook, TypeOK, tables, history, bounds
  <2>6. CASE UserSaves
    <3>1. Requested(user.kind, user.snap) \in Row
      BY <2>2, RequestedType
    <3> QED
      BY <2>2, <2>6, <3>1 DEF UserSaves, SaveBook, TypeOK, bounds
  <2>7. CASE UserFails
    BY <2>7 DEF UserFails, TypeOK, tables, history, bounds
  <2> QED
    BY <1>2, <2>3, <2>4, <2>5, <2>6, <2>7 DEF UserStep
<1> QED
  BY <1>1, <1>2

LEMMA RestartType ==
  ASSUME TypeOK, Restart \/ Tidying
  PROVE  TypeOK'
<1> USE NotNone
<1>1. CASE Restart
  <2>1. restarts' \in 0 .. MaxRestarts
    BY <1>1, JobsAssumption DEF Restart, TypeOK
  <2> QED
    BY <1>1, <2>1 DEF Restart, TypeOK, tables
<1>2. CASE TidyFails
  BY <1>2 DEF TidyFails, TypeOK, tables, bounds
<1>3. CASE \E b \in Books : TidyBook(b)
  <2>1. PICK b \in Books : TidyBook(b)
    BY <1>3
  <2>2. \A v \in Statuses : [row[b] EXCEPT !.status = v] \in Row
    BY RowFields DEF TypeOK
  <2>3. row' \in {row, [row EXCEPT ![b].status = "active"], [row EXCEPT ![b].status = "failed_retry_later"]}
    BY <2>1 DEF TidyBook
  <2>4. row' \in [Books -> Row]
    BY <2>2, <2>3 DEF TypeOK, Statuses
  <2> QED
    BY <2>1, <2>4 DEF TidyBook, TypeOK, history, bounds
<1>4. CASE \E b \in Books : TidyJob(b)
  <2>1. PICK b \in Books : TidyJob(b)
    BY <1>4
  <2>2. RetryCount(b) \in Nat
    BY CountType
  <2> QED
    BY <2>1, <2>2 DEF TidyJob, SaveJob, TypeOK, history, bounds
<1> QED
  BY <1>1, <1>2, <1>3, <1>4 DEF Tidying

LEMMA TimeType ==
  ASSUME TypeOK, Time
  PROVE  TypeOK'
  BY DEF Time, DelayPasses, SubmissionAges, TypeOK, Submissions, Waiting, threads, history, bounds

LEMMA StutterType ==
  ASSUME TypeOK, UNCHANGED vars
  PROVE  TypeOK'
  BY DEF TypeOK, vars, tables, threads, history, bounds

\* Every behaviour of the jobs stays within its types.
THEOREM TypeCorrect == Spec => []TypeOK
<1>1. Init => TypeOK
  BY JobsInit
<1>2. TypeOK /\ [Next]_vars => TypeOK'
  BY SchedulerType, JobThreadType, UserType, RestartType, TimeType, StutterType DEF Next
<1> QED
  BY <1>1, <1>2, PTL DEF Spec

(***************************************************************************)
(* The scheduler starts a job only when there is none, and no thread runs  *)
(* before the clean-up is over.                                            *)
(***************************************************************************)
Exclusive ==
    /\ ~Up => check = None /\ job = None /\ user = None
    /\ job # None => check = None

LEMMA ExclusiveStep ==
  ASSUME TypeOK, Exclusive, [Next]_vars
  PROVE  Exclusive'
<1> USE DEF Exclusive, Up
<1>1. CASE Scheduler
  BY <1>1 DEF Scheduler, CheckPending, Claim, ClaimLook, StartJob, CheckFails, SaveJob, tables
<1>2. CASE JobThread
  BY <1>2 DEF JobThread, AcquireEpub, TimelineReady, NoSubmission, StillWaiting, SubmissionReady,
     AlignNative, AutoSubmit, Transcribe, AlignTranscript, FinishBook, FinishLook, SettleJob,
     PhaseFails, ReadCount, RecordJob, MarkBook, HandlerFails, At
<1>3. CASE Users \/ UserStep
  BY <1>3 DEF Users, Realign, Request, UserStep, DeleteJobs, ClearStatus, ClearLook, UserSaves,
     UserFails, threads
<1>4. CASE Restart
  BY <1>4 DEF Restart
<1>5. CASE Tidying
  BY <1>5 DEF Tidying, TidyBook, TidyJob, TidyFails, TypeOK
<1>6. CASE Time \/ UNCHANGED vars
  BY <1>6 DEF Time, DelayPasses, SubmissionAges, vars, threads
<1> QED
  BY <1>1, <1>2, <1>3, <1>4, <1>5, <1>6 DEF Next

(***************************************************************************)
(* No book is stranded.                                                    *)
(***************************************************************************)
\* A job that has finished its book left it in another status, a book the
\* clean-up still owes a Job row has one too, and no user writes "processing".
Processing ==
    /\ job # None /\ job.at \in {"look", "settle"} => row[job.book].status # "processing"
    /\ \A b \in Books : tidy[b] = "note" => row[b].status # "processing"
    /\ user # None => user.kind # "edit"

StrandedInv == TypeOK /\ Exclusive /\ Processing /\ NoBookStranded

\* What a user saves is never in "processing".
LEMMA RequestedStatus ==
  ASSUME NEW kind \in Requests \ {"edit"}, NEW s \in Row
  PROVE  Requested(kind, s).status # "processing"
  BY DEF Requested, Row, Requests

LEMMA SchedulerStrands ==
  ASSUME StrandedInv, Scheduler
  PROVE  (Processing /\ NoBookStranded)'
<1> USE NotNone DEF StrandedInv, Exclusive, Processing, NoBookStranded
<1>1. CASE CheckPending
  BY <1>1 DEF CheckPending, Pending, Retryable, tables, history
<1>2. CASE Claim
  <2>1. check \in Check /\ job = None /\ Up
    BY <1>2 DEF Claim, TypeOK
  <2> DEFINE s == [check.snap EXCEPT !.status = "processing"]
  <2>2. row' = [row EXCEPT ![check.book] = s] /\ check' = [check EXCEPT !.at = "look", !.snap = s]
    BY <1>2 DEF Claim, SaveBook
  <2>3. check' # None /\ check'.book = check.book
    BY <2>1, <2>2, RowFields DEF Check, Statuses
  <2>4. \A b \in Books : b # check.book => row'[b] = row[b]
    BY <2>2 DEF TypeOK
  <2> QED
    BY <1>2, <2>1, <2>3, <2>4 DEF Claim, Up, history
<1>3. CASE ClaimLook
  <2>1. check \in Check /\ RetryCount(check.book) \in Nat
    BY <1>3, CountType DEF ClaimLook, Check, TypeOK
  <2>2. check' # None /\ check'.book = check.book
    BY <1>3, <2>1 DEF ClaimLook, Check
  <2> QED
    BY <1>3, <2>2 DEF ClaimLook, tables, history
<1>4. CASE StartJob
  <2>1. check \in Check
    BY <1>4 DEF StartJob, TypeOK
  <2>2. job' # None /\ job'.book = check.book /\ job'.at = "epub"
    BY <1>4, <2>1 DEF StartJob, Check, Job, Phases
  <2> QED
    BY <1>4, <2>2 DEF StartJob, history
<1>5. CASE CheckFails
  BY <1>5 DEF CheckFails, tables
<1> QED
  BY <1>1, <1>2, <1>3, <1>4, <1>5 DEF Scheduler

\* The job keeps its book until it ends, and ends in another status.
LEMMA JobStrands ==
  ASSUME StrandedInv, JobThread
  PROVE  (Processing /\ NoBookStranded)'
<1>0. TypeOK /\ Exclusive /\ Processing /\ NoBookStranded
  BY DEF StrandedInv
<1>1. job \in Job /\ job # None /\ check = None /\ Up /\ UNCHANGED <<check, user, tidy>>
  BY <1>0, NotNone DEF JobThread, AcquireEpub, TimelineReady, NoSubmission, StillWaiting, SubmissionReady,
     AlignNative, AutoSubmit, Transcribe, AlignTranscript, FinishBook, FinishLook, SettleJob,
     PhaseFails, ReadCount, RecordJob, MarkBook, HandlerFails, At, TypeOK, history, Exclusive
<1>2. job.book \in Books /\ job.snap \in Row
  BY <1>1, JobFields
<1>3. \A b \in Books : tidy'[b] = "no"
  BY <1>1 DEF Up
<1>5. ASSUME job' # None, job'.book = job.book, hurt' = hurt,
             \A b \in Books : b # job.book => row'[b] = row[b],
             job'.at \in {"look", "settle"} => row'[job.book].status # "processing"
      PROVE  (Processing /\ NoBookStranded)'
  BY <1>0, <1>1, <1>3, <1>5 DEF Processing, NoBookStranded
<1>4. ASSUME job' = None, hurt \subseteq hurt',
             \A b \in Books : b # job.book => row'[b] = row[b],
             row'[job.book].status # "processing" \/ job.book \in hurt'
      PROVE  (Processing /\ NoBookStranded)'
  BY <1>0, <1>1, <1>3, <1>4 DEF Processing, NoBookStranded
<1>6. ASSUME NEW p \in Phases \cup Endings, GoTo(p), hurt' = hurt, row' = row,
             p \in {"look", "settle"} => job.at \in {"look", "settle"}
      PROVE  (Processing /\ NoBookStranded)'
  <2>1. job' # None /\ job'.book = job.book /\ job'.at = p
    BY <1>1, <1>6, JobMoves DEF GoTo
  <2>2. job'.at \in {"look", "settle"} => row'[job.book].status # "processing"
    BY <1>0, <1>1, <1>6, <2>1 DEF Processing
  <2> QED
    BY <1>5, <1>6, <2>1, <2>2
<1>7. CASE AcquireEpub
  <2> DEFINE s == [job.snap EXCEPT !.hash = TRUE]
  <2>1. s \in Row
    BY <1>2, RowFields
  <2>2. job' \in {[job EXCEPT !.at = "storyteller"], [job EXCEPT !.at = "storyteller", !.snap = s]}
    BY <1>7 DEF AcquireEpub, GoTo
  <2>3. \A b \in Books : b # job.book => row'[b] = row[b]
    BY <1>0, <1>2, <1>7 DEF AcquireEpub, SaveBook, TypeOK
  <2> HIDE DEF s
  <2>4. job' # None /\ job'.book = job.book /\ job'.at = "storyteller"
    <3>1. job' \in Job
      BY <1>1, <2>1, <2>2 DEF Job, Phases
    <3> QED
      BY <1>1, <2>2, <3>1, NotNone DEF Job
  <2> QED
    BY <1>5, <1>7, <2>3, <2>4 DEF AcquireEpub, history
<1>8. CASE SubmissionReady
  <2>1. PICK known \in BOOLEAN :
          LET snap == [job.snap EXCEPT !.uuid = @ \/ known]
          IN  /\ row' = IF snap = job.snap THEN row ELSE [row EXCEPT ![job.book] = snap]
              /\ job' = [job EXCEPT !.snap = snap,
                             !.at = IF snap.uuid THEN "native" ELSE WithoutNative(snap)]
    BY <1>8 DEF SubmissionReady
  <2> DEFINE s == [job.snap EXCEPT !.uuid = @ \/ known]
             p == IF s.uuid THEN "native" ELSE WithoutNative(s)
  <2>2. s \in Row
    BY <1>2, RowFields DEF Row
  <2>3. p \in {"native", "transcribe", "defer", "submit"}
    BY DEF WithoutNative
  <2>4. \A b \in Books : b # job.book => row'[b] = row[b]
    BY <1>0, <1>2, <2>1 DEF TypeOK
  <2>5. job' = [job EXCEPT !.at = p, !.snap = s]
    BY <2>1
  <2> HIDE DEF s, p
  <2>6. job' # None /\ job'.book = job.book /\ job'.at = p
    <3>1. job' \in Job
      BY <1>1, <2>2, <2>3, <2>5 DEF Job, Phases, Endings
    <3> QED
      BY <1>1, <2>5, <3>1, NotNone DEF Job
  <2> QED
    BY <1>5, <1>8, <2>3, <2>4, <2>6 DEF SubmissionReady, history
<1>9. CASE TimelineReady
  BY <1>6, <1>9 DEF TimelineReady, Phases, history
<1>10. CASE NoSubmission
  <2>1. PICK p \in {"native", "transcribe", "defer", "submit"} : GoTo(p)
    BY <1>10 DEF NoSubmission, WithoutNative
  <2> QED
    BY <1>6, <1>10, <2>1 DEF NoSubmission, Phases, Endings, tables, history
<1>11. CASE StillWaiting
  BY <1>6, <1>11 DEF StillWaiting, Endings, history
<1>12. CASE AlignNative
  <2>1. PICK p \in {"finish", "transcribe", "defer", "submit"} : GoTo(p)
    BY <1>12 DEF AlignNative, WithoutNative
  <2> QED
    BY <1>6, <1>12, <2>1 DEF AlignNative, Phases, Endings, history
<1>13. CASE AutoSubmit
  BY <1>6, <1>13 DEF AutoSubmit, Phases, Endings, history
<1>14. CASE Transcribe \/ AlignTranscript
  BY <1>6, <1>14 DEF Transcribe, AlignTranscript, Phases, tables, history
<1>15. CASE FinishBook
  <2> DEFINE s == [job.snap EXCEPT !.status = "active"]
  <2>1. s \in Row /\ s.status = "active"
    BY <1>2, RowFields DEF Row, Statuses
  <2>2. job' = [job EXCEPT !.at = "look", !.snap = s] /\ row' = [row EXCEPT ![job.book] = s]
    BY <1>15 DEF FinishBook, SaveBook
  <2> HIDE DEF s
  <2>3. job' # None /\ job'.book = job.book
    <3>1. job' \in Job
      BY <1>1, <2>1, <2>2 DEF Job, Phases
    <3> QED
      BY <1>1, <2>2, <3>1, NotNone DEF Job
  <2>4. row'[job.book].status # "processing" /\ \A b \in Books : b # job.book => row'[b] = row[b]
    BY <1>0, <1>2, <2>1, <2>2 DEF TypeOK
  <2> QED
    BY <1>5, <1>15, <2>3, <2>4 DEF FinishBook, history
<1>16. CASE FinishLook
  <2>1. CASE job' = None
    <3>1. row[job.book].status # "processing" /\ row' = row /\ hurt' = hurt
      BY <1>0, <1>1, <1>16 DEF FinishLook, At, tables, Processing
    <3> QED
      BY <1>4, <2>1, <3>1, <1>2
  <2>2. CASE GoTo("settle")
    BY <1>6, <1>16, <2>2 DEF FinishLook, At, Phases, tables
  <2> QED
    BY <1>16, <2>1, <2>2 DEF FinishLook
<1>17. CASE SettleJob
  <2>1. row[job.book].status # "processing" /\ row' = row /\ hurt' = hurt
    BY <1>0, <1>1, <1>17 DEF SettleJob, At, Processing
  <2> QED
    BY <1>4, <1>17, <2>1 DEF SettleJob
<1>18. CASE PhaseFails
  <2>1. job' # None /\ job'.book = job.book /\ job'.at = "fail"
    BY <1>1, <1>18, JobMoves DEF PhaseFails
  <2> QED
    BY <1>5, <1>18, <2>1 DEF PhaseFails, tables, history
<1>19. CASE ReadCount
  <2> DEFINE n == RetryCount(job.book) + IF job.failed THEN 1 ELSE 0
  <2>1. n \in Nat
    <3>1. job.failed \in BOOLEAN /\ RetryCount(job.book) \in Nat
      BY <1>0, <1>1, <1>2, JobFields, CountType
    <3> QED
      BY <3>1
  <2>2. job' = [job EXCEPT !.at = "record", !.count = n]
    BY <1>19 DEF ReadCount
  <2> HIDE DEF n
  <2>3. job' # None /\ job'.book = job.book /\ job'.at = "record"
    <3>1. job' \in Job
      BY <1>1, <2>1, <2>2 DEF Job, Endings
    <3> QED
      BY <1>1, <2>2, <3>1, NotNone DEF Job
  <2> QED
    BY <1>5, <1>19, <2>3 DEF ReadCount, tables, history
<1>20. CASE RecordJob
  BY <1>6, <1>20 DEF RecordJob, Endings
<1>21. CASE MarkBook
  <2> DEFINE v == IF job.failed /\ job.count >= MaxRetries THEN "failed_permanent"
                                                           ELSE "failed_retry_later"
  <2>1. [job.snap EXCEPT !.status = v].status # "processing"
    BY <1>2 DEF Row
  <2>2. row'[job.book].status # "processing" /\ \A b \in Books : b # job.book => row'[b] = row[b]
    BY <1>0, <1>2, <1>21, <2>1 DEF MarkBook, SaveBook, TypeOK
  <2> QED
    BY <1>4, <1>21, <2>2 DEF MarkBook, history
<1>22. CASE HandlerFails
  BY <1>4, <1>22 DEF HandlerFails, tables
<1> QED
  BY <1>7, <1>8, <1>9, <1>10, <1>11, <1>12, <1>13, <1>14, <1>15, <1>16, <1>17, <1>18, <1>19,
     <1>20, <1>21, <1>22 DEF JobThread

\* What a user saves is in another status.
LEMMA UserStrands ==
  ASSUME StrandedInv, ~SlowEdits, Users \/ UserStep
  PROVE  (Processing /\ NoBookStranded)'
<1>0. TypeOK /\ Exclusive /\ Processing /\ NoBookStranded
  BY DEF StrandedInv
<1>1. UNCHANGED <<check, job, tidy, hurt>>
  BY DEF Users, Realign, Request, UserStep, DeleteJobs, ClearStatus, ClearLook, UserSaves,
     UserFails, tables, threads, history
<1>2. ASSUME \A b \in Books : row'[b] = row[b] \/ row'[b].status # "processing",
             user' # None => user'.kind # "edit"
      PROVE  (Processing /\ NoBookStranded)'
  <2>1. job # None => job.book \in Books
    BY <1>0, JobFields DEF TypeOK
  <2> QED
    BY <1>0, <1>1, <1>2, <2>1 DEF Processing, NoBookStranded
<1>3. CASE Users
  <2>1. PICK b \in Books : Realign(b) \/ \E kind \in Requests : Request(kind, b)
    BY <1>3 DEF Users
  <2>2. CASE Realign(b)
    <3>1. \A d \in Books : row'[d] = row[d] \/ row'[d].status # "processing"
      BY <1>0, <2>2 DEF Realign, TypeOK, Row
    <3>2. user' = user
      BY <2>2 DEF Realign, threads
    <3> QED
      BY <1>0, <1>2, <3>1, <3>2 DEF Processing
  <2>3. CASE \E kind \in Requests : Request(kind, b)
    <3>1. PICK kind \in Requests : Request(kind, b)
      BY <2>3
    <3>2. row' = row /\ kind # "edit" /\ user'.kind = kind
      BY <3>1 DEF Request, tables
    <3> QED
      BY <1>2, <3>2
  <2> QED
    BY <2>1, <2>2, <2>3
<1>4. CASE UserStep
  <2>1. user \in User /\ user # None
    BY <1>0, <1>4 DEF UserStep, DeleteJobs, ClearStatus, ClearLook, UserSaves, UserFails, TypeOK
  <2>2. user.book \in Books /\ user.snap \in Row /\ user.kind \in Requests \ {"edit"}
    BY <1>0, <2>1 DEF User, Processing
  <2>3. user' # None => user'.kind = user.kind
    BY <1>4, <2>1 DEF UserStep, DeleteJobs, ClearStatus, ClearLook, UserSaves, UserFails, User
  <2>4. \A b \in Books : row'[b] = row[b] \/ row'[b].status # "processing"
    <3>1. CASE DeleteJobs \/ ClearLook \/ UserFails
      BY <3>1 DEF DeleteJobs, ClearLook, UserFails, tables
    <3>2. CASE ClearStatus
      <4>1. [user.snap EXCEPT !.status = "not_started"].status # "processing"
        BY <2>2 DEF Row
      <4> QED
        BY <1>0, <2>2, <3>2, <4>1 DEF ClearStatus, SaveBook, TypeOK
    <3>3. CASE UserSaves
      <4>1. Requested(user.kind, user.snap).status # "processing"
        BY <2>2, RequestedStatus
      <4> QED
        BY <1>0, <2>2, <3>3, <4>1 DEF UserSaves, SaveBook, TypeOK
    <3> QED
      BY <1>4, <3>1, <3>2, <3>3 DEF UserStep
  <2> QED
    BY <1>2, <2>2, <2>3, <2>4
<1> QED
  BY <1>3, <1>4

\* The clean-up takes over every book in "processing", one at a time.
LEMMA RestartStrands ==
  ASSUME StrandedInv, Restart \/ Tidying
  PROVE  (Processing /\ NoBookStranded)'
<1>0. TypeOK /\ Exclusive /\ Processing /\ NoBookStranded
  BY DEF StrandedInv
<1>1. CASE Restart
  BY <1>0, <1>1 DEF Restart, Processing, NoBookStranded, tables
<1>2. CASE TidyFails
  BY <1>0, <1>2 DEF TidyFails, Processing, NoBookStranded, Exclusive, tables
<1>3. CASE \E b \in Books : TidyBook(b)
  <2>1. PICK b \in Books : TidyBook(b)
    BY <1>3
  <2>2. ~Up /\ check = None /\ job = None /\ user = None
    BY <1>0, <2>1 DEF TidyBook, Exclusive, Up
  <2>3. \A d \in Books : d # b => row'[d] = row[d] /\ tidy'[d] = tidy[d]
    BY <1>0, <2>1 DEF TidyBook, TypeOK
  <2>4. row'[b].status # "processing"
    BY <1>0, <2>1 DEF TidyBook, TypeOK, Row
  <2>5. UNCHANGED <<check, job, user, hurt>>
    BY <2>1 DEF TidyBook, history
  <2> QED
    BY <1>0, <2>2, <2>3, <2>4, <2>5 DEF Processing, NoBookStranded
<1>4. CASE \E b \in Books : TidyJob(b)
  <2>1. PICK b \in Books : TidyJob(b)
    BY <1>4
  <2>2. ~Up /\ check = None /\ job = None /\ user = None
    BY <1>0, <2>1 DEF TidyJob, Exclusive, Up
  <2>3. \A d \in Books : tidy'[d] = tidy[d] \/ (d = b /\ tidy'[d] = "no" /\ tidy[d] = "note")
    BY <1>0, <2>1 DEF TidyJob, TypeOK
  <2>4. UNCHANGED <<row, check, job, user, hurt>>
    BY <2>1 DEF TidyJob, history
  <2> QED
    BY <1>0, <2>2, <2>3, <2>4 DEF Processing, NoBookStranded
<1> QED
  BY <1>1, <1>2, <1>3, <1>4 DEF Tidying

LEMMA RestStrands ==
  ASSUME StrandedInv, Time \/ UNCHANGED vars
  PROVE  (Processing /\ NoBookStranded)'
  BY DEF StrandedInv, Processing, NoBookStranded, Time, DelayPasses, SubmissionAges, vars, tables,
     threads, history

\* Unless users save books that were loaded long before, no book is left in
\* "processing" with nobody to take it up again.
THEOREM NoBookStrandedCorrect ==
  ASSUME ~SlowEdits
  PROVE  Spec => []NoBookStranded
<1>1. Init => StrandedInv
  BY JobsInit DEF Init, StrandedInv, Exclusive, Up, Processing, NoBookStranded
<1>2. StrandedInv /\ [Next]_vars => StrandedInv'
  <2> SUFFICES ASSUME StrandedInv, [Next]_vars
               PROVE  StrandedInv'
    OBVIOUS
  <2>1. TypeOK /\ Exclusive
    BY DEF StrandedInv
  <2>2. TypeOK' /\ Exclusive'
    BY <2>1, ExclusiveStep, SchedulerType, JobThreadType, UserType, RestartType, TimeType,
       StutterType DEF Next
  <2>3. (Processing /\ NoBookStranded)'
    BY SchedulerStrands, JobStrands, UserStrands, RestartStrands, RestStrands DEF Next
  <2> QED
    BY <2>2, <2>3 DEF StrandedInv
<1>3. StrandedInv => NoBookStranded
  BY DEF StrandedInv
<1> QED
  BY <1>1, <1>2, <1>3, PTL DEF Spec

(***************************************************************************)
(* Retries: how often a book failed and what its Job row says.             *)
(***************************************************************************)
\* The counter covers the failures since the last intervention of a user ...
TriesCovered == \A b \in Books : tries[b] <= RetryCount(b)

\* ... which leaves a book afresh, ...
PendingFresh == \A b \in Books : row[b].status = "pending" => tries[b] = 0

\* ... so that the scheduler takes up only what has a retry left, ...
CheckTries ==
    check # None =>
        /\ tries[check.book] < MaxRetries
        /\ check.at \in {"look", "enter"} => check.snap.status # "pending"
        /\ check.at = "enter" => tries[check.book] <= check.count

\* ... and a job records at most one failure.
JobTries ==
    job # None =>
        /\ job.snap.status # "pending"
        /\ job.at # "mark" => tries[job.book] < MaxRetries
        /\ job.at = "record" => tries[job.book] + (IF job.failed THEN 1 ELSE 0) <= job.count

RetryInv ==
    TypeOK /\ Exclusive /\ TriesCovered /\ PendingFresh /\ CheckTries /\ JobTries /\ RetriesBounded

LEMMA SchedulerRetries ==
  ASSUME RetryInv, Scheduler
  PROVE  (TriesCovered /\ PendingFresh /\ CheckTries /\ JobTries /\ RetriesBounded)'
<1>0. /\ TypeOK /\ Exclusive /\ TriesCovered /\ PendingFresh /\ CheckTries /\ JobTries
      /\ RetriesBounded
  BY DEF RetryInv
<1>1. CASE CheckPending
  <2>1. PICK b \in Books :
           /\ check' = [at |-> "claim", book |-> b, snap |-> row[b], count |-> 0]
           /\ row[b].status = "pending" \/ (jobs[b] # None /\ jobs[b] < MaxRetries)
    BY <1>1 DEF CheckPending, Pending, Retryable
  <2>2. tries[b] < MaxRetries
    BY <1>0, <2>1, JobsAssumption DEF TypeOK, TriesCovered, PendingFresh, RetryCount
  <2> QED
    BY <1>0, <1>1, <2>1, <2>2 DEF CheckPending, TriesCovered, PendingFresh, CheckTries, JobTries,
       RetriesBounded, RetryCount, tables, history
<1>2. CASE Claim
  <2>1. check \in Check /\ job = None
    BY <1>0, <1>2 DEF Claim, TypeOK, Exclusive
  <2> DEFINE s == [check.snap EXCEPT !.status = "processing"]
  <2>2. row' = [row EXCEPT ![check.book] = s] /\ check' = [check EXCEPT !.at = "look", !.snap = s]
    BY <1>2 DEF Claim, SaveBook
  <2>3. s.status = "processing"
    BY <2>1 DEF Check, Row
  <2>4. check'.book = check.book /\ check'.snap = s /\ check'.at = "look" /\ check # None
    BY <1>2, <2>1, <2>2 DEF Check, Claim
  <2> HIDE DEF s
  <2>5. UNCHANGED <<jobs, tries, job>>
    BY <1>2 DEF Claim, history
  <2>6. \A b \in Books : row'[b] = row[b] \/ row'[b].status # "pending"
    BY <1>0, <2>1, <2>2, <2>3 DEF TypeOK
  <2> QED
    BY <1>0, <2>1, <2>3, <2>4, <2>5, <2>6 DEF TriesCovered, PendingFresh, CheckTries, JobTries,
       RetriesBounded, RetryCount
<1>3. CASE ClaimLook
  <2>1. check \in Check /\ check # None /\ check.at = "look" /\ RetryCount(check.book) \in Nat
    BY <1>0, <1>3, CountType DEF ClaimLook, Check, TypeOK
  <2>2. /\ check'.book = check.book /\ check'.snap = check.snap /\ check'.at = "enter"
        /\ check'.count = RetryCount(check.book) /\ check.book \in Books
    BY <1>3, <2>1 DEF ClaimLook, Check
  <2>3. UNCHANGED <<row, jobs, tries, job>>
    BY <1>3 DEF ClaimLook, tables, history
  <2> QED
    BY <1>0, <2>1, <2>2, <2>3 DEF TriesCovered, PendingFresh, CheckTries, JobTries, RetriesBounded,
       RetryCount
<1>4. CASE StartJob
  <2>1. check \in Check /\ check # None /\ check.at = "enter"
    BY <1>0, <1>4 DEF StartJob, TypeOK
  <2>2. job'.book = check.book /\ job'.at = "epub" /\ job'.snap = check.snap /\ check' = None
    BY <1>4 DEF StartJob
  <2>3. jobs' = [jobs EXCEPT ![check.book] = check.count] /\ UNCHANGED <<row, tries>>
    BY <1>4 DEF StartJob, SaveJob, history
  <2>4. check.book \in Books /\ check.count \in Nat /\ check.count # None
    BY <2>1, NotNone DEF Check
  <2>5. \A b \in Books : IF b = check.book THEN RetryCount(b)' = check.count
                                           ELSE RetryCount(b)' = RetryCount(b)
    BY <1>0, <2>3, <2>4 DEF RetryCount, TypeOK
  <2>6. TriesCovered'
    BY <1>0, <2>1, <2>3, <2>4, <2>5 DEF TriesCovered, CheckTries
  <2> QED
    BY <1>0, <2>1, <2>2, <2>3, <2>6 DEF PendingFresh, CheckTries, JobTries, RetriesBounded
<1>5. CASE CheckFails
  BY <1>0, <1>5 DEF CheckFails, tables, TriesCovered, PendingFresh, CheckTries, JobTries,
     RetriesBounded, RetryCount
<1> QED
  BY <1>1, <1>2, <1>3, <1>4, <1>5 DEF Scheduler

LEMMA JobRetries ==
  ASSUME RetryInv, JobThread
  PROVE  (TriesCovered /\ PendingFresh /\ CheckTries /\ JobTries /\ RetriesBounded)'
<1>0. /\ TypeOK /\ Exclusive /\ TriesCovered /\ PendingFresh /\ CheckTries /\ JobTries
      /\ RetriesBounded
  BY DEF RetryInv
<1>1. job \in Job /\ job # None /\ check = None /\ check' = None
  BY <1>0, NotNone DEF JobThread, AcquireEpub, TimelineReady, NoSubmission, StillWaiting,
     SubmissionReady, AlignNative, AutoSubmit, Transcribe, AlignTranscript, FinishBook, FinishLook,
     SettleJob, PhaseFails, ReadCount, RecordJob, MarkBook, HandlerFails, At, TypeOK, Exclusive
<1>2. job.book \in Books /\ job.snap \in Row /\ job.count \in Nat /\ job.failed \in BOOLEAN
  BY <1>1, JobFields
<1>3. ASSUME \A b \in Books : row'[b] = row[b] \/ row'[b].status # "pending",
             UNCHANGED <<jobs, tries>>
      PROVE  (TriesCovered /\ PendingFresh /\ CheckTries /\ RetriesBounded)'
  BY <1>0, <1>1, <1>3 DEF TriesCovered, PendingFresh, CheckTries, RetriesBounded, RetryCount
<1>4. ASSUME job'.book = job.book, job'.snap.status # "pending", job.at # "mark",
             job'.at # "record", tries' = tries
      PROVE  JobTries'
  BY <1>0, <1>1, <1>4 DEF JobTries
<1>5. ASSUME NEW p \in Phases \cup Endings, GoTo(p), p # "record", job.at # "mark",
             UNCHANGED <<row, jobs, tries>>
      PROVE  (TriesCovered /\ PendingFresh /\ CheckTries /\ JobTries /\ RetriesBounded)'
  <2>1. job'.book = job.book /\ job'.at = p /\ job'.snap = job.snap
    BY <1>1, <1>5, JobMoves DEF GoTo
  <2>2. job'.snap.status # "pending"
    BY <1>0, <1>1, <2>1 DEF JobTries
  <2> QED
    BY <1>3, <1>4, <1>5, <2>1, <2>2
<1>6. job.snap.status # "pending"
  BY <1>0, <1>1 DEF JobTries
<1>7. CASE AcquireEpub
  <2> DEFINE s == [job.snap EXCEPT !.hash = TRUE]
  <2>1. s \in Row /\ s.status # "pending"
    BY <1>2, <1>6, RowFields DEF Row
  <2>2. job' \in {[job EXCEPT !.at = "storyteller"], [job EXCEPT !.at = "storyteller", !.snap = s]}
    BY <1>7 DEF AcquireEpub, GoTo
  <2>3. row' \in {row, [row EXCEPT ![job.book] = s]} /\ UNCHANGED <<jobs, tries>> /\ job.at = "epub"
    BY <1>7 DEF AcquireEpub, SaveBook, At, history
  <2> HIDE DEF s
  <2>4. \A b \in Books : row'[b] = row[b] \/ row'[b].status # "pending"
    BY <1>0, <1>2, <2>1, <2>3 DEF TypeOK
  <2>5. job'.book = job.book /\ job'.snap.status # "pending" /\ job'.at = "storyteller"
    BY <1>1, <1>6, <2>1, <2>2 DEF Job
  <2> QED
    BY <1>3, <1>4, <2>3, <2>4, <2>5
<1>8. CASE SubmissionReady
  <2>1. PICK known \in BOOLEAN :
          LET snap == [job.snap EXCEPT !.uuid = @ \/ known]
          IN  /\ row' = IF snap = job.snap THEN row ELSE [row EXCEPT ![job.book] = snap]
              /\ job' = [job EXCEPT !.snap = snap,
                             !.at = IF snap.uuid THEN "native" ELSE WithoutNative(snap)]
    BY <1>8 DEF SubmissionReady
  <2> DEFINE s == [job.snap EXCEPT !.uuid = @ \/ known]
             p == IF s.uuid THEN "native" ELSE WithoutNative(s)
  <2>2. s \in Row /\ s.status # "pending"
    BY <1>2, <1>6, RowFields DEF Row
  <2>3. p \in {"native", "transcribe", "defer", "submit"}
    BY DEF WithoutNative
  <2>4. job' = [job EXCEPT !.at = p, !.snap = s] /\ row' \in {row, [row EXCEPT ![job.book] = s]}
    BY <2>1
  <2>5. UNCHANGED <<jobs, tries>> /\ job.at = "storyteller"
    BY <1>8 DEF SubmissionReady, At, history
  <2> HIDE DEF s, p
  <2>6. \A b \in Books : row'[b] = row[b] \/ row'[b].status # "pending"
    BY <1>0, <1>2, <2>2, <2>4 DEF TypeOK
  <2>7. job'.book = job.book /\ job'.snap = s /\ job'.at = p
    BY <1>1, <2>4 DEF Job
  <2> QED
    BY <1>3, <1>4, <2>2, <2>3, <2>5, <2>6, <2>7
<1>9. CASE TimelineReady
  BY <1>5, <1>9 DEF TimelineReady, At, Phases, history
<1>10. CASE NoSubmission
  <2>1. PICK p \in {"native", "transcribe", "defer", "submit"} : GoTo(p)
    BY <1>10 DEF NoSubmission, WithoutNative
  <2> QED
    BY <1>5, <1>10, <2>1 DEF NoSubmission, At, Phases, Endings, tables, history
<1>11. CASE StillWaiting
  BY <1>5, <1>11 DEF StillWaiting, At, Endings, history
<1>12. CASE AlignNative
  <2>1. PICK p \in {"finish", "transcribe", "defer", "submit"} : GoTo(p)
    BY <1>12 DEF AlignNative, WithoutNative
  <2> QED
    BY <1>5, <1>12, <2>1 DEF AlignNative, At, Phases, Endings, history
<1>13. CASE AutoSubmit
  BY <1>5, <1>13 DEF AutoSubmit, At, Phases, Endings, history
<1>14. CASE Transcribe \/ AlignTranscript
  BY <1>5, <1>14 DEF Transcribe, AlignTranscript, At, Phases, tables, history
<1>15. CASE FinishBook
  <2> DEFINE s == [job.snap EXCEPT !.status = "active"]
  <2>1. s \in Row /\ s.status = "active"
    BY <1>2, RowFields DEF Row, Statuses
  <2>2. job' = [job EXCEPT !.at = "look", !.snap = s] /\ row' = [row EXCEPT ![job.book] = s]
    BY <1>15 DEF FinishBook, SaveBook
  <2> HIDE DEF s
  <2>3. job'.book = job.book /\ job'.snap = s /\ job'.at = "look"
    BY <1>1, <2>2 DEF Job
  <2>4. \A b \in Books : row'[b] = row[b] \/ row'[b].status # "pending"
    BY <1>0, <1>2, <2>1, <2>2 DEF TypeOK
  <2>5. UNCHANGED <<jobs, tries>> /\ job.at = "finish"
    BY <1>15 DEF FinishBook, At, history
  <2> QED
    BY <1>3, <1>4, <2>1, <2>3, <2>4, <2>5
<1>16. ASSUME job' = None, tries' = [tries EXCEPT ![job.book] = 0], row' = row,
              \A b \in Books : b # job.book => jobs'[b] = jobs[b],
              jobs'[job.book] \in {None, 0}
       PROVE  (TriesCovered /\ PendingFresh /\ CheckTries /\ JobTries /\ RetriesBounded)'
  <2>1. \A b \in Books : IF b = job.book THEN tries'[b] = 0 ELSE tries'[b] = tries[b]
    BY <1>0, <1>2, <1>16 DEF TypeOK
  <2>2. TriesCovered'
    BY <1>0, <1>16, <2>1 DEF TriesCovered, RetryCount
  <2>3. PendingFresh' /\ RetriesBounded'
    BY <1>0, <1>16, <2>1, JobsAssumption DEF PendingFresh, RetriesBounded
  <2> QED
    BY <1>1, <1>16, <2>2, <2>3 DEF CheckTries, JobTries
<1>17. CASE FinishLook
  <2>1. CASE jobs[job.book] = None
    BY <1>16, <1>17, <2>1 DEF FinishLook, tables
  <2>2. CASE jobs[job.book] # None
    BY <1>5, <1>17, <2>2 DEF FinishLook, At, Phases, tables
  <2> QED
    BY <2>1, <2>2
<1>18. CASE SettleJob
  <2>1. jobs'[job.book] = 0
    BY <1>0, <1>2, <1>18 DEF SettleJob, TypeOK
  <2> QED
    BY <1>0, <1>16, <1>18, <2>1 DEF SettleJob, TypeOK
<1>19. CASE PhaseFails
  <2>1. job'.book = job.book /\ job'.at = "fail" /\ job'.snap = job.snap
    BY <1>1, <1>19, JobMoves DEF PhaseFails
  <2>2. UNCHANGED <<row, jobs, tries>> /\ job.at # "mark"
    BY <1>19 DEF PhaseFails, Phases, tables, history
  <2> QED
    BY <1>3, <1>4, <1>6, <2>1, <2>2
<1>20. CASE ReadCount
  <2> DEFINE n == RetryCount(job.book) + IF job.failed THEN 1 ELSE 0
  <2>1. RetryCount(job.book) \in Nat
    BY <1>0, <1>2, CountType
  <2>2. n \in Nat /\ tries[job.book] + (IF job.failed THEN 1 ELSE 0) <= n
    BY <1>0, <1>2, <2>1 DEF TriesCovered, TypeOK
  <2>3. job' = [job EXCEPT !.at = "record", !.count = n]
    BY <1>20 DEF ReadCount
  <2> HIDE DEF n
  <2>4. /\ job'.book = job.book /\ job'.at = "record" /\ job'.snap = job.snap
        /\ job'.count = n /\ job'.failed = job.failed
    BY <1>1, <2>3 DEF Job
  <2>5. UNCHANGED <<row, jobs, tries>> /\ job.at # "mark"
    BY <1>20 DEF ReadCount, At, tables, history
  <2>6. JobTries'
    BY <1>0, <1>1, <2>2, <2>4, <2>5 DEF JobTries
  <2> QED
    BY <1>3, <2>5, <2>6
<1>21. CASE RecordJob
  <2>1. job.at = "record" /\ row' = row /\ GoTo("mark") /\ jobs' = [jobs EXCEPT ![job.book] = job.count]
    BY <1>21 DEF RecordJob, SaveJob, At
  <2>2. tries[job.book] < MaxRetries /\ tries[job.book] + (IF job.failed THEN 1 ELSE 0) <= job.count
    BY <1>0, <1>1, <2>1 DEF JobTries
  <2>3. /\ job.failed /\ row[job.book].status # "pending" => tries' = [tries EXCEPT ![job.book] = @ + 1]
        /\ ~job.failed \/ row[job.book].status = "pending" => tries' = tries
    BY <1>21 DEF RecordJob
  <2>4. \A b \in Books : b # job.book => tries'[b] = tries[b] /\ RetryCount(b)' = RetryCount(b)
    BY <1>0, <1>2, <2>1, <2>3 DEF TypeOK, RetryCount
  <2>5. jobs'[job.book] = job.count /\ job.count # None
    BY <1>0, <1>2, <2>1, NotNone DEF TypeOK
  <2>6. /\ tries'[job.book] <= job.count /\ tries'[job.book] <= MaxRetries
        /\ row[job.book].status = "pending" => tries'[job.book] = tries[job.book]
    BY <1>0, <1>2, <2>2, <2>3, JobsAssumption DEF TypeOK
  <2>7. TriesCovered' /\ RetriesBounded'
    BY <1>0, <2>4, <2>5, <2>6 DEF TriesCovered, RetriesBounded, RetryCount
  <2>8. PendingFresh'
    BY <1>0, <2>1, <2>4, <2>6 DEF PendingFresh
  <2>9. job'.at = "mark" /\ job'.snap = job.snap
    BY <1>1, <2>1, JobMoves DEF GoTo, Endings
  <2> QED
    BY <1>1, <1>6, <2>7, <2>8, <2>9 DEF CheckTries, JobTries
<1>22. CASE MarkBook
  <2> DEFINE v == IF job.failed /\ job.count >= MaxRetries THEN "failed_permanent"
                                                           ELSE "failed_retry_later"
  <2>1. [job.snap EXCEPT !.status = v].status # "pending"
    BY <1>2 DEF Row
  <2>2. \A b \in Books : row'[b] = row[b] \/ row'[b].status # "pending"
    BY <1>0, <1>2, <1>22, <2>1 DEF MarkBook, SaveBook, TypeOK
  <2> QED
    BY <1>3, <1>22, <2>2 DEF MarkBook, JobTries, history
<1>23. CASE HandlerFails
  BY <1>3, <1>23 DEF HandlerFails, JobTries, tables
<1> QED
  BY <1>7, <1>8, <1>9, <1>10, <1>11, <1>12, <1>13, <1>14, <1>15, <1>17, <1>18, <1>19, <1>20,
     <1>21, <1>22, <1>23 DEF JobThread

\* A book queued by a user starts afresh; whatever else a user does adds no try.
LEMMA UserRetries ==
  ASSUME RetryInv, Users \/ UserStep
  PROVE  (TriesCovered /\ PendingFresh /\ CheckTries /\ JobTries /\ RetriesBounded)'
<1>0. /\ TypeOK /\ Exclusive /\ TriesCovered /\ PendingFresh /\ CheckTries /\ JobTries
      /\ RetriesBounded
  BY DEF RetryInv
<1>1. UNCHANGED <<check, job>>
  BY DEF Users, Realign, Request, UserStep, DeleteJobs, ClearStatus, ClearLook, UserSaves,
     UserFails, tables, threads, history
<1>2. ASSUME NEW b \in Books,
             \A d \in Books : d # b => UNCHANGED <<row[d], jobs[d], tries[d]>>,
             jobs'[b] = jobs[b] \/ tries'[b] = 0, jobs'[b] \in Nat \cup {None},
             tries'[b] \in {0, tries[b]},
             row'[b].status = "pending" => row'[b] = row[b] \/ tries'[b] = 0
      PROVE  (TriesCovered /\ PendingFresh /\ CheckTries /\ JobTries /\ RetriesBounded)'
  <2>1. \A d \in Books : tries'[d] \in Nat /\ tries'[d] <= tries[d] /\ tries[d] \in Nat
    BY <1>0, <1>2 DEF TypeOK
  <2>2. TriesCovered'
    BY <1>0, <1>2, <2>1 DEF TriesCovered, RetryCount
  <2>3. PendingFresh'
    BY <1>0, <1>2, <2>1 DEF PendingFresh
  <2>4. CheckTries'
    <3>1. check # None => check.book \in Books /\ check.count \in Nat
      BY <1>0 DEF TypeOK, Check
    <3> QED
      BY <1>0, <1>1, <2>1, <3>1, JobsAssumption DEF CheckTries
  <2>5. JobTries'
    <3>1. job # None => job.book \in Books /\ job.count \in Nat /\ job.failed \in BOOLEAN
      BY <1>0, JobFields DEF TypeOK
    <3> QED
      BY <1>0, <1>1, <2>1, <3>1, JobsAssumption DEF JobTries
  <2>6. RetriesBounded'
    BY <1>0, <2>1, JobsAssumption DEF RetriesBounded
  <2> QED
    BY <2>2, <2>3, <2>4, <2>5, <2>6
<1>3. ASSUME UNCHANGED <<row, jobs, tries>>
      PROVE  (TriesCovered /\ PendingFresh /\ CheckTries /\ JobTries /\ RetriesBounded)'
  BY <1>0, <1>1, <1>3 DEF TriesCovered, PendingFresh, CheckTries, JobTries, RetriesBounded, RetryCount
<1>4. CASE Users
  <2>1. PICK b \in Books : Realign(b) \/ \E kind \in Requests : Request(kind, b)
    BY <1>4 DEF Users
  <2>2. CASE Realign(b)
    <3>1. \A d \in Books : d # b => UNCHANGED <<row[d], jobs[d], tries[d]>>
      BY <1>0, <2>2 DEF Realign, TypeOK
    <3>2. jobs'[b] = None /\ tries'[b] = 0
      BY <1>0, <2>2 DEF Realign, TypeOK
    <3> QED
      BY <1>2, <3>1, <3>2
  <2>3. CASE \E kind \in Requests : Request(kind, b)
    BY <1>3, <2>3 DEF Request, tables, history
  <2> QED
    BY <2>1, <2>2, <2>3
<1>5. CASE UserStep
  <2>1. user \in User /\ user # None
    BY <1>0, <1>5, NotNone DEF UserStep, DeleteJobs, ClearStatus, ClearLook, UserSaves, UserFails, TypeOK
  <2>2. user.book \in Books /\ user.snap \in Row
    BY <2>1 DEF User
  <2>3. CASE ClearLook \/ UserFails
    BY <1>3, <2>3 DEF ClearLook, UserFails, tables, history
  <2>4. CASE DeleteJobs
    <3>1. \A d \in Books : d # user.book => UNCHANGED <<row[d], jobs[d], tries[d]>>
      BY <1>0, <2>4 DEF DeleteJobs, TypeOK
    <3>2. jobs'[user.book] = None /\ tries'[user.book] = 0 /\ row' = row
      BY <1>0, <2>2, <2>4 DEF DeleteJobs, TypeOK
    <3> QED
      BY <1>2, <2>2, <3>1, <3>2
  <2>5. CASE ClearStatus
    <3>1. [user.snap EXCEPT !.status = "not_started"].status # "pending"
      BY <2>2 DEF Row
    <3>2. \A d \in Books : d # user.book => UNCHANGED <<row[d], jobs[d], tries[d]>>
      BY <1>0, <2>5 DEF ClearStatus, SaveBook, TypeOK, history
    <3>3. row'[user.book] = row[user.book] \/ row'[user.book].status # "pending"
      BY <1>0, <2>2, <2>5, <3>1 DEF ClearStatus, SaveBook, TypeOK
    <3>4. UNCHANGED <<jobs, tries>> /\ jobs[user.book] \in Nat \cup {None}
      BY <1>0, <2>2, <2>5 DEF ClearStatus, history, TypeOK
    <3> QED
      BY <1>2, <2>2, <3>2, <3>3, <3>4
  <2>6. CASE UserSaves
    <3> DEFINE s == Requested(user.kind, user.snap)
    <3>1. /\ row' = [row EXCEPT ![user.book] = s] /\ jobs' = jobs
          /\ tries' = IF s.status = "pending" THEN [tries EXCEPT ![user.book] = 0] ELSE tries
      BY <2>6 DEF UserSaves, SaveBook
    <3> HIDE DEF s
    <3>2. \A d \in Books : d # user.book => UNCHANGED <<row[d], jobs[d], tries[d]>>
      BY <1>0, <3>1 DEF TypeOK
    <3>3. row'[user.book] = s /\ tries'[user.book] = IF s.status = "pending" THEN 0 ELSE tries[user.book]
      BY <1>0, <2>2, <3>1 DEF TypeOK
    <3>4. jobs[user.book] \in Nat \cup {None}
      BY <1>0, <2>2 DEF TypeOK
    <3> QED
      BY <1>2, <2>2, <3>1, <3>2, <3>3, <3>4
  <2> QED
    BY <1>5, <2>3, <2>4, <2>5, <2>6 DEF UserStep
<1> QED
  BY <1>4, <1>5

\* The clean-up queues nothing, and keeps the counters.
LEMMA RestRetries ==
  ASSUME RetryInv, Restart \/ Tidying \/ Time \/ UNCHANGED vars
  PROVE  (TriesCovered /\ PendingFresh /\ CheckTries /\ JobTries /\ RetriesBounded)'
<1>0. /\ TypeOK /\ Exclusive /\ TriesCovered /\ PendingFresh /\ CheckTries /\ JobTries
      /\ RetriesBounded
  BY DEF RetryInv
<1>1. tries' = tries
  BY DEF Restart, Tidying, TidyBook, TidyJob, TidyFails, Time, DelayPasses, SubmissionAges, vars,
     history
<1>2. ASSUME \A b \in Books : row'[b] = row[b] \/ row'[b].status # "pending",
             \A b \in Books : RetryCount(b)' = RetryCount(b),
             (check' = None /\ job' = None) \/ UNCHANGED <<check, job>>
      PROVE  (TriesCovered /\ PendingFresh /\ CheckTries /\ JobTries /\ RetriesBounded)'
  BY <1>0, <1>1, <1>2 DEF TriesCovered, PendingFresh, CheckTries, JobTries, RetriesBounded
<1>3. CASE Restart
  BY <1>2, <1>3 DEF Restart, tables, RetryCount
<1>4. CASE TidyFails
  BY <1>2, <1>4 DEF TidyFails, tables, RetryCount
<1>5. CASE \E b \in Books : TidyBook(b)
  <2>1. PICK b \in Books : TidyBook(b)
    BY <1>5
  <2>2. \A d \in Books : row'[d] = row[d] \/ row'[d].status # "pending"
    BY <1>0, <2>1 DEF TidyBook, TypeOK, Row
  <2> QED
    BY <1>2, <2>1, <2>2 DEF TidyBook, RetryCount
<1>6. CASE \E b \in Books : TidyJob(b)
  <2>1. PICK b \in Books : TidyJob(b)
    BY <1>6
  <2>2. RetryCount(b) \in Nat
    BY <1>0, CountType
  <2>3. \A d \in Books : RetryCount(d)' = RetryCount(d)
    BY <1>0, <2>1, <2>2, NotNone DEF TidyJob, SaveJob, RetryCount, TypeOK
  <2> QED
    BY <1>2, <2>1, <2>3 DEF TidyJob
<1>7. CASE Time \/ UNCHANGED vars
  BY <1>2, <1>7 DEF Time, DelayPasses, SubmissionAges, vars, tables, threads, RetryCount
<1> QED
  BY <1>3, <1>4, <1>5, <1>6, <1>7 DEF Tidying

LEMMA RetriesInvariant == Spec => []RetryInv
<1>1. Init => RetryInv
  BY JobsInit, JobsAssumption DEF Init, RetryInv, Exclusive, Up, TriesCovered, PendingFresh,
     CheckTries, JobTries, RetriesBounded, RetryCount
<1>2. RetryInv /\ [Next]_vars => RetryInv'
  <2> SUFFICES ASSUME RetryInv, [Next]_vars
               PROVE  RetryInv'
    OBVIOUS
  <2>1. TypeOK /\ Exclusive
    BY DEF RetryInv
  <2>2. TypeOK' /\ Exclusive'
    BY <2>1, ExclusiveStep, SchedulerType, JobThreadType, UserType, RestartType, TimeType,
       StutterType DEF Next
  <2>3. (TriesCovered /\ PendingFresh /\ CheckTries /\ JobTries /\ RetriesBounded)'
    BY SchedulerRetries, JobRetries, UserRetries, RestRetries DEF Next
  <2> QED
    BY <2>2, <2>3 DEF RetryInv
<1> QED
  BY <1>1, <1>2, PTL DEF Spec

\* Between two interventions of a user a book fails at most MaxRetries times.
THEOREM RetriesBoundedCorrect == Spec => []RetriesBounded
<1>1. RetryInv => RetriesBounded
  BY DEF RetryInv
<1> QED
  BY <1>1, RetriesInvariant, PTL

(***************************************************************************)
(* The refinement of RetryBudget.                                          *)
(***************************************************************************)
\* A step that keeps the holder and the counts is a stutter of the budget.
LEMMA BudgetStutter ==
  ASSUME Holder' = Holder, tries' = tries, FailureCounted' = FailureCounted
  PROVE  [Budget!Next]_(Budget!vars)
  BY DEF Budget!vars

LEMMA SchedulerBudget ==
  ASSUME RetryInv, Scheduler
  PROVE  [Budget!Next]_(Budget!vars)
<1>1. TypeOK /\ Exclusive /\ TriesCovered /\ PendingFresh /\ CheckTries
  BY DEF RetryInv
<1>2. CASE CheckPending
  <2>1. PICK b \in Books :
           /\ check' = [at |-> "claim", book |-> b, snap |-> row[b], count |-> 0]
           /\ row[b].status = "pending" \/ (jobs[b] # None /\ jobs[b] < MaxRetries)
    BY <1>2 DEF CheckPending, Pending, Retryable
  <2>2. tries[b] < MaxRetries
    BY <1>1, <2>1, JobsAssumption DEF TypeOK, TriesCovered, PendingFresh, RetryCount
  <2>3. check' # None
    BY <1>1, <2>1, NotNone DEF Check, TypeOK
  <2>4. check = None /\ job = None /\ job' = None /\ tries' = tries
    BY <1>2 DEF CheckPending, history
  <2>5. Holder = None /\ Holder' = b /\ FailureCounted' = FailureCounted
    BY <2>1, <2>3, <2>4 DEF Holder, FailureCounted
  <2>6. Budget!Take(b)
    BY <2>2, <2>4, <2>5 DEF Budget!Take
  <2> QED
    BY <2>6 DEF Budget!Next
<1>3. ASSUME check # None, check' # None, check'.book = check.book, job' = job, tries' = tries
      PROVE  [Budget!Next]_(Budget!vars)
  BY <1>3, BudgetStutter DEF Holder, FailureCounted
<1>4. CASE Claim
  <2>1. check \in Check
    BY <1>1, <1>4 DEF Claim, TypeOK
  <2>2. check'.book = check.book /\ check' # None
    <3> DEFINE s == [check.snap EXCEPT !.status = "processing"]
    <3>1. s \in Row /\ check' = [check EXCEPT !.at = "look", !.snap = s]
      BY <1>4, <2>1, RowFields DEF Claim, Check, Statuses
    <3> HIDE DEF s
    <3>2. check' \in Check
      BY <2>1, <3>1 DEF Check
    <3> QED
      BY <2>1, <3>1, <3>2, NotNone DEF Check
  <2> QED
    BY <1>3, <1>4, <2>2 DEF Claim, history
<1>5. CASE ClaimLook
  <2>1. check \in Check /\ RetryCount(check.book) \in Nat
    BY <1>1, <1>5, CountType DEF ClaimLook, TypeOK, Check
  <2>2. check'.book = check.book /\ check' \in Check
    BY <1>5, <2>1 DEF ClaimLook, Check
  <2> QED
    BY <1>3, <1>5, <2>2, NotNone DEF ClaimLook, history
<1>6. CASE StartJob
  <2>1. check \in Check /\ check # None /\ job = None /\ check' = None /\ tries' = tries
    BY <1>1, <1>6 DEF StartJob, TypeOK, Exclusive, history
  <2>2. job'.book = check.book /\ job'.at = "epub" /\ job' \in Job
    BY <1>6, <2>1 DEF StartJob, Check, Job, Phases
  <2> QED
    BY <2>1, <2>2, BudgetStutter, NotNone DEF Holder, FailureCounted
<1>7. CASE CheckFails
  <2>1. check # None /\ job = None /\ check' = None /\ job' = None /\ tries' = tries
    BY <1>1, <1>7 DEF CheckFails, Exclusive
  <2>2. check.book # None
    BY <1>1, <2>1, JobsAssumption DEF TypeOK, Check
  <2>3. Budget!Release
    BY <2>1, <2>2 DEF Budget!Release, Holder, FailureCounted
  <2> QED
    BY <2>3 DEF Budget!Next
<1> QED
  BY <1>2, <1>4, <1>5, <1>6, <1>7 DEF Scheduler

LEMMA JobBudget ==
  ASSUME RetryInv, JobThread
  PROVE  [Budget!Next]_(Budget!vars)
<1>0. TypeOK /\ Exclusive
  BY DEF RetryInv
<1>1. job \in Job /\ job # None /\ check = None /\ check' = None
  BY <1>0, NotNone DEF JobThread, AcquireEpub, TimelineReady, NoSubmission, StillWaiting,
     SubmissionReady, AlignNative, AutoSubmit, Transcribe, AlignTranscript, FinishBook, FinishLook,
     SettleJob, PhaseFails, ReadCount, RecordJob, MarkBook, HandlerFails, At, TypeOK, Exclusive
<1>2. job.book \in Books /\ job.snap \in Row /\ job.failed \in BOOLEAN /\ Holder = job.book
  BY <1>1, JobFields DEF Holder
<1>3. Holder # None
  BY <1>2, JobsAssumption
<1>4. ASSUME job' # None, job'.book = job.book, job.at # "mark", job'.at # "mark", tries' = tries
      PROVE  [Budget!Next]_(Budget!vars)
  BY <1>1, <1>4, BudgetStutter DEF Holder, FailureCounted
<1>5. ASSUME NEW p \in (Phases \cup Endings) \ {"mark"}, GoTo(p), job.at # "mark", tries' = tries
      PROVE  [Budget!Next]_(Budget!vars)
  BY <1>1, <1>4, <1>5, JobMoves DEF GoTo
<1>6. ASSUME job' = None, tries' = tries
      PROVE  [Budget!Next]_(Budget!vars)
  <2>1. Budget!Release
    BY <1>1, <1>3, <1>6 DEF Budget!Release, Holder, FailureCounted
  <2> QED
    BY <2>1 DEF Budget!Next
<1>7. ASSUME job' = None, job.at # "mark", tries' = [tries EXCEPT ![job.book] = 0]
      PROVE  [Budget!Next]_(Budget!vars)
  <2>1. Budget!Succeed
    BY <1>1, <1>2, <1>3, <1>7 DEF Budget!Succeed, Holder, FailureCounted
  <2> QED
    BY <2>1 DEF Budget!Next
<1>8. CASE AcquireEpub
  <2> DEFINE s == [job.snap EXCEPT !.hash = TRUE]
  <2>1. s \in Row
    BY <1>2, RowFields
  <2>2. job' \in {[job EXCEPT !.at = "storyteller"], [job EXCEPT !.at = "storyteller", !.snap = s]}
    BY <1>8 DEF AcquireEpub, GoTo
  <2>3. job.at = "epub" /\ tries' = tries
    BY <1>8 DEF AcquireEpub, At, history
  <2> HIDE DEF s
  <2>4. job' \in Job /\ job'.book = job.book /\ job'.at = "storyteller"
    BY <1>1, <2>1, <2>2 DEF Job, Phases
  <2> QED
    BY <1>4, <2>3, <2>4, NotNone
<1>9. CASE SubmissionReady
  <2>1. PICK known \in BOOLEAN :
           LET snap == [job.snap EXCEPT !.uuid = @ \/ known]
           IN  job' = [job EXCEPT !.snap = snap,
                           !.at = IF snap.uuid THEN "native" ELSE WithoutNative(snap)]
    BY <1>9 DEF SubmissionReady
  <2> DEFINE s == [job.snap EXCEPT !.uuid = @ \/ known]
             p == IF s.uuid THEN "native" ELSE WithoutNative(s)
  <2>2. s \in Row
    BY <1>2, RowFields DEF Row
  <2>3. p \in {"native", "transcribe", "defer", "submit"}
    BY DEF WithoutNative
  <2>4. job' = [job EXCEPT !.at = p, !.snap = s]
    BY <2>1
  <2>5. job.at = "storyteller" /\ tries' = tries
    BY <1>9 DEF SubmissionReady, At, history
  <2> HIDE DEF s, p
  <2>6. job' \in Job /\ job'.book = job.book /\ job'.at = p
    BY <1>1, <2>2, <2>3, <2>4 DEF Job, Phases, Endings
  <2> QED
    BY <1>4, <2>3, <2>5, <2>6, NotNone
<1>10. CASE TimelineReady \/ StillWaiting \/ AutoSubmit \/ Transcribe \/ AlignTranscript
  BY <1>5, <1>10 DEF TimelineReady, StillWaiting, AutoSubmit, Transcribe, AlignTranscript, At,
     Phases, Endings, tables, history
<1>11. CASE NoSubmission \/ AlignNative
  <2>1. PICK p \in {"native", "finish", "transcribe", "defer", "submit"} : GoTo(p)
    BY <1>11 DEF NoSubmission, AlignNative, WithoutNative
  <2> QED
    BY <1>5, <1>11, <2>1 DEF NoSubmission, AlignNative, At, Phases, Endings, tables, history
<1>12. CASE FinishBook
  <2> DEFINE s == [job.snap EXCEPT !.status = "active"]
  <2>1. s \in Row
    BY <1>2, RowFields DEF Statuses
  <2>2. job' = [job EXCEPT !.at = "look", !.snap = s] /\ job.at = "finish" /\ tries' = tries
    BY <1>12 DEF FinishBook, At, history
  <2> HIDE DEF s
  <2>3. job' \in Job /\ job'.book = job.book /\ job'.at = "look"
    BY <1>1, <2>1, <2>2 DEF Job, Phases
  <2> QED
    BY <1>4, <2>2, <2>3, NotNone
<1>13. CASE FinishLook
  BY <1>5, <1>7, <1>13 DEF FinishLook, At, Phases
<1>14. CASE SettleJob
  BY <1>7, <1>14 DEF SettleJob, At
<1>15. CASE PhaseFails
  BY <1>1, <1>4, <1>15, JobMoves DEF PhaseFails, Phases, history
<1>16. CASE ReadCount
  <2> DEFINE n == RetryCount(job.book) + IF job.failed THEN 1 ELSE 0
  <2>1. RetryCount(job.book) \in Nat
    BY <1>0, <1>2, CountType
  <2>2. n \in Nat
    BY <2>1
  <2>3. job' = [job EXCEPT !.at = "record", !.count = n] /\ job.at # "mark" /\ tries' = tries
    BY <1>16 DEF ReadCount, At, history
  <2> HIDE DEF n
  <2>4. job' \in Job /\ job'.book = job.book /\ job'.at = "record"
    BY <1>1, <2>2, <2>3 DEF Job, Endings
  <2> QED
    BY <1>4, <2>3, <2>4, NotNone
<1>17. CASE RecordJob
  <2>1. job.at = "record" /\ GoTo("mark")
    BY <1>17 DEF RecordJob, At
  <2>2. job' # None /\ job'.book = job.book /\ job'.at = "mark" /\ job'.failed = job.failed
    BY <1>1, <2>1, JobMoves DEF GoTo, Endings
  <2>3. Holder' = Holder /\ ~FailureCounted /\ (job.failed => FailureCounted' = TRUE)
    BY <1>1, <2>1, <2>2 DEF Holder, FailureCounted
  <2>4. CASE job.failed /\ row[job.book].status # "pending"
    <3>1. tries' = [tries EXCEPT ![job.book] = @ + 1]
      BY <1>17, <2>4 DEF RecordJob
    <3>2. Budget!Fail
      BY <1>2, <1>3, <2>3, <2>4, <3>1 DEF Budget!Fail, FailureCounted
    <3> QED
      BY <3>2 DEF Budget!Next
  <2>5. CASE job.failed /\ row[job.book].status = "pending"
    <3>1. tries' = tries
      BY <1>17, <2>5 DEF RecordJob
    <3>2. Budget!Excuse
      BY <1>3, <2>3, <2>5, <3>1 DEF Budget!Excuse, FailureCounted
    <3> QED
      BY <3>2 DEF Budget!Next
  <2>6. CASE ~job.failed
    <3>1. tries' = tries
      BY <1>17, <2>6 DEF RecordJob
    <3>2. FailureCounted' = FailureCounted
      BY <2>2, <2>6 DEF FailureCounted
    <3> QED
      BY <2>3, <3>1, <3>2, BudgetStutter
  <2> QED
    BY <1>2, <2>4, <2>5, <2>6
<1>18. CASE MarkBook \/ HandlerFails
  BY <1>6, <1>18 DEF MarkBook, HandlerFails, history
<1> QED
  BY <1>8, <1>9, <1>10, <1>11, <1>12, <1>13, <1>14, <1>15, <1>16, <1>17, <1>18 DEF JobThread

\* What a user does may renew the retries of a book, and takes and ends no attempt.
LEMMA UserBudget ==
  ASSUME RetryInv, Users \/ UserStep
  PROVE  [Budget!Next]_(Budget!vars)
<1>1. UNCHANGED <<check, job>>
  BY DEF Users, Realign, Request, UserStep, DeleteJobs, ClearStatus, ClearLook, UserSaves,
     UserFails, tables, threads, history
<1>2. Holder' = Holder /\ FailureCounted' = FailureCounted
  BY <1>1 DEF Holder, FailureCounted
<1>3. ASSUME NEW b \in Books, tries' = [tries EXCEPT ![b] = 0]
      PROVE  [Budget!Next]_(Budget!vars)
  <2>1. Budget!Renew(b)
    BY <1>2, <1>3 DEF Budget!Renew
  <2> QED
    BY <2>1 DEF Budget!Next
<1>4. ASSUME tries' = tries
      PROVE  [Budget!Next]_(Budget!vars)
  BY <1>2, <1>4, BudgetStutter
<1>5. CASE Users
  BY <1>3, <1>4, <1>5 DEF Users, Realign, Request, history
<1>6. CASE UserStep
  <2>1. user # None => user.book \in Books
    BY DEF RetryInv, TypeOK, User
  <2> QED
    BY <1>3, <1>4, <1>6, <2>1 DEF UserStep, DeleteJobs, ClearStatus, ClearLook, UserSaves,
       UserFails, history
<1> QED
  BY <1>5, <1>6

LEMMA RestBudget ==
  ASSUME RetryInv, Restart \/ Tidying \/ Time \/ UNCHANGED vars
  PROVE  [Budget!Next]_(Budget!vars)
<1>1. tries' = tries
  BY DEF Restart, Tidying, TidyBook, TidyJob, TidyFails, Time, DelayPasses, SubmissionAges, vars,
     history
<1>2. CASE Restart
  <2>1. check' = None /\ job' = None
    BY <1>2 DEF Restart
  <2>2. Holder' = None /\ FailureCounted' = FALSE
    BY <2>1 DEF Holder, FailureCounted
  <2>3. CASE check = None /\ job = None
    BY <1>1, <2>1, <2>3, BudgetStutter DEF Holder, FailureCounted
  <2>4. CASE check # None \/ job # None
    <3>1. Holder # None
      BY <2>4, JobsAssumption DEF RetryInv, TypeOK, Check, Job, Holder
    <3>2. Budget!Release
      BY <1>1, <2>2, <3>1 DEF Budget!Release
    <3> QED
      BY <3>2 DEF Budget!Next
  <2> QED
    BY <2>3, <2>4
<1>3. CASE Tidying \/ Time \/ UNCHANGED vars
  <2>1. UNCHANGED <<check, job>>
    BY <1>3 DEF Tidying, TidyBook, TidyJob, TidyFails, Time, DelayPasses, SubmissionAges, vars,
       threads
  <2> QED
    BY <1>1, <2>1, BudgetStutter DEF Holder, FailureCounted
<1> QED
  BY <1>2, <1>3

\* The background jobs implement the retry budget: a book is taken up only while it has
\* retries left, and an attempt uses up one of them at most.
THEOREM BudgetKeptCorrect == Spec => BudgetKept
<1>1. Init => Budget!Init
  BY DEF Init, Budget!Init, Holder, FailureCounted
<1>2. RetryInv /\ [Next]_vars => [Budget!Next]_(Budget!vars)
  BY SchedulerBudget, JobBudget, UserBudget, RestBudget DEF Next
<1> QED
  BY <1>1, <1>2, RetriesInvariant, PTL DEF Spec, BudgetKept, Budget!Spec

(***************************************************************************)
(* Retries are used up by failures only.                                   *)
(***************************************************************************)
\* A count that was read and is not written yet is covered by failures too.
CheckEarned == check # None /\ check.at = "enter" => check.count <= fails[check.book]

JobEarned ==
    job # None /\ job.at = "record" =>
        job.count <= fails[job.book] + IF job.failed THEN 1 ELSE 0

EarnedInv == TypeOK /\ Exclusive /\ CheckEarned /\ JobEarned /\ RetriesEarned

\* The job that records a count is alone to change it.
LEMMA JobEarns ==
  ASSUME EarnedInv, JobThread
  PROVE  (CheckEarned /\ JobEarned /\ RetriesEarned)'
<1>0. TypeOK /\ Exclusive /\ CheckEarned /\ JobEarned /\ RetriesEarned
  BY DEF EarnedInv
<1>1. job \in Job /\ job # None /\ check' = None
  BY <1>0, NotNone DEF JobThread, AcquireEpub, TimelineReady, NoSubmission, StillWaiting,
     SubmissionReady, AlignNative, AutoSubmit, Transcribe, AlignTranscript, FinishBook, FinishLook,
     SettleJob, PhaseFails, ReadCount, RecordJob, MarkBook, HandlerFails, At, TypeOK, Exclusive
<1>2. job.book \in Books /\ job.count \in Nat /\ job.failed \in BOOLEAN
  BY <1>1, JobFields
<1>3. ASSUME job' = None \/ job'.at # "record", UNCHANGED <<jobs, fails>>
      PROVE  (CheckEarned /\ JobEarned /\ RetriesEarned)'
  BY <1>0, <1>1, <1>3 DEF CheckEarned, JobEarned, RetriesEarned
<1>4. ASSUME NEW p \in (Phases \cup Endings) \ {"record"}, GoTo(p)
      PROVE  job'.at # "record"
  BY <1>1, <1>4, JobMoves DEF GoTo
<1>5. CASE AcquireEpub
  <2>1. job'.at = "storyteller"
    BY <1>1, <1>5 DEF AcquireEpub, GoTo, Job
  <2> QED
    BY <1>3, <1>5, <2>1 DEF AcquireEpub, history
<1>6. CASE SubmissionReady
  <2>1. job'.at \in {"native", "transcribe", "defer", "submit"}
    BY <1>1, <1>6 DEF SubmissionReady, WithoutNative, Job
  <2> QED
    BY <1>3, <1>6, <2>1 DEF SubmissionReady, history
<1>7. CASE TimelineReady \/ StillWaiting \/ AutoSubmit \/ Transcribe \/ AlignTranscript
  BY <1>3, <1>4, <1>7 DEF TimelineReady, StillWaiting, AutoSubmit, Transcribe, AlignTranscript,
     Phases, Endings, tables, history
<1>8. CASE NoSubmission
  <2>1. PICK p \in {"native", "transcribe", "defer", "submit"} : GoTo(p)
    BY <1>8 DEF NoSubmission, WithoutNative
  <2> QED
    BY <1>3, <1>4, <1>8, <2>1 DEF NoSubmission, Phases, Endings, tables, history
<1>9. CASE AlignNative
  <2>1. PICK p \in {"finish", "transcribe", "defer", "submit"} : GoTo(p)
    BY <1>9 DEF AlignNative, WithoutNative
  <2> QED
    BY <1>3, <1>4, <1>9, <2>1 DEF AlignNative, Phases, Endings, history
<1>10. CASE FinishBook
  <2>1. job'.at = "look"
    BY <1>1, <1>10 DEF FinishBook, Job
  <2> QED
    BY <1>3, <1>10, <2>1 DEF FinishBook, history
<1>11. ASSUME job' = None, fails' = [fails EXCEPT ![job.book] = 0], jobs'[job.book] \in {None, 0},
              \A b \in Books : b # job.book => jobs'[b] = jobs[b]
       PROVE  (CheckEarned /\ JobEarned /\ RetriesEarned)'
  <2>1. \A b \in Books : IF b = job.book THEN fails'[b] = 0 ELSE fails'[b] = fails[b]
    BY <1>0, <1>11 DEF TypeOK
  <2> QED
    BY <1>0, <1>1, <1>11, <2>1 DEF CheckEarned, JobEarned, RetriesEarned
<1>12. CASE FinishLook
  <2>1. CASE jobs[job.book] = None
    BY <1>11, <1>12, <2>1 DEF FinishLook, tables
  <2>2. CASE jobs[job.book] # None
    BY <1>3, <1>4, <1>12, <2>2 DEF FinishLook, Phases, tables
  <2> QED
    BY <2>1, <2>2
<1>13. CASE SettleJob
  <2>1. jobs'[job.book] = 0 /\ \A b \in Books : b # job.book => jobs'[b] = jobs[b]
    BY <1>0, <1>2, <1>13 DEF SettleJob, TypeOK
  <2> QED
    BY <1>11, <1>13, <2>1 DEF SettleJob
<1>14. CASE PhaseFails
  <2>1. job'.at = "fail"
    BY <1>1, <1>14, JobMoves DEF PhaseFails
  <2> QED
    BY <1>3, <1>14, <2>1 DEF PhaseFails, tables, history
<1>15. CASE ReadCount
  <2> DEFINE n == RetryCount(job.book) + IF job.failed THEN 1 ELSE 0
  <2>1. n <= fails[job.book] + IF job.failed THEN 1 ELSE 0
    <3>1. RetryCount(job.book) \in Nat /\ fails[job.book] \in Nat
      BY <1>0, <1>2, CountType DEF TypeOK
    <3>2. RetryCount(job.book) <= fails[job.book]
      BY <1>0, <1>2, <3>1 DEF RetriesEarned, RetryCount
    <3> QED
      BY <1>2, <3>1, <3>2
  <2>2. job' = [job EXCEPT !.at = "record", !.count = n]
    BY <1>15 DEF ReadCount
  <2> HIDE DEF n
  <2>3. job'.count = n /\ job'.book = job.book /\ job'.failed = job.failed
    BY <1>1, <2>2 DEF Job
  <2>4. UNCHANGED <<jobs, fails>>
    BY <1>15 DEF ReadCount, tables, history
  <2> QED
    BY <1>0, <1>1, <2>1, <2>3, <2>4 DEF CheckEarned, JobEarned, RetriesEarned
<1>16. CASE RecordJob
  <2>1. /\ job.count <= fails[job.book] + IF job.failed THEN 1 ELSE 0
        /\ jobs' = [jobs EXCEPT ![job.book] = job.count] /\ job'.at = "mark"
        /\ fails' = IF job.failed THEN [fails EXCEPT ![job.book] = @ + 1] ELSE fails
    BY <1>0, <1>1, <1>16, JobMoves DEF RecordJob, SaveJob, At, GoTo, JobEarned, Endings
  <2>2. \A b \in Books : b # job.book => jobs'[b] = jobs[b] /\ fails'[b] = fails[b]
    BY <1>0, <1>2, <2>1 DEF TypeOK
  <2>3. jobs'[job.book] <= fails'[job.book]
    BY <1>0, <1>2, <2>1 DEF TypeOK
  <2> QED
    BY <1>0, <1>1, <2>1, <2>2, <2>3 DEF CheckEarned, JobEarned, RetriesEarned
<1>17. CASE MarkBook \/ HandlerFails
  BY <1>3, <1>17 DEF MarkBook, HandlerFails, tables, history
<1> QED
  BY <1>5, <1>6, <1>7, <1>8, <1>9, <1>10, <1>12, <1>13, <1>14, <1>15, <1>16, <1>17 DEF JobThread

\* The scheduler and the clean-up write the counts that they read.
LEMMA RestEarns ==
  ASSUME EarnedInv, Scheduler \/ Users \/ UserStep \/ Restart \/ Tidying \/ Time \/ UNCHANGED vars
  PROVE  (CheckEarned /\ JobEarned /\ RetriesEarned)'
<1>0. TypeOK /\ Exclusive /\ CheckEarned /\ JobEarned /\ RetriesEarned
  BY DEF EarnedInv
<1>1. fails' = fails
  BY DEF Scheduler, CheckPending, Claim, ClaimLook, StartJob, CheckFails, Users, Realign, Request,
     UserStep, DeleteJobs, ClearStatus, ClearLook, UserSaves, UserFails, Restart, Tidying, TidyBook,
     TidyJob, TidyFails, Time, DelayPasses, SubmissionAges, vars, history
<1>2. ASSUME \A b \in Books : jobs'[b] \in {jobs[b], None},
             check' \in {check, None} \/ check'.at # "enter", job' \in {job, None}
      PROVE  (CheckEarned /\ JobEarned /\ RetriesEarned)'
  BY <1>0, <1>1, <1>2 DEF CheckEarned, JobEarned, RetriesEarned
<1>3. CASE CheckPending \/ CheckFails
  BY <1>2, <1>3 DEF CheckPending, CheckFails, tables
<1>4. CASE Claim
  <2>1. check'.at = "look"
    BY <1>0, <1>4, NotNone DEF Claim, TypeOK, Check
  <2> QED
    BY <1>2, <1>4, <2>1 DEF Claim
<1>5. CASE ClaimLook
  <2>1. check \in Check /\ check.book \in Books
    BY <1>0, <1>5 DEF ClaimLook, TypeOK, Check
  <2>2. check'.count = RetryCount(check.book) /\ check'.book = check.book
    BY <1>5, <2>1 DEF ClaimLook, Check
  <2>3. RetryCount(check.book) <= fails[check.book]
    BY <1>0, <2>1 DEF RetryCount, RetriesEarned, TypeOK
  <2>4. UNCHANGED <<jobs, job>>
    BY <1>5 DEF ClaimLook, tables
  <2> QED
    BY <1>0, <1>1, <2>2, <2>3, <2>4 DEF CheckEarned, JobEarned, RetriesEarned
<1>6. CASE StartJob
  <2>1. check \in Check /\ check.count <= fails[check.book]
    BY <1>0, <1>6 DEF StartJob, TypeOK, CheckEarned
  <2>2. jobs' = [jobs EXCEPT ![check.book] = check.count] /\ check' = None /\ job'.at = "epub"
    BY <1>6 DEF StartJob, SaveJob
  <2> QED
    BY <1>0, <1>1, <2>1, <2>2 DEF CheckEarned, JobEarned, RetriesEarned, TypeOK, Check
<1>7. CASE Users \/ UserStep
  BY <1>0, <1>2, <1>7 DEF Users, Realign, Request, UserStep, DeleteJobs, ClearStatus, ClearLook,
     UserSaves, UserFails, tables, threads, TypeOK
<1>8. CASE Restart \/ Time \/ UNCHANGED vars
  BY <1>2, <1>8 DEF Restart, Time, DelayPasses, SubmissionAges, vars, tables, threads
<1>9. CASE Tidying
  <2>1. CASE TidyFails \/ \E b \in Books : TidyBook(b)
    BY <1>2, <2>1 DEF TidyFails, TidyBook, tables
  <2>2. CASE \E b \in Books : TidyJob(b)
    <3>1. PICK b \in Books : TidyJob(b)
      BY <2>2
    <3>2. RetryCount(b) \in Nat /\ fails[b] \in Nat /\ RetryCount(b) <= fails[b]
      BY <1>0, CountType DEF RetryCount, RetriesEarned, TypeOK
    <3>3. \A d \in Books : jobs'[d] = IF d = b THEN RetryCount(b) ELSE jobs[d]
      BY <1>0, <3>1 DEF TidyJob, SaveJob, TypeOK
    <3>4. UNCHANGED <<check, job>>
      BY <3>1 DEF TidyJob
    <3> QED
      BY <1>0, <1>1, <3>2, <3>3, <3>4 DEF CheckEarned, JobEarned, RetriesEarned
  <2> QED
    BY <1>9, <2>1, <2>2 DEF Tidying
<1> QED
  BY <1>3, <1>4, <1>5, <1>6, <1>7, <1>8, <1>9 DEF Scheduler

\* Neither a deferral nor a restart costs a retry.
THEOREM RetriesEarnedCorrect == Spec => []RetriesEarned
<1>1. Init => EarnedInv
  BY JobsInit DEF Init, EarnedInv, Exclusive, Up, CheckEarned, JobEarned, RetriesEarned
<1>2. EarnedInv /\ [Next]_vars => EarnedInv'
  <2> SUFFICES ASSUME EarnedInv, [Next]_vars
               PROVE  EarnedInv'
    OBVIOUS
  <2>1. TypeOK /\ Exclusive
    BY DEF EarnedInv
  <2>2. TypeOK' /\ Exclusive'
    BY <2>1, ExclusiveStep, SchedulerType, JobThreadType, UserType, RestartType, TimeType,
       StutterType DEF Next
  <2>3. (CheckEarned /\ JobEarned /\ RetriesEarned)'
    BY JobEarns, RestEarns DEF Next
  <2> QED
    BY <2>2, <2>3 DEF EarnedInv
<1>3. EarnedInv => RetriesEarned
  BY DEF EarnedInv
<1> QED
  BY <1>1, <1>2, <1>3, PTL DEF Spec
=============================================================================
