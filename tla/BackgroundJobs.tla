--------------------------- MODULE BackgroundJobs ---------------------------
(***************************************************************************)
(* The jobs that give a book its alignment: services/                      *)
(* background_job_service.py with the Book and Job rows it keeps, the      *)
(* requests of users that change the status of a book meanwhile, and the   *)
(* recovery after a restart.                                               *)
(*                                                                         *)
(* Threads hold Book objects (snap) that were loaded earlier; save_book    *)
(* writes all their columns.  Every action is one stretch of code between  *)
(* two sessions of the database.  A Storyteller submission is reduced to   *)
(* what a job learns of it.                                                *)
(***************************************************************************)
EXTENDS Integers

CONSTANTS
    Books,         \* the books that were mapped to an ebook and an audiobook
    Unlocked,      \* those of them whose KoSync id is not known yet
    MaxRetries,    \* JOB_MAX_RETRIES
    DbMayFail,     \* any session of the database may fail
    SlowEdits,     \* a user may save a book that was loaded long before
    MaxRequests,   \* bound on the requests of users
    MaxRestarts,   \* bound on restarts
    None           \* no such thing

\* "paused" stands for all statuses that a reader gives to a book aside.
Statuses == {"pending", "processing", "active", "failed_retry_later",
             "failed_permanent", "not_started", "paused"}
Failed   == {"failed_retry_later", "failed_permanent"}
Row      == [status : Statuses, uuid : BOOLEAN, hash : BOOLEAN]

\* A submission that Storyteller works on, also past its time limit ("late").
Waiting     == {"waiting", "late"}
Submissions == {"none", "ready", "failed"} \cup Waiting

Requests == {"retry", "link", "unlink", "attach", "pause", "complete", "resume", "clear",
             "edit"}

Check == [at : {"claim", "look", "enter"}, book : Books, snap : Row, count : Nat]
Phases    == {"epub", "storyteller", "native", "submit", "transcribe", "align",
              "finish", "look", "settle"}
Endings   == {"fail", "defer", "record", "mark"}
Job  == [at : Phases \cup Endings, book : Books, snap : Row, count : Nat, failed : BOOLEAN]
User == [at : {"act", "look", "save"}, kind : Requests, book : Books, snap : Row]

ASSUME JobsAssumption ==
    /\ Unlocked \subseteq Books
    /\ MaxRetries \in Nat \ {0}
    /\ DbMayFail \in BOOLEAN /\ SlowEdits \in BOOLEAN
    /\ MaxRequests \in Nat /\ MaxRestarts \in Nat
    /\ None \notin Nat \cup Check \cup Job \cup User \cup Books

VARIABLES
    row,        \* the Book rows: status, storyteller_uuid set, KoSync id set
    jobs,       \* retry_count of the latest Job row of a book, None without one
    cool,       \* the books whose retry delay has not passed
    aligned,    \* the books with an alignment map
    force,      \* STORYTELLER_FORCE_MODE
    sub,        \* the latest Storyteller submission of a book
    check,      \* the scheduler's thread inside check_pending_jobs
    job,        \* the job thread
    user,       \* a request at work
    tidy,       \* cleanup_stale_jobs: books to "visit", or to "note" a Job for
    tries,      \* history: failures since a user or a success last reset them
    fails,      \* history: failures since the last success
    hurt,       \* history: books a failed session left behind, until a restart
    requests,   \* requests so far
    restarts    \* restarts so far

tables  == <<row, jobs, cool, aligned, sub>>
threads == <<check, job, user, tidy>>
history == <<tries, fails, hurt>>
bounds  == <<requests, restarts>>
vars == <<force, tables, threads, history, bounds>>

Init ==
    /\ row = [b \in Books |-> [status |-> "pending", uuid |-> FALSE, hash |-> b \notin Unlocked]]
    /\ jobs = [b \in Books |-> None]
    /\ cool = {} /\ aligned = {}
    /\ force \in BOOLEAN
    /\ sub \in [Books -> {"none", "waiting"}]
    /\ check = None /\ job = None /\ user = None
    /\ tidy = [b \in Books |-> "no"]
    /\ tries = [b \in Books |-> 0] /\ fails = [b \in Books |-> 0] /\ hurt = {}
    /\ requests = 0 /\ restarts = 0

\* cleanup_stale_jobs is over and the threads run.
Up == \A b \in Books : tidy[b] = "no"

\* save_book: every column of the object.
SaveBook(b, snap) == row' = [row EXCEPT ![b] = snap]

\* job.retry_count if job else 0
RetryCount(b) == IF jobs[b] = None THEN 0 ELSE jobs[b]

\* save_job with last_attempt now.
SaveJob(b, count) ==
    /\ jobs' = [jobs EXCEPT ![b] = count]
    /\ cool' = cool \cup {b}

(***************************************************************************)
(* The scheduler: check_pending_jobs.                                      *)
(***************************************************************************)
Pending   == {b \in Books : row[b].status = "pending"}
Retryable == {b \in Books \ cool : /\ row[b].status = "failed_retry_later"
                                   /\ jobs[b] # None /\ jobs[b] < MaxRetries}

\* The job thread is not alive; a pending book comes before one to retry.
CheckPending ==
    /\ Up /\ check = None /\ job = None
    /\ \E b \in IF Pending # {} THEN Pending ELSE Retryable :
           check' = [at |-> "claim", book |-> b, snap |-> row[b], count |-> 0]
    /\ UNCHANGED <<force, tables, job, user, tidy, history, bounds>>

Claim ==
    /\ check # None /\ check.at = "claim"
    /\ LET snap == [check.snap EXCEPT !.status = "processing"]
       IN  SaveBook(check.book, snap) /\ check' = [check EXCEPT !.at = "look", !.snap = snap]
    /\ UNCHANGED <<force, jobs, cool, aligned, sub, job, user, tidy, history, bounds>>

ClaimLook ==
    /\ check # None /\ check.at = "look"
    /\ check' = [check EXCEPT !.at = "enter", !.count = RetryCount(check.book)]
    /\ UNCHANGED <<force, tables, job, user, tidy, history, bounds>>

\* Mutant: the new Job row starts its own count.
StartJobAfresh ==
    /\ check # None /\ check.at = "enter"
    /\ SaveJob(check.book, 0)
    /\ job' = [at |-> "epub", book |-> check.book, snap |-> check.snap, count |-> 0, failed |-> FALSE]
    /\ check' = None
    /\ UNCHANGED <<force, row, aligned, sub, user, tidy, history, bounds>>

\* The new Job row, and the thread.
StartJob ==
    /\ check # None /\ check.at = "enter"
    /\ SaveJob(check.book, check.count)
    /\ job' = [at |-> "epub", book |-> check.book, snap |-> check.snap, count |-> 0, failed |-> FALSE]
    /\ check' = None
    /\ UNCHANGED <<force, row, aligned, sub, user, tidy, history, bounds>>

CheckFails ==
    /\ DbMayFail /\ check # None
    /\ hurt' = hurt \cup {check.book}
    /\ check' = None
    /\ UNCHANGED <<force, tables, job, user, tidy, tries, fails, bounds>>

(***************************************************************************)
(* The job thread.                                                         *)
(***************************************************************************)
At(phase) == job # None /\ job.at = phase
GoTo(phase) == job' = [job EXCEPT !.at = phase]

\* The ebook is there; its hash becomes the KoSync id if there is none, in the
\* object even when the save fails.
AcquireEpub ==
    /\ At("epub")
    /\ \/ GoTo("storyteller") /\ row' = row
       \/ /\ ~job.snap.hash
          /\ LET snap == [job.snap EXCEPT !.hash = TRUE]
             IN  /\ job' = [job EXCEPT !.at = "storyteller", !.snap = snap]
                 /\ SaveBook(job.book, snap) \/ (DbMayFail /\ row' = row)
    /\ UNCHANGED <<force, jobs, cool, aligned, sub, check, user, tidy, history, bounds>>

\* Where a job goes on without a native alignment.
WithoutNative(snap) ==
    IF ~force THEN "transcribe" ELSE IF snap.uuid THEN "defer" ELSE "submit"

\* The word timeline of a linked book is there: no need to ask for more.
TimelineReady ==
    /\ At("storyteller") /\ job.snap.uuid
    /\ sub' = [sub EXCEPT ![job.book] = IF @ \in Waiting THEN "ready" ELSE @]
    /\ GoTo("native")
    /\ UNCHANGED <<force, row, jobs, cool, aligned, check, user, tidy, history, bounds>>

\* No submission under way: use the link if there is one.
NoSubmission ==
    /\ At("storyteller") /\ sub[job.book] \notin Waiting
    /\ GoTo(IF job.snap.uuid THEN "native" ELSE WithoutNative(job.snap))
    /\ UNCHANGED <<force, tables, check, user, tidy, history, bounds>>

\* Mutant: no time limit.
WaitingForEver ==
    /\ At("storyteller") /\ sub[job.book] \in Waiting
    /\ GoTo("defer")
    /\ UNCHANGED <<force, tables, check, user, tidy, history, bounds>>

\* check_status: past its limit a submission has failed, which this job still
\* answers by waiting.
StillWaiting ==
    /\ At("storyteller") /\ sub[job.book] \in Waiting
    /\ sub' = [sub EXCEPT ![job.book] = IF @ = "late" THEN "failed" ELSE @]
    /\ GoTo("defer")
    /\ UNCHANGED <<force, row, jobs, cool, aligned, check, user, tidy, history, bounds>>

\* check_status finds the transcript, and the submission may know the uuid.
SubmissionReady ==
    /\ At("storyteller") /\ sub[job.book] = "waiting"
    /\ sub' = [sub EXCEPT ![job.book] = "ready"]
    /\ \E known \in BOOLEAN :
           LET snap == [job.snap EXCEPT !.uuid = @ \/ known]
           IN  /\ row' = IF snap = job.snap THEN row ELSE [row EXCEPT ![job.book] = snap]
               /\ job' = [job EXCEPT !.snap = snap,
                              !.at = IF snap.uuid THEN "native" ELSE WithoutNative(snap)]
    /\ UNCHANGED <<force, jobs, cool, aligned, check, user, tidy, history, bounds>>

\* The timeline is aligned and stored, or there is none, or it does not fit.
AlignNative ==
    /\ At("native")
    /\ \/ aligned' = aligned \cup {job.book} /\ GoTo("finish")
       \/ aligned' = aligned /\ GoTo(WithoutNative(job.snap))
    /\ UNCHANGED <<force, row, jobs, cool, sub, check, user, tidy, history, bounds>>

\* Force mode hands the book to Storyteller, or cannot.
AutoSubmit ==
    /\ At("submit")
    /\ \/ sub' = [sub EXCEPT ![job.book] = "waiting"] /\ GoTo("defer")
       \/ sub' = sub /\ GoTo("transcribe")
    /\ UNCHANGED <<force, row, jobs, cool, aligned, check, user, tidy, history, bounds>>

\* SMIL or Whisper gave a transcript.
Transcribe ==
    /\ At("transcribe") /\ GoTo("align")
    /\ UNCHANGED <<force, tables, check, user, tidy, history, bounds>>

AlignTranscript ==
    /\ At("align")
    /\ aligned' = aligned \cup {job.book}
    /\ GoTo("finish")
    /\ UNCHANGED <<force, row, jobs, cool, sub, check, user, tidy, history, bounds>>

\* The book becomes active.
FinishBook ==
    /\ At("finish")
    /\ LET snap == [job.snap EXCEPT !.status = "active"]
       IN  SaveBook(job.book, snap) /\ job' = [job EXCEPT !.at = "look", !.snap = snap]
    /\ UNCHANGED <<force, jobs, cool, aligned, sub, check, user, tidy, history, bounds>>

\* Without a Job row that is all.
FinishLook ==
    /\ At("look")
    /\ IF jobs[job.book] = None
       THEN /\ job' = None
            /\ tries' = [tries EXCEPT ![job.book] = 0]
            /\ fails' = [fails EXCEPT ![job.book] = 0]
       ELSE GoTo("settle") /\ UNCHANGED <<tries, fails>>
    /\ UNCHANGED <<force, tables, check, user, tidy, hurt, bounds>>

\* The row that was read is updated, if it still exists.
SettleJob ==
    /\ At("settle") /\ jobs[job.book] # None
    /\ jobs' = [jobs EXCEPT ![job.book] = 0]
    /\ tries' = [tries EXCEPT ![job.book] = 0]
    /\ fails' = [fails EXCEPT ![job.book] = 0]
    /\ job' = None
    /\ UNCHANGED <<force, row, cool, aligned, sub, check, user, tidy, hurt, bounds>>

\* An exception anywhere in the three phases: no ebook, no transcript, no
\* alignment, a service or the database that fails, a Job row that is gone.
PhaseFails ==
    /\ job # None /\ job.at \in Phases
    /\ job.at \in {"finish", "look", "settle"} =>
           DbMayFail \/ (job.at = "settle" /\ jobs[job.book] = None)
    /\ job' = [job EXCEPT !.at = "fail", !.failed = TRUE]
    /\ UNCHANGED <<force, tables, check, user, tidy, history, bounds>>

\* Mutant: a deferral counts as well.
ReadCountAlways ==
    /\ At("fail") \/ At("defer")
    /\ job' = [job EXCEPT !.at = "record", !.count = RetryCount(job.book) + 1]
    /\ UNCHANGED <<force, tables, check, user, tidy, history, bounds>>

\* Both handlers read the latest job; a failure counts, a deferral does not.
ReadCount ==
    /\ At("fail") \/ At("defer")
    /\ job' = [job EXCEPT !.at = "record",
                   !.count = RetryCount(job.book) + IF job.failed THEN 1 ELSE 0]
    /\ UNCHANGED <<force, tables, check, user, tidy, history, bounds>>

RecordJob ==
    /\ At("record")
    /\ SaveJob(job.book, job.count)
    /\ GoTo("mark")
    /\ IF job.failed
       THEN /\ tries' = IF row[job.book].status = "pending" THEN tries
                        ELSE [tries EXCEPT ![job.book] = @ + 1]
            /\ fails' = [fails EXCEPT ![job.book] = @ + 1]
       ELSE UNCHANGED <<tries, fails>>
    /\ UNCHANGED <<force, row, aligned, sub, check, user, tidy, hurt, bounds>>

MarkBook ==
    /\ At("mark")
    /\ SaveBook(job.book, [job.snap EXCEPT !.status =
                    IF job.failed /\ job.count >= MaxRetries THEN "failed_permanent"
                                                             ELSE "failed_retry_later"])
    /\ job' = None
    /\ UNCHANGED <<force, jobs, cool, aligned, sub, check, user, tidy, history, bounds>>

\* Nothing catches an exception in a handler: the thread ends.
HandlerFails ==
    /\ DbMayFail /\ job # None /\ job.at \in Endings
    /\ hurt' = hurt \cup {job.book}
    /\ job' = None
    /\ UNCHANGED <<force, tables, check, user, tidy, tries, fails, bounds>>

(***************************************************************************)
(* Users.                                                                  *)
(***************************************************************************)
\* The statuses a request is accepted in.
AllowedFrom(kind) ==
    CASE kind = "retry"  -> Failed
      [] kind = "pause"  -> {"active", "not_started"}
      [] kind = "resume" -> {"paused", "not_started"}
      [] OTHER -> Statuses

\* The book as a request saves it.
Requested(kind, snap) ==
    CASE kind = "link"   -> [snap EXCEPT !.uuid = TRUE, !.status = "pending"]
      [] kind = "unlink" -> [snap EXCEPT !.uuid = FALSE, !.status = "pending"]
      [] kind = "attach" -> [snap EXCEPT !.hash = TRUE, !.status = "pending"]
      [] kind = "edit"   -> [snap EXCEPT !.hash = TRUE]
      [] kind \in {"pause", "complete"} -> [snap EXCEPT !.status = "paused"]
      [] kind = "resume" -> [snap EXCEPT !.status = "active"]
      [] OTHER -> [snap EXCEPT !.status = "pending"]

\* A request loads its book; what it does before it saves takes a while.
Request(kind, b) ==
    /\ Up /\ user = None /\ requests < MaxRequests
    /\ row[b].status \in AllowedFrom(kind)
    /\ kind = "edit" => SlowEdits
    /\ user' = [at |-> IF kind \in {"retry", "clear"} THEN "act" ELSE "save",
                kind |-> kind, book |-> b, snap |-> row[b]]
    /\ requests' = requests + 1
    /\ UNCHANGED <<force, tables, check, job, tidy, history, restarts>>

\* retry_transcription forgets the jobs of the book first.
DeleteJobs ==
    /\ user # None /\ user.at = "act" /\ user.kind = "retry"
    /\ jobs' = [jobs EXCEPT ![user.book] = None]
    /\ cool' = cool \ {user.book}
    /\ tries' = [tries EXCEPT ![user.book] = 0]
    /\ user' = [user EXCEPT !.at = "save"]
    /\ UNCHANGED <<force, row, aligned, sub, check, job, tidy, fails, hurt, bounds>>

\* A clear takes the book out of the cycles, unless a job is to come.
ClearStatus ==
    /\ user # None /\ user.at = "act" /\ user.kind = "clear"
    /\ IF user.snap.status \in {"pending", "processing"} THEN row' = row
       ELSE SaveBook(user.book, [user.snap EXCEPT !.status = "not_started"])
    /\ user' = [user EXCEPT !.at = "look"]
    /\ UNCHANGED <<force, jobs, cool, aligned, sub, check, job, tidy, history, bounds>>

\* _finalize_clear_status, if the clear gets the lock in time.
ClearLook ==
    /\ user # None /\ user.at = "look"
    /\ \/ user' = None
       \/ user.book \notin aligned /\ user' = [user EXCEPT !.at = "save", !.snap = row[user.book]]
    /\ UNCHANGED <<force, tables, check, job, tidy, history, bounds>>

UserSaves ==
    /\ user # None /\ user.at = "save"
    /\ LET snap == Requested(user.kind, user.snap)
       IN  /\ SaveBook(user.book, snap)
           /\ tries' = IF snap.status = "pending" THEN [tries EXCEPT ![user.book] = 0] ELSE tries
    /\ user' = None
    /\ UNCHANGED <<force, jobs, cool, aligned, sub, check, job, tidy, fails, hurt, bounds>>

\* realign_book, one transaction.
Realign(b) ==
    /\ Up /\ requests < MaxRequests
    /\ aligned' = aligned \ {b}
    /\ jobs' = [jobs EXCEPT ![b] = None] /\ cool' = cool \ {b}
    /\ row' = [row EXCEPT ![b].status = "pending"]
    /\ tries' = [tries EXCEPT ![b] = 0]
    /\ requests' = requests + 1
    /\ UNCHANGED <<force, sub, threads, fails, hurt, restarts>>

\* The request is answered with an error.
UserFails ==
    /\ DbMayFail /\ user # None
    /\ user' = None
    /\ UNCHANGED <<force, tables, check, job, tidy, history, bounds>>

(***************************************************************************)
(* Restarts: cleanup_stale_jobs runs before the other threads do.          *)
(***************************************************************************)
Restart ==
    /\ restarts < MaxRestarts
    /\ restarts' = restarts + 1
    /\ check' = None /\ job' = None /\ user' = None /\ hurt' = {}
    /\ tidy' = [b \in Books |-> IF row[b].status \in {"pending", "processing"} \cup Failed
                                THEN "visit" ELSE "no"]
    /\ UNCHANGED <<force, tables, tries, fails, requests>>

\* Mutant: only books with an alignment are recovered.
TidyAligned(b) ==
    /\ tidy[b] = "visit" /\ \A d \in Books : tidy[d] # "note"
    /\ row' = IF b \in aligned THEN [row EXCEPT ![b].status = "active"] ELSE row
    /\ tidy' = [tidy EXCEPT ![b] = "no"]
    /\ UNCHANGED <<force, jobs, cool, aligned, sub, check, job, user, history, bounds>>

\* A book with an alignment is active; one whose job was cut short is to be
\* tried again.
TidyBook(b) ==
    /\ tidy[b] = "visit" /\ \A d \in Books : tidy[d] # "note"
    /\ IF b \in aligned
       THEN row' = [row EXCEPT ![b].status = "active"] /\ tidy' = [tidy EXCEPT ![b] = "no"]
       ELSE IF row[b].status = "processing"
       THEN row' = [row EXCEPT ![b].status = "failed_retry_later"] /\ tidy' = [tidy EXCEPT ![b] = "note"]
       ELSE row' = row /\ tidy' = [tidy EXCEPT ![b] = "no"]
    /\ UNCHANGED <<force, jobs, cool, aligned, sub, check, job, user, history, bounds>>

\* "Interrupted by restart"
TidyJob(b) ==
    /\ tidy[b] = "note"
    /\ SaveJob(b, RetryCount(b))
    /\ tidy' = [tidy EXCEPT ![b] = "no"]
    /\ UNCHANGED <<force, row, aligned, sub, check, job, user, history, bounds>>

\* One exception ends the clean-up of all books.
TidyFails ==
    /\ DbMayFail /\ ~Up
    /\ tidy' = [b \in Books |-> "no"]
    /\ hurt' = hurt \cup {b \in Books : tidy[b] # "no"}
    /\ UNCHANGED <<force, tables, check, job, user, tries, fails, bounds>>

(***************************************************************************)
(* Time.                                                                   *)
(***************************************************************************)
\* The retry delay passes.
DelayPasses(b) ==
    /\ b \in cool
    /\ cool' = cool \ {b}
    /\ UNCHANGED <<force, row, jobs, aligned, sub, threads, history, bounds>>

\* A submission reaches STORYTELLER_MAX_WAIT_HOURS.
SubmissionAges(b) ==
    /\ sub[b] = "waiting"
    /\ sub' = [sub EXCEPT ![b] = "late"]
    /\ UNCHANGED <<force, row, jobs, cool, aligned, threads, history, bounds>>

Scheduler == CheckPending \/ Claim \/ ClaimLook \/ StartJob \/ CheckFails

JobThread ==
    \/ AcquireEpub \/ TimelineReady \/ NoSubmission \/ StillWaiting \/ SubmissionReady
    \/ AlignNative \/ AutoSubmit \/ Transcribe \/ AlignTranscript
    \/ FinishBook \/ FinishLook \/ SettleJob
    \/ PhaseFails \/ ReadCount \/ RecordJob \/ MarkBook \/ HandlerFails

UserStep == DeleteJobs \/ ClearStatus \/ ClearLook \/ UserSaves \/ UserFails

Users == \E b \in Books : Realign(b) \/ \E kind \in Requests : Request(kind, b)

Tidying == TidyFails \/ \E b \in Books : TidyBook(b) \/ TidyJob(b)

Time == \E b \in Books : DelayPasses(b) \/ SubmissionAges(b)

Next == Scheduler \/ JobThread \/ Users \/ UserStep \/ Restart \/ Tidying \/ Time

Spec == Init /\ [][Next]_vars

(***************************************************************************)
(* The scheduler runs every minute, a job goes on, a restart completes: at *)
(* most one of the three is possible at a time.  Time passes.  No user     *)
(* need ever finish a request.                                             *)
(***************************************************************************)
Fairness ==
    /\ WF_vars(Scheduler \/ JobThread \/ Tidying)
    /\ \A b \in Books : WF_vars(DelayPasses(b)) /\ WF_vars(SubmissionAges(b))

FairSpec == Spec /\ Fairness

(***************************************************************************)
(* Properties.                                                             *)
(***************************************************************************)
\* The type invariant.
TypeOK ==
    /\ row \in [Books -> Row]
    /\ jobs \in [Books -> Nat \cup {None}]
    /\ cool \subseteq Books /\ aligned \subseteq Books
    /\ force \in BOOLEAN /\ sub \in [Books -> Submissions]
    /\ check \in Check \cup {None} /\ job \in Job \cup {None} /\ user \in User \cup {None}
    /\ tidy \in [Books -> {"no", "visit", "note"}]
    /\ tries \in [Books -> Nat] /\ fails \in [Books -> Nat]
    /\ hurt \subseteq Books
    /\ requests \in 0 .. MaxRequests /\ restarts \in 0 .. MaxRestarts

\* A book in "processing" is in the hands of the scheduler, of the job thread
\* or of the clean-up after a restart, whatever users do meanwhile: else no one
\* would take it up again before the next restart.  A failed session of the
\* database leaves one behind.
NoBookStranded ==
    \A b \in Books : row[b].status = "processing" =>
        \/ b \in hurt \/ tidy[b] = "visit"
        \/ check # None /\ check.book = b
        \/ job # None /\ job.book = b

\* Between two interventions of a user a book fails at most MaxRetries times,
\* however its attempts, deferrals and restarts are mixed.  A failure does not
\* count that finds the book queued anew by a user meanwhile.
RetriesBounded == \A b \in Books : tries[b] <= MaxRetries

\* The book in the hands of the scheduler or of the job thread.
Holder == IF check # None THEN check.book ELSE IF job # None THEN job.book ELSE None

\* A failure whose Job row is written.
FailureCounted == job # None /\ job.at = "mark" /\ job.failed

Budget == INSTANCE RetryBudget WITH
              Limit <- MaxRetries, holder <- Holder, failures <- tries, counted <- FailureCounted

\* The threads, the users and the restarts together keep the retry budget: a book is
\* taken up only while it has retries left and an attempt uses up one of them, whatever
\* becomes of its rows meanwhile (background_job_service.py:110, 213).
BudgetKept == Budget!Spec

\* Retries are used up by failures only: neither a deferral, which "should NOT
\* increment the retry counter", nor a restart costs one.
RetriesEarned == \A b \in Books : jobs[b] # None => jobs[b] <= fails[b]

\* A book that is to be retried will be.
WillRetry(b) == jobs[b] # None /\ jobs[b] < MaxRetries

\* Every book queued for alignment is done with in the end: aligned, given up
\* after its retries, or put aside by the user.  Excepted are books a failed
\* session left behind and those whose jobs were deleted, or used up, under a
\* running job; and in force mode a book may wait for Storyteller for ever.
JobsSettle ==
    \A b \in Books :
        ~force /\ row[b].status \in {"pending", "processing", "failed_retry_later"} ~>
            \/ row[b].status \in {"active", "failed_permanent", "not_started", "paused"}
            \/ b \in hurt
            \/ row[b].status = "failed_retry_later" /\ ~WillRetry(b)

\* A book that waits for Storyteller "isn't failing, it's just waiting": when
\* it is put off it still has a retry left to be looked at again.
DeferralResumes ==
    [][MarkBook /\ ~job.failed => jobs[job.book] = None \/ WillRetry(job.book)]_vars

\* To realign a book is to "delete existing alignment and requeue book for
\* re-processing": a job never makes a book active that has lost its alignment.
ActiveAligned == [][FinishBook => job.book \in aligned]_vars
=============================================================================
