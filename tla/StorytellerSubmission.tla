----------------------- MODULE StorytellerSubmission -----------------------
(***************************************************************************)
(* One book on its way through Storyteller: services/                      *)
(* storyteller_submission_service.py, the storyteller_submissions table    *)
(* (db/storyteller_repository.py), the reservations of                     *)
(* book_intake_service.py, the questions a job asks                        *)
(* (background_job_service.py) and Storyteller as api/storyteller_api.py   *)
(* sees it.                                                                *)
(*                                                                         *)
(* A submission copies the ebook and the audio files into a directory      *)
(* named after the title, waits until Storyteller has a new book of that   *)
(* title and has it processed; meanwhile the job asks, every time it is    *)
(* tried, whether there is a transcript.  The two share the rows and       *)
(* nothing else: no lock, and every session commits on its own.            *)
(*                                                                         *)
(* Storyteller's own books, its directories and its clock are external.    *)
(***************************************************************************)
EXTENDS Naturals, Sequences, FiniteSets

CONSTANTS
    Uuids,        \* books that Storyteller may come to have under the title
    Threads,      \* submissions under way at a time
    MaxRequests,  \* bound on submissions
    MaxFaults,    \* bound on failing calls and restarts
    None          \* no such thing

ASSUME SubmissionAssumption ==
    MaxRequests \in Nat /\ MaxFaults \in Nat /\ Uuids # {} /\ None \notin Uuids

Statuses == {"queued", "processing", "ready", "failed", "superseded"}
Underway == {"queued", "processing"}
Row == [status : Statuses, uuid : Uuids \cup {None}, dir : BOOLEAN]

Thread == [at : {"idle", "copy", "audio", "find", "write", "snapshot", "poll", "trigger", "tell",
                 "fail", "failing"},
           reserved : BOOLEAN, row : Nat, found : Uuids \cup {None},
           before : SUBSET Uuids, known : SUBSET Uuids]
Job == [at : {"idle", "check", "learn"}, row : Nat, seen : Row]

VARIABLES
    rows,      \* the submissions of the book, in the order of submitted_at
    uuid,      \* the book's own storyteller_uuid
    files,     \* the directory the files are copied to
    shelf,     \* the books of the title that Storyteller has
    work,      \* what it has made of them: their directories, their transcripts
    thread, job,
    late,      \* the rows older than STORYTELLER_MAX_WAIT_HOURS
    overlapped,  \* history: a submission was started or stored beside another one
    requests, faults

vars == <<rows, uuid, files, shelf, work, thread, job, late, overlapped, requests, faults>>
remote == <<shelf, work>>
bounds == <<requests, faults>>

NoRow == [status |-> "superseded", uuid |-> None, dir |-> FALSE]
Idle == [at |-> "idle", reserved |-> FALSE, row |-> 0, found |-> None, before |-> {}, known |-> {}]
NoJob == [at |-> "idle", row |-> 0, seen |-> NoRow]

\* A book that Storyteller does not have yet: which one makes no difference.
NewUuid == CHOOSE u \in Uuids : u \notin shelf

\* The book may be linked, and Storyteller may have it already.
Init ==
    /\ rows = << >>
    /\ shelf \in {{}, {CHOOSE u \in Uuids : TRUE}}
    /\ uuid \in shelf \cup {None}
    /\ work = "none"
    /\ files = "absent"
    /\ thread = [t \in Threads |-> Idle] /\ job = NoJob
    /\ late = {} /\ overlapped = FALSE
    /\ requests = 0 /\ faults = 0

Fault == faults < MaxFaults /\ faults' = faults + 1

(***************************************************************************)
(* The table                                                               *)
(***************************************************************************)
ActiveRows == {i \in DOMAIN rows : rows[i].status \in Underway}
\* get_active_storyteller_submission_by_book_id, and 0 without one.
NewestActive == IF ActiveRows = {} THEN 0 ELSE CHOOSE i \in ActiveRows : \A j \in ActiveRows : j <= i
\* get_storyteller_submission_by_book_id
Latest == Len(rows)

\* save_storyteller_submission
Saved(row) ==
    Append([i \in DOMAIN rows |-> IF i \in ActiveRows THEN [rows[i] EXCEPT !.status = "superseded"]
                                  ELSE rows[i]], row)
\* Another submission is under way, or one is asked about.
Beside(t) ==
    ActiveRows # {} \/ job.at # "idle" \/ \E u \in Threads \ {t} : thread[u].at # "idle"
SavesNew(t, row) ==
    /\ rows' = Saved(row)
    /\ overlapped' = (overlapped \/ Beside(t))

\* update_storyteller_submission_status: whatever the status has become meanwhile.
Updated(i, status, id, dir) ==
    [rows EXCEPT ![i] = [status |-> status, uuid |-> IF id = None THEN @.uuid ELSE id, dir |-> @.dir \/ dir]]

(***************************************************************************)
(* Submissions                                                             *)
(***************************************************************************)
At(t, step) == thread[t].at = step
GoTo(t, step) == thread' = [thread EXCEPT ![t].at = step]
Over(t) == thread' = [thread EXCEPT ![t] = Idle]
\* Only an intake marks its reservation as failed.
Fails(t) == IF thread[t].reserved THEN GoTo(t, "fail") ELSE Over(t)

Starts(t, reserved) ==
    /\ At(t, "idle") /\ requests < MaxRequests
    /\ requests' = requests + 1
    /\ thread' = [thread EXCEPT ![t] =
         [at |-> "copy", reserved |-> reserved, row |-> 0, found |-> None,
          before |-> shelf, known |-> {}]]

\* The intake reserves a row and submits in a thread of its own.
Reserve(t) ==
    /\ Starts(t, TRUE)
    /\ SavesNew(t, [status |-> "queued", uuid |-> uuid, dir |-> FALSE])
    /\ UNCHANGED <<uuid, files, remote, job, late, faults>>

\* In force mode a job without a submission submits, and waits for it.
Submitting == \E t \in Threads : thread[t].at # "idle" /\ ~thread[t].reserved
AutoSubmit(t) ==
    /\ Starts(t, FALSE)
    /\ job.at = "idle" /\ ActiveRows = {} /\ uuid = None /\ ~Submitting
    /\ overlapped' = (overlapped \/ Beside(t))
    /\ UNCHANGED <<rows, uuid, files, remote, job, late, faults>>

\* The directory is there and the ebook too, or that is all.
CopyEbook(t) ==
    /\ At(t, "copy")
    /\ \/ files' = "partial" /\ GoTo(t, "audio") /\ UNCHANGED faults
       \/ Fault /\ Fails(t) /\ UNCHANGED files
    /\ UNCHANGED <<rows, uuid, remote, job, late, overlapped, requests>>

\* Mutant: what was copied stays when the audio files fail.
CopyAudioLeft(t) ==
    /\ At(t, "audio")
    /\ \/ files' = "complete" /\ GoTo(t, "find") /\ UNCHANGED faults
       \/ Fault /\ GoTo(t, "find") /\ files' = "partial"
    /\ UNCHANGED <<rows, uuid, remote, job, late, overlapped, requests>>

\* Without an audio file the directory is removed; an error leaves it.
CopyAudio(t) ==
    /\ At(t, "audio")
    /\ \/ files' = "complete" /\ GoTo(t, "find") /\ UNCHANGED faults
       \/ Fault /\ Fails(t) /\ files' \in {"absent", "partial"}
    /\ UNCHANGED <<rows, uuid, remote, job, late, overlapped, requests>>

\* The reservation, or any submission under way.
FindRow(t) ==
    /\ At(t, "find")
    /\ thread' = [thread EXCEPT ![t].at = "write", ![t].row = NewestActive]
    /\ UNCHANGED <<rows, uuid, files, remote, job, late, overlapped, bounds>>

WriteRow(t) ==
    /\ At(t, "write")
    /\ IF thread[t].row = 0
       THEN /\ SavesNew(t, [status |-> "queued", uuid |-> None, dir |-> TRUE])
            /\ thread' = [thread EXCEPT ![t].at = "snapshot", ![t].row = Len(rows) + 1]
       ELSE /\ rows' = Updated(thread[t].row, "queued", None, TRUE)
            /\ GoTo(t, "snapshot")
            /\ UNCHANGED overlapped
    /\ UNCHANGED <<uuid, files, remote, job, late, bounds>>

\* The books that Storyteller has before; a search that fails has found none.
Snapshot(t) ==
    /\ At(t, "snapshot")
    /\ \/ thread' = [thread EXCEPT ![t].at = "poll", ![t].known = shelf] /\ UNCHANGED faults
       \/ Fault /\ GoTo(t, "poll")
    /\ UNCHANGED <<rows, uuid, files, remote, job, late, overlapped, requests>>

\* Mutant: any book of the title will do.
NewBooksAny(known) == shelf

NewBooks(known) == shelf \ known
Poll(t) ==
    /\ At(t, "poll")
    /\ \/ \E u \in NewBooks(thread[t].known) :
            thread' = [thread EXCEPT ![t].at = "trigger", ![t].found = u]
       \/ Over(t)
    /\ UNCHANGED <<rows, uuid, files, remote, job, late, overlapped, bounds>>

\* trigger_processing
Started == IF work = "done" THEN "done" ELSE "begun"
Trigger(t) ==
    /\ At(t, "trigger")
    /\ \/ work' = Started /\ GoTo(t, "tell") /\ UNCHANGED faults
       \/ Fault /\ Over(t) /\ UNCHANGED work
    /\ UNCHANGED <<rows, uuid, files, shelf, job, late, overlapped, requests>>

Tell(t) ==
    /\ At(t, "tell")
    /\ rows' = Updated(thread[t].row, "processing", thread[t].found, FALSE)
    /\ Over(t)
    /\ UNCHANGED <<uuid, files, remote, job, late, overlapped, bounds>>

\* _mark_storyteller_submission_failed: the submission under way, whosever it is.
FindFailed(t) ==
    /\ At(t, "fail")
    /\ IF NewestActive = 0 THEN Over(t)
       ELSE thread' = [thread EXCEPT ![t].at = "failing", ![t].row = NewestActive]
    /\ UNCHANGED <<rows, uuid, files, remote, job, late, overlapped, bounds>>
MarkFailed(t) ==
    /\ At(t, "failing")
    /\ rows' = Updated(thread[t].row, "failed", None, FALSE)
    /\ Over(t)
    /\ UNCHANGED <<uuid, files, remote, job, late, overlapped, bounds>>

(***************************************************************************)
(* The job                                                                 *)
(***************************************************************************)
\* Mutant: a directory is enough.
TranscriptsNamed == work # "none"

\* By the uuid or by the directory, in which the files of any book of the title count.
Transcripts == work = "done"

\* The timeline of a linked book is there: what was under way is ready.
TimelineReady ==
    /\ job.at = "idle" /\ ~Submitting
    /\ uuid # None /\ Transcripts /\ ActiveRows # {}
    /\ rows' = Updated(NewestActive, "ready", rows[NewestActive].uuid, FALSE)
    /\ UNCHANGED <<uuid, files, remote, thread, job, late, overlapped, bounds>>

\* A submission is under way: check_status loads the latest one.
Look ==
    /\ job.at = "idle" /\ ~Submitting
    /\ ActiveRows # {}
    /\ job' = [at |-> "check", row |-> Latest, seen |-> rows[Latest]]
    /\ UNCHANGED <<rows, uuid, files, remote, thread, late, overlapped, bounds>>

Checking == job.at = "check" /\ job.seen.status \in Underway
InTime == Checking /\ job.row \notin late
Answer(status, next) ==
    /\ rows' = Updated(job.row, status, job.seen.uuid, FALSE)
    /\ job' = [NoJob EXCEPT !.at = next]

CheckEnded ==
    /\ job.at = "check" /\ job.seen.status \notin Underway
    /\ job' = [NoJob EXCEPT !.at = IF job.seen.status = "ready" THEN "learn" ELSE "idle"]
    /\ UNCHANGED <<rows, uuid, files, remote, thread, late, overlapped, bounds>>

\* Mutant: no limit on the wait.
CheckLateNever ==
    /\ Checking /\ job.row \in late
    /\ Answer("processing", "idle")
    /\ UNCHANGED <<uuid, files, remote, thread, late, overlapped, bounds>>

CheckLate ==
    /\ Checking /\ job.row \in late
    /\ Answer("failed", "idle")
    /\ UNCHANGED <<uuid, files, remote, thread, late, overlapped, bounds>>

\* The uuid of the book, with the status that was read.
CheckUuid ==
    /\ InTime /\ job.seen.uuid = None /\ uuid # None
    /\ rows' = Updated(job.row, job.seen.status, uuid, FALSE)
    /\ job' = [job EXCEPT !.seen.uuid = uuid]
    /\ UNCHANGED <<uuid, files, remote, thread, late, overlapped, bounds>>

Asked == InTime /\ (job.seen.uuid # None \/ uuid = None)
CheckReady ==
    /\ Asked /\ (job.seen.uuid # None \/ job.seen.dir)
    /\ Transcripts
    /\ Answer("ready", "learn")
    /\ UNCHANGED <<uuid, files, remote, thread, late, overlapped, bounds>>

\* The only book of the title is ours.
CheckSearch ==
    /\ Asked /\ job.seen.uuid = None /\ ~(job.seen.dir /\ Transcripts)
    /\ \E u \in shelf :
         /\ shelf = {u}
         /\ rows' = Updated(job.row, "processing", u, FALSE)
    /\ \/ work' = Started /\ UNCHANGED faults
       \/ Fault /\ UNCHANGED work
    /\ job' = NoJob
    /\ UNCHANGED <<uuid, files, shelf, thread, late, overlapped, requests>>

CheckWaits ==
    /\ Asked
    /\ \/ ~Transcripts /\ (job.seen.uuid # None \/ Cardinality(shelf) # 1) /\ UNCHANGED faults
       \/ job.seen.uuid = None /\ ~job.seen.dir /\ Cardinality(shelf) # 1 /\ UNCHANGED faults
       \/ Fault
    /\ Answer("processing", "idle")
    /\ UNCHANGED <<uuid, files, remote, thread, late, overlapped, requests>>

\* The book takes the uuid of the submission.
Learn ==
    /\ job.at = "learn"
    /\ uuid' = IF uuid = None THEN rows[Latest].uuid ELSE uuid
    /\ job' = NoJob
    /\ UNCHANGED <<rows, files, remote, thread, late, overlapped, bounds>>

(***************************************************************************)
(* Storyteller, time and restarts                                          *)
(***************************************************************************)
Detect ==
    /\ files = "complete" /\ shelf # Uuids
    /\ shelf' = shelf \cup {NewUuid}
    /\ files' = "imported"
    /\ UNCHANGED <<rows, uuid, work, thread, job, late, overlapped, bounds>>

Transcribe ==
    /\ work = "begun"
    /\ work' = "done"
    /\ UNCHANGED <<rows, uuid, files, shelf, thread, job, late, overlapped, bounds>>

TooLate(i) ==
    /\ i \in {Latest, job.row} \ (late \cup {0})
    /\ late' = late \cup {i}
    /\ UNCHANGED <<rows, uuid, files, remote, thread, job, overlapped, bounds>>

Restart ==
    /\ Fault
    /\ thread' = [t \in Threads |-> Idle] /\ job' = NoJob
    /\ UNCHANGED <<rows, uuid, files, remote, late, overlapped, requests>>

Submit(t) ==
    \/ CopyEbook(t) \/ CopyAudio(t) \/ FindRow(t) \/ WriteRow(t) \/ Snapshot(t)
    \/ Poll(t) \/ Trigger(t) \/ Tell(t) \/ FindFailed(t) \/ MarkFailed(t)
JobStep ==
    \/ TimelineReady \/ Look \/ CheckEnded \/ CheckLate \/ CheckUuid \/ CheckReady
    \/ CheckSearch \/ CheckWaits \/ Learn

Next ==
    \/ \E t \in Threads : Reserve(t) \/ AutoSubmit(t) \/ Submit(t)
    \/ JobStep
    \/ Detect \/ Transcribe \/ Restart
    \/ \E i \in 1 .. 2 * MaxRequests : TooLate(i)

Spec == Init /\ [][Next]_vars

\* Threads run, the job is tried again and again, and hours pass; Storyteller need not
\* do anything.
Fairness ==
    /\ \A t \in Threads : WF_vars(Submit(t))
    /\ WF_vars(JobStep)
    /\ \A i \in 1 .. 2 * MaxRequests : WF_vars(TooLate(i))
FairSpec == Spec /\ Fairness

(***************************************************************************)
(* Properties                                                              *)
(***************************************************************************)
\* The variables of a submission have their types.
TypeOK ==
    /\ rows \in Seq(Row) /\ Len(rows) <= 2 * MaxRequests
    /\ uuid \in Uuids \cup {None}
    /\ files \in {"absent", "partial", "complete", "imported"}
    /\ shelf \subseteq Uuids /\ work \in {"none", "begun", "done"}
    /\ thread \in [Threads -> Thread] /\ job \in Job
    /\ late \subseteq DOMAIN rows
    /\ overlapped \in BOOLEAN
    /\ requests \in 0 .. MaxRequests /\ faults \in 0 .. MaxFaults

\* The types hold, and a submission is ready only if Storyteller has transcribed a book of its title, not
\* as soon as it has made the directory (storyteller_submission_service.py:230).
ReadyBacked ==
    /\ TypeOK
    /\ (\E i \in DOMAIN rows : rows[i].status = "ready") => work = "done"

\* A submission that Storyteller is to work on has its files copied as a whole, as
\* long as there is no other beside it: both name the same directory, and the one
\* that fails removes it (storyteller_submission_service.py:127).
SubmittedWhole ==
    ~overlapped => \A i \in DOMAIN rows :
        rows[i].dir /\ rows[i].status \in Underway => files \in {"complete", "imported"}

\* The book that a submission has processed is one that Storyteller did not have when it
\* was started, if no search failed (storyteller_submission_service.py:340).
TriggersNew ==
    [][\A t \in Threads : (At(t, "trigger") /\ faults = 0 /\ thread'[t].at = "tell")
            => thread[t].found \notin thread[t].before]_vars

\* A job does not wait for ever: a submission ends, by its transcript, its failure or
\* its limit, whatever fails and whenever the program is restarted.  Where one is
\* stored while another is under way or asked about, a late write may bring the old
\* one back, which nobody asks about (storyteller_submission_service.py:180).
WaitEnds == (ActiveRows # {} /\ ~overlapped) ~> (ActiveRows = {} \/ overlapped)

\* "Supersedes any existing active submission for the same book"
\* (storyteller_repository.py:15): there is one at most.
OneActive == Cardinality(ActiveRows) <= 1
=============================================================================
