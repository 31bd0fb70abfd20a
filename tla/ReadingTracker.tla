--------------------------- MODULE ReadingTracker ---------------------------
(***************************************************************************)
(* The reading tracker of one book: its status, dates and read count       *)
(* (services/status_machine.py, reading_service.py,                        *)
(* reading_date_service.py, blueprints/reading_bp.py and books.py), the    *)
(* to-be-read list (blueprints/tbr_bp.py, db/tbr_repository.py) and, with  *)
(* Hardcover, the mirror.                                                  *)
(*                                                                         *)
(* A request, the sync cycle, the discovery of progress and the            *)
(* auto-completion each load the book, and go on with that object through  *)
(* sessions and calls of their own; "todo" holds the steps an operation    *)
(* has left.  There is no lock between them.                               *)
(*                                                                         *)
(* The journal is kept as the numbers of its started and finished entries, *)
(* all that the code looks at again; ratings, notes and enrichment are     *)
(* left out, and so are the services other than Hardcover and Grimmory.    *)
(***************************************************************************)
EXTENDS Hardcover

CONSTANTS
    Ops,          \* operations under way at a time
    Kinds,        \* what may be requested
    Percents,     \* progress that may be reported
    MaxRequests,  \* bound on operations and edits
    MaxFaults,    \* bound on calls without an answer
    MaxItems      \* bound on the to-be-read list

Statuses == {"not_started", "active", "completed", "paused", "dnf"}

ASSUME TrackerAssumption ==
    /\ MaxRequests \in Nat /\ MaxFaults \in Nat /\ MaxItems \in Nat
    /\ Percents \subseteq 0 .. 100 /\ 100 \in Percents
    /\ None \notin Statuses \cup {Day, NotADate}

Reading == Statuses \ {"not_started"}

Book == [status : Statuses, started : Dates, finished : Dates, count : Nat]

\* TbrItem: book_id, book_abs_id and hardcover_book_id.
Item == [linked : BOOLEAN, named : BOOLEAN, hc : HcBooks \cup {None}]
ItemIds == 1 .. MaxItems

Steps == {"probe", "check", "verify", "save", "journal", "dates", "status", "cache", "unlist",
          "grimmory", "link", "own", "fill", "initial", "push", "adopt", "editions", "resolve", "advance",
          "send", "record", "mark", "finish", "tbr_dates", "tbr_done", "want", "send_dates",
          "take_dates", "import", "set"}

VARIABLES
    book,         \* the stored row
    journal,      \* numbers of started and finished entries
    tbr,          \* the tbr_items table
    progress,     \* the largest percentage of its State rows
    details,      \* the hardcover_details row, NotLinked where there is none
    remote,       \* the user's entries at Hardcover
    grimmory,     \* the read status at Grimmory
    op,           \* the operations under way
    sent,         \* the dates in the last change of a read sent to Hardcover
    completions,  \* history: how often the stored book became completed
    earned,       \* history: the book was completed or reported as finished
    recovered,    \* history: a cover of another Hardcover book was picked
    apart,        \* history: no operation or edit ever came while another was under way
    requests, faults

vars == <<book, journal, tbr, progress, details, remote, grimmory, op, sent, completions,
          earned, recovered, apart, requests, faults>>
history == <<completions, earned, recovered>>
mirror == <<details, remote, sent>>
local == <<book, journal, progress, completions, earned>>

Idle ==
    [todo |-> << >>, b |-> [status |-> "not_started", started |-> None, finished |-> None, count |-> 1],
     d |-> NotLinked, to |-> None, from |-> None, source |-> None, pct |-> 0, item |-> 0,
     list |-> {}, clean |-> TRUE]
Nothing == [started |-> None, finished |-> None]

Items == {i \in ItemIds : tbr[i] # None}
NewItem == CHOOSE i \in ItemIds : tbr[i] = None
Room == Items # ItemIds

\* A book that is new, being read or read once, linked to Hardcover or not, with
\* its place and its dates, and a to-be-read item that may be linked to it.
Init ==
    /\ book \in {[status |-> "not_started", started |-> None, finished |-> None, count |-> 1],
                 [status |-> "active", started |-> Day, finished |-> None, count |-> 1],
                 [status |-> "active", started |-> Day, finished |-> Day, count |-> 1],
                 [status |-> "completed", started |-> Day, finished |-> Day, count |-> 1]}
    /\ journal = [started |-> IF book.started = None THEN 0 ELSE 1,
                  finished |-> IF book.finished = None THEN 0 ELSE 1]
    /\ \E h \in HasEdition, linked \in BOOLEAN :
         /\ details = IF linked THEN [Linked(h, h) EXCEPT !.user = h, !.status = LocalToHc[book.status]]
                      ELSE NotLinked
         /\ remote = [g \in HcBooks |-> [status |-> IF linked /\ g = h THEN LocalToHc[book.status] ELSE NoBook,
                                         reads |-> << >>]]
    /\ \E first \in {None, [linked |-> TRUE, named |-> TRUE, hc |-> None]} :
         tbr = [i \in ItemIds |-> IF i = 1 THEN first ELSE None]
    /\ progress = CASE book.status = "completed" -> 100 [] book.status = "active" -> 99 [] OTHER -> 0
    /\ grimmory = "unset"
    /\ op = [o \in Ops |-> Idle]
    /\ sent = Nothing
    /\ completions = 0
    /\ earned = (book.finished # None)
    /\ recovered = FALSE /\ apart = TRUE
    /\ requests = 0 /\ faults = 0

(***************************************************************************)
(* Operations and their steps                                              *)
(***************************************************************************)
At(o, step) == op[o].todo # << >> /\ Head(op[o].todo) = step
Busy(o) == op[o].todo # << >>

\* An operation is clean as long as nothing else was under way beside it.
Touched(f) == [p \in Ops |-> IF f[p].todo # << >> THEN [f[p] EXCEPT !.clean = FALSE] ELSE f[p]]

\* o goes on with r and the steps todo; an operation without steps is over.
Go(o, r, todo) ==
    [op EXCEPT ![o] = IF todo = << >> THEN Idle ELSE [r EXCEPT !.todo = todo]]
Rest(o) == Tail(op[o].todo)
Reads(o, r) == op' = Go(o, r, Rest(o))

\* An answer, within the bound on faults.
Call(answer) ==
    /\ answer # "done" => faults < MaxFaults
    /\ faults' = faults + (IF answer = "done" THEN 0 ELSE 1)

Asked(kind) ==
    /\ kind \in Kinds
    /\ requests < MaxRequests
    /\ requests' = requests + 1

Request(kind) ==
    /\ Asked(kind)
    /\ apart' = (apart /\ \A o \in Ops : ~Busy(o))

Begun(o, r, todo) ==
    LET alone == \A p \in Ops : ~Busy(p)
    IN  [Touched(op) EXCEPT ![o] =
            IF todo = << >> THEN Idle ELSE [r EXCEPT !.todo = todo, !.clean = alone]]

\* An operation starts with the book as it is stored.
Start(o, kind, r, todo) ==
    /\ ~Busy(o)
    /\ Request(kind)
    /\ op' = Begun(o, [r EXCEPT !.b = book], todo)
    /\ UNCHANGED <<book, journal, tbr, progress, mirror, grimmory, completions, recovered, faults>>

(***************************************************************************)
(* StatusMachine.transition                                                *)
(***************************************************************************)
Effects ==
    [local           |-> {"journal", "hardcover", "tbr", "grimmory"},
     auto_complete   |-> {"journal", "hardcover", "tbr"},
     completion_sync |-> {"journal", "tbr", "grimmory"},
     manual_progress |-> {}]
If(c, steps) == IF c THEN steps ELSE << >>

\* Mutant: the items of the list stay.
CourseListed(from, to, source) ==
    LET e == Effects[source]
    IN  IF from = to THEN If(source = "completion_sync", <<"grimmory">>)
        ELSE <<"save">> \o If("journal" \in e, <<"journal">>) \o <<"dates">>
             \o If("hardcover" \in e, <<"status", "cache">>)
             \o If("grimmory" \in e, <<"grimmory">>)

\* The steps of a change of status, by its source.
Course(from, to, source) ==
    LET e == Effects[source]
    IN  IF from = to THEN If(source = "completion_sync", <<"grimmory">>)
        ELSE <<"save">> \o If("journal" \in e, <<"journal">>) \o <<"dates">>
             \o If("hardcover" \in e, <<"status", "cache">>)
             \o If("tbr" \in e /\ to \in Reading, <<"unlist">>)
             \o If("grimmory" \in e, <<"grimmory">>)

Turn(r, to, source) == [r EXCEPT !.to = to, !.from = r.b.status, !.source = source]

\* save_book: all columns of the loaded object.
Save(o) ==
    LET b == [op[o].b EXCEPT !.status = op[o].to]
    IN  /\ At(o, "save")
        /\ book' = b
        /\ completions' = completions
              + (IF b.status = "completed" /\ book.status # "completed" THEN 1 ELSE 0)
        /\ earned' = (earned \/ b.status = "completed")
        /\ Reads(o, [op[o] EXCEPT !.b = b])
        /\ UNCHANGED <<journal, tbr, progress, mirror, grimmory, recovered, apart, requests, faults>>

\* _record_journal: a first start and a finish; what resumes, pauses or gives up is
\* not looked at again.
Journalled(r) ==
    [started  |-> journal.started + (IF r.to = "active" /\ r.from = "not_started" THEN 1 ELSE 0),
     finished |-> journal.finished + (IF r.to = "completed" THEN 1 ELSE 0)]
Journal(o) ==
    /\ At(o, "journal")
    /\ journal' = Journalled(op[o])
    /\ Reads(o, op[o])
    /\ UNCHANGED <<book, tbr, progress, mirror, grimmory, history, apart, requests, faults>>

\* Mutant: counts the row's own reads, not those of the loaded object.
FilledAgain(row, b, to) ==
    CASE to = "active" /\ b.started = None -> [row EXCEPT !.started = Day]
      [] to = "completed" /\ b.finished = None ->
            [row EXCEPT !.finished = Day, !.started = IF b.started = None THEN Day ELSE @]
      [] to = "completed" /\ b.finished # None -> [row EXCEPT !.count = @ + 1]
      [] OTHER -> row

\* _fill_dates: looks at the loaded object and writes the fields in question only,
\* with a date of Audiobookshelf or today's.
Filled(row, b, to) ==
    CASE to = "active" /\ b.started = None -> [row EXCEPT !.started = Day]
      [] to = "completed" /\ b.finished = None ->
            [row EXCEPT !.finished = Day, !.started = IF b.started = None THEN Day ELSE @]
      [] to = "completed" /\ b.finished # None -> [row EXCEPT !.count = b.count + 1]
      [] OTHER -> row
FillDates(o) ==
    /\ At(o, "dates")
    /\ book' = Filled(book, op[o].b, op[o].to)
    /\ Reads(o, op[o])
    /\ UNCHANGED <<journal, tbr, progress, mirror, grimmory, history, apart, requests, faults>>

\* push_local_status: the status is told, and cached whatever the answer was.
TellStatus(o) ==
    /\ At(o, "status")
    /\ IF details.hc = None
       THEN /\ op' = Go(o, op[o], Tail(Rest(o)))
            /\ UNCHANGED <<remote, faults>>
       ELSE \E answer \in Answers :
              /\ Call(answer)
              /\ remote' = Told(remote, details.hc, LocalToHc[op[o].to], answer)
              /\ Reads(o, [op[o] EXCEPT !.d = details])
    /\ UNCHANGED <<local, tbr, details, sent, grimmory, recovered, apart, requests>>
CacheStatus(o) ==
    /\ At(o, "cache")
    /\ details' = SavedDetails(details, [op[o].d EXCEPT !.status = LocalToHc[op[o].to]])
    /\ Reads(o, op[o])
    /\ UNCHANGED <<local, tbr, remote, sent, grimmory, recovered, apart, requests, faults>>

\* _cleanup_tbr: the items linked to the book, else one of its Hardcover book.
Cleaned(items, hc) ==
    LET linked == {i \in Items : items[i].linked}
        other  == {i \in Items : hc # None /\ items[i].hc = hc}
    IN  IF linked # {} THEN [i \in ItemIds |-> IF i \in linked THEN None ELSE items[i]]
        ELSE IF other # {} THEN [items EXCEPT ![CHOOSE i \in other : \A j \in other : i <= j] = None]
        ELSE items
Unlist(o) ==
    /\ At(o, "unlist")
    /\ tbr' = Cleaned(tbr, details.hc)
    /\ Reads(o, op[o])
    /\ UNCHANGED <<local, mirror, grimmory, recovered, apart, requests, faults>>

\* _push_to_grimmory; a failure is only logged.
GrimmoryStatus(from, to) ==
    CASE to = "active" /\ from # "active" -> "READING"
      [] to = "completed" -> "READ"
      [] OTHER -> grimmory
TellGrimmory(o) ==
    /\ At(o, "grimmory")
    /\ \E answer \in {"done", "refused"} :
         /\ Call(answer)
         /\ grimmory' = IF Took(answer) THEN GrimmoryStatus(op[o].from, op[o].to) ELSE grimmory
    /\ Reads(o, op[o])
    /\ UNCHANGED <<local, tbr, mirror, recovered, apart, requests>>

(***************************************************************************)
(* A push of progress to Hardcover (HardcoverSyncClient.update_progress)   *)
(***************************************************************************)
PushCourse == <<"push", "adopt", "resolve", "advance", "send">>
AfterPush(o) ==
    LET todo == op[o].todo
        k == CHOOSE k \in DOMAIN todo : todo[k] = "send"
    IN  SubSeq(todo, k + 1, Len(todo))
\* A push that fails is not recorded.
GivesUp(o) ==
    op' = Go(o, op[o], LET rest == AfterPush(o)
                       IN  IF rest # << >> /\ Head(rest) = "record" THEN Tail(rest) ELSE rest)

\* push_initial_progress: nothing to push of a book without progress.
Initial(o) ==
    /\ At(o, "initial")
    /\ IF progress = 0 THEN GivesUp(o)
       ELSE Reads(o, [op[o] EXCEPT !.pct = progress, !.b = book])
    /\ UNCHANGED <<local, tbr, mirror, grimmory, recovered, apart, requests, faults>>

Push(o) ==
    /\ At(o, "push")
    /\ IF details.hc = None THEN GivesUp(o) ELSE Reads(o, [op[o] EXCEPT !.d = details])
    /\ UNCHANGED <<local, tbr, mirror, grimmory, recovered, apart, requests, faults>>

\* _ensure_user_book: the cached entry, else the one found; none, no push.
Adopt(o) ==
    LET d == op[o].d
    IN  /\ At(o, "adopt")
        /\ IF d.user # None THEN Reads(o, op[o]) /\ UNCHANGED <<details, faults>>
           ELSE \E answer \in {"done", "refused"} :
                  /\ Call(answer)
                  /\ IF Found(remote, d.hc, answer)
                     THEN /\ details' = SavedDetails(details, Adopted(d, remote))
                          /\ Reads(o, [op[o] EXCEPT !.d = Adopted(d, remote)])
                     ELSE GivesUp(o) /\ UNCHANGED details
        /\ UNCHANGED <<local, tbr, remote, sent, grimmory, recovered, apart, requests>>

\* resolve_editions; in a push, nothing goes out for a book without an edition.
Editions(o) ==
    LET d == op[o].d
    IN  /\ At(o, "editions") \/ At(o, "resolve")
        /\ \E answer \in {"done", "refused"} :
             LET e == Resolved(d, answer)
             IN  /\ d.edition # None => answer = "done"
                 /\ Call(answer)
                 /\ details' = IF d.edition = None THEN SavedDetails(details, e) ELSE details
                 /\ IF e.edition = "none" /\ At(o, "resolve")
                    THEN op' = Go(o, op[o], AfterPush(o))
                    ELSE Reads(o, [op[o] EXCEPT !.d = e])
        /\ UNCHANGED <<local, tbr, remote, sent, grimmory, recovered, apart, requests>>

\* _handle_status_transition: a new status is cached whether it arrived or not.
Advance(o) ==
    LET d == op[o].d
        status == StatusFor(Cached(d), op[o].pct)
    IN  /\ At(o, "advance")
        /\ IF status = Cached(d) THEN Reads(o, op[o]) /\ UNCHANGED <<details, remote, faults>>
           ELSE \E answer \in Answers :
                  /\ Call(answer)
                  /\ remote' = Told(remote, d.hc, status, answer)
                  /\ details' = SavedDetails(details, [d EXCEPT !.status = status])
                  /\ Reads(o, [op[o] EXCEPT !.d.status = status])
        /\ UNCHANGED <<local, tbr, sent, grimmory, recovered, apart, requests>>

\* The client's update_progress, and the id of the read kept.
Send(o) ==
    LET d == op[o].d
    IN  /\ At(o, "send")
        /\ \E lookup \in {"done", "refused"}, answer \in Answers :
             LET dates == SentDates(d, remote, op[o].b, op[o].pct, lookup)
                 n     == ReadTarget(d, remote, lookup)
             IN  /\ d.read # 0 => lookup = "done"
                 /\ lookup = "done" \/ answer = "done"
                 /\ Call(IF lookup = "done" THEN answer ELSE lookup)
                 /\ sent' = dates
                 /\ IF Accepts(dates) /\ Took(answer)
                    THEN remote' = WithRead(remote, d.user, n, dates)
                    ELSE UNCHANGED remote
                 /\ IF Accepts(dates) /\ answer = "done"
                    THEN /\ details' = SavedDetails(details, [d EXCEPT !.read = n])
                         /\ Reads(o, [op[o] EXCEPT !.d.read = n])
                    ELSE GivesUp(o) /\ UNCHANGED details
        /\ UNCHANGED <<local, tbr, grimmory, recovered, apart, requests>>

\* The State row of Hardcover after a push that succeeded.
Record(o) ==
    /\ At(o, "record")
    /\ progress' = IF op[o].pct > progress THEN op[o].pct ELSE progress
    /\ Reads(o, op[o])
    /\ UNCHANGED <<book, journal, history, tbr, mirror, grimmory, apart, requests, faults>>

(***************************************************************************)
(* The operations                                                          *)
(***************************************************************************)
\* update_status, and books.py's pause, dnf and resume, which allow less.
SetStatus(o, to) ==
    /\ Start(o, "status", [Turn(Idle, to, "local") EXCEPT !.from = book.status],
             Course(book.status, to, "local"))
    /\ UNCHANGED earned

\* set_progress
SetProgress(o, p) ==
    /\ Start(o, "progress",
             [Turn(Idle, "active", "manual_progress") EXCEPT !.from = book.status, !.pct = p],
             If(p > 0 /\ book.status = "not_started", Course("not_started", "active", "manual_progress"))
               \o <<"set">> \o PushCourse)
    /\ earned' = (earned \/ p > 99)
StoreManual(o) ==
    /\ At(o, "set")
    /\ progress' \in {op[o].pct, IF op[o].pct > progress THEN op[o].pct ELSE progress}
    /\ Reads(o, op[o])
    /\ UNCHANGED <<book, journal, history, tbr, mirror, grimmory, apart, requests, faults>>

\* mark_complete_with_sync, without the deletion: everything is pushed first.
MarkComplete(o) ==
    /\ Start(o, "complete", [Idle EXCEPT !.pct = 100], PushCourse \o <<"mark", "verify">>)
    /\ earned' = TRUE
Mark(o) ==
    /\ At(o, "mark")
    /\ progress' = 100
    /\ Reads(o, op[o])
    /\ UNCHANGED <<book, journal, history, tbr, mirror, grimmory, apart, requests, faults>>
Verify(o) ==
    /\ At(o, "verify")
    /\ LET r == Turn(op[o], "completed", "completion_sync")
       IN  op' = Go(o, r, If(r.b.status # "completed",
                             Course(r.b.status, "completed", "completion_sync")))
    /\ UNCHANGED <<local, tbr, mirror, grimmory, recovered, apart, requests, faults>>

\* auto_complete_finished_books: the list of books is read once, at the start.
AutoComplete(o) ==
    /\ book.status = "active"
    /\ Start(o, "auto", [Idle EXCEPT !.pct = 100], <<"check">>)
    /\ UNCHANGED earned
Check(o) ==
    /\ At(o, "check")
    /\ LET r == Turn(op[o], "completed", "auto_complete")
       IN  op' = Go(o, r, If(progress >= 99, Course(r.b.status, "completed", "auto_complete")
                                             \o PushCourse \o <<"mark", "finish">>))
    /\ UNCHANGED <<local, tbr, mirror, grimmory, recovered, apart, requests, faults>>
Finish(o) ==
    /\ At(o, "finish")
    /\ \E answer \in {"done", "refused"} :
         /\ Call(answer)
         /\ grimmory' = IF Took(answer) THEN "READ" ELSE grimmory
    /\ Reads(o, op[o])
    /\ UNCHANGED <<local, tbr, mirror, recovered, apart, requests>>

\* promote_not_started, of the socket listener and of the discovery, which reads all
\* books that are not started and then asks Grimmory for each.
Promote(o) ==
    /\ book.status = "not_started"
    /\ Start(o, "promote", Idle, <<"probe">>)
    /\ UNCHANGED earned
Probe(o) ==
    /\ At(o, "probe")
    /\ \E p \in Percents :
         LET r == Turn(op[o], "active", "completion_sync")
         IN  op' = Go(o, r, If(p > 1, Course(r.b.status, "active", "completion_sync")))
    /\ UNCHANGED <<local, tbr, mirror, grimmory, recovered, apart, requests, faults>>

\* A sync cycle pushes the place of an active book.
SyncPush(o) ==
    /\ book.status = "active" /\ progress > 0
    /\ Start(o, "sync", [Idle EXCEPT !.pct = progress], PushCourse \o <<"record">>)
    /\ UNCHANGED earned

(***************************************************************************)
(* Links to Hardcover                                                      *)
(***************************************************************************)
\* link_hardcover; the page may send an edition with its pages.
LinkBook(o, h, e) ==
    /\ Start(o, "link", [Idle EXCEPT !.d = Linked(h, e)],
             <<"link", "editions", "own", "fill", "initial">> \o PushCourse \o <<"record">>)
    /\ UNCHANGED earned

\* automatch_hardcover: a book that has no link, by the identity of its audiobook.
Automatch(o, h) ==
    /\ details = NotLinked /\ h \in HasEdition
    /\ Start(o, "automatch", [Idle EXCEPT !.d = Linked(h, h)],
             <<"link", "editions", "own", "fill", "initial">> \o PushCourse \o <<"record">>)
    /\ UNCHANGED earned

SaveLink(o) ==
    /\ At(o, "link")
    /\ details' = SavedDetails(details, op[o].d)
    /\ Reads(o, op[o])
    /\ UNCHANGED <<local, tbr, remote, sent, grimmory, recovered, apart, requests, faults>>

\* _get_or_create_user_book
Own(o) ==
    /\ At(o, "own")
    /\ \E lookup \in {"done", "refused"}, create \in Answers :
         LET d == op[o].d
             status == LocalToHc[op[o].b.status]
             e == Owned(d, remote, status, lookup, create)
         IN  /\ ~NeedsUserBook(d) => lookup = "done" /\ create = "done"
             /\ lookup = "done" \/ create = "done"
             /\ Call(IF lookup = "done" THEN create ELSE lookup)
             /\ details' = IF e = d THEN details ELSE SavedDetails(details, e)
             /\ remote' = OwnedRemote(d, remote, status, lookup, create)
             /\ Reads(o, [op[o] EXCEPT !.d = e])
    /\ UNCHANGED <<local, tbr, sent, grimmory, recovered, apart, requests>>

\* _pull_dates_at_match: fills what the loaded book lacks.
Fill(o) ==
    /\ At(o, "fill")
    /\ \E answer \in {"done", "refused"} :
         LET read == IF answer = "done" /\ details.hc # None THEN LastRead(remote, details.hc)
                     ELSE Nothing
             b == op[o].b
         IN  /\ Call(answer)
             /\ book' = [book EXCEPT !.started = IF b.started = None THEN Or(read.started, @) ELSE @,
                                     !.finished = IF b.finished = None THEN Or(read.finished, @) ELSE @]
    /\ Reads(o, op[o])
    /\ UNCHANGED <<journal, progress, history, tbr, mirror, grimmory, apart, requests>>

\* push_local_rating makes sure of the user's entry; the rating is left out.
Rate(o) ==
    /\ details.hc # None
    /\ Start(o, "rate", [Idle EXCEPT !.d = details], <<"own">>)
    /\ UNCHANGED earned

\* What a request does in one go disturbs whatever is under way.
Edit(kind) == Request(kind) /\ op' = Touched(op) /\ UNCHANGED <<completions, faults>>

\* set_book_cover: a cover of a Hardcover book links the row to that book.
PickCover(h) ==
    /\ Edit("cover")
    /\ details' = SavedDetails(details, [details EXCEPT !.hc = h])
    /\ recovered' = (recovered \/ details.hc \notin {None, h})
    /\ UNCHANGED <<book, journal, tbr, progress, remote, grimmory, sent, earned>>

(***************************************************************************)
(* Dates and journal                                                       *)
(***************************************************************************)
\* update_dates: each of the two dates given, emptied or left.
EditDates(started, finished) ==
    /\ Edit("dates")
    /\ book' = [book EXCEPT !.started = started, !.finished = finished]
    /\ UNCHANGED <<journal, tbr, progress, mirror, grimmory, earned, recovered>>

\* delete_journal: with the last entry the date goes.
DeleteEntry(e) ==
    /\ Edit("journal")
    /\ journal[e] > 0
    /\ journal' = [journal EXCEPT ![e] = @ - 1]
    /\ book' = IF journal[e] = 1 THEN [book EXCEPT ![e] = None] ELSE book
    /\ UNCHANGED <<tbr, progress, mirror, grimmory, earned, recovered>>

\* update_journal: the date of an entry is the book's.
EditEntry(e) ==
    /\ Edit("journal")
    /\ journal[e] > 0
    /\ book' = [book EXCEPT ![e] = Day]
    /\ UNCHANGED <<journal, tbr, progress, mirror, grimmory, earned, recovered>>

\* push_dates_to_hardcover, asked for by the user.
PushDates(o) ==
    /\ details.hc # None
    /\ book.started # None \/ book.finished # None
    /\ Start(o, "push_dates", [Idle EXCEPT !.d = details], <<"send_dates">>)
    /\ UNCHANGED earned
SendDates(o) ==
    LET h   == op[o].d.hc
        old == LastRead(remote, h)
        new == PushedDates(old, op[o].b, TRUE)
    IN  /\ At(o, "send_dates")
        /\ \E answer \in Answers :
             /\ Call(answer)
             /\ IF remote[h].status # NoBook /\ old # new /\ Took(answer)
                THEN /\ remote' = WithRead(remote, h, IF remote[h].reads = << >> THEN 1
                                                       ELSE Len(remote[h].reads), new)
                     /\ sent' = new
                ELSE UNCHANGED <<remote, sent>>
        /\ Reads(o, op[o])
        /\ UNCHANGED <<local, tbr, details, grimmory, recovered, apart, requests>>

\* pull_dates_from_hardcover: writes the dates in which the loaded book differs.
PullDates(o) ==
    /\ details.hc # None
    /\ Start(o, "pull_dates", [Idle EXCEPT !.d = details], <<"take_dates">>)
    /\ UNCHANGED earned
TakeDates(o) ==
    /\ At(o, "take_dates")
    /\ \E answer \in {"done", "refused"} :
         LET read == IF answer = "done" THEN LastRead(remote, op[o].d.hc) ELSE Nothing
             b == op[o].b
         IN  /\ Call(answer)
             /\ book' = [book EXCEPT !.started = IF read.started # b.started THEN Or(read.started, @) ELSE @,
                                     !.finished = IF read.finished # b.finished THEN Or(read.finished, @) ELSE @]
    /\ Reads(o, op[o])
    /\ UNCHANGED <<journal, progress, history, tbr, mirror, grimmory, apart, requests>>

(***************************************************************************)
(* The to-be-read list                                                     *)
(***************************************************************************)
Listed(h) == \E i \in Items : tbr[i].hc = h
NewRow(h) == [linked |-> FALSE, named |-> details.hc = h, hc |-> h]

\* add_tbr_item; a new one is told to Hardcover as wanted.
AddItem(o, h) ==
    /\ ~Busy(o) /\ Room
    /\ Request("tbr")
    /\ IF Listed(h) THEN op' = Touched(op) /\ UNCHANGED tbr
       ELSE /\ tbr' = [tbr EXCEPT ![NewItem] = NewRow(h)]
            /\ op' = Begun(o, [Idle EXCEPT !.d = Linked(h, None), !.b = book], <<"want">>)
    /\ UNCHANGED <<local, mirror, grimmory, recovered, faults>>
Want(o) ==
    /\ At(o, "want")
    /\ \E answer \in Answers :
         Call(answer) /\ remote' = Told(remote, op[o].d.hc, WantToRead, answer)
    /\ Reads(o, op[o])
    /\ UNCHANGED <<local, tbr, details, sent, grimmory, recovered, apart, requests>>

\* add_tbr_from_library
AddFromLibrary ==
    /\ Edit("tbr") /\ Room
    /\ ~\E i \in Items : tbr[i].linked
    /\ tbr' = [tbr EXCEPT ![NewItem] = [linked |-> TRUE, named |-> TRUE, hc |-> None]]
    /\ UNCHANGED <<book, journal, progress, mirror, grimmory, earned, recovered>>

\* import_hardcover_wtr and import_hardcover_list: all but a book that is being read.
Import(o) ==
    LET wanted == {h \in HcBooks : remote[h].status = WantToRead}
    IN  /\ Start(o, "import", [Idle EXCEPT !.list =
                {h \in wanted : ~(details.hc = h /\ book.status \in Reading)}], <<"import">>)
        /\ UNCHANGED earned
ImportItem(o) ==
    /\ At(o, "import")
    /\ IF op[o].list = {} \/ ~Room THEN Reads(o, op[o]) /\ UNCHANGED tbr
       ELSE LET h == CHOOSE g \in op[o].list : TRUE
                r == [op[o] EXCEPT !.list = @ \ {h}]
            IN  /\ op' = [op EXCEPT ![o] = r]
                /\ tbr' = IF Listed(h) THEN tbr ELSE [tbr EXCEPT ![NewItem] = NewRow(h)]
    /\ UNCHANGED <<local, mirror, grimmory, recovered, apart, requests, faults>>

\* delete_tbr_item, at Hardcover too if the user wants.
DeleteItem(i, everywhere) ==
    /\ Request("tbr")
    /\ tbr[i] # None
    /\ \E answer \in Answers :
         /\ ~(everywhere /\ tbr[i].hc # None) => answer = "done"
         /\ Call(answer)
         /\ remote' = IF everywhere /\ tbr[i].hc # None
                      THEN Told(remote, tbr[i].hc, Ignored, answer) ELSE remote
    /\ tbr' = [tbr EXCEPT ![i] = None]
    /\ op' = Touched(op)
    /\ UNCHANGED <<local, details, sent, grimmory, recovered>>

\* link_tbr_to_library and unlink_tbr_from_library
LinkItem(i, linked) ==
    /\ Edit("tbr")
    /\ tbr[i] # None
    /\ tbr' = [tbr EXCEPT ![i].linked = linked]
    /\ UNCHANGED <<book, journal, progress, mirror, grimmory, earned, recovered>>

\* update_tbr_item with a Hardcover id, which no other item may have.
PatchItem(i, h) ==
    /\ Edit("tbr")
    /\ tbr[i] # None
    /\ ~\E j \in Items \ {i} : tbr[j].hc = h
    /\ tbr' = [tbr EXCEPT ![i].hc = h]
    /\ UNCHANGED <<book, journal, progress, mirror, grimmory, earned, recovered>>

\* start_tbr_item: a change of status of its own, its start date pulled or none.
StartItem(o, i) ==
    /\ tbr[i] # None /\ (tbr[i].linked \/ tbr[i].named)
    /\ Start(o, "start", [Idle EXCEPT !.to = "active", !.from = "not_started", !.item = i],
             <<"save", "tbr_dates", "journal", "status", "cache", "tbr_done">>)
    /\ UNCHANGED earned
StartDate(o) ==
    /\ At(o, "tbr_dates")
    /\ \E day \in Dates :
         book' = IF op[o].b.started = None THEN [book EXCEPT !.started = day] ELSE book
    /\ Reads(o, op[o])
    /\ UNCHANGED <<journal, tbr, progress, mirror, grimmory, history, apart, requests, faults>>
DropItem(o) ==
    /\ At(o, "tbr_done")
    /\ tbr' = [tbr EXCEPT ![op[o].item] = None]
    /\ Reads(o, op[o])
    /\ UNCHANGED <<local, mirror, grimmory, recovered, apart, requests, faults>>

(***************************************************************************)
(* The reader, and a crash                                                 *)
(***************************************************************************)
\* A cycle records the place of the reader.
Report(p) ==
    /\ Asked("report")
    /\ progress' = p
    /\ earned' = (earned \/ p > 99)
    /\ UNCHANGED <<book, journal, tbr, mirror, grimmory, op, completions, recovered, apart, faults>>

Crash ==
    /\ \E o \in Ops : Busy(o)
    /\ faults < MaxFaults /\ faults' = faults + 1
    /\ op' = [o \in Ops |-> Idle]
    /\ UNCHANGED <<local, tbr, mirror, grimmory, recovered, apart, requests>>

Transition(o) ==
    \/ Save(o) \/ Journal(o) \/ FillDates(o) \/ TellStatus(o) \/ CacheStatus(o)
    \/ Unlist(o) \/ TellGrimmory(o)
Pushing(o) ==
    \/ Initial(o) \/ Push(o) \/ Adopt(o) \/ Editions(o) \/ Advance(o) \/ Send(o) \/ Record(o)
Linking(o) ==
    \/ \E h \in HcBooks : \E e \in {None} \cup ({h} \cap HasEdition) : LinkBook(o, h, e)
    \/ \E h \in HcBooks : Automatch(o, h)
    \/ SaveLink(o) \/ Own(o) \/ Fill(o) \/ Rate(o)
    \/ PushDates(o) \/ SendDates(o) \/ PullDates(o) \/ TakeDates(o)
Tracking(o) ==
    \/ \E to \in Statuses : SetStatus(o, to)
    \/ \E p \in Percents : SetProgress(o, p)
    \/ StoreManual(o) \/ MarkComplete(o) \/ Mark(o) \/ Verify(o)
    \/ AutoComplete(o) \/ Check(o) \/ Finish(o) \/ Promote(o) \/ Probe(o) \/ SyncPush(o)
Listing(o) ==
    \/ \E h \in HcBooks : AddItem(o, h)
    \/ Want(o) \/ Import(o) \/ ImportItem(o)
    \/ \E i \in ItemIds : StartItem(o, i)
    \/ StartDate(o) \/ DropItem(o)
User ==
    \/ \E h \in HcBooks : PickCover(h)
    \/ \E s, f \in Dates : EditDates(s, f)
    \/ \E e \in DOMAIN journal : DeleteEntry(e)
    \/ \E e \in DOMAIN journal : EditEntry(e)
    \/ AddFromLibrary
    \/ \E i \in ItemIds, yes \in BOOLEAN : DeleteItem(i, yes) \/ LinkItem(i, yes)
    \/ \E i \in ItemIds, h \in HcBooks : PatchItem(i, h)
    \/ \E p \in Percents : Report(p)

Next ==
    \/ \E o \in Ops : Transition(o) \/ Pushing(o) \/ Linking(o) \/ Tracking(o) \/ Listing(o)
    \/ User \/ Crash

Spec == Init /\ [][Next]_vars

(***************************************************************************)
(* Properties                                                              *)
(***************************************************************************)
Operation ==
    [todo : Seq(Steps), b : Book, d : Details, to : Statuses \cup {None}, from : Statuses \cup {None},
     source : {None} \cup DOMAIN Effects, pct : 0 .. 100, item : ItemIds \cup {0},
     list : SUBSET HcBooks, clean : BOOLEAN]

\* The tracker's variables have their types.
TypeOK ==
    /\ book \in Book
    /\ journal \in [{"started", "finished"} -> Nat]
    /\ tbr \in [ItemIds -> Item \cup {None}]
    /\ progress \in 0 .. 100
    /\ details \in Details
    /\ remote \in [HcBooks -> Remote]
    /\ grimmory \in {"unset", "READING", "READ"}
    /\ op \in [Ops -> Operation]
    /\ sent \in [started : Dates \cup {NotADate}, finished : Dates \cup {NotADate}]
    /\ completions \in Nat
    /\ earned \in BOOLEAN /\ recovered \in BOOLEAN /\ apart \in BOOLEAN
    /\ requests \in 0 .. MaxRequests /\ faults \in 0 .. MaxFaults

\* The types hold, and the read count never runs ahead of the completions: neither a double click, nor the
\* auto-completion beside the user, nor an operation that saves an old copy of the
\* book counts one reading twice (status_machine.py:167).
CountBacked == TypeOK /\ book.count <= 1 + completions

\* Hardcover is told that the book is read only after it was completed here, or
\* reported as finished, whatever failed, overlapped or crashed: 99 % is enough for
\* the auto-completion and not for the mirror (hardcover_sync_client.py:110).
EarnedRead == \A h \in HcBooks : remote[h].status = Read => earned

\* The link is a whole: the user's entry, its read and the edition belong to the book
\* linked, even where an operation saves details that it loaded before a new link;
\* only the cover picker breaks it (hardcover_repository.py:16, hardcover_routes.py:391).
LinkIsWhole ==
    ~recovered => /\ details.edition \in {None, "none", details.hc}
                  /\ details.user \in {None, details.hc}
                  /\ details.read # 0 => details.user # None

\* As long as no two operations ran side by side and no call failed, a push of progress
\* never takes the book at Hardcover out of read or given up
\* (hardcover_sync_client.py:108).  Two changes of status that overlapped leave the one
\* at Hardcover and the other in the details, and a later push goes by the details.
VerdictStays ==
    [][\A o \in Ops : \A h \in HcBooks :
         (/\ At(o, "advance") /\ apart /\ faults' = 0 /\ ~recovered
          /\ op'[o].todo # op[o].todo
          /\ remote[h].status \in {Read, Dnf})
         => remote'[h].status = remote[h].status]_vars

\* A change of status that nothing overlapped does all of what it stands for: the
\* status, its date and journal entry, the list and, if no call failed, Grimmory and
\* the status at Hardcover, in whatever order the steps come (status_machine.py:61).
Done(o) == op[o].todo # << >> /\ op'[o].todo = << >> /\ op'[o] # op[o]
ChangeIsWhole ==
    [][\A o \in Ops :
         (/\ Done(o) /\ op[o].clean /\ op[o].source # None /\ op[o].from # op[o].to
          /\ faults' = 0 /\ op[o].b.status = op[o].to)
         => /\ book'.status = op[o].to
            /\ op[o].to = "active" => book'.started # None
            /\ op[o].to = "completed" => book'.finished # None
            /\ op[o].to = "completed" => journal'.finished > 0
            /\ (op[o].to \in Reading /\ op[o].source # "manual_progress")
                  => \A i \in ItemIds : tbr'[i] = None \/ ~tbr'[i].linked
            /\ (op[o].to = "completed" /\ op[o].source # "manual_progress") => grimmory' = "READ"
            /\ (op[o].source = "local" /\ details'.hc # None)
                  => remote'[details'.hc].status = LocalToHc[op[o].to]]_vars

\* The client sends Hardcover dates, or none, in every change of a read
\* (hardcover_client.py:796).
DatesAreDates == sent \in ReadRow
=============================================================================
