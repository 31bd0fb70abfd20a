---------------------------- MODULE PairingInbox ----------------------------
(***************************************************************************)
(* Book intake (services/book_intake_service.py) with the inbox of         *)
(* detected books (db/detected_repository.py), the suggestions             *)
(* (db/suggestion_repository.py), the scan that fills both                 *)
(* (services/suggestion_service.py) and the merge of two books             *)
(* (db/book_repository.py).                                                *)
(*                                                                         *)
(* A request of the match page reads, claims a detection for ten minutes   *)
(* at most, renews the claim, commits the book and completes the claim,    *)
(* each in a session of its own; other requests, a scan, a user and a      *)
(* crash come in between.  An ebook stands for its KoSync document; its    *)
(* title, the collections, shelves and the Hardcover match are left out.   *)
(***************************************************************************)
EXTENDS Naturals, FiniteSets

CONSTANTS
    Audios,        \* items of Audiobookshelf
    GAudios,       \* audiobooks of Grimmory
    Docs,          \* ebooks, by the hash of their content
    Requests,
    Kinds,         \* the intents that requests may have
    MaxBooks,      \* bound on the ids of Book rows
    SlowRequests,  \* a request may take longer than its lease
    MaxEvents,     \* bound on failures and what the user does besides
    None           \* no such thing

Items == Audios \cup GAudios \cup Docs
Ids   == 1 .. MaxBooks
AllKinds == {"map", "link", "audio_only", "ebook_only", "attach_ebook", "attach_audio"}

\* Book: its identities, the origins of its journals, jobs, logs and submissions,
\* and of the one row it may have in a table like book_alignments.
Book == [abs : Audios \cup {None}, doc : Docs \cup {None}, gaudio : GAudios \cup {None},
         kids : SUBSET Ids, one : Ids \cup {None}]

\* DetectedBook; "live": its claim is younger than _PROCESSING_LEASE.
Statuses == {"detected", "processing", "resolved", "dismissed"}
Detected == [status : Statuses, token : Requests \cup {None}, live : BOOLEAN]

Request == [at : {"new", "claim", "check", "again", "renew", "commit", "undo", "complete",
                  "ensure", "migrate", "resolve", "done"},
            kind : AllKinds \cup {None}, audio : Audios \cup GAudios \cup {None},
            doc : Docs \cup {None}, item : Items \cup {None}, book : Ids \cup {None},
            shown : Ids \cup {None}, merge : Ids \cup {None}, seen : Book \cup {None}]

Scan == [at : {"idle", "detect", "save"}, mapped : SUBSET Items,
         stale : SUBSET Audios, audio : Audios \cup {None}]

ASSUME InboxAssumption ==
    /\ MaxBooks \in Nat \ {0} /\ MaxEvents \in Nat
    /\ SlowRequests \in BOOLEAN /\ Kinds \subseteq AllKinds
    /\ Audios \cap GAudios = {} /\ Docs \cap (Audios \cup GAudios) = {}
    /\ None \notin Items \cup Ids \cup Requests \cup Book \cup Detected \cup AllKinds
    /\ None \notin {"pending", "hidden", "ignored"}

VARIABLES
    books,     \* the books table
    link,      \* linked_book_id of the KoSync documents
    det,       \* the detected_books table
    sugg,      \* the pending_suggestions of audiobooks
    req,       \* what the requests are at
    scan,      \* what the scan is at
    wins,      \* history: the requests that committed a book under their claim, per detection
    failed,    \* history: a session has failed, or the process
    events     \* so far

vars == <<books, link, det, sugg, req, scan, wins, failed, events>>
bounds == <<failed, events>>

Live == {b \in Ids : books[b] # None}
OfAbs(a)    == {b \in Live : books[b].abs = a}
OfGAudio(g) == {b \in Live : books[b].gaudio = g}
OfDoc(d)    == {b \in Live : books[b].doc = d}

\* SQLite gives a new row the id after the largest one in use.
NewId == 1 + (IF Live = {} THEN 0 ELSE CHOOSE b \in Live : \A c \in Live : c <= b)
NewBook(b, a, d, g) == [abs |-> a, doc |-> d, gaudio |-> g, kids |-> {b}, one |-> None]

Unclaimed(status) == [status |-> status, token |-> None, live |-> FALSE]

Idle == [at |-> "new", kind |-> None, audio |-> None, doc |-> None, item |-> None,
         book |-> None, shown |-> None, merge |-> None, seen |-> None]
Done == [Idle EXCEPT !.at = "done"]
NoScan == [at |-> "idle", mapped |-> {}, stale |-> {}, audio |-> None]

\* At the start an ebook may be a book, and an audiobook another one; whatever is
\* read at Audiobookshelf or on a device has been detected.
Init ==
    /\ \E E \in SUBSET {1}, B \in SUBSET {2}, d \in Docs, a \in Audios, n \in {None, 1} :
         /\ B # {} => E # {}
         /\ B = {} => n = None
         /\ books = [b \in Ids |->
                CASE b \in E -> [NewBook(1, None, d, None) EXCEPT !.one = n]
                  [] b \in B -> [NewBook(2, a, None, None) EXCEPT !.one = 2]
                  [] OTHER -> None]
    /\ link = [d \in Docs |-> IF OfDoc(d) = {} THEN None ELSE 1]
    /\ det = [i \in Items |-> IF i \in GAudios THEN None ELSE Unclaimed("detected")]
    /\ sugg = [a \in Audios |-> "pending"]
    /\ req = [r \in Requests |-> Idle]
    /\ scan = NoScan
    /\ wins = [i \in Items |-> {}]
    /\ failed = FALSE /\ events = 0

\* Something happens that the requests do not do themselves.
Event == events < MaxEvents /\ events' = events + 1

(***************************************************************************)
(* DetectedRepository                                                      *)
(***************************************************************************)
\* Mutant: takes a claimed row as well.
ClaimableAnyway(i) == det[i] # None /\ det[i].status \in {"detected", "processing"}

\* claim_detected_book: active rows, and those whose lease has run out.
Claimable(i) ==
    /\ det[i] # None
    /\ \/ det[i].status = "detected"
       \/ det[i].status = "processing" /\ ~det[i].live

\* renew_detected_book_claim and _finish_claim ask for the status and the token.
Owns(r, i) == det[i] # None /\ det[i].status = "processing" /\ det[i].token = r

\* Mutant: a request that fails keeps its claim.
RestoredNever(r, i) == det

\* restore_detected_book
Restored(r, i) == IF i # None /\ Owns(r, i) THEN [det EXCEPT ![i] = Unclaimed("detected")] ELSE det

\* _set_detected_status: never a row that is being processed.
SetStatus(table, S, status) ==
    [i \in Items |-> IF i \in S /\ table[i] # None /\ table[i].status # "processing"
                     THEN Unclaimed(status) ELSE table[i]]

\* Mutant: a scan makes a row active again whatever the user said of it.
ScannedAgain(row) ==
    IF row = None \/ ~(row.status = "processing" /\ row.live) THEN Unclaimed("detected") ELSE row

\* save_detected_book with _normalize_for_update: live claims and terminal rows keep their status.
Scanned(row) ==
    CASE row = None -> Unclaimed("detected")
      [] row # None /\ row.status = "processing" /\ row.live -> row
      [] row # None /\ row.status \in {"dismissed", "resolved"} -> Unclaimed(row.status)
      [] OTHER -> Unclaimed("detected")

(***************************************************************************)
(* BookRepository                                                          *)
(***************************************************************************)
\* save_book of a Book object without an id: an upsert by abs_id over all columns.
SavedByAbs(table, b, a, d) ==
    [table EXCEPT ![b] = IF @ = None THEN NewBook(b, a, d, None)
                         ELSE [@ EXCEPT !.doc = d, !.gaudio = None]]

\* _move_unique_child: the row of the book that stays wins.
Unique(stays, goes) == IF stays.one # None THEN stays.one ELSE goes.one

\* Mutant: the children of the row that goes are deleted with it.
MigratedAlone(table, s, a, d) ==
    LET T == {b \in Live : table[b].abs = a} \ {s}
        g == IF \E t \in T : table[t].gaudio # None
             THEN (CHOOSE t \in T : TRUE) ELSE s
    IN [b \in Ids |-> IF b \in T THEN None
                      ELSE IF b # s THEN table[b]
                      ELSE [table[s] EXCEPT !.abs = a, !.doc = d, !.gaudio = table[g].gaudio]]

\* _migrate_book_data: book s takes over the audiobook a, and with it the row that had it.
Migrated(table, s, a, d) ==
    LET T == {b \in Ids : table[b] # None /\ table[b].abs = a} \ {s}
    IN [b \in Ids |->
          CASE b \in T -> None
            [] b = s /\ T = {} -> [table[s] EXCEPT !.abs = a, !.doc = d]
            [] b = s /\ T # {} ->
                 LET t == CHOOSE t \in T : TRUE IN
                 [abs |-> a, doc |-> d,
                  gaudio |-> IF table[t].gaudio # None THEN table[t].gaudio ELSE table[s].gaudio,
                  kids |-> table[s].kids \cup table[t].kids,
                  one |-> Unique(table[s], table[t])]
            [] OTHER -> table[b]]

\* save_book, and ensure_kosync_document later on: a document without an owner gets this one.
Ensured(b, d) == IF d = None \/ link[d] # None THEN link ELSE [link EXCEPT ![d] = b]

\* The documents of both rows belong to the one that stays.
Relinked(s, a) ==
    [d \in Docs |-> IF link[d] = s \/ link[d] \in OfAbs(a) THEN s ELSE link[d]]

\* Mutant: asks only for the unique column.
MayOwnUnchecked(b, d, g) == OfGAudio(g) \subseteq {b} /\ (b # None => books[b] # None)

\* save_book_with_kosync_ownership of book b (None: a new one) for document d.
MayOwn(b, d, g) ==
    /\ Cardinality(OfDoc(d)) <= 1
    /\ OfDoc(d) # {} => b \in OfDoc(d)
    /\ link[d] # None => OfDoc(d) = {link[d]} /\ b \in {None, link[d]}
    /\ OfGAudio(g) \subseteq {b}          \* the column is unique
    /\ b # None => books[b] # None

(***************************************************************************)
(* BookIntakeService.map_audiobook_ebook and link_grimmory_audiobook_ebook *)
(***************************************************************************)
Set(r, new) == req' = [req EXCEPT ![r] = new]
At(r, at) == [req[r] EXCEPT !.at = at]

\* _prepare_mapping: the book of the audiobook and another one that has the ebook.
\* The user may have been shown that book before and have confirmed the merge.
PrepareMap(r, a, d, i, shown) ==
    /\ req[r].at = "new" /\ "map" \in Kinds
    /\ \E e \in IF OfDoc(d) \ OfAbs(a) = {} THEN {None} ELSE OfDoc(d) \ OfAbs(a) :
         Set(r, [at |-> IF i # None THEN "claim" ELSE "check", kind |-> "map", audio |-> a,
                 doc |-> d, item |-> i, book |-> None, shown |-> shown, merge |-> e,
                 seen |-> IF e = None THEN None ELSE books[e]])
    /\ UNCHANGED <<books, link, det, sugg, scan, wins, bounds>>

\* _grimmory_audio_target: the row to change, if the identities known so far agree.
Targets(g, d) ==
    LET T == OfGAudio(g) \cup OfDoc(d) IN
    IF /\ Cardinality(T) <= 1
       /\ \A t \in T : books[t].gaudio \in {None, g} /\ books[t].doc \in {None, d}
    THEN IF T = {} THEN {None} ELSE T
    ELSE {}

\* The checks before the claim; a conflict ends the request.
PrepareLink(r, g, d, i) ==
    /\ req[r].at = "new" /\ "link" \in Kinds
    /\ \E t \in Targets(g, d) :
         Set(r, [at |-> "claim", kind |-> "link", audio |-> g, doc |-> d, item |-> i,
                 book |-> None, shown |-> None, merge |-> t, seen |-> None])
    /\ UNCHANGED <<books, link, det, sugg, scan, wins, bounds>>

Claim(r) ==
    /\ req[r].at = "claim"
    /\ LET i == req[r].item IN
       IF Claimable(i)
       THEN /\ det' = [det EXCEPT ![i] = [status |-> "processing", token |-> r, live |-> TRUE]]
            /\ Set(r, At(r, IF req[r].kind = "map" THEN "check" ELSE "again"))
       ELSE /\ Set(r, Done) /\ UNCHANGED det
    /\ UNCHANGED <<books, link, sugg, scan, wins, bounds>>

\* An unconfirmed merge gives the claim back and asks the user.
CheckMerge(r) ==
    /\ req[r].at = "check"
    /\ LET held == req[r].item # None IN
       IF req[r].merge # None /\ req[r].shown # req[r].merge
       THEN Set(r, IF held THEN At(r, "undo") ELSE Done)
       ELSE Set(r, At(r, IF held THEN "renew" ELSE "commit"))
    /\ UNCHANGED <<books, link, det, sugg, scan, wins, bounds>>

\* The second reading of a Grimmory link, under the claim.
PrepareAgain(r) ==
    /\ req[r].at = "again"
    /\ \/ \E t \in Targets(req[r].audio, req[r].doc) :
            Set(r, [At(r, "renew") EXCEPT !.merge = t])
       \/ Set(r, At(r, "undo"))       \* a conflict, or the audiobook or ebook has changed
    /\ UNCHANGED <<books, link, det, sugg, scan, wins, bounds>>

Undo(r) ==
    /\ req[r].at = "undo"
    /\ det' = Restored(r, req[r].item)
    /\ Set(r, Done)
    /\ UNCHANGED <<books, link, sugg, scan, wins, bounds>>

\* _require_claim_ownership (called twice in a row, which is one look at the row)
Renew(r) ==
    /\ req[r].at = "renew"
    /\ LET i == req[r].item IN
       IF Owns(r, i)
       THEN det' = [det EXCEPT ![i].live = TRUE] /\ Set(r, At(r, "commit"))
       ELSE Set(r, Done) /\ UNCHANGED det
    /\ UNCHANGED <<books, link, sugg, scan, wins, bounds>>

\* What comes after a commit of book b, and its place in the history.
Committed(r, b) ==
    LET i == req[r].item IN
    /\ Set(r, [At(r, IF i = None THEN "ensure" ELSE "complete") EXCEPT !.book = b])
    /\ wins' = IF i = None THEN wins ELSE [wins EXCEPT ![i] = @ \cup {r}]

\* _apply_mapping without a merge: save_book
CommitSave(r) ==
    /\ req[r].at = "commit" /\ req[r].kind = "map" /\ req[r].merge = None
    /\ \E b \in IF OfAbs(req[r].audio) # {} THEN OfAbs(req[r].audio) ELSE {NewId} \cap Ids :
         /\ books' = SavedByAbs(books, b, req[r].audio, req[r].doc)
         /\ link' = Ensured(b, req[r].doc)
         /\ Committed(r, b)
    /\ UNCHANGED <<det, sugg, scan, bounds>>

\* The filters of migrate_book_data_by_id
Unchanged(r) ==
    /\ books[req[r].merge] # None
    /\ books[req[r].merge].doc = req[r].doc
    /\ books[req[r].merge].abs = req[r].seen.abs

\* _apply_mapping with a merge: migrate_book_data_by_id, or _MergeIdentityChanged
CommitMerge(r) ==
    /\ req[r].at = "commit" /\ req[r].kind = "map" /\ req[r].merge # None
    /\ IF Unchanged(r)
       THEN /\ books' = Migrated(books, req[r].merge, req[r].audio, req[r].doc)
            /\ link' = Relinked(req[r].merge, req[r].audio)
            /\ Committed(r, req[r].merge)
       ELSE /\ Set(r, IF req[r].item = None THEN Done ELSE At(r, "undo"))
            /\ UNCHANGED <<books, link, wins>>
    /\ UNCHANGED <<det, sugg, scan, bounds>>

\* link_grimmory_audiobook_ebook: one transaction, or IntegrityError or a conflict
CommitOwned(r) ==
    /\ req[r].at = "commit" /\ req[r].kind = "link"
    /\ LET d == req[r].doc
           g == req[r].audio
           t == req[r].merge
       IN IF MayOwn(t, d, g)
          THEN \E b \in IF t = None THEN {NewId} \cap Ids ELSE {t} :
                 /\ books' = [books EXCEPT ![b] =
                       IF t = None THEN NewBook(b, None, d, g)
                       ELSE [@ EXCEPT !.doc = d, !.gaudio = g]]
                 /\ link' = [link EXCEPT ![d] = b]
                 /\ Committed(r, b)
          ELSE Set(r, At(r, "undo")) /\ UNCHANGED <<books, link, wins>>
    /\ UNCHANGED <<det, sugg, scan, bounds>>

\* complete_detected_book; a claim that was lost, or a failing session, ends the request.
Complete(r) ==
    /\ req[r].at = "complete"
    /\ LET i == req[r].item IN
       \/ /\ Owns(r, i)
          /\ det' = [det EXCEPT ![i] = Unclaimed("resolved")]
          /\ Set(r, At(r, IF req[r].kind = "map" THEN "ensure" ELSE "resolve"))
          /\ UNCHANGED bounds
       \/ /\ ~Owns(r, i) /\ Set(r, Done) /\ UNCHANGED <<det, bounds>>
       \/ /\ Event /\ failed' = TRUE
          /\ Set(r, Done) /\ UNCHANGED det
    /\ UNCHANGED <<books, link, sugg, scan, wins>>

\* ensure_kosync_document
Ensure(r) ==
    /\ req[r].at = "ensure"
    /\ link' = Ensured(req[r].book, req[r].doc)
    /\ Set(r, At(r, IF req[r].kind = "attach_audio" THEN "migrate" ELSE "resolve"))
    /\ UNCHANGED <<books, det, sugg, scan, wins, bounds>>

\* The items a request resolves at its end; a pairing under a claim of its own
\* leaves the detections of its companions alone.
Resolves(r) ==
    CASE req[r].kind = "map"  -> IF req[r].item # None THEN {} ELSE {req[r].audio, req[r].doc}
      [] req[r].kind = "link" -> {req[r].audio, req[r].doc}
      [] OTHER -> {req[r].audio, req[r].doc} \ {None}

\* _resolve_mapping_suggestions, and the same calls of the other intents
Resolve(r) ==
    /\ req[r].at = "resolve"
    /\ det' = SetStatus(det, Resolves(r), "resolved")
    /\ sugg' = [a \in Audios |-> IF a = req[r].audio THEN None ELSE sugg[a]]
    /\ Set(r, Done)
    /\ UNCHANGED <<books, link, scan, wins, bounds>>

(***************************************************************************)
(* The other intents                                                       *)
(***************************************************************************)
Start(r, kind, a, d, b) ==
    Set(r, [at |-> "ensure", kind |-> kind, audio |-> a, doc |-> d, item |-> None, book |-> b,
            shown |-> None, merge |-> None, seen |-> None])

\* import_audio_only: the row of a known audiobook is overwritten too.
ImportAudio(r, a) ==
    /\ req[r].at = "new" /\ "audio_only" \in Kinds
    /\ \E b \in IF OfAbs(a) # {} THEN OfAbs(a) ELSE {NewId} \cap Ids :
         /\ books' = SavedByAbs(books, b, a, None)
         /\ Start(r, "audio_only", a, None, b)
    /\ UNCHANGED <<link, det, sugg, scan, wins, bounds>>

\* import_ebook_only: a new row, whether another one has the ebook or not.
ImportEbook(r, d) ==
    /\ req[r].at = "new" /\ "ebook_only" \in Kinds /\ NewId \in Ids
    /\ books' = [books EXCEPT ![NewId] = NewBook(NewId, None, d, None)]
    /\ link' = Ensured(NewId, d)
    /\ Start(r, "ebook_only", None, d, NewId)
    /\ UNCHANGED <<det, sugg, scan, wins, bounds>>

\* attach_ebook
AttachEbook(r, b, d) ==
    /\ req[r].at = "new" /\ "attach_ebook" \in Kinds /\ books[b] # None
    /\ books' = [books EXCEPT ![b].doc = d]
    /\ link' = Ensured(b, d)
    /\ Start(r, "attach_ebook", None, d, b)
    /\ UNCHANGED <<det, sugg, scan, wins, bounds>>

\* attach_audiobook: first a row for the audiobook with everything book b has ...
AttachAudio(r, b, a) ==
    /\ req[r].at = "new" /\ "attach_audio" \in Kinds /\ books[b] # None
    /\ \E t \in IF OfAbs(a) # {} THEN OfAbs(a) ELSE {NewId} \cap Ids :
         /\ books' = [books EXCEPT ![t] =
                IF @ = None THEN NewBook(t, a, books[b].doc, books[b].gaudio)
                ELSE [@ EXCEPT !.doc = books[b].doc, !.gaudio = books[b].gaudio]]
         /\ link' = Ensured(t, books[b].doc)
         /\ books[b].gaudio # None => OfGAudio(books[b].gaudio) \subseteq {t}   \* unique, or it fails
         /\ Set(r, [at |-> "ensure", kind |-> "attach_audio", audio |-> a, doc |-> books[b].doc,
                    item |-> None, book |-> t, shown |-> None, merge |-> b, seen |-> books[b]])
    /\ UNCHANGED <<det, sugg, scan, wins, bounds>>

\* ... then _migrate_source_identity, which looks book b up by its audiobook and finds
\* nothing if it has none.
MigrateSource(r) ==
    /\ req[r].at = "migrate"
    /\ LET S == IF req[r].seen.abs = None THEN {} ELSE OfAbs(req[r].seen.abs)
           a == req[r].audio
       IN IF S = {} THEN UNCHANGED <<books, link>>
          ELSE \E s \in S :
                 /\ books' = Migrated(books, s, a, req[r].doc)
                 /\ link' = Relinked(s, a)
    /\ Set(r, At(r, "resolve"))
    /\ UNCHANGED <<det, sugg, scan, wins, bounds>>

(***************************************************************************)
(* SuggestionService: check_for_suggestions, then the scan of the catalog  *)
(***************************************************************************)
\* What the books map already
Mapped == {books[b].abs : b \in Live} \cup {books[b].doc : b \in Live}
            \cup {books[b].gaudio : b \in Live}

\* Single flight: request_rescan_library_suggestions starts no second thread.
StartScan ==
    /\ scan.at = "idle"
    /\ scan' = [at |-> "detect", mapped |-> Mapped \cap Items, audio |-> None,
                stale |-> {a \in Audios : sugg[a] \in {"pending", "hidden"}}]
    /\ UNCHANGED <<books, link, det, sugg, req, wins, bounds>>

\* A book is detected that was not mapped and has progress in the detection window.
Detect(i) ==
    /\ scan.at = "detect" /\ i \notin scan.mapped
    /\ det' = [det EXCEPT ![i] = Scanned(@)]
    /\ UNCHANGED <<books, link, sugg, req, scan, wins, bounds>>

\* An audiobook with matches that is neither mapped nor ignored ...
Consider(a) ==
    /\ scan.at = "detect"
    /\ a \notin scan.mapped /\ sugg[a] # "ignored"
    /\ scan' = [scan EXCEPT !.at = "save", !.audio = a]
    /\ UNCHANGED <<books, link, det, sugg, req, wins, bounds>>

\* Mutant: the status is taken over from the scan.
KeptPending(status) == "pending"

\* _preserve_hidden_status
Kept(status) == IF status = "hidden" THEN "hidden" ELSE "pending"

\* ... is suggested (save_pending_suggestion).
Suggest ==
    /\ scan.at = "save"
    /\ sugg' = [sugg EXCEPT ![scan.audio] = Kept(@)]
    /\ scan' = [scan EXCEPT !.at = "detect", !.audio = None, !.stale = @ \ {scan.audio}]
    /\ UNCHANGED <<books, link, det, req, wins, bounds>>

\* The cleanup of a scan without errors deletes what it did not find again; it is
\* left out after an error.
CleanUp ==
    /\ scan.at = "detect"
    /\ \E S \in {{}, scan.stale} : sugg' = [a \in Audios |-> IF a \in S THEN None ELSE sugg[a]]
    /\ scan' = NoScan
    /\ UNCHANGED <<books, link, det, req, wins, bounds>>

(***************************************************************************)
(* The pages of the user, time and crashes                                 *)
(***************************************************************************)
\* dismiss_detected_book and resolve_detected_book
Judge(i, status) ==
    /\ Event
    /\ det[i] # None /\ det[i].status # "processing"
    /\ det' = SetStatus(det, {i}, status)
    /\ UNCHANGED <<books, link, sugg, req, scan, wins, failed>>

\* dismiss_detected_books: all or nothing
DismissGroup(S) ==
    /\ Event
    /\ \A i \in S : det[i] # None => det[i].status # "processing"
    /\ det' = [i \in Items |-> IF i \in S /\ det[i] # None /\ det[i].status = "detected"
                               THEN Unclaimed("dismissed") ELSE det[i]]
    /\ UNCHANGED <<books, link, sugg, req, scan, wins, failed>>

\* hide_suggestion, unhide_suggestion and ignore_suggestion
Hide(a)   == sugg[a] \in {"pending", "hidden"} /\ sugg' = [sugg EXCEPT ![a] = "hidden"]
Unhide(a) == sugg[a] = "hidden" /\ sugg' = [sugg EXCEPT ![a] = "pending"]
Ignore(a) == sugg[a] # None /\ sugg' = [sugg EXCEPT ![a] = "ignored"]

\* clear_stale_suggestions keeps those of mapped audiobooks and the ignored ones.
ClearStale == sugg' = [a \in Audios |-> IF sugg[a] = "ignored" \/ OfAbs(a) # {} THEN sugg[a] ELSE None]

EditSuggestion ==
    /\ Event
    /\ ClearStale \/ \E a \in Audios : Hide(a) \/ Unhide(a) \/ Ignore(a)
    /\ UNCHANGED <<books, link, det, req, scan, wins, failed>>

\* delete_book
DeleteBook(b) ==
    /\ Event /\ books[b] # None
    /\ books' = [books EXCEPT ![b] = None]
    /\ link' = [d \in Docs |-> IF link[d] = b THEN None ELSE link[d]]
    /\ UNCHANGED <<det, sugg, req, scan, wins, failed>>

\* _restore_expired_claims, by every page that lists or counts the detected books
List ==
    /\ \E i \in Items : det[i] # None /\ det[i].status = "processing" /\ ~det[i].live
    /\ det' = [i \in Items |-> IF det[i] # None /\ det[i].status = "processing" /\ ~det[i].live
                               THEN Unclaimed("detected") ELSE det[i]]
    /\ UNCHANGED <<books, link, sugg, req, scan, wins, bounds>>

\* Ten minutes after the last renewal; unless SlowRequests, its request has ended by then.
Expire(i) ==
    /\ det[i] # None /\ det[i].live
    /\ SlowRequests \/ req[det[i].token].at = "done"
    /\ det' = [det EXCEPT ![i].live = FALSE]
    /\ UNCHANGED <<books, link, sugg, req, scan, wins, bounds>>

Crash ==
    /\ Event /\ failed' = TRUE
    /\ req' = [r \in Requests |-> IF req[r].at = "new" THEN Idle ELSE Done]
    /\ scan' = NoScan
    /\ UNCHANGED <<books, link, det, sugg, wins>>

Begin(r) ==
    \/ \E a \in Audios, d \in Docs :
         \E i \in {None, a, d}, shown \in {None} \cup OfDoc(d) : PrepareMap(r, a, d, i, shown)
    \/ \E g \in GAudios, d \in Docs : \E i \in {g, d} : PrepareLink(r, g, d, i)
    \/ \E a \in Audios : ImportAudio(r, a)
    \/ \E d \in Docs : ImportEbook(r, d)
    \/ \E b \in Ids, d \in Docs : AttachEbook(r, b, d)
    \/ \E b \in Ids, a \in Audios : AttachAudio(r, b, a)

Continue(r) ==
    \/ Claim(r) \/ CheckMerge(r) \/ PrepareAgain(r) \/ Undo(r) \/ Renew(r)
    \/ CommitSave(r) \/ CommitMerge(r) \/ CommitOwned(r) \/ Complete(r)
    \/ Ensure(r) \/ MigrateSource(r) \/ Resolve(r)

Scanning == Suggest \/ CleanUp \/ (\E i \in Items : Detect(i)) \/ (\E a \in Audios : Consider(a))

User ==
    \/ \E i \in Items, status \in {"dismissed", "resolved"} : Judge(i, status)
    \/ \E S \in SUBSET Items : DismissGroup(S)
    \/ EditSuggestion
    \/ \E b \in Ids : DeleteBook(b)

Next ==
    \/ \E r \in Requests : Begin(r) \/ Continue(r)
    \/ StartScan \/ Scanning \/ User \/ List \/ Crash
    \/ \E i \in Items : Expire(i)

Spec == Init /\ [][Next]_vars

(***************************************************************************)
(* Properties                                                              *)
(***************************************************************************)
TypeOK ==
    /\ books \in [Ids -> Book \cup {None}]
    /\ link \in [Docs -> Ids \cup {None}]
    /\ det \in [Items -> Detected \cup {None}]
    /\ sugg \in [Audios -> {None, "pending", "hidden", "ignored"}]
    /\ req \in [Requests -> Request]
    /\ scan \in Scan
    /\ wins \in [Items -> SUBSET Requests]
    /\ failed \in BOOLEAN /\ events \in 0 .. MaxEvents
    /\ \A i \in Items : det[i] # None => (det[i].status = "processing" <=> det[i].token # None)
    /\ \A i \in Items : det[i] # None /\ det[i].live => det[i].status = "processing"

\* While requests keep within their lease and nothing fails, a detection is turned
\* into a book by one request only, however requests, scans and the user interleave
\* (claim, renew and complete in map_audiobook_ebook and link_grimmory_audiobook_ebook).
PairedOnce == ~SlowRequests /\ ~failed => \A i \in Items : Cardinality(wins[i]) <= 1

\* The types hold, and a claim that is still good belongs to a request that is at work
\* or has failed: nothing else can hold a detection back from the user.
ClaimBacked ==
    /\ TypeOK
    /\ \A i \in Items : det[i] # None /\ det[i].live =>
           \/ req[det[i].token].item = i
           \/ failed

\* What the user dismissed or hid, or what became a book, never comes back to the inbox
\* through a scan that read its state before: neither a detection
\* (_normalize_for_update) nor a suggestion, which only the user shows again
\* (_preserve_hidden_status).
JudgedStays ==
    [][/\ \A i \in Items : det[i] # None /\ det[i].status \in {"dismissed", "resolved"}
             => det'[i] # None /\ det'[i].status \in {"dismissed", "resolved"}
       /\ \A a \in Audios : sugg[a] = "hidden" /\ sugg'[a] = "pending"
             => events' # events]_vars

\* A row that a merge deletes leaves its children to another book, which keeps its own
\* (_migrate_book_data).
MergeKeepsChildren ==
    [][\A b \in Ids : books[b] # None /\ books'[b] = None /\ events' = events =>
          \E c \in Ids \ {b} :
             /\ books[c] # None /\ books'[c] # None
             /\ books'[c].kids = books[c].kids \cup books[b].kids
             /\ books'[c].one = IF books[c].one = None THEN books[b].one ELSE books[c].one]_vars

\* A Grimmory link never gives an ebook a second book, whatever books came into being
\* since it looked (save_book_with_kosync_ownership).
OwnedAlone ==
    [][\A r \in Requests : req[r].at = "commit" /\ req[r].kind = "link" /\ books' # books
          => Cardinality(OfDoc(req[r].doc)') = 1 \/ req'[r] = req[r]]_vars

\* Attaching an audiobook keeps the book of the ebook: when the request is done, one
\* book has the ebook (docs: "duplicate merge migration"; the route merges the rows).
AttachedOnce ==
    [][\A r \in Requests :
          req[r].kind = "attach_audio" /\ req[r].at = "resolve" /\ req[r].doc # None /\ req'[r] # req[r]
             => Cardinality(OfDoc(req[r].doc)) <= 1]_vars
=============================================================================
