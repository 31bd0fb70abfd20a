---------------------------- MODULE KosyncServer ----------------------------
(***************************************************************************)
(* The KoSync server: the requests of KOReader devices                     *)
(* (services/kosync_progress_service.py), the background discovery of      *)
(* unknown documents (services/kosync_service.py) and the administration   *)
(* of documents (api/kosync_admin.py).                                     *)
(*                                                                         *)
(* A row is read in one session of the database and saved in a later one   *)
(* with all its columns (session.merge), so a request keeps the object it  *)
(* read ("was") and the one it will save ("obj").  Requests and discovery  *)
(* threads interleave between sessions; a request of the administrator is  *)
(* one step.  Locators, timestamps other than "older than 30 days", and    *)
(* the retired linked_abs_id are left out.                                 *)
(***************************************************************************)
EXTENDS Integers, FiniteSets

CONSTANTS
    Hashes,        \* the document ids that devices use
    Files,         \* the EPUB files below the ebook directory
    HashOf,        \* the hash of the content of a file
    Remote,        \* hashes of books that only Grimmory holds
    RemoteName,    \* the name such a book gets in epub_cache
    Devices,
    Threads,       \* the threads of the HTTP server
    Last,          \* positions are 0 .. Last
    MaxBooks,      \* bound on the ids of Book rows
    MaxScans,      \* _MAX_ACTIVE_SCANS
    DbMayFail,     \* saving a stub may fail
    MaxRequests,   \* bound on the requests of devices
    MaxEdits,      \* bound on the requests of the administrator, and on aging
    None           \* no such thing

Ids    == 1 .. MaxBooks
Place  == 0 .. Last
Names  == Files \cup {RemoteName}

\* KosyncDocument; "old": its timestamp is 30 days old; "stat": mtime is recorded.
Doc == [pct : Place, dev : Devices \cup {None}, file : Names \cup {None},
        link : Ids \cup {None}, old : BOOLEAN, stat : BOOLEAN]

\* Book; "aside" stands for paused, dnf and not_started, "state" is its KoSync State row.
Book == [hash : Hashes \cup {None}, file : Names \cup {None}, status : {"active", "aside"},
         flag : BOOLEAN, audio : BOOLEAN, state : Place \cup {None}]

Request == [at : {"save", "resolve", "link", "handle", "lookup", "register", "stub"},
            hash : Hashes, dev : Devices \cup {None}, force : BOOLEAN,
            was : Doc \cup {None}, obj : Doc, book : Ids \cup {None},
            snap : Book \cup {None}, seen : SUBSET Ids]

Scan == [at : {"find", "walk", "hash", "store", "remote", "found", "create", "attach", "end"},
         kind : {"get", "put"}, left : SUBSET Files, file : Names \cup {None},
         cached : Hashes \cup {None}, was : Doc \cup {None}, obj : Doc,
         audio : BOOLEAN, book : Ids \cup {None}]

ASSUME KosyncAssumption ==
    /\ HashOf \in [Files -> Hashes] /\ Remote \subseteq Hashes
    /\ RemoteName \notin Files
    /\ Last \in Nat \ {0} /\ MaxBooks \in Nat \ {0} /\ MaxScans \in Nat \ {0}
    /\ DbMayFail \in BOOLEAN
    /\ MaxRequests \in Nat /\ MaxEdits \in Nat
    /\ None \notin Hashes \cup Names \cup Devices \cup Ids \cup Place
    /\ None \notin Doc \cup Book \cup Request \cup Scan

VARIABLES
    docs,      \* the kosync_documents table
    books,     \* the books table
    scans,     \* _active_scans
    req,       \* what the threads of the server are at
    disc,      \* the discovery threads
    leaked,    \* history: slots of requests that failed before their thread began
    late,      \* history: hashes for which a request was too late (see OneBookPerHash)
    edited,    \* history: hashes the administrator has dealt with
    requests, edits   \* so far

vars == <<docs, books, scans, req, disc, leaked, late, edited, requests, edits>>
tables == <<docs, books>>
history == <<leaked, late, edited>>
bounds == <<requests, edits>>

\* KosyncDocument(document_hash=h)
Blank == [pct |-> 0, dev |-> None, file |-> None, link |-> None, old |-> FALSE, stat |-> FALSE]

Live == {b \in Ids : books[b] # None}
OfHash(h) == {b \in Live : books[b].hash = h}
OfFile(f) == {b \in Live : books[b].file = f}
Named(f)  == {h \in Hashes : docs[h] # None /\ docs[h].file = f}

\* SQLite gives a new row the id after the largest one in use.
NewId == 1 + (IF Live = {} THEN 0 ELSE CHOOSE b \in Live : \A c \in Live : c <= b)

\* At the start there may be a book put aside whose document was linked by hand:
\* its hash is not the one of its file.
Init ==
    /\ \/ books = [b \in Ids |-> None] /\ docs = [h \in Hashes |-> None]
       \/ \E h \in Hashes, f \in Files :
            /\ books = [b \in Ids |-> IF b # 1 THEN None
                          ELSE [hash |-> h, file |-> f, status |-> "aside", flag |-> FALSE,
                                audio |-> TRUE, state |-> 0]]
            /\ docs = [g \in Hashes |-> IF g # h THEN None
                         ELSE [Blank EXCEPT !.file = f, !.link = 1]]
    /\ scans = {}
    /\ req = [t \in Threads |-> None]
    /\ disc = [h \in Hashes |-> None]
    /\ leaked = {} /\ late = {} /\ edited = {}
    /\ requests = 0 /\ edits = 0

\* _ensure_book_kosync_document, which every save_book ends with.
Ensured(table, b, row) ==
    IF row.hash = None THEN table
    ELSE LET doc == table[row.hash] IN
         [table EXCEPT ![row.hash] =
             IF doc = None THEN [Blank EXCEPT !.link = b, !.file = row.file]
             ELSE [doc EXCEPT !.link = IF @ = None THEN b ELSE @,
                              !.file = IF @ = None THEN row.file ELSE @]]

\* save_book
SaveBook(b, row) ==
    /\ books' = [books EXCEPT ![b] = row]
    /\ docs' = Ensured(docs, b, row)

\* link_kosync_document: changes the link alone, and nothing without a row.
Linked(table, h, b) ==
    IF table[h] = None THEN table ELSE [table EXCEPT ![h].link = b]

(***************************************************************************)
(* Discovery slots.                                                        *)
(***************************************************************************)
\* Mutant: no cap on the number of scans.
SlotFreeUncapped(h) == h \notin scans

\* start_discovery_if_available
SlotFree(h) == h \notin scans /\ Cardinality(scans) < MaxScans

\* A discovery thread, with the file it is at; "kind" is the request that started it.
Thread(kind, at, left, f) ==
    [at |-> at, kind |-> kind, left |-> left, file |-> f, cached |-> None,
     was |-> None, obj |-> Blank, audio |-> FALSE, book |-> None]
Discover(kind) == Thread(kind, "find", Files, None)

\* The book of h appeared between the lookup of thread t and its slot.
Missed(t, h) == late' = IF OfHash(h) \subseteq req[t].seen THEN late ELSE late \cup {h}

Done(t) == req' = [req EXCEPT ![t] = None]
Goto(t, at) == req' = [req EXCEPT ![t].at = at]
Continue(t, at, obj, b, row, seen) ==
    req' = [req EXCEPT ![t] =
        [at |-> at, hash |-> req[t].hash, dev |-> None, force |-> FALSE, was |-> None,
         obj |-> obj, book |-> b, snap |-> row, seen |-> seen]]

(***************************************************************************)
(* PUT: handle_put_progress.                                               *)
(***************************************************************************)
\* Mutant: only documents of a book are protected.
BehindLinked(doc, d, p) == doc # None /\ doc.link # None /\ doc.pct > 0 /\ doc.dev # d /\ p < doc.pct

\* KOSYNC_FURTHEST_WINS: another device is behind the stored place.
Behind(doc, d, p) == doc # None /\ doc.pct > 0 /\ doc.dev # d /\ p < doc.pct

PutRead(t) ==
    /\ req[t] = None /\ requests < MaxRequests
    /\ \E h \in Hashes, d \in Devices, p \in Place, force \in BOOLEAN :
         LET doc == docs[h]
             new == IF doc = None THEN Blank ELSE doc
         IN  IF Behind(doc, d, p) /\ ~force THEN UNCHANGED req
             ELSE req' = [req EXCEPT ![t] =
                    [at |-> "save", hash |-> h, dev |-> d, force |-> force, was |-> doc,
                     obj |-> [pct |-> p, dev |-> d, file |-> new.file, link |-> new.link,
                              old |-> FALSE, stat |-> new.stat],
                     book |-> None, snap |-> None, seen |-> {}]]
    /\ requests' = requests + 1
    /\ UNCHANGED <<tables, scans, disc, history, edits>>

PutSave(t) ==
    /\ req[t] # None /\ req[t].at = "save"
    /\ docs' = [docs EXCEPT ![req[t].hash] = req[t].obj]
    /\ Continue(t, "resolve", [Blank EXCEPT !.link = req[t].obj.link], None, None, {})
    /\ UNCHANGED <<books, scans, disc, history, bounds>>

\* Mutant: the books table is not asked for the hash.
PutResolveByLink(t) ==
    /\ req[t] # None /\ req[t].at = "resolve"
    /\ LET h == req[t].hash
           link == req[t].obj.link
           found == IF link # None THEN {link} \cap Live ELSE {}
       IN  IF found = {}
           THEN Continue(t, "handle", Blank, None, None, IF link = None THEN OfHash(h) ELSE {})
           ELSE \E b \in found :
                  Continue(t, IF link # None THEN "handle" ELSE "link", Blank, b, books[b], {})
    /\ UNCHANGED <<tables, scans, disc, history, bounds>>

\* _resolve_linked_book: by the link that was read, else by kosync_doc_id.
PutResolve(t) ==
    /\ req[t] # None /\ req[t].at = "resolve"
    /\ LET h == req[t].hash
           link == req[t].obj.link
           found == IF link # None THEN {link} \cap Live ELSE OfHash(h)
       IN  IF found = {}
           THEN Continue(t, "handle", Blank, None, None, IF link = None THEN OfHash(h) ELSE {})
           ELSE \E b \in found :
                  Continue(t, IF link # None THEN "handle" ELSE "link", Blank, b, books[b], {})
    /\ UNCHANGED <<tables, scans, disc, history, bounds>>

PutLink(t) ==
    /\ req[t] # None /\ req[t].at = "link"
    /\ docs' = Linked(docs, req[t].hash, req[t].book)
    /\ Goto(t, "handle")
    /\ UNCHANGED <<books, scans, disc, history, bounds>>

\* The activity flag of a book that was put aside, in the row that was read; saving a
\* row that is gone fails, unless a new book has its id.
PutLinked(t) ==
    /\ req[t] # None /\ req[t].at = "handle" /\ req[t].book # None
    /\ LET b == req[t].book
           row == req[t].snap
       IN  IF row.status = "aside" /\ ~row.flag /\ b \in Live
           THEN /\ SaveBook(b, [row EXCEPT !.flag = TRUE])
                /\ late' = late \cup {h \in Hashes : h = books[b].hash /\ h # row.hash}
           ELSE UNCHANGED <<tables, late>>
    /\ Done(t)
    /\ UNCHANGED <<scans, disc, leaked, edited, bounds>>

\* _handle_unlinked_document: discovery, else a suggestion.
PutUnlinked(t) ==
    /\ req[t] # None /\ req[t].at = "handle" /\ req[t].book = None
    /\ LET h == req[t].hash IN
         \/ /\ SlotFree(h)
            /\ scans' = scans \cup {h}
            /\ disc' = [disc EXCEPT ![h] = Discover("put")]
            /\ Missed(t, h)
         \/ ~SlotFree(h) /\ UNCHANGED <<scans, disc, late>>
    /\ Done(t)
    /\ UNCHANGED <<tables, leaked, edited, bounds>>

(***************************************************************************)
(* GET: handle_get_progress.                                               *)
(***************************************************************************)
\* resolve_best_progress: the furthest document of the book of the last 30
\* days, else the furthest of all, else its State row.
Siblings(b) == {docs[h] : h \in {g \in Hashes : docs[g] # None /\ docs[g].link = b /\ docs[g].pct > 0}}
\* Mutant: the first document with progress, not the furthest.
BestProgressOfAny(b) ==
    LET from == {d.pct : d \in Siblings(b)}
    IN  IF from # {} THEN CHOOSE p \in from : \A q \in from : q >= p ELSE books[b].state
BestProgress(b) ==
    LET recent == {d \in Siblings(b) : ~d.old}
        from == {d.pct : d \in IF recent # {} THEN recent ELSE Siblings(b)}
    IN  IF from # {} THEN CHOOSE p \in from : \A q \in from : q <= p ELSE books[b].state

\* An answer from the document itself or from its book ends the request.
GetRead(t) ==
    /\ req[t] = None /\ requests < MaxRequests
    /\ \E h \in Hashes :
         LET doc == docs[h] IN
         IF doc # None /\ (doc.link \in Live \/ doc.pct > 0) THEN UNCHANGED req
         ELSE req' = [req EXCEPT ![t] =
                [at |-> "lookup", hash |-> h, dev |-> None, force |-> FALSE, was |-> doc,
                 obj |-> IF doc = None THEN Blank ELSE doc,
                 book |-> None, snap |-> None, seen |-> {}]]
    /\ requests' = requests + 1
    /\ UNCHANGED <<tables, scans, disc, history, edits>>

\* resolve_book_by_sibling_hash: another document of the file, else a book of it.
BySibling(h, f) ==
    ({docs[g].link : g \in Named(f) \ {h}} \cap Live) \cup OfFile(f)

GetLookup(t) ==
    /\ req[t] # None /\ req[t].at = "lookup"
    /\ LET h == req[t].hash
           f == req[t].obj.file
           found == IF f = None THEN {} ELSE BySibling(h, f)
       IN  \/ OfHash(h) # {} /\ Done(t) /\ UNCHANGED scans
           \/ /\ OfHash(h) = {}
              /\ \E b \in found : Continue(t, "register", Blank, b, books[b], {})
              /\ UNCHANGED scans
           \/ /\ OfHash(h) = {}
              /\ found = {} \/ (h \in Named(f) /\ OfFile(f) = {})
              /\ IF SlotFree(h) THEN Goto(t, "stub") /\ scans' = scans \cup {h}
                 ELSE Done(t) /\ UNCHANGED scans
    /\ UNCHANGED <<tables, disc, history, bounds>>

\* register_hash_for_book
Registered(table, h, b, row) ==
    IF table[h] = None THEN [table EXCEPT ![h] = [Blank EXCEPT !.link = b, !.file = row.file]]
    ELSE [table EXCEPT ![h].link = IF @ = None THEN b ELSE @]

GetRegister(t) ==
    /\ req[t] # None /\ req[t].at = "register"
    /\ docs' = Registered(docs, req[t].hash, req[t].book, req[t].snap)
    /\ Done(t)
    /\ UNCHANGED <<books, scans, disc, history, bounds>>

\* The stub replaces whatever row there is by now.
GetStub(t) ==
    /\ req[t] # None /\ req[t].at = "stub"
    /\ docs' = [docs EXCEPT ![req[t].hash] = Blank]
    /\ disc' = [disc EXCEPT ![req[t].hash] = Discover("get")]
    /\ Done(t)
    /\ UNCHANGED <<books, scans, history, bounds>>

\* Nobody gives the slot back.
GetStubFails(t) ==
    /\ DbMayFail /\ req[t] # None /\ req[t].at = "stub"
    /\ leaked' = leaked \cup {req[t].hash}
    /\ Done(t)
    /\ UNCHANGED <<tables, scans, disc, late, edited, bounds>>

(***************************************************************************)
(* Discovery: find_epub_by_hash, run_get_auto_discovery and                *)
(* run_put_auto_discovery in a thread of their own.                        *)
(***************************************************************************)
At(h, at) == disc[h] # None /\ disc[h].at = at
Step(h, at) == disc' = [disc EXCEPT ![h].at = at]
Goes(h, at, left, f) == disc' = [disc EXCEPT ![h] = Thread(disc[h].kind, at, left, f)]
Ends(h) == Goes(h, "end", {}, None)
Found(h, f) == Goes(h, "found", {}, f)

\* _upsert_kosync_metadata on the row it read.
WithFile(doc, f, stat) ==
    [(IF doc = None THEN Blank ELSE doc) EXCEPT !.file = f, !.stat = @ \/ stat]

\* It has read the row "was" and will save it with the name of the file; c: of that name.
Reads(h, at, left, f, c, was, stat) ==
    disc' = [disc EXCEPT ![h] =
        [at |-> at, kind |-> disc[h].kind, left |-> left, file |-> f, cached |-> c,
         was |-> was, obj |-> WithFile(was, f, stat), audio |-> FALSE, book |-> None]]

\* _find_epub_in_db: the file named in the document, if it still exists.
FindInDb(h) ==
    /\ At(h, "find")
    /\ \/ docs[h] # None /\ docs[h].file # None /\ Found(h, docs[h].file)
       \/ Step(h, "walk")
    /\ UNCHANGED <<tables, scans, req, history, bounds>>

\* _find_epub_in_filesystem, one file: the document that bears its name is
\* trusted if the time of the file is recorded.
VisitFile(h) ==
    /\ At(h, "walk")
    /\ \E f \in disc[h].left :
         LET rest == disc[h].left \ {f} IN
         \/ \E c \in Named(f) :
              IF docs[c].stat
              THEN IF c = h THEN Found(h, f) ELSE disc' = [disc EXCEPT ![h].left = rest]
              ELSE Reads(h, "hash", rest, f, c, docs[c], TRUE)
         \/ Named(f) = {} /\ Goes(h, "hash", rest, f)
    /\ UNCHANGED <<tables, scans, req, history, bounds>>

\* The hash of its content: a document of that name with another hash is
\* deleted, and the row of the right hash is read.
HashFile(h) ==
    /\ At(h, "hash")
    /\ LET f == disc[h].file
           k == HashOf[f]
           c == disc[h].cached
       IN  IF c = k THEN Step(h, "store") /\ UNCHANGED docs
           ELSE /\ docs' = IF c = None THEN docs ELSE [docs EXCEPT ![c] = None]
                /\ Reads(h, "store", disc[h].left, f, None, docs[k], TRUE)
    /\ UNCHANGED <<books, scans, req, history, bounds>>

StoreFile(h) ==
    /\ At(h, "store")
    /\ LET k == HashOf[disc[h].file] IN
         /\ docs' = [docs EXCEPT ![k] = disc[h].obj]
         /\ IF k = h THEN Found(h, disc[h].file)
            ELSE Goes(h, "walk", disc[h].left, None)
    /\ UNCHANGED <<books, scans, req, history, bounds>>

\* _find_epub_in_grimmory, after all files: download, and the row to update.
FindInGrimmory(h) ==
    /\ At(h, "walk") /\ disc[h].left = {}
    /\ IF h \in Remote
       THEN Reads(h, "remote", {}, RemoteName, None, docs[h], FALSE)
       ELSE Ends(h)
    /\ UNCHANGED <<tables, scans, req, history, bounds>>

StoreRemote(h) ==
    /\ At(h, "remote")
    /\ docs' = [docs EXCEPT ![h] = disc[h].obj]
    /\ Found(h, RemoteName)
    /\ UNCHANGED <<books, scans, req, history, bounds>>

\* run_get_auto_discovery: the name for the stub, and a book of that name.
GetFound(h) ==
    /\ At(h, "found") /\ disc[h].kind = "get"
    /\ LET f == disc[h].file
           named == IF docs[h] = None \/ docs[h].file # None THEN docs
                    ELSE [docs EXCEPT ![h].file = f]
       IN  IF OfFile(f) = {} THEN docs' = named
           ELSE \E b \in OfFile(f) : docs' = Linked(named, h, b)
    /\ Ends(h)
    /\ UNCHANGED <<books, scans, req, history, bounds>>

\* run_put_auto_discovery: one audiobook with exactly this title makes a mapped
\* book, none an ebook-only one, anything else a suggestion.
SearchAudiobooks(h) ==
    /\ At(h, "found") /\ disc[h].kind = "put"
    /\ \/ \E exact \in BOOLEAN : disc' = [disc EXCEPT ![h].at = "create", ![h].audio = exact]
       \/ Ends(h)
    /\ UNCHANGED <<tables, scans, req, history, bounds>>

\* The audiobook's id is unique among books: saving one again updates it.
CreateBook(h) ==
    /\ At(h, "create")
    /\ LET row == [hash |-> h, file |-> disc[h].file, status |-> "active", flag |-> FALSE,
                   audio |-> disc[h].audio, state |-> None]
           same == IF disc[h].audio THEN {b \in OfHash(h) : books[b].audio} ELSE {}
       IN  \E b \in IF same # {} THEN same ELSE {NewId} \cap Ids :
             /\ SaveBook(b, row)
             /\ disc' = [disc EXCEPT ![h].at = "attach", ![h].book = b]
    /\ UNCHANGED <<scans, req, history, bounds>>

\* link_kosync_document, and the first cycle of the book.
AttachBook(h) ==
    /\ At(h, "attach")
    /\ docs' = Linked(docs, h, disc[h].book)
    /\ books' = IF disc[h].book \in Live /\ docs[h] # None
                THEN [books EXCEPT ![disc[h].book].state = docs[h].pct] ELSE books
    /\ Ends(h)
    /\ UNCHANGED <<scans, req, history, bounds>>

\* An exception anywhere is caught; the bound on books acts like one.
GiveUp(h) ==
    /\ disc[h] # None /\ disc[h].at # "end"
    /\ Ends(h)
    /\ UNCHANGED <<tables, scans, req, history, bounds>>

\* finish_discovery, in the finally clause.
FinishDiscovery(h) ==
    /\ At(h, "end")
    /\ scans' = scans \ {h}
    /\ disc' = [disc EXCEPT ![h] = None]
    /\ UNCHANGED <<tables, req, history, bounds>>

(***************************************************************************)
(* The administrator.                                                      *)
(***************************************************************************)
Edit(touched) ==
    /\ edits < MaxEdits /\ edits' = edits + 1
    /\ edited' = edited \cup (touched \cap Hashes)
    /\ UNCHANGED <<scans, req, disc, leaked, late, requests>>

\* The books that give up their claim to h when its document goes.
Released(h) == [b \in Ids |-> IF b \in OfHash(h) /\ docs[h].link = b
                              THEN [books[b] EXCEPT !.hash = None] ELSE books[b]]

LinkDocument(h, b) ==
    /\ docs[h] # None /\ b \in Live
    /\ LET row == [books[b] EXCEPT !.hash = h]
           linked == Linked(docs, h, b)
       IN  /\ books' = [books EXCEPT ![b] = row]
           /\ docs' = IF books[b].hash = h THEN linked ELSE Ensured(linked, b, row)
    /\ Edit({h, books[b].hash})

UnlinkDocument(h) ==
    /\ docs[h] # None
    /\ books' = Released(h)
    /\ docs' = [docs EXCEPT ![h].link = None]
    /\ Edit({h})

DeleteDocument(h) ==
    /\ docs[h] # None
    /\ books' = Released(h)
    /\ docs' = [docs EXCEPT ![h] = None]
    /\ Edit({h})

ClearOrphan(b) ==
    /\ b \in Live /\ books[b].hash # None
    /\ books' = [books EXCEPT ![b].hash = None]
    /\ docs' = docs
    /\ Edit({books[b].hash})

\* register_hash_for_book, then the hash moves to the other book.
ResolveOrphan(b, target) ==
    /\ {b, target} \subseteq Live /\ books[b].hash # None
    /\ LET h == books[b].hash
           row == [books[target] EXCEPT !.hash = h]
           registered == Registered(docs, h, target, books[target])
       IN  IF b = target THEN docs' = registered /\ books' = books
           ELSE /\ books' = [books EXCEPT ![b].hash = None, ![target] = row]
                /\ docs' = Ensured(registered, target, row)
    /\ Edit({books[b].hash, books[target].hash})

CreateFromDocument(h) ==
    /\ docs[h] # None /\ NewId \in Ids
    /\ LET row == [hash |-> h, file |-> docs[h].file, status |-> "active", flag |-> FALSE,
                   audio |-> FALSE, state |-> docs[h].pct]
       IN  /\ books' = [books EXCEPT ![NewId] = row]
           /\ docs' = Linked(Ensured(docs, NewId, row), h, NewId)
    /\ Edit({h})

\* delete_book: documents lose their link in the same transaction.
DeleteBook(b) ==
    /\ b \in Live
    /\ docs' = [h \in Hashes |-> IF docs[h] # None /\ docs[h].link = b
                                 THEN [docs[h] EXCEPT !.link = None] ELSE docs[h]]
    /\ books' = [books EXCEPT ![b] = None]
    /\ Edit({books[b].hash} \cup {h \in Hashes : docs[h] # None /\ docs[h].link = b})

\* Thirty days without a PUT for h.
Age(h) ==
    /\ docs[h] # None /\ docs[h].pct > 0 /\ ~docs[h].old
    /\ docs' = [docs EXCEPT ![h].old = TRUE] /\ books' = books
    /\ Edit({})

Put(t) == PutRead(t) \/ PutSave(t) \/ PutResolve(t) \/ PutLink(t) \/ PutLinked(t) \/ PutUnlinked(t)
Get(t) == GetRead(t) \/ GetLookup(t) \/ GetRegister(t) \/ GetStub(t) \/ GetStubFails(t)
Discovery(h) ==
    \/ FindInDb(h) \/ VisitFile(h) \/ HashFile(h) \/ StoreFile(h)
    \/ FindInGrimmory(h) \/ StoreRemote(h)
    \/ GetFound(h) \/ SearchAudiobooks(h) \/ CreateBook(h) \/ AttachBook(h)
    \/ GiveUp(h) \/ FinishDiscovery(h)
Administration ==
    \/ \E h \in Hashes : UnlinkDocument(h) \/ DeleteDocument(h) \/ CreateFromDocument(h) \/ Age(h)
    \/ \E h \in Hashes, b \in Ids : LinkDocument(h, b)
    \/ \E b \in Ids : ClearOrphan(b) \/ DeleteBook(b) \/ \E target \in Ids : ResolveOrphan(b, target)

Next ==
    \/ \E t \in Threads : Put(t) \/ Get(t)
    \/ \E h \in Hashes : Discovery(h)
    \/ Administration

Spec == Init /\ [][Next]_vars

(***************************************************************************)
(* Properties.                                                             *)
(***************************************************************************)
\* The type invariant.
TypeOK ==
    /\ docs \in [Hashes -> Doc \cup {None}]
    /\ books \in [Ids -> Book \cup {None}]
    /\ scans \subseteq Hashes
    /\ req \in [Threads -> Request \cup {None}]
    /\ disc \in [Hashes -> Scan \cup {None}]
    /\ leaked \subseteq Hashes /\ late \subseteq Hashes /\ edited \subseteq Hashes
    /\ requests \in 0 .. MaxRequests /\ edits \in 0 .. MaxEdits

Holders(h) == {t \in Threads : req[t] # None /\ req[t].at = "stub" /\ req[t].hash = h}

\* The types hold, and a slot is held by exactly one thread that will give it
\* back, or was lost with a request whose stub could not be saved: so no hash is
\* searched twice at a time, and without such failures no slot is ever lost.
SlotsOwned ==
    /\ TypeOK
    /\ Cardinality(scans) <= MaxScans
    /\ \A h \in Hashes :
         /\ disc[h] # None \/ Holders(h) # {} => h \in scans \ leaked
         /\ h \in scans => disc[h] # None \/ Holders(h) # {} \/ h \in leaked
         /\ Cardinality(Holders(h)) <= IF disc[h] = None THEN 1 ELSE 0

\* Discovery makes no second book for a document: however PUTs, scans and
\* restarts of scans overlap, two books with one hash come from the
\* administrator, or from a PUT that was too late: it looked for the book before
\* a scan created it, or by a link to a book that is gone, and took the freed
\* slot after; or it saved what it had read over a new book with the same id.
OneBookPerHash ==
    \A h \in Hashes \ (edited \cup late) : Cardinality(OfHash(h)) <= 1

\* Furthest wins: between two reads of a row no request, scan, stub or link
\* takes a document back, other than the device that wrote it or one that
\* forces it.  What may: a save of a row that changed since it was read.
Changed(t) == req[t].was # docs[req[t].hash]
MayLower(h) ==
    \/ \E t \in Threads : /\ req[t] # None /\ req[t].hash = h /\ req[t].at \in {"save", "stub"}
                          /\ req[t].force \/ req[t].dev = docs[h].dev \/ Changed(t)
    \/ \E g \in Hashes : /\ disc[g] # None /\ disc[g].at \in {"store", "remote"}
                         /\ disc[g].was # docs[h]
FurthestWins ==
    [][\A h \in Hashes : docs[h] # None /\ docs'[h] # None /\ docs'[h].pct < docs[h].pct
                           => MayLower(h)]_vars

\* A device that asks for a document of a book is never sent behind the place
\* it last stored itself within the 30 days, whichever sibling answers; nor is
\* it told "not found" while any sibling has progress.
NeverSentBack ==
    \A h \in Hashes : docs[h] # None /\ docs[h].link \in Live /\ docs[h].pct > 0 =>
        LET best == BestProgress(docs[h].link) IN
        /\ best # None
        /\ ~docs[h].old => best >= docs[h].pct

\* "Cache hash metadata without overwriting any existing progress data."
MetadataKeepsProgress ==
    [][\A h \in Hashes : (\E g \in Hashes : StoreFile(g) \/ StoreRemote(g)) /\ docs[h] # None
                           => docs'[h] # None /\ docs'[h].pct = docs[h].pct]_vars
=============================================================================
