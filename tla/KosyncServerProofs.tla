------------------------ MODULE KosyncServerProofs ------------------------
(***************************************************************************)
(* Theorems about KosyncServer, for any documents, files, devices, threads *)
(* and bounds: who holds the slots of discovery, how many books a document *)
(* gets, what may take it back, and what a device is answered.             *)
(***************************************************************************)
EXTENDS KosyncServer, FiniteSetTheorems, WellFoundedInduction, TLAPS

(***************************************************************************)
(* Requests and discovery threads by their step.                           *)
(***************************************************************************)
RequestFits(q) ==
    /\ q.at \in {"link", "register"} => q.book \in Ids
    /\ q.book # None => q.snap \in Book
    /\ q.at = "handle" /\ q.book = None => q.seen = {}
    \* A save that no device forces is not behind what it read, unless that is its own.
    /\ q.at = "save" /\ ~q.force /\ q.was # None /\ q.was.dev # q.dev => q.obj.pct >= q.was.pct
    \* Nothing is looked up, and no stub saved, for a document with progress.
    /\ q.at \in {"lookup", "stub"} => q.was = None \/ q.was.pct = 0

ThreadFits(s) ==
    /\ s.at \in {"hash", "store"} => s.file \in Files
    /\ s.at \in {"found", "create"} => s.file \in Names
    /\ s.at \in {"create", "attach"} => s.kind = "put"
    /\ s.at = "attach" => s.book \in Ids
    \* What is stored has the place of the row that was read.
    /\ s.at \in {"store", "remote"} \/ (s.at = "hash" /\ s.cached # None)
         => s.obj.pct = IF s.was = None THEN 0 ELSE s.was.pct

StepsFit ==
    /\ \A t \in Threads : req[t] # None => RequestFits(req[t])
    /\ \A h \in Hashes : disc[h] # None => ThreadFits(disc[h])

(***************************************************************************)
(* Slots: of a discovery thread, of one request on its way to start one,   *)
(* or lost.                                                                *)
(***************************************************************************)
Stub(q) == q # None /\ q.at = "stub"

Slots ==
    /\ IsFiniteSet(scans) /\ Cardinality(scans) <= MaxScans
    /\ leaked \subseteq scans
    /\ \A h \in Hashes : disc[h] # None => h \in scans \ leaked
    /\ \A t \in Threads : Stub(req[t]) => req[t].hash \in scans \ leaked /\ disc[req[t].hash] = None
    /\ \A t, u \in Threads : Stub(req[t]) /\ Stub(req[u]) /\ req[t].hash = req[u].hash => t = u
    /\ \A h \in scans \ leaked : disc[h] # None \/ \E t \in Threads : Stub(req[t]) /\ req[t].hash = h

(***************************************************************************)
(* Books by hash.  Of the hashes that nobody touched, and that no request  *)
(* was too late for, ...                                                   *)
(***************************************************************************)
Clean == Hashes \ (edited \cup late)

\* ... a request has the book that it read,
Backed(q) ==
    q # None /\ q.at \in {"link", "handle"} /\ q.book # None /\ q.snap.hash \in Clean
      => q.book \in OfHash(q.snap.hash)

\* ... there is no book until the thread that searches for one creates it,
Searching(s) ==
    s # None /\ s.kind = "put"
      /\ s.at \in {"find", "walk", "hash", "store", "remote", "found", "create"}

\* ... and one book at most.
Hashed ==
    /\ \A t \in Threads : Backed(req[t])
    /\ \A h \in Clean : Searching(disc[h]) => OfHash(h) = {}
    /\ \A h \in Clean : \A b, c \in OfHash(h) : b = c

Inv == TypeOK /\ StepsFit /\ Slots /\ Hashed

-----------------------------------------------------------------------------
(***************************************************************************)
(* The operators of the model.                                             *)
(***************************************************************************)
LEMMA Absent ==
    /\ \A b \in Ids : b # None
    /\ \A h \in Hashes : h # None
    /\ \A f \in Names : f # None
    /\ \A p \in Place : p # None
    /\ None \notin Doc /\ None \notin Book /\ None \notin Request /\ None \notin Scan
  BY KosyncAssumption

\* The largest member of a set of numbers.
LEMMA Largest ==
  ASSUME NEW n \in Nat, NEW S \in SUBSET (0 .. n), S # {}
  PROVE  \E m \in S : \A s \in S : s <= m
<1> DEFINE T == {n - s : s \in S}
<1>1. T \subseteq Nat /\ T # {}
  <2>1. \A s \in S : s \in Nat /\ s <= n
    OBVIOUS
  <2>2. \A s \in S : n - s \in Nat
    BY <2>1
  <2> QED
    BY <2>2
<1>2. IsWellFoundedOn(OpToRel(<, Nat), Nat)
  BY NatLessThanWellFounded
<1> HIDE DEF T
<1>3. PICK x \in T : \A y \in T : ~(<<y, x>> \in OpToRel(<, Nat))
  BY <1>1, <1>2, WFMin
<1>4. \A y \in T : ~(y < x)
  BY <1>1, <1>3 DEF OpToRel
<1>5. PICK m \in S : x = n - m
  BY <1>3 DEF T
<1>6. \A s \in S : n - s \in T
  BY DEF T
<1> QED
  BY <1>1, <1>4, <1>5, <1>6

LEMMA NewIdFresh == NewId \notin Live
<1> SUFFICES ASSUME NewId \in Live PROVE FALSE
  OBVIOUS
<1>1. Live \in SUBSET (0 .. MaxBooks) /\ MaxBooks \in Nat
  BY KosyncAssumption DEF Live, Ids
<1>2. \E m \in Live : \A s \in Live : s <= m
  BY <1>1, Largest
<1>3. PICK m \in Live : (\A s \in Live : s <= m) /\ NewId = 1 + m
  BY <1>2 DEF NewId
<1> QED
  BY <1>1, <1>3

\* Columns of a document.
LEMMA DocWith ==
  ASSUME NEW doc \in Doc, NEW l \in Ids \cup {None}, NEW f \in Names \cup {None}, NEW x \in BOOLEAN
  PROVE  /\ [doc EXCEPT !.link = l] \in Doc /\ [doc EXCEPT !.link = l].pct = doc.pct
         /\ [doc EXCEPT !.file = f] \in Doc /\ [doc EXCEPT !.file = f].pct = doc.pct
         /\ [doc EXCEPT !.stat = x] \in Doc /\ [doc EXCEPT !.stat = x].pct = doc.pct
         /\ [doc EXCEPT !.old = x] \in Doc /\ [doc EXCEPT !.old = x].pct = doc.pct
  BY DEF Doc

LEMMA DocWithBoth ==
  ASSUME NEW doc \in Doc, NEW l \in Ids \cup {None}, NEW f \in Names \cup {None}
  PROVE  /\ [doc EXCEPT !.link = l, !.file = f] \in Doc
         /\ [doc EXCEPT !.link = l, !.file = f].pct = doc.pct
<1>1. [doc EXCEPT !.link = l] \in Doc /\ [doc EXCEPT !.link = l].pct = doc.pct
  BY DocWith
<1>2. [doc EXCEPT !.link = l, !.file = f] = [[doc EXCEPT !.link = l] EXCEPT !.file = f]
  OBVIOUS
<1> QED
  BY <1>1, <1>2, DocWith

LEMMA BlankFits == Blank \in Doc /\ Blank.pct = 0
  BY KosyncAssumption DEF Blank, Doc, Place

\* A table of documents without a row or a place less.
Keeps(new, old) ==
    /\ new \in [Hashes -> Doc \cup {None}]
    /\ \A h \in Hashes : old[h] # None => new[h] # None /\ new[h].pct = old[h].pct

LEMMA RowKeeps ==
  ASSUME NEW table \in [Hashes -> Doc \cup {None}], NEW h \in Hashes, NEW doc \in Doc,
         table[h] # None => doc.pct = table[h].pct
  PROVE  Keeps([table EXCEPT ![h] = doc], table)
  BY Absent DEF Keeps

LEMMA LinkedKeeps ==
  ASSUME NEW table \in [Hashes -> Doc \cup {None}], NEW h \in Hashes, NEW b \in Ids \cup {None}
  PROVE  Keeps(Linked(table, h, b), table)
<1>1. CASE table[h] = None
  BY <1>1 DEF Keeps, Linked
<1>2. CASE table[h] # None
  <2> DEFINE doc == [table[h] EXCEPT !.link = b]
  <2>1. table[h] \in Doc
    BY <1>2
  <2>2. doc \in Doc /\ doc.pct = table[h].pct
    BY <2>1, DocWith
  <2>3. Linked(table, h, b) = [table EXCEPT ![h] = doc]
    BY <1>2 DEF Linked
  <2> HIDE DEF doc
  <2> QED
    BY <2>2, <2>3, RowKeeps
<1> QED
  BY <1>1, <1>2

LEMMA EnsuredKeeps ==
  ASSUME NEW table \in [Hashes -> Doc \cup {None}], NEW b \in Ids, NEW row \in Book
  PROVE  Keeps(Ensured(table, b, row), table)
<1>1. row.hash \in Hashes \cup {None} /\ row.file \in Names \cup {None}
  BY DEF Book
<1>2. CASE row.hash = None
  BY <1>2 DEF Keeps, Ensured
<1>3. CASE row.hash # None
  <2>1. PICK h \in Hashes : h = row.hash
    BY <1>1, <1>3
  <2>2. CASE table[h] = None
    <3> DEFINE doc == [Blank EXCEPT !.link = b, !.file = row.file]
    <3>1. doc \in Doc
      BY <1>1, BlankFits, DocWithBoth
    <3>2. Ensured(table, b, row) = [table EXCEPT ![h] = doc]
      BY <1>3, <2>1, <2>2 DEF Ensured
    <3> HIDE DEF doc
    <3> QED
      BY <2>2, <3>1, <3>2, RowKeeps
  <2>3. CASE table[h] # None
    <3> DEFINE l == IF table[h].link = None THEN b ELSE table[h].link
               f == IF table[h].file = None THEN row.file ELSE table[h].file
               doc == [table[h] EXCEPT !.link = l, !.file = f]
    <3>1. table[h] \in Doc /\ l \in Ids \cup {None} /\ f \in Names \cup {None}
      BY <1>1, <2>3 DEF Doc
    <3>2. Ensured(table, b, row) = [table EXCEPT ![h] = doc]
      BY <1>3, <2>1, <2>3 DEF Ensured
    <3> HIDE DEF l, f
    <3>3. doc \in Doc /\ doc.pct = table[h].pct
      BY <3>1, DocWithBoth
    <3> HIDE DEF doc
    <3> QED
      BY <3>2, <3>3, RowKeeps
  <2> QED
    BY <2>2, <2>3
<1> QED
  BY <1>2, <1>3

LEMMA RegisteredKeeps ==
  ASSUME NEW table \in [Hashes -> Doc \cup {None}], NEW h \in Hashes, NEW b \in Ids, NEW row \in Book
  PROVE  Keeps(Registered(table, h, b, row), table)
<1>1. row.file \in Names \cup {None}
  BY DEF Book
<1>2. CASE table[h] = None
  <2> DEFINE doc == [Blank EXCEPT !.link = b, !.file = row.file]
  <2>1. doc \in Doc
    BY <1>1, BlankFits, DocWithBoth
  <2>2. Registered(table, h, b, row) = [table EXCEPT ![h] = doc]
    BY <1>2 DEF Registered
  <2> HIDE DEF doc
  <2> QED
    BY <1>2, <2>1, <2>2, RowKeeps
<1>3. CASE table[h] # None
  <2> DEFINE l == IF table[h].link = None THEN b ELSE table[h].link
             doc == [table[h] EXCEPT !.link = l]
  <2>1. table[h] \in Doc /\ l \in Ids \cup {None}
    BY <1>3 DEF Doc
  <2>2. Registered(table, h, b, row) = [table EXCEPT ![h] = doc]
    BY <1>3 DEF Registered
  <2> HIDE DEF l
  <2>3. doc \in Doc /\ doc.pct = table[h].pct
    BY <2>1, DocWith
  <2> HIDE DEF doc
  <2> QED
    BY <2>2, <2>3, RowKeeps
<1> QED
  BY <1>2, <1>3

LEMMA KeepsTwice ==
  ASSUME NEW a, NEW b, NEW c, Keeps(b, a), Keeps(c, b)
  PROVE  Keeps(c, a)
  BY DEF Keeps

\* The file that a scan read a row for.
LEMMA WithFileFits ==
  ASSUME NEW doc \in Doc \cup {None}, NEW f \in Names, NEW x \in BOOLEAN
  PROVE  /\ WithFile(doc, f, x) \in Doc
         /\ WithFile(doc, f, x).pct = IF doc = None THEN 0 ELSE doc.pct
<1> DEFINE base == IF doc = None THEN Blank ELSE doc
           x2 == base.stat \/ x
           one == [base EXCEPT !.file = f]
           two == [one EXCEPT !.stat = x2]
<1>1. base \in Doc /\ base.pct = IF doc = None THEN 0 ELSE doc.pct
  BY BlankFits
<1>2. x2 \in BOOLEAN
  OBVIOUS
<1>3. WithFile(doc, f, x) = two
  BY DEF WithFile
<1> HIDE DEF base, x2
<1>4. one \in Doc /\ one.pct = base.pct
  BY <1>1, DocWith
<1> HIDE DEF one
<1>5. two \in Doc /\ two.pct = one.pct
  BY <1>2, <1>4, DocWith
<1> HIDE DEF two
<1> QED
  BY <1>1, <1>3, <1>4, <1>5

\* Columns of a book.
LEMMA BookWith ==
  ASSUME NEW row \in Book, NEW h \in Hashes \cup {None}, NEW p \in Place \cup {None}, NEW x \in BOOLEAN
  PROVE  /\ [row EXCEPT !.hash = h] \in Book /\ [row EXCEPT !.hash = h].hash = h
         /\ [row EXCEPT !.state = p] \in Book /\ [row EXCEPT !.state = p].hash = row.hash
         /\ [row EXCEPT !.flag = x] \in Book /\ [row EXCEPT !.flag = x].hash = row.hash
  BY DEF Book

LEMMA ThreadIs ==
  ASSUME NEW k \in {"get", "put"}, NEW f \in SUBSET Files, NEW n \in Names \cup {None},
         NEW a \in {"find", "walk", "hash", "store", "remote", "found", "create", "attach", "end"}
  PROVE  Thread(k, a, f, n) \in Scan
<1>1. Blank \in Doc
  BY BlankFits
<1> HIDE DEF Blank
<1> QED
  BY <1>1 DEF Thread, Scan

-----------------------------------------------------------------------------
(***************************************************************************)
(* What a step leaves alone.                                               *)
(***************************************************************************)
\* The books of clean hashes are the same.
HashesStay ==
    /\ Clean' \subseteq Clean
    /\ \A h \in Clean' : OfHash(h)' = OfHash(h)

\* No document goes back that may not.
Lowers ==
    \A h \in Hashes : docs[h] # None /\ docs'[h] # None /\ docs'[h].pct < docs[h].pct => MayLower(h)

LEMMA KeepsLowers ==
  ASSUME TypeOK, Keeps(docs', docs)
  PROVE  Lowers
<1> SUFFICES ASSUME NEW h \in Hashes, docs[h] # None, docs'[h].pct < docs[h].pct PROVE FALSE
  BY DEF Lowers
<1>1. docs[h] \in Doc /\ docs'[h].pct = docs[h].pct
  BY DEF TypeOK, Keeps
<1>2. docs[h].pct \in Int
  BY <1>1, KosyncAssumption DEF Doc, Place
<1> QED
  BY <1>1, <1>2

LEMMA SameDocs ==
  ASSUME TypeOK, UNCHANGED docs
  PROVE  Keeps(docs', docs)
  BY DEF TypeOK, Keeps

LEMMA SameBooks ==
  ASSUME UNCHANGED <<books, late, edited>>
  PROVE  HashesStay
  BY DEF HashesStay, Clean, OfHash, Live

LEMMA SlotsStay ==
  ASSUME TypeOK, Slots, UNCHANGED <<scans, leaked>>,
         \A h \in Hashes : disc'[h] = None <=> disc[h] = None,
         \A t \in Threads : Stub(req[t]) \/ Stub(req'[t]) => req'[t] = req[t]
  PROVE  Slots'
<1>1. \A t \in Threads : Stub(req[t]) => req[t].hash \in Hashes
  BY Absent DEF Stub, TypeOK, Request
<1>2. \A t \in Threads : Stub(req[t])' <=> Stub(req[t])
  BY DEF Stub
<1>3. \A t \in Threads : Stub(req[t])' => req'[t].hash = req[t].hash
  BY DEF Stub
<1> QED
  BY <1>1, <1>2, <1>3 DEF Slots, TypeOK

LEMMA HashedStays ==
  ASSUME Hashed, HashesStay,
         \A t \in Threads : Backed(req'[t]),
         \A h \in Hashes : Searching(disc'[h]) => Searching(disc[h])
  PROVE  Hashed'
<1>1. \A h \in Clean' : h \in Hashes /\ h \in Clean
  BY DEF HashesStay, Clean
<1>2. \A t \in Threads : Backed(req[t])'
  BY <1>1 DEF Backed, HashesStay
<1>3. \A h \in Clean' : Searching(disc'[h]) => OfHash(h)' = {}
  BY <1>1 DEF Hashed, HashesStay
<1>4. \A h \in Clean' : \A b, c \in OfHash(h)' : b = c
  BY <1>1 DEF Hashed, HashesStay
<1> QED
  BY <1>2, <1>3, <1>4 DEF Hashed, Searching

(***************************************************************************)
(* Steps of one request, of one scan, and of the administrator.            *)
(***************************************************************************)
LEMMA RequestMoves ==
  ASSUME Inv, NEW t \in Threads, NEW q \in Request \cup {None}, req' = [req EXCEPT ![t] = q],
         q # None => RequestFits(q), ~Stub(req[t]), ~Stub(q), Backed(q),
         docs' \in [Hashes -> Doc \cup {None}], requests' \in 0 .. MaxRequests,
         UNCHANGED <<books, scans, disc, history, edits>>
  PROVE  Inv'
<1>0. req \in [Threads -> Request \cup {None}]
  BY DEF Inv, TypeOK
<1>1. req'[t] = q /\ \A u \in Threads \ {t} : req'[u] = req[u]
  BY <1>0
<1>2. TypeOK'
  BY <1>0, <1>1 DEF Inv, TypeOK, history
<1>3. StepsFit'
  BY <1>1 DEF Inv, StepsFit
<1>4. Slots'
  <2>1. \A u \in Threads : Stub(req[u]) \/ Stub(req'[u]) => req'[u] = req[u]
    BY <1>1
  <2> QED
    BY <2>1, SlotsStay DEF Inv, history
<1>5. Hashed'
  <2>1. \A u \in Threads : Backed(req'[u])
    BY <1>1 DEF Inv, Hashed
  <2>2. HashesStay
    BY SameBooks DEF history
  <2> QED
    BY <2>1, <2>2, HashedStays DEF Inv
<1> QED
  BY <1>2, <1>3, <1>4, <1>5 DEF Inv

LEMMA ScanMoves ==
  ASSUME Inv, NEW h \in Hashes, NEW s \in Scan, disc[h] # None, disc' = [disc EXCEPT ![h] = s],
         ThreadFits(s), Searching(s) => Searching(disc[h]), HashesStay,
         docs' \in [Hashes -> Doc \cup {None}], books' \in [Ids -> Book \cup {None}],
         UNCHANGED <<scans, req, history, bounds>>
  PROVE  Inv'
<1>0. disc \in [Hashes -> Scan \cup {None}]
  BY DEF Inv, TypeOK
<1>1. disc'[h] = s /\ \A g \in Hashes \ {h} : disc'[g] = disc[g]
  BY <1>0
<1>2. TypeOK'
  BY <1>0, <1>1 DEF Inv, TypeOK, history, bounds
<1>3. StepsFit'
  BY <1>1 DEF Inv, StepsFit
<1>4. Slots'
  <2>1. \A g \in Hashes : disc'[g] = None <=> disc[g] = None
    BY <1>1, Absent
  <2> QED
    BY <2>1, SlotsStay DEF Inv, history
<1>5. Hashed'
  <2>1. \A g \in Hashes : Searching(disc'[g]) => Searching(disc[g])
    BY <1>1
  <2> QED
    BY <2>1, HashedStays DEF Inv, Hashed
<1> QED
  BY <1>2, <1>3, <1>4, <1>5 DEF Inv

LEMMA Edits ==
  ASSUME Inv, NEW touched, Edit(touched), HashesStay,
         docs' \in [Hashes -> Doc \cup {None}], books' \in [Ids -> Book \cup {None}]
  PROVE  Inv'
<1>1. TypeOK'
  <2>1. edits' \in 0 .. MaxEdits
    BY KosyncAssumption DEF Inv, TypeOK, Edit
  <2> QED
    BY <2>1 DEF Inv, TypeOK, Edit
<1>2. StepsFit'
  BY DEF Inv, StepsFit, Edit
<1>3. Slots'
  BY SlotsStay DEF Inv, Edit
<1>4. Hashed'
  BY HashedStays DEF Inv, Hashed, Edit
<1> QED
  BY <1>1, <1>2, <1>3, <1>4 DEF Inv

\* A row of the administrator's: the hashes it is about are not clean any more.
LEMMA EditedBooks ==
  ASSUME TypeOK, NEW touched, Edit(touched),
         \A b \in Ids : (books'[b] = None <=> books[b] = None)
                        /\ (books[b] # None /\ books'[b].hash # books[b].hash
                              => {books[b].hash, books'[b].hash} \subseteq touched \cup {None})
  PROVE  HashesStay
<1>1. Clean' \subseteq Clean
  BY DEF Clean, Edit
<1>2. \A h \in Clean' : h \in Hashes /\ h \notin touched /\ h # None
  BY Absent DEF Clean, Edit
<1> QED
  BY <1>1, <1>2 DEF HashesStay, OfHash, Live

-----------------------------------------------------------------------------
(***************************************************************************)
(* PUT and GET.                                                            *)
(***************************************************************************)
\* A request that goes on from the one that was read.
LEMMA Continues ==
  ASSUME TypeOK, NEW t \in Threads, req[t] # None, NEW obj \in Doc, NEW b \in Ids \cup {None},
         NEW row \in Book \cup {None}, NEW seen \in SUBSET Ids,
         NEW at \in {"resolve", "link", "handle", "register"},
         Continue(t, at, obj, b, row, seen)
  PROVE  \E q \in Request :
           /\ req' = [req EXCEPT ![t] = q]
           /\ q.at = at /\ q.book = b /\ q.snap = row /\ q.seen = seen /\ q.obj = obj
<1> DEFINE q == [at |-> at, hash |-> req[t].hash, dev |-> None, force |-> FALSE, was |-> None,
                 obj |-> obj, book |-> b, snap |-> row, seen |-> seen]
<1>1. req[t].hash \in Hashes
  BY DEF TypeOK, Request
<1>2. q \in Request
  BY <1>1 DEF Request
<1>3. req' = [req EXCEPT ![t] = q]
  BY DEF Continue
<1>4. q.at = at /\ q.book = b /\ q.snap = row /\ q.seen = seen /\ q.obj = obj
  OBVIOUS
<1> HIDE DEF q
<1> QED
  BY <1>2, <1>3, <1>4

LEMMA ReadRow ==
  ASSUME TypeOK, NEW h \in Hashes
  PROVE  docs[h] = None \/ docs[h] \in Doc
  BY DEF TypeOK

LEMMA PutReads ==
  ASSUME Inv, NEW t \in Threads, PutRead(t)
  PROVE  Inv' /\ Lowers
<1>1. requests' \in 0 .. MaxRequests
  BY KosyncAssumption DEF Inv, TypeOK, PutRead
<1>2. Keeps(docs', docs) /\ docs' \in [Hashes -> Doc \cup {None}]
  BY SameDocs DEF Inv, PutRead, tables, Keeps
<1>3. req[t] = None /\ ~Stub(req[t]) /\ ~Stub(None) /\ Backed(None)
  BY DEF PutRead, Stub, Backed
<1>4. UNCHANGED <<books, scans, disc, history, edits>>
  BY DEF PutRead, tables
<1>5. CASE UNCHANGED req
  <2>1. req' = [req EXCEPT ![t] = None]
    BY <1>3, <1>5 DEF Inv, TypeOK
  <2> QED
    BY <1>1, <1>2, <1>3, <1>4, <2>1, RequestMoves, KeepsLowers DEF Inv
<1>6. ASSUME NEW h \in Hashes, NEW d \in Devices, NEW p \in Place, NEW force \in BOOLEAN,
             ~(Behind(docs[h], d, p) /\ ~force),
             NEW new, new = IF docs[h] = None THEN Blank ELSE docs[h],
             req' = [req EXCEPT ![t] =
                    [at |-> "save", hash |-> h, dev |-> d, force |-> force, was |-> docs[h],
                     obj |-> [pct |-> p, dev |-> d, file |-> new.file, link |-> new.link,
                              old |-> FALSE, stat |-> new.stat],
                     book |-> None, snap |-> None, seen |-> {}]]
      PROVE  Inv' /\ Lowers
  <2> DEFINE obj == [pct |-> p, dev |-> d, file |-> new.file, link |-> new.link,
                     old |-> FALSE, stat |-> new.stat]
             q == [at |-> "save", hash |-> h, dev |-> d, force |-> force, was |-> docs[h],
                   obj |-> obj, book |-> None, snap |-> None, seen |-> {}]
  <2>1. docs[h] \in Doc \cup {None} /\ new \in Doc
    BY <1>6, ReadRow, BlankFits DEF Inv
  <2>2. obj \in Doc /\ obj.pct = p
    BY <2>1 DEF Doc
  <2>3. req' = [req EXCEPT ![t] = q]
    BY <1>6
  <2> HIDE DEF obj
  <2>4. q \in Request
    BY <2>1, <2>2 DEF Request
  <2>5. RequestFits(q)
    <3>1. docs[h] # None /\ docs[h].dev # d /\ ~force => p >= docs[h].pct
      BY <1>6, <2>1, KosyncAssumption DEF Behind, Doc, Place
    <3> QED
      BY <2>2, <3>1 DEF RequestFits
  <2>6. ~Stub(q) /\ Backed(q)
    BY DEF Stub, Backed
  <2> HIDE DEF q
  <2> QED
    BY <1>1, <1>2, <1>3, <1>4, <2>3, <2>4, <2>5, <2>6, RequestMoves, KeepsLowers DEF Inv
<1> QED
  BY <1>5, <1>6 DEF PutRead

LEMMA PutSaves ==
  ASSUME Inv, NEW t \in Threads, PutSave(t)
  PROVE  Inv' /\ Lowers
<1>1. PICK q \in Request : q = req[t] /\ req[t] # None
  BY DEF Inv, TypeOK, PutSave
<1>2. q.hash \in Hashes /\ q.obj \in Doc /\ q.at = "save"
  BY <1>1 DEF PutSave, Request
<1>3. docs' = [docs EXCEPT ![q.hash] = q.obj]
  BY <1>1 DEF PutSave
<1>4. docs' \in [Hashes -> Doc \cup {None}]
  BY <1>2, <1>3 DEF Inv, TypeOK
<1>5. Inv'
  <2> DEFINE obj == [Blank EXCEPT !.link = req[t].obj.link]
  <2>1. obj \in Doc
    BY <1>1, <1>2, BlankFits, DocWith DEF Doc
  <2>2. Continue(t, "resolve", obj, None, None, {})
    BY DEF PutSave
  <2> HIDE DEF obj
  <2>3. PICK r \in Request : /\ req' = [req EXCEPT ![t] = r]
                             /\ r.at = "resolve" /\ r.book = None
    BY <1>1, <2>1, <2>2, Continues DEF Inv
  <2>4. RequestFits(r) /\ ~Stub(r) /\ Backed(r) /\ ~Stub(req[t])
    BY <1>1, <1>2, <2>3 DEF RequestFits, Stub, Backed
  <2>5. requests' \in 0 .. MaxRequests /\ UNCHANGED <<books, scans, disc, history, edits>>
    BY DEF PutSave, bounds, Inv, TypeOK
  <2> QED
    BY <1>4, <2>3, <2>4, <2>5, RequestMoves
<1>6. Lowers
  <2> SUFFICES ASSUME NEW h \in Hashes, docs[h] # None, docs'[h].pct < docs[h].pct PROVE MayLower(h)
    BY DEF Lowers
  <2>1. docs[h] \in Doc /\ docs[h].pct \in Int
    BY KosyncAssumption DEF Inv, TypeOK, Doc, Place
  <2>2. h = q.hash
    BY <1>2, <1>3, <2>1 DEF Inv, TypeOK
  <2>3. docs'[h] = q.obj /\ q.obj.pct \in Int
    BY <1>2, <1>3, <2>2, KosyncAssumption DEF Inv, TypeOK, Doc, Place
  <2>4. RequestFits(q)
    BY <1>1 DEF Inv, StepsFit
  <2>5. q.force \/ q.dev = docs[h].dev \/ q.was # docs[h]
    BY <1>2, <2>1, <2>3, <2>4 DEF RequestFits
  <2> QED
    BY <1>1, <1>2, <2>2, <2>5 DEF MayLower, Changed
<1> QED
  BY <1>5, <1>6

\* The rest of a request neither saves a row nor takes a slot.
LEMMA RequestFrame ==
  ASSUME Inv, UNCHANGED <<docs, books, scans, disc, history, bounds>>
  PROVE  /\ docs' \in [Hashes -> Doc \cup {None}] /\ Lowers
         /\ requests' \in 0 .. MaxRequests
         /\ UNCHANGED <<books, scans, disc, history, edits>>
<1>1. Lowers
  BY SameDocs, KeepsLowers DEF Inv
<1> QED
  BY <1>1 DEF Inv, TypeOK, bounds

LEMMA PutResolves ==
  ASSUME Inv, NEW t \in Threads, PutResolve(t)
  PROVE  Inv' /\ Lowers
<1>1. UNCHANGED <<docs, books, scans, disc, history, bounds>>
  BY DEF PutResolve, tables
<1>2. req[t] # None /\ req[t].at = "resolve" /\ ~Stub(req[t])
  BY DEF PutResolve, Stub
<1> DEFINE h == req[t].hash
           link == req[t].obj.link
           found == IF link # None THEN {link} \cap Live ELSE OfHash(h)
           none == IF link = None THEN OfHash(h) ELSE {}
<1>3. CASE found = {}
  <2>1. Continue(t, "handle", Blank, None, None, none)
    BY <1>3 DEF PutResolve
  <2>2. none \in SUBSET Ids /\ none = {}
    BY <1>3 DEF OfHash, Live
  <2> HIDE DEF none
  <2>3. PICK q \in Request : /\ req' = [req EXCEPT ![t] = q]
                             /\ q.at = "handle" /\ q.book = None /\ q.seen = {}
    BY <1>2, <2>1, <2>2, BlankFits, Continues DEF Inv
  <2>4. RequestFits(q) /\ ~Stub(q) /\ Backed(q)
    BY <2>3 DEF RequestFits, Stub, Backed
  <2> QED
    BY <1>1, <1>2, <2>3, <2>4, RequestFrame, RequestMoves
<1>4. ASSUME NEW b \in found, NEW at \in {"handle", "link"},
             Continue(t, at, Blank, b, books[b], {})
      PROVE  Inv' /\ Lowers
  <2>1. b \in Live /\ b \in Ids /\ books[b] \in Book
    BY DEF OfHash, Live, Inv, TypeOK
  <2>2. PICK q \in Request : /\ req' = [req EXCEPT ![t] = q]
                             /\ q.at = at /\ q.book = b /\ q.snap = books[b]
    BY <1>2, <1>4, <2>1, BlankFits, Continues DEF Inv
  <2>3. RequestFits(q) /\ ~Stub(q)
    BY <2>1, <2>2, Absent DEF RequestFits, Stub
  <2>4. Backed(q)
    BY <2>1, <2>2 DEF Backed, OfHash
  <2> QED
    BY <1>1, <1>2, <2>2, <2>3, <2>4, RequestFrame, RequestMoves
<1> QED
  BY <1>3, <1>4 DEF PutResolve

LEMMA PutLinks ==
  ASSUME Inv, NEW t \in Threads, PutLink(t)
  PROVE  Inv' /\ Lowers
<1>1. PICK q \in Request : q = req[t] /\ req[t] # None /\ q.at = "link"
  BY DEF Inv, TypeOK, PutLink
<1>2. RequestFits(q) /\ Backed(q) /\ ~Stub(q)
  BY <1>1 DEF Inv, StepsFit, Hashed, Stub
<1>3. q.book \in Ids /\ q.hash \in Hashes
  BY <1>1, <1>2 DEF RequestFits, Request
<1>4. Keeps(docs', docs)
  BY <1>1, <1>3, LinkedKeeps DEF PutLink, Inv, TypeOK
<1> DEFINE r == [q EXCEPT !.at = "handle"]
<1>5. r \in Request /\ r.at = "handle" /\ r.book = q.book /\ r.snap = q.snap
  BY DEF Request
<1>6. req' = [req EXCEPT ![t] = r]
  BY <1>1 DEF PutLink, Goto
<1> HIDE DEF r
<1>7. RequestFits(r) /\ ~Stub(r)
  BY <1>1, <1>2, <1>3, <1>5, Absent DEF RequestFits, Stub
<1>8. Backed(r)
  BY <1>1, <1>2, <1>5 DEF Backed
<1>9. Inv'
  <2>1. docs' \in [Hashes -> Doc \cup {None}]
    BY <1>4 DEF Keeps
  <2>2. requests' \in 0 .. MaxRequests /\ UNCHANGED <<books, scans, disc, history, edits>>
    BY DEF PutLink, bounds, Inv, TypeOK
  <2> QED
    BY <1>1, <1>2, <1>5, <1>6, <1>7, <1>8, <2>1, <2>2, RequestMoves
<1> QED
  BY <1>4, <1>9, KeepsLowers DEF Inv

LEMMA PutEnds ==
  ASSUME Inv, NEW t \in Threads, PutLinked(t)
  PROVE  Inv' /\ Lowers
<1>1. PICK q \in Request : q = req[t] /\ req[t] # None /\ q.at = "handle" /\ q.book # None
  BY DEF Inv, TypeOK, PutLinked
<1>2. PICK b \in Ids : b = q.book
  BY <1>1 DEF Request
<1>3. PICK row \in Book : row = q.snap
  BY <1>1 DEF Inv, StepsFit, RequestFits
<1>4. Done(t) /\ UNCHANGED <<scans, disc, leaked, edited, bounds>>
  BY DEF PutLinked
<1>5. \A u \in Threads : req'[u] = IF u = t THEN None ELSE req[u]
  BY <1>4 DEF Done, Inv, TypeOK
<1>6. Slots'
  BY <1>1, <1>4, <1>5, SlotsStay DEF Stub, Inv
<1>7. StepsFit'
  BY <1>4, <1>5 DEF Inv, StepsFit
<1>8. req' \in [Threads -> Request \cup {None}]
  BY <1>4 DEF Done, Inv, TypeOK
<1>9. ASSUME Keeps(docs', docs), books' \in [Ids -> Book \cup {None}], late' \subseteq Hashes,
             HashesStay
      PROVE  Inv' /\ Lowers
  <2>1. TypeOK'
    BY <1>4, <1>8, <1>9 DEF Inv, TypeOK, Keeps, bounds
  <2>2. Hashed'
    <3>1. \A u \in Threads : Backed(req'[u])
      BY <1>5 DEF Inv, Hashed, Backed
    <3> QED
      BY <1>4, <1>9, <3>1, HashedStays DEF Inv
  <2> QED
    BY <1>6, <1>7, <1>9, <2>1, <2>2, KeepsLowers DEF Inv
<1>10. CASE UNCHANGED <<tables, late>>
  BY <1>4, <1>9, <1>10, SameDocs, SameBooks DEF Inv, TypeOK, tables
<1>11. CASE /\ b \in Live
            /\ SaveBook(b, [row EXCEPT !.flag = TRUE])
            /\ late' = late \cup {h \in Hashes : h = books[b].hash /\ h # row.hash}
  <2> DEFINE new == [row EXCEPT !.flag = TRUE]
  <2>1. new \in Book /\ new.hash = row.hash
    BY DEF Book
  <2>2. SaveBook(b, new)
    BY <1>11
  <2> HIDE DEF new
  <2>3. books' = [books EXCEPT ![b] = new] /\ docs' = Ensured(docs, b, new)
    BY <2>2 DEF SaveBook
  <2>4. Keeps(docs', docs)
    BY <2>1, <2>3, EnsuredKeeps DEF Inv, TypeOK
  <2>5. books' \in [Ids -> Book \cup {None}]
    BY <2>1, <2>3 DEF Inv, TypeOK
  <2>6. HashesStay
    <3>1. Clean' \subseteq Clean
      BY <1>4, <1>11 DEF Clean
    <3>2. ASSUME NEW h \in Clean', row.hash = h PROVE books[b].hash = h
      BY <1>1, <1>2, <1>3, <3>1, <3>2 DEF Inv, Hashed, Backed, OfHash
    <3>3. ASSUME NEW h \in Clean', books[b].hash = h PROVE row.hash = h
      BY <1>11, <3>3 DEF Clean
    <3>4. \A c \in Ids : books'[c] # None <=> books[c] # None
      BY <1>11, <2>1, <2>3, Absent DEF Live, Inv, TypeOK
    <3>5. \A h \in Clean' : \A c \in Ids : books'[c].hash = h <=> books[c].hash = h
      BY <2>1, <2>3, <3>2, <3>3 DEF Inv, TypeOK
    <3> QED
      BY <3>1, <3>4, <3>5 DEF HashesStay, OfHash, Live
  <2> QED
    BY <1>9, <1>11, <2>4, <2>5, <2>6 DEF Inv, TypeOK
<1> QED
  BY <1>1, <1>2, <1>3, <1>10, <1>11 DEF PutLinked

\* A slot that a request or a scan takes.
LEMMA TakesSlot ==
  ASSUME Inv, NEW h \in Hashes, SlotFree(h)
  PROVE  /\ Cardinality(scans \cup {h}) <= MaxScans
         /\ disc[h] = None /\ h \notin leaked
         /\ \A t \in Threads : Stub(req[t]) => req[t].hash # h
<1>1. h \notin scans /\ Cardinality(scans) < MaxScans
  BY DEF SlotFree
<1>2. IsFiniteSet(scans) /\ Cardinality(scans) \in Nat
  BY FS_CardinalityType DEF Inv, Slots
<1>3. Cardinality(scans \cup {h}) = Cardinality(scans) + 1
  BY <1>1, <1>2, FS_AddElement
<1> QED
  BY <1>1, <1>2, <1>3, KosyncAssumption DEF Inv, Slots

LEMMA DiscoverFits ==
  ASSUME NEW k \in {"get", "put"}
  PROVE  Discover(k) \in Scan /\ ThreadFits(Discover(k)) /\ Discover(k).kind = k
<1>1. Thread(k, "find", Files, None) \in Scan
  BY ThreadIs
<1>2. ThreadFits(Thread(k, "find", Files, None)) /\ Thread(k, "find", Files, None).kind = k
  BY DEF Thread, ThreadFits
<1> QED
  BY <1>1, <1>2 DEF Discover

LEMMA PutDiscovers ==
  ASSUME Inv, NEW t \in Threads, PutUnlinked(t)
  PROVE  Inv' /\ Lowers
<1>1. PICK q \in Request : q = req[t] /\ req[t] # None /\ q.at = "handle" /\ q.book = None
  BY DEF Inv, TypeOK, PutUnlinked
<1>2. PICK h \in Hashes : h = q.hash
  BY DEF Request
<1>3. q.seen = {}
  BY <1>1 DEF Inv, StepsFit, RequestFits
<1>4. Done(t) /\ UNCHANGED <<tables, leaked, edited, bounds>>
  BY DEF PutUnlinked
<1>5. \A u \in Threads : req'[u] = IF u = t THEN None ELSE req[u]
  BY <1>4 DEF Done, Inv, TypeOK
<1>6. req' \in [Threads -> Request \cup {None}]
  BY <1>4 DEF Done, Inv, TypeOK
<1>7. Lowers
  BY <1>4, SameDocs, KeepsLowers DEF Inv, tables
<1>8. \A u \in Threads : Stub(req[u])' <=> Stub(req[u])
  BY <1>1, <1>5 DEF Stub
<1>9. \A u \in Threads : Backed(req'[u])
  BY <1>5 DEF Inv, Hashed, Backed
<1>10. CASE UNCHANGED <<scans, disc, late>>
  <2>1. Slots'
    BY <1>1, <1>4, <1>5, <1>10, SlotsStay DEF Stub, Inv
  <2>2. StepsFit'
    BY <1>5, <1>10 DEF Inv, StepsFit
  <2>3. TypeOK'
    BY <1>4, <1>6, <1>10 DEF Inv, TypeOK, tables, bounds
  <2>4. HashesStay
    BY <1>4, <1>10, SameBooks DEF tables
  <2>5. Hashed'
    BY <1>9, <1>10, <2>4, HashedStays DEF Inv
  <2> QED
    BY <1>7, <2>1, <2>2, <2>3, <2>5 DEF Inv
<1>11. CASE /\ SlotFree(h)
            /\ scans' = scans \cup {h}
            /\ disc' = [disc EXCEPT ![h] = Discover("put")]
            /\ Missed(t, h)
  <2> DEFINE s == Discover("put")
  <2>1. s \in Scan /\ ThreadFits(s)
    BY DiscoverFits
  <2> HIDE DEF s
  <2>2. \A g \in Hashes : disc'[g] = IF g = h THEN s ELSE disc[g]
    BY <1>11 DEF Inv, TypeOK, s
  <2>3. disc' \in [Hashes -> Scan \cup {None}]
    BY <1>11, <2>1 DEF Inv, TypeOK, s
  <2>4. late' = late \cup (IF OfHash(h) = {} THEN {} ELSE {h})
    BY <1>1, <1>3, <1>11 DEF Missed
  <2>5. TypeOK'
    BY <1>4, <1>6, <1>11, <2>3, <2>4 DEF Inv, TypeOK, tables, bounds
  <2>6. StepsFit'
    BY <1>5, <2>1, <2>2 DEF Inv, StepsFit
  <2>7. Slots'
    <3>1. /\ Cardinality(scans') <= MaxScans /\ IsFiniteSet(scans')
          /\ disc[h] = None /\ h \notin leaked
          /\ \A u \in Threads : Stub(req[u]) => req[u].hash # h
      <4>1. IsFiniteSet(scans \cup {h})
        BY FS_AddElement DEF Inv, Slots
      <4> QED
        BY <1>11, <4>1, TakesSlot
    <3>2. \A u \in Threads : Stub(req[u])' => req'[u] = req[u]
      BY <1>5, <1>8 DEF Stub
    <3>3. \A g \in Hashes : disc'[g] # None => g \in scans' \ leaked'
      BY <1>4, <1>11, <2>2, <3>1 DEF Inv, Slots
    <3>4. \A u \in Threads : Stub(req[u])' => req'[u].hash \in scans' \ leaked' /\ disc'[req'[u].hash] = None
      BY <1>4, <1>8, <1>11, <2>2, <3>1, <3>2 DEF Inv, Slots, TypeOK
    <3>5. \A g \in scans' \ leaked' :
            disc'[g] # None \/ \E u \in Threads : Stub(req[u])' /\ req'[u].hash = g
      <4>1. s # None
        BY <2>1, Absent
      <4>2. \A u \in Threads : Stub(req[u]) => Stub(req[u])' /\ req'[u] = req[u]
        BY <1>8, <3>2
      <4>3. \A g \in scans \ leaked : disc[g] # None \/ \E u \in Threads : Stub(req[u]) /\ req[u].hash = g
        BY DEF Inv, Slots
      <4>4. \A g \in scans \ leaked : disc[g] # None \/ \E u \in Threads : Stub(req[u])' /\ req'[u].hash = g
        BY <4>2, <4>3
      <4>5. \A g \in scans' \ leaked' : g \in Hashes /\ (g = h \/ g \in scans \ leaked)
        BY <1>4, <1>11 DEF Inv, TypeOK
      <4> QED
        BY <2>2, <4>1, <4>4, <4>5
    <3>6. \A u, v \in Threads : Stub(req[u])' /\ Stub(req[v])' /\ req'[u].hash = req'[v].hash => u = v
      BY <1>8, <3>2 DEF Inv, Slots
    <3>7. leaked' \subseteq scans'
      BY <1>4, <1>11 DEF Inv, Slots
    <3> QED
      BY <3>1, <3>3, <3>4, <3>5, <3>6, <3>7 DEF Slots
  <2>8. Hashed'
    <3>1. HashesStay
      BY <1>4, <2>4 DEF HashesStay, Clean, OfHash, Live, tables
    <3>2. \A g \in Clean' : g \in Clean /\ OfHash(g)' = OfHash(g)
      BY <3>1 DEF HashesStay
    <3>3. \A u \in Threads : Backed(req[u])'
      BY <1>9, <3>2 DEF Backed
    <3>4. \A g \in Clean' : Searching(disc'[g]) => OfHash(g)' = {}
      <4>1. h \in Clean' => OfHash(h) = {}
        BY <2>4 DEF Clean
      <4> QED
        BY <2>2, <3>2, <4>1 DEF Inv, Hashed, Clean
    <3>5. \A g \in Clean' : \A b, c \in OfHash(g)' : b = c
      BY <3>2 DEF Inv, Hashed
    <3> QED
      BY <3>3, <3>4, <3>5 DEF Hashed, Searching
  <2> QED
    BY <1>7, <2>5, <2>6, <2>7, <2>8 DEF Inv
<1> QED
  BY <1>1, <1>2, <1>10, <1>11 DEF PutUnlinked

LEMMA GetReads ==
  ASSUME Inv, NEW t \in Threads, GetRead(t)
  PROVE  Inv' /\ Lowers
<1>1. requests' \in 0 .. MaxRequests
  BY KosyncAssumption DEF Inv, TypeOK, GetRead
<1>2. Keeps(docs', docs) /\ docs' \in [Hashes -> Doc \cup {None}]
  BY SameDocs DEF Inv, GetRead, tables, Keeps
<1>3. req[t] = None /\ ~Stub(req[t]) /\ ~Stub(None) /\ Backed(None)
  BY DEF GetRead, Stub, Backed
<1>4. UNCHANGED <<books, scans, disc, history, edits>>
  BY DEF GetRead, tables
<1>5. CASE UNCHANGED req
  <2>1. req' = [req EXCEPT ![t] = None]
    BY <1>3, <1>5 DEF Inv, TypeOK
  <2> QED
    BY <1>1, <1>2, <1>3, <1>4, <2>1, RequestMoves, KeepsLowers DEF Inv
<1>6. ASSUME NEW h \in Hashes, docs[h] = None \/ ~(docs[h].pct > 0),
             req' = [req EXCEPT ![t] =
                [at |-> "lookup", hash |-> h, dev |-> None, force |-> FALSE, was |-> docs[h],
                 obj |-> IF docs[h] = None THEN Blank ELSE docs[h],
                 book |-> None, snap |-> None, seen |-> {}]]
      PROVE  Inv' /\ Lowers
  <2> DEFINE obj == IF docs[h] = None THEN Blank ELSE docs[h]
             q == [at |-> "lookup", hash |-> h, dev |-> None, force |-> FALSE, was |-> docs[h],
                   obj |-> obj, book |-> None, snap |-> None, seen |-> {}]
  <2>1. docs[h] \in Doc \cup {None} /\ obj \in Doc
    BY ReadRow, BlankFits DEF Inv
  <2>2. req' = [req EXCEPT ![t] = q]
    BY <1>6
  <2> HIDE DEF obj
  <2>3. q \in Request
    BY <2>1 DEF Request
  <2>4. docs[h] = None \/ docs[h].pct = 0
    BY <1>6, <2>1, KosyncAssumption DEF Doc, Place
  <2>5. RequestFits(q)
    BY <2>4 DEF RequestFits
  <2>6. ~Stub(q) /\ Backed(q)
    BY DEF Stub, Backed
  <2> HIDE DEF q
  <2> QED
    BY <1>1, <1>2, <1>3, <1>4, <2>2, <2>3, <2>5, <2>6, RequestMoves, KeepsLowers DEF Inv
<1> QED
  BY <1>5, <1>6 DEF GetRead

LEMMA GetRegisters ==
  ASSUME Inv, NEW t \in Threads, GetRegister(t)
  PROVE  Inv' /\ Lowers
<1>1. PICK q \in Request : q = req[t] /\ req[t] # None /\ q.at = "register"
  BY DEF Inv, TypeOK, GetRegister
<1>2. RequestFits(q) /\ ~Stub(q) /\ ~Stub(None) /\ Backed(None)
  BY <1>1 DEF Inv, StepsFit, Stub, Backed
<1>3. q.book \in Ids /\ q.hash \in Hashes /\ q.snap \in Book
  BY <1>1, <1>2, Absent DEF RequestFits, Request
<1>4. Keeps(docs', docs)
  BY <1>1, <1>3, RegisteredKeeps DEF GetRegister, Inv, TypeOK
<1>5. req' = [req EXCEPT ![t] = None]
  BY DEF GetRegister, Done
<1>6. requests' \in 0 .. MaxRequests /\ UNCHANGED <<books, scans, disc, history, edits>>
  BY DEF GetRegister, bounds, Inv, TypeOK
<1>7. Inv'
  BY <1>1, <1>2, <1>4, <1>5, <1>6, RequestMoves DEF Keeps
<1> QED
  BY <1>4, <1>7, KeepsLowers DEF Inv

LEMMA GetLooksUp ==
  ASSUME Inv, NEW t \in Threads, GetLookup(t)
  PROVE  Inv' /\ Lowers
<1>1. PICK q \in Request : q = req[t] /\ req[t] # None /\ q.at = "lookup"
  BY DEF Inv, TypeOK, GetLookup
<1>2. PICK h \in Hashes : h = q.hash
  BY DEF Request
<1>3. UNCHANGED <<docs, books, disc, history, bounds>>
  BY DEF GetLookup, tables
<1>4. ~Stub(req[t]) /\ ~Stub(None) /\ Backed(None)
  BY <1>1 DEF Stub, Backed
<1>5. CASE Done(t) /\ UNCHANGED scans
  BY <1>3, <1>4, <1>5, RequestFrame, RequestMoves DEF Done
<1>6. ASSUME NEW b \in BySibling(h, q.obj.file), UNCHANGED scans,
             Continue(t, "register", Blank, b, books[b], {})
      PROVE  Inv' /\ Lowers
  <2>1. b \in Ids /\ books[b] \in Book
    BY DEF BySibling, OfFile, Live, Inv, TypeOK
  <2>2. PICK r \in Request : /\ req' = [req EXCEPT ![t] = r]
                             /\ r.at = "register" /\ r.book = b /\ r.snap = books[b]
    BY <1>1, <1>6, <2>1, BlankFits, Continues DEF Inv
  <2>3. RequestFits(r) /\ ~Stub(r) /\ Backed(r)
    BY <2>1, <2>2 DEF RequestFits, Stub, Backed
  <2> QED
    BY <1>3, <1>4, <1>6, <2>2, <2>3, RequestFrame, RequestMoves
<1>7. CASE SlotFree(h) /\ Goto(t, "stub") /\ scans' = scans \cup {h}
  <2> DEFINE r == [q EXCEPT !.at = "stub"]
  <2>1. r \in Request /\ r.at = "stub" /\ r.hash = h /\ r.was = q.was /\ r.book = q.book /\ r.snap = q.snap
    BY <1>2 DEF Request
  <2>2. req' = [req EXCEPT ![t] = r]
    BY <1>1, <1>7 DEF Goto
  <2> HIDE DEF r
  <2>3. RequestFits(r)
    BY <1>1, <2>1 DEF Inv, StepsFit, RequestFits
  <2>4. \A u \in Threads : req'[u] = IF u = t THEN r ELSE req[u]
    BY <2>2 DEF Inv, TypeOK
  <2>5. TypeOK'
    <3>1. req' \in [Threads -> Request \cup {None}]
      BY <2>1, <2>2 DEF Inv, TypeOK
    <3> QED
      BY <1>3, <1>7, <3>1 DEF Inv, TypeOK, history, bounds
  <2>6. StepsFit'
    BY <1>3, <2>3, <2>4 DEF Inv, StepsFit
  <2>7. Slots'
    <3>1. /\ Cardinality(scans') <= MaxScans /\ IsFiniteSet(scans')
          /\ disc[h] = None /\ h \notin leaked
          /\ \A u \in Threads : Stub(req[u]) => req[u].hash # h
      <4>1. IsFiniteSet(scans \cup {h})
        BY FS_AddElement DEF Inv, Slots
      <4> QED
        BY <1>7, <4>1, TakesSlot
    <3>2. Stub(r) /\ \A u \in Threads : Stub(req'[u]) <=> (u = t \/ Stub(req[u]))
      BY <2>1, <2>4, Absent DEF Stub
    <3>3. \A u \in Threads : u # t => req'[u] = req[u]
      BY <2>4
    <3>4. \A g \in Hashes : disc'[g] # None => g \in scans' \ leaked'
      BY <1>3, <1>7 DEF Inv, Slots, history
    <3>5. \A u \in Threads : Stub(req'[u]) => req'[u].hash \in scans' \ leaked' /\ disc'[req'[u].hash] = None
      <4>1. r.hash \in scans' \ leaked' /\ disc'[r.hash] = None
        BY <1>3, <1>7, <2>1, <3>1 DEF history
      <4>2. \A u \in Threads : Stub(req[u]) => req[u].hash \in scans' \ leaked' /\ disc'[req[u].hash] = None
        BY <1>3, <1>7 DEF Inv, Slots, history
      <4> QED
        BY <2>4, <3>2, <4>1, <4>2
    <3>6. \A u, v \in Threads : Stub(req'[u]) /\ Stub(req'[v]) /\ req'[u].hash = req'[v].hash => u = v
      BY <2>1, <2>4, <3>1, <3>2 DEF Inv, Slots
    <3>7. \A g \in scans' \ leaked' :
            disc'[g] # None \/ \E u \in Threads : Stub(req'[u]) /\ req'[u].hash = g
      <4>1. \A g \in scans \ leaked : disc[g] # None \/ \E u \in Threads : Stub(req[u]) /\ req[u].hash = g
        BY DEF Inv, Slots
      <4>2. \A u \in Threads : Stub(req[u]) => Stub(req'[u]) /\ req'[u].hash = req[u].hash
        BY <1>4, <3>2, <3>3
      <4>3. \A g \in scans \ leaked : disc[g] # None \/ \E u \in Threads : Stub(req'[u]) /\ req'[u].hash = g
        BY <4>1, <4>2
      <4>4. Stub(req'[t]) /\ req'[t].hash = h
        BY <2>1, <2>4, <3>2
      <4> QED
        BY <1>3, <1>7, <4>3, <4>4 DEF history
    <3>8. leaked' \subseteq scans'
      BY <1>3, <1>7 DEF Inv, Slots, history
    <3> QED
      BY <3>1, <3>4, <3>5, <3>6, <3>7, <3>8 DEF Slots, Stub
  <2>8. Hashed'
    <3>1. \A u \in Threads : Backed(req'[u])
      BY <2>1, <2>4 DEF Inv, Hashed, Backed
    <3>2. HashesStay
      BY <1>3, SameBooks DEF history
    <3> QED
      BY <1>3, <3>1, <3>2, HashedStays DEF Inv
  <2> QED
    BY <1>3, <2>5, <2>6, <2>7, <2>8, SameDocs, KeepsLowers DEF Inv
<1> QED
  BY <1>1, <1>2, <1>5, <1>6, <1>7 DEF GetLookup

LEMMA GetStubs ==
  ASSUME Inv, NEW t \in Threads, GetStub(t)
  PROVE  Inv' /\ Lowers
<1>1. PICK q \in Request : q = req[t] /\ req[t] # None /\ q.at = "stub"
  BY DEF Inv, TypeOK, GetStub
<1>2. PICK h \in Hashes : h = q.hash
  BY DEF Request
<1>3. UNCHANGED <<books, scans, history, bounds>> /\ Done(t)
  BY DEF GetStub
<1>4. h \in scans \ leaked /\ disc[h] = None /\ Stub(req[t])
  BY <1>1, <1>2 DEF Inv, Slots, Stub
<1> DEFINE s == Discover("get")
<1>5. s \in Scan /\ ThreadFits(s) /\ ~Searching(s)
  BY DiscoverFits DEF Searching
<1>6. docs' = [docs EXCEPT ![h] = Blank] /\ disc' = [disc EXCEPT ![h] = s]
  BY <1>1, <1>2 DEF GetStub
<1> HIDE DEF s
<1>7. req' \in [Threads -> Request \cup {None}]
  BY <1>3 DEF Done, Inv, TypeOK
<1>8. \A u \in Threads : req'[u] = IF u = t THEN None ELSE req[u]
  BY <1>3 DEF Done, Inv, TypeOK
<1>9. \A g \in Hashes : disc'[g] = IF g = h THEN s ELSE disc[g]
  BY <1>6 DEF Inv, TypeOK
<1>10. TypeOK'
  <2>1. docs' \in [Hashes -> Doc \cup {None}]
    BY <1>6, BlankFits DEF Inv, TypeOK
  <2>2. disc' \in [Hashes -> Scan \cup {None}]
    BY <1>5, <1>6 DEF Inv, TypeOK
  <2> QED
    BY <1>3, <1>7, <2>1, <2>2 DEF Inv, TypeOK, history, bounds
<1>11. StepsFit'
  BY <1>5, <1>8, <1>9 DEF Inv, StepsFit
<1>12. Slots'
  <2>1. \A u \in Threads : Stub(req'[u]) <=> (u # t /\ Stub(req[u]))
    BY <1>8 DEF Stub
  <2>2. \A u \in Threads : u # t => req'[u] = req[u]
    BY <1>8
  <2>3. \A g \in Hashes : disc'[g] # None => g \in scans' \ leaked'
    BY <1>3, <1>4, <1>9 DEF Inv, Slots, history
  <2>4. \A u \in Threads : Stub(req[u]) /\ u # t => req[u].hash # h
    BY <1>1, <1>2, <1>4 DEF Inv, Slots
  <2>5. \A u \in Threads : Stub(req'[u]) => req'[u].hash \in scans' \ leaked' /\ disc'[req'[u].hash] = None
    BY <1>3, <1>9, <2>1, <2>2, <2>4 DEF Inv, Slots, TypeOK, history
  <2>6. \A u, v \in Threads : Stub(req'[u]) /\ Stub(req'[v]) /\ req'[u].hash = req'[v].hash => u = v
    BY <2>1, <2>2 DEF Inv, Slots
  <2>7. \A g \in scans' \ leaked' : disc'[g] # None \/ \E u \in Threads : Stub(req'[u]) /\ req'[u].hash = g
    <3>1. \A g \in scans \ leaked : disc[g] # None \/ \E u \in Threads : Stub(req[u]) /\ req[u].hash = g
      BY DEF Inv, Slots
    <3>2. s # None /\ \A g \in Hashes : g = h => disc'[g] # None
      BY <1>5, <1>9, Absent
    <3>3. SUFFICES ASSUME NEW g \in scans \ leaked, g # h
                   PROVE  disc'[g] # None \/ \E u \in Threads : Stub(req'[u]) /\ req'[u].hash = g
      BY <1>3, <1>4, <3>2 DEF Inv, TypeOK, history
    <3>4. CASE disc[g] # None
      BY <1>9, <3>3, <3>4 DEF Inv, TypeOK
    <3>5. ASSUME NEW u \in Threads, Stub(req[u]), req[u].hash = g PROVE Stub(req'[u]) /\ req'[u].hash = g
      BY <1>1, <1>2, <2>1, <2>2, <3>3, <3>5
    <3> QED
      BY <3>1, <3>4, <3>5
  <2> QED
    BY <1>3, <2>3, <2>5, <2>6, <2>7 DEF Inv, Slots, Stub, history
<1>13. Hashed'
  <2>1. \A u \in Threads : Backed(req'[u])
    BY <1>8 DEF Inv, Hashed, Backed
  <2>2. HashesStay
    BY <1>3, SameBooks DEF history
  <2>3. \A g \in Hashes : Searching(disc'[g]) => Searching(disc[g])
    BY <1>5, <1>9
  <2> QED
    BY <2>1, <2>2, <2>3, HashedStays DEF Inv
<1>14. Lowers
  <2> SUFFICES ASSUME NEW g \in Hashes, docs[g] # None, docs'[g].pct < docs[g].pct PROVE MayLower(g)
    BY DEF Lowers
  <2>1. docs[g] \in Doc /\ docs[g].pct \in Int
    BY KosyncAssumption DEF Inv, TypeOK, Doc, Place
  <2>2. g = h /\ docs'[g].pct = 0
    BY <1>6, <2>1, BlankFits DEF Inv, TypeOK
  <2>3. q.was = None \/ q.was.pct = 0
    BY <1>1 DEF Inv, StepsFit, RequestFits
  <2>4. q.was # docs[g]
    BY <2>1, <2>2, <2>3, Absent
  <2> QED
    BY <1>1, <1>2, <2>2, <2>4 DEF MayLower, Changed
<1> QED
  BY <1>10, <1>11, <1>12, <1>13, <1>14 DEF Inv

LEMMA GetStubIsLost ==
  ASSUME Inv, NEW t \in Threads, GetStubFails(t)
  PROVE  Inv' /\ Lowers
<1>1. PICK q \in Request : q = req[t] /\ req[t] # None /\ q.at = "stub"
  BY DEF Inv, TypeOK, GetStubFails
<1>2. PICK h \in Hashes : h = q.hash
  BY DEF Request
<1>3. UNCHANGED <<docs, books, scans, disc, late, edited, bounds>> /\ Done(t)
  BY DEF GetStubFails, tables
<1>4. h \in scans \ leaked /\ disc[h] = None /\ Stub(req[t])
  BY <1>1, <1>2 DEF Inv, Slots, Stub
<1>5. leaked' = leaked \cup {h}
  BY <1>1, <1>2 DEF GetStubFails
<1>6. req' \in [Threads -> Request \cup {None}]
  BY <1>3 DEF Done, Inv, TypeOK
<1>7. \A u \in Threads : req'[u] = IF u = t THEN None ELSE req[u]
  BY <1>3 DEF Done, Inv, TypeOK
<1>8. TypeOK'
  BY <1>3, <1>5, <1>6 DEF Inv, TypeOK, bounds
<1>9. StepsFit'
  BY <1>3, <1>7 DEF Inv, StepsFit
<1>10. Slots'
  <2>1. \A u \in Threads : Stub(req'[u]) <=> (u # t /\ Stub(req[u]))
    BY <1>7 DEF Stub
  <2>2. \A u \in Threads : u # t => req'[u] = req[u]
    BY <1>7
  <2>3. \A u \in Threads : Stub(req[u]) /\ u # t => req[u].hash # h
    BY <1>1, <1>2, <1>4 DEF Inv, Slots
  <2>4. \A g \in Hashes : disc'[g] # None => g \in scans' \ leaked'
    BY <1>3, <1>4, <1>5 DEF Inv, Slots
  <2>5. \A u \in Threads : Stub(req'[u]) => req'[u].hash \in scans' \ leaked' /\ disc'[req'[u].hash] = None
    BY <1>3, <1>5, <2>1, <2>2, <2>3 DEF Inv, Slots
  <2>6. \A u, v \in Threads : Stub(req'[u]) /\ Stub(req'[v]) /\ req'[u].hash = req'[v].hash => u = v
    BY <2>1, <2>2 DEF Inv, Slots
  <2>7. \A g \in scans' \ leaked' : disc'[g] # None \/ \E u \in Threads : Stub(req'[u]) /\ req'[u].hash = g
    <3>1. SUFFICES ASSUME NEW g \in scans \ leaked, g # h
                   PROVE  disc'[g] # None \/ \E u \in Threads : Stub(req'[u]) /\ req'[u].hash = g
      BY <1>3, <1>5
    <3>2. disc[g] # None \/ \E u \in Threads : Stub(req[u]) /\ req[u].hash = g
      BY DEF Inv, Slots
    <3>3. ASSUME NEW u \in Threads, Stub(req[u]), req[u].hash = g PROVE Stub(req'[u]) /\ req'[u].hash = g
      BY <1>1, <1>2, <2>1, <2>2, <3>1, <3>3
    <3> QED
      BY <1>3, <3>2, <3>3
  <2>8. leaked' \subseteq scans'
    BY <1>3, <1>4, <1>5 DEF Inv, Slots
  <2> QED
    BY <1>3, <2>4, <2>5, <2>6, <2>7, <2>8 DEF Inv, Slots, Stub
<1>11. Hashed'
  <2>1. \A u \in Threads : Backed(req'[u])
    BY <1>7 DEF Inv, Hashed, Backed
  <2> QED
    BY <1>3, <2>1, SameBooks, HashedStays DEF Inv
<1> QED
  BY <1>3, <1>8, <1>9, <1>10, <1>11, SameDocs, KeepsLowers DEF Inv

-----------------------------------------------------------------------------
(***************************************************************************)
(* Discovery.                                                              *)
(***************************************************************************)
LEMMA Finishes ==
  ASSUME Inv, NEW h \in Hashes, FinishDiscovery(h)
  PROVE  Inv' /\ Lowers
<1>1. disc[h] # None /\ h \in scans \ leaked
  BY DEF FinishDiscovery, At, Inv, Slots
<1>2. UNCHANGED <<docs, books, req, history, bounds>>
  BY DEF FinishDiscovery, tables
<1>3. scans' = scans \ {h} /\ disc' = [disc EXCEPT ![h] = None]
  BY DEF FinishDiscovery
<1>4. \A g \in Hashes : disc'[g] = IF g = h THEN None ELSE disc[g]
  BY <1>3 DEF Inv, TypeOK
<1>5. TypeOK'
  BY <1>2, <1>3 DEF Inv, TypeOK, history, bounds
<1>6. StepsFit'
  BY <1>2, <1>4 DEF Inv, StepsFit
<1>7. Slots'
  <2>1. IsFiniteSet(scans') /\ Cardinality(scans') <= MaxScans
    <3>1. IsFiniteSet(scans) /\ Cardinality(scans) <= MaxScans /\ Cardinality(scans) \in Nat
      BY FS_CardinalityType DEF Inv, Slots
    <3>2. IsFiniteSet(scans \ {h}) /\ Cardinality(scans \ {h}) = Cardinality(scans) - 1
      BY <1>1, <3>1, FS_RemoveElement
    <3> QED
      BY <1>3, <3>1, <3>2, KosyncAssumption
  <2>2. \A t \in Threads : Stub(req[t]) => req[t].hash # h
    BY <1>1 DEF Inv, Slots
  <2>3. \A g \in Hashes : disc'[g] # None => g \in scans' \ leaked'
    BY <1>2, <1>3, <1>4 DEF Inv, Slots, history
  <2>4. \A t \in Threads : Stub(req'[t]) => req'[t].hash \in scans' \ leaked' /\ disc'[req'[t].hash] = None
    BY <1>2, <1>3, <1>4, <2>2 DEF Inv, Slots, TypeOK, history
  <2>5. \A g \in scans' \ leaked' : disc'[g] # None \/ \E t \in Threads : Stub(req'[t]) /\ req'[t].hash = g
    BY <1>2, <1>3, <1>4 DEF Inv, Slots, TypeOK, history
  <2>6. leaked' \subseteq scans'
    BY <1>1, <1>2, <1>3 DEF Inv, Slots, history
  <2> QED
    BY <1>2, <2>1, <2>3, <2>4, <2>5, <2>6 DEF Inv, Slots, Stub
<1>8. Hashed'
  <2>1. \A g \in Hashes : Searching(disc'[g]) => Searching(disc[g])
    BY <1>4 DEF Searching
  <2>2. HashesStay
    BY <1>2, SameBooks DEF history
  <2> QED
    BY <1>2, <2>1, <2>2, HashedStays DEF Inv, Hashed
<1> QED
  BY <1>2, <1>5, <1>6, <1>7, <1>8, SameDocs, KeepsLowers DEF Inv

ScanFrame == UNCHANGED <<books, scans, req, history, bounds>>
Early == {"find", "walk", "hash", "store", "remote", "found"}

LEMMA ScanReplaced ==
  ASSUME Inv, NEW h \in Hashes, disc[h] # None, ScanFrame, docs' \in [Hashes -> Doc \cup {None}],
         NEW s \in Scan, disc' = [disc EXCEPT ![h] = s], ThreadFits(s), s.kind = disc[h].kind,
         s.at = "end" \/ disc[h].at \in Early
  PROVE  Inv'
<1>1. HashesStay
  BY SameBooks DEF ScanFrame, history
<1>2. Searching(s) => Searching(disc[h])
  BY DEF Searching, Early
<1>3. books' \in [Ids -> Book \cup {None}]
  BY DEF ScanFrame, Inv, TypeOK
<1> QED
  BY <1>1, <1>2, <1>3, ScanMoves DEF ScanFrame

LEMMA ScanGoes ==
  ASSUME Inv, NEW h \in Hashes, disc[h] # None, ScanFrame, docs' \in [Hashes -> Doc \cup {None}],
         NEW at \in {"walk", "hash", "found", "end"}, NEW left \in SUBSET Files,
         NEW f \in Names \cup {None}, at = "hash" => f \in Files, at = "found" => f \in Names,
         at = "end" \/ disc[h].at \in Early, Goes(h, at, left, f)
  PROVE  Inv'
<1> DEFINE s == Thread(disc[h].kind, at, left, f)
<1>1. disc[h].kind \in {"get", "put"}
  BY DEF Inv, TypeOK, Scan
<1>2. s \in Scan
  BY <1>1, ThreadIs
<1>3. s.at = at /\ s.kind = disc[h].kind /\ ThreadFits(s)
  BY DEF Thread, ThreadFits
<1>4. disc' = [disc EXCEPT ![h] = s]
  BY DEF Goes
<1> HIDE DEF s
<1> QED
  BY <1>2, <1>3, <1>4, ScanReplaced

LEMMA ScanReads ==
  ASSUME Inv, NEW h \in Hashes, disc[h] # None, ScanFrame, docs' \in [Hashes -> Doc \cup {None}],
         NEW at \in {"hash", "store", "remote"}, NEW left \in SUBSET Files, NEW f \in Names,
         at # "remote" => f \in Files, NEW c \in Hashes \cup {None}, NEW was \in Doc \cup {None},
         NEW stat \in BOOLEAN, disc[h].at \in Early, Reads(h, at, left, f, c, was, stat)
  PROVE  Inv'
<1> DEFINE obj == WithFile(was, f, stat)
           s == [at |-> at, kind |-> disc[h].kind, left |-> left, file |-> f, cached |-> c,
                 was |-> was, obj |-> obj, audio |-> FALSE, book |-> None]
<1>1. disc[h].kind \in {"get", "put"}
  BY DEF Inv, TypeOK, Scan
<1>2. obj \in Doc /\ obj.pct = IF was = None THEN 0 ELSE was.pct
  BY WithFileFits
<1>3. disc' = [disc EXCEPT ![h] = s]
  BY DEF Reads
<1> HIDE DEF obj
<1>4. s \in Scan
  BY <1>1, <1>2 DEF Scan
<1>5. s.at = at /\ s.kind = disc[h].kind /\ ThreadFits(s)
  BY <1>2 DEF ThreadFits
<1> HIDE DEF s
<1> QED
  BY <1>3, <1>4, <1>5, ScanReplaced

LEMMA SearchSteps ==
  ASSUME Inv, NEW h \in Hashes, FindInDb(h) \/ FindInGrimmory(h) \/ GiveUp(h)
  PROVE  Inv' /\ Lowers
<1>1. disc[h] # None /\ disc[h] \in Scan /\ ScanFrame /\ UNCHANGED docs
  BY DEF FindInDb, FindInGrimmory, GiveUp, At, ScanFrame, tables, Inv, TypeOK
<1>2. docs' \in [Hashes -> Doc \cup {None}] /\ Lowers
  BY <1>1, SameDocs, KeepsLowers DEF Inv, TypeOK
<1>3. CASE Ends(h)
  BY <1>1, <1>2, <1>3, ScanGoes DEF Ends
<1>4. CASE FindInDb(h)
  <2>1. disc[h].at = "find" /\ disc[h].at \in Early
    BY <1>4 DEF FindInDb, At, Early
  <2>2. ASSUME docs[h] # None, docs[h].file # None, Found(h, docs[h].file) PROVE Inv'
    <3>1. docs[h].file \in Names
      BY <2>2 DEF Inv, TypeOK, Doc
    <3> QED
      BY <1>1, <1>2, <2>1, <2>2, <3>1, ScanGoes DEF Found
  <2>3. CASE Step(h, "walk")
    <3> DEFINE s == [disc[h] EXCEPT !.at = "walk"]
    <3>1. s \in Scan
      BY <1>1 DEF Scan
    <3>2. s.at = "walk" /\ s.kind = disc[h].kind /\ disc' = [disc EXCEPT ![h] = s]
      BY <1>1, <2>3 DEF Step, Scan
    <3> HIDE DEF s
    <3>3. ThreadFits(s)
      BY <3>2 DEF ThreadFits
    <3> QED
      BY <1>1, <1>2, <2>1, <3>1, <3>2, <3>3, ScanReplaced
  <2> QED
    BY <1>2, <1>4, <2>2, <2>3 DEF FindInDb
<1>5. CASE FindInGrimmory(h) /\ h \in Remote
  <2>1. Reads(h, "remote", {}, RemoteName, None, docs[h], FALSE)
    BY <1>5 DEF FindInGrimmory
  <2>2. RemoteName \in Names /\ docs[h] \in Doc \cup {None} /\ disc[h].at \in Early
    BY <1>5 DEF Names, Inv, TypeOK, FindInGrimmory, At, Early
  <2> QED
    BY <1>1, <1>2, <2>1, <2>2, ScanReads
<1> QED
  BY <1>2, <1>3, <1>4, <1>5 DEF FindInGrimmory, GiveUp

LEMMA Visits ==
  ASSUME Inv, NEW h \in Hashes, VisitFile(h)
  PROVE  Inv' /\ Lowers
<1>1. disc[h] # None /\ disc[h] \in Scan /\ ScanFrame /\ UNCHANGED docs /\ disc[h].at = "walk"
  BY DEF VisitFile, At, ScanFrame, tables, Inv, TypeOK
<1>2. docs' \in [Hashes -> Doc \cup {None}] /\ Lowers
  BY <1>1, SameDocs, KeepsLowers DEF Inv, TypeOK
<1>3. disc[h].left \in SUBSET Files /\ disc[h].at \in Early
  BY <1>1 DEF Scan, Early
<1>4. PICK f \in disc[h].left :
        \/ \E c \in Named(f) :
              IF docs[c].stat
              THEN IF c = h THEN Found(h, f)
                   ELSE disc' = [disc EXCEPT ![h].left = disc[h].left \ {f}]
              ELSE Reads(h, "hash", disc[h].left \ {f}, f, c, docs[c], TRUE)
        \/ Named(f) = {} /\ Goes(h, "hash", disc[h].left \ {f}, f)
  BY DEF VisitFile
<1>5. f \in Files /\ f \in Names
  BY <1>3 DEF Names
<1> DEFINE rest == disc[h].left \ {f}
<1>6. rest \in SUBSET Files
  BY <1>3
<1>7. CASE Found(h, f)
  BY <1>1, <1>2, <1>3, <1>5, <1>7, ScanGoes DEF Found
<1>8. CASE disc' = [disc EXCEPT ![h].left = rest]
  <2> DEFINE s == [disc[h] EXCEPT !.left = rest]
  <2>1. disc' = [disc EXCEPT ![h] = s]
    BY <1>8
  <2> HIDE DEF rest
  <2>2. s \in Scan /\ s.at = "walk" /\ s.kind = disc[h].kind
    BY <1>1, <1>6 DEF Scan
  <2> HIDE DEF s
  <2>3. ThreadFits(s)
    BY <2>2 DEF ThreadFits
  <2> QED
    BY <1>1, <1>2, <1>3, <2>1, <2>2, <2>3, ScanReplaced
<1>9. ASSUME NEW c \in Named(f), Reads(h, "hash", rest, f, c, docs[c], TRUE) PROVE Inv'
  <2>1. c \in Hashes /\ docs[c] \in Doc \cup {None}
    BY DEF Named, Inv, TypeOK
  <2> QED
    BY <1>1, <1>2, <1>3, <1>5, <1>6, <1>9, <2>1, ScanReads
<1>10. CASE Goes(h, "hash", rest, f)
  BY <1>1, <1>2, <1>3, <1>5, <1>6, <1>10, ScanGoes
<1> QED
  BY <1>2, <1>4, <1>7, <1>8, <1>9, <1>10

LEMMA HashesFile ==
  ASSUME Inv, NEW h \in Hashes, HashFile(h)
  PROVE  Inv' /\ Lowers
<1>1. disc[h] # None /\ disc[h] \in Scan /\ ScanFrame /\ disc[h].at = "hash"
  BY DEF HashFile, At, ScanFrame, Inv, TypeOK
<1>2. PICK f \in Files : f = disc[h].file
  BY <1>1 DEF Inv, StepsFit, ThreadFits
<1>3. PICK k \in Hashes : k = HashOf[f]
  BY KosyncAssumption
<1>4. PICK c \in Hashes \cup {None} : c = disc[h].cached
  BY <1>1 DEF Scan
<1>5. CASE c = k
  <2>1. Step(h, "store") /\ UNCHANGED docs
    BY <1>2, <1>3, <1>4, <1>5 DEF HashFile
  <2> DEFINE s == [disc[h] EXCEPT !.at = "store"]
  <2>2. s \in Scan /\ s.at = "store" /\ s.kind = disc[h].kind /\ s.file = f
        /\ s.obj = disc[h].obj /\ s.was = disc[h].was
    BY <1>1, <1>2 DEF Scan
  <2>3. disc' = [disc EXCEPT ![h] = s]
    BY <2>1 DEF Step
  <2> HIDE DEF s
  <2>4. disc[h].obj.pct = IF disc[h].was = None THEN 0 ELSE disc[h].was.pct
    BY <1>1, <1>3, <1>4, <1>5, Absent DEF Inv, StepsFit, ThreadFits
  <2>5. ThreadFits(s)
    BY <2>2, <2>4 DEF ThreadFits
  <2>6. docs' \in [Hashes -> Doc \cup {None}] /\ Lowers
    BY <2>1, SameDocs, KeepsLowers DEF Inv, TypeOK
  <2>7. disc[h].at \in Early
    BY <1>1 DEF Early
  <2> QED
    BY <1>1, <2>2, <2>3, <2>5, <2>6, <2>7, ScanReplaced
<1>6. CASE c # k
  <2>1. /\ docs' = IF c = None THEN docs ELSE [docs EXCEPT ![c] = None]
        /\ Reads(h, "store", disc[h].left, f, None, docs[k], TRUE)
    BY <1>2, <1>3, <1>4, <1>6 DEF HashFile
  <2>2. docs' \in [Hashes -> Doc \cup {None}] /\ \A g \in Hashes : docs'[g] # None => docs'[g] = docs[g]
    BY <2>1 DEF Inv, TypeOK
  <2>3. Lowers
    <3>1. \A g \in Hashes : docs[g] # None => docs[g].pct \in Int
      BY KosyncAssumption DEF Inv, TypeOK, Doc, Place
    <3> QED
      BY <2>2, <3>1 DEF Lowers
  <2>4. disc[h].left \in SUBSET Files /\ f \in Names /\ docs[k] \in Doc \cup {None} /\ disc[h].at \in Early
    BY <1>1 DEF Scan, Names, Inv, TypeOK, Early
  <2> QED
    BY <1>1, <2>1, <2>2, <2>3, <2>4, ScanReads
<1> QED
  BY <1>5, <1>6

\* A row saved with the place that was read in it goes back only if it has changed since.
LEMMA StoreLowers ==
  ASSUME Inv, NEW h \in Hashes, disc[h] # None, disc[h].at \in {"store", "remote"},
         NEW k \in Hashes, docs' = [docs EXCEPT ![k] = disc[h].obj]
  PROVE  docs' \in [Hashes -> Doc \cup {None}] /\ Lowers
<1>1. disc[h] \in Scan /\ disc[h].obj \in Doc
  BY DEF Inv, TypeOK, Scan
<1>2. docs' \in [Hashes -> Doc \cup {None}]
  BY <1>1 DEF Inv, TypeOK
<1>3. ASSUME NEW g \in Hashes, docs[g] # None, docs'[g].pct < docs[g].pct PROVE MayLower(g)
  <2>1. docs[g] \in Doc /\ docs[g].pct \in Int
    BY <1>3, KosyncAssumption DEF Inv, TypeOK, Doc, Place
  <2>2. g = k /\ docs'[g] = disc[h].obj
    BY <1>3, <2>1 DEF Inv, TypeOK
  <2>3. disc[h].obj.pct = IF disc[h].was = None THEN 0 ELSE disc[h].was.pct
    BY DEF Inv, StepsFit, ThreadFits
  <2>4. disc[h].was # docs[g]
    BY <1>3, <2>1, <2>2, <2>3
  <2> QED
    BY <2>4 DEF MayLower
<1> QED
  BY <1>2, <1>3 DEF Lowers

LEMMA Stores ==
  ASSUME Inv, NEW h \in Hashes, StoreFile(h) \/ StoreRemote(h)
  PROVE  Inv' /\ Lowers
<1>1. disc[h] # None /\ disc[h] \in Scan /\ ScanFrame /\ disc[h].at \in Early
  BY DEF StoreFile, StoreRemote, At, Early, ScanFrame, Inv, TypeOK
<1>2. CASE StoreFile(h)
  <2>1. PICK f \in Files : f = disc[h].file /\ disc[h].at = "store" /\ f \in Names
    BY <1>2 DEF StoreFile, At, Inv, StepsFit, ThreadFits, Names
  <2>2. PICK k \in Hashes : k = HashOf[f]
    BY KosyncAssumption
  <2>3. /\ docs' = [docs EXCEPT ![k] = disc[h].obj]
        /\ Found(h, f) \/ Goes(h, "walk", disc[h].left, None)
    BY <1>2, <2>1, <2>2 DEF StoreFile
  <2>4. docs' \in [Hashes -> Doc \cup {None}] /\ Lowers
    BY <1>1, <2>1, <2>3, StoreLowers
  <2>5. CASE Found(h, f)
    BY <1>1, <2>1, <2>4, <2>5, ScanGoes DEF Found
  <2>6. CASE Goes(h, "walk", disc[h].left, None)
    <3>1. disc[h].left \in SUBSET Files
      BY <1>1 DEF Scan
    <3> QED
      BY <1>1, <2>4, <2>6, <3>1, ScanGoes
  <2> QED
    BY <2>3, <2>4, <2>5, <2>6
<1>3. CASE StoreRemote(h)
  <2>1. disc[h].at = "remote" /\ docs' = [docs EXCEPT ![h] = disc[h].obj] /\ Found(h, RemoteName)
    BY <1>3 DEF StoreRemote, At
  <2>2. docs' \in [Hashes -> Doc \cup {None}] /\ Lowers
    BY <1>1, <2>1, StoreLowers
  <2>3. RemoteName \in Names
    BY DEF Names
  <2> QED
    BY <1>1, <2>1, <2>2, <2>3, ScanGoes DEF Found
<1> QED
  BY <1>2, <1>3

LEMMA GetFinds ==
  ASSUME Inv, NEW h \in Hashes, GetFound(h)
  PROVE  Inv' /\ Lowers
<1>1. disc[h] # None /\ disc[h] \in Scan /\ ScanFrame /\ disc[h].at = "found" /\ Ends(h)
  BY DEF GetFound, At, ScanFrame, Inv, TypeOK
<1>2. PICK f \in Names : f = disc[h].file
  BY <1>1 DEF Inv, StepsFit, ThreadFits
<1> DEFINE named == IF docs[h] = None \/ docs[h].file # None THEN docs
                    ELSE [docs EXCEPT ![h].file = f]
<1>3. Keeps(named, docs)
  <2>1. CASE named = docs
    BY <2>1 DEF Keeps, Inv, TypeOK
  <2>2. CASE docs[h] # None /\ named = [docs EXCEPT ![h].file = f]
    <3> DEFINE doc == [docs[h] EXCEPT !.file = f]
    <3>1. doc \in Doc /\ doc.pct = docs[h].pct
      BY <2>2, DocWith, ReadRow DEF Inv
    <3>2. named = [docs EXCEPT ![h] = doc]
      BY <2>2
    <3> HIDE DEF doc, named
    <3>3. docs \in [Hashes -> Doc \cup {None}]
      BY DEF Inv, TypeOK
    <3> QED
      BY <3>1, <3>2, <3>3, RowKeeps
  <2> QED
    BY <2>1, <2>2
<1>4. IF OfFile(f) = {} THEN docs' = named ELSE \E b \in OfFile(f) : docs' = Linked(named, h, b)
  BY <1>2 DEF GetFound
<1> HIDE DEF named
<1>5. Keeps(docs', docs)
  <2>1. CASE docs' = named
    BY <1>3, <2>1
  <2>2. ASSUME NEW b \in OfFile(f), docs' = Linked(named, h, b) PROVE Keeps(docs', docs)
    <3>1. b \in Ids \cup {None} /\ named \in [Hashes -> Doc \cup {None}]
      BY <1>3 DEF OfFile, Live, Keeps
    <3>2. Keeps(Linked(named, h, b), named)
      BY <3>1, LinkedKeeps
    <3> QED
      BY <1>3, <2>2, <3>2, KeepsTwice
  <2> QED
    BY <1>4, <2>1, <2>2
<1>6. docs' \in [Hashes -> Doc \cup {None}] /\ Lowers
  BY <1>5, KeepsLowers DEF Keeps, Inv
<1>7. Inv'
  BY <1>1, <1>6, ScanGoes DEF Ends
<1> QED
  BY <1>6, <1>7

LEMMA SearchesAudiobooks ==
  ASSUME Inv, NEW h \in Hashes, SearchAudiobooks(h)
  PROVE  Inv' /\ Lowers
<1>1. disc[h] # None /\ disc[h] \in Scan /\ ScanFrame /\ disc[h].at = "found" /\ UNCHANGED docs
      /\ disc[h].kind = "put"
  BY DEF SearchAudiobooks, At, ScanFrame, tables, Inv, TypeOK
<1>2. docs' \in [Hashes -> Doc \cup {None}] /\ Lowers
  BY <1>1, SameDocs, KeepsLowers DEF Inv, TypeOK
<1>3. CASE Ends(h)
  BY <1>1, <1>2, <1>3, ScanGoes DEF Ends
<1>4. ASSUME NEW exact \in BOOLEAN, disc' = [disc EXCEPT ![h].at = "create", ![h].audio = exact]
      PROVE  Inv'
  <2> DEFINE one == [disc[h] EXCEPT !.at = "create"]
             two == [one EXCEPT !.audio = exact]
  <2>1. disc' = [disc EXCEPT ![h] = two]
    BY <1>4 DEF Inv, TypeOK
  <2>2. one \in Scan /\ one.at = "create" /\ one.kind = "put" /\ one.file = disc[h].file
    BY <1>1 DEF Scan
  <2> HIDE DEF one
  <2>3. two \in Scan /\ two.at = "create" /\ two.kind = "put" /\ two.file = disc[h].file
    BY <2>2 DEF Scan
  <2> HIDE DEF two
  <2>4. disc[h].file \in Names
    BY <1>1 DEF Inv, StepsFit, ThreadFits
  <2>5. ThreadFits(two)
    BY <2>3, <2>4 DEF ThreadFits
  <2>6. disc[h].at \in Early
    BY <1>1 DEF Early
  <2> QED
    BY <1>1, <1>2, <2>1, <2>3, <2>5, <2>6, ScanReplaced
<1> QED
  BY <1>2, <1>3, <1>4 DEF SearchAudiobooks

\* A scan creates the first book of its document.
LEMMA Creates ==
  ASSUME Inv, NEW h \in Hashes, CreateBook(h)
  PROVE  Inv' /\ Lowers
<1>1. disc[h] # None /\ disc[h] \in Scan /\ disc[h].at = "create"
      /\ UNCHANGED <<scans, req, history, bounds>>
  BY DEF CreateBook, At, Inv, TypeOK
<1>2. disc[h].file \in Names /\ disc[h].kind = "put" /\ disc[h].audio \in BOOLEAN
  BY <1>1 DEF Inv, StepsFit, ThreadFits, Scan
<1> DEFINE row == [hash |-> h, file |-> disc[h].file, status |-> "active", flag |-> FALSE,
                   audio |-> disc[h].audio, state |-> None]
           same == IF disc[h].audio THEN {b \in OfHash(h) : books[b].audio} ELSE {}
<1>3. row \in Book /\ row.hash = h
  BY <1>2 DEF Book
<1>4. PICK b \in IF same # {} THEN same ELSE {NewId} \cap Ids :
        /\ SaveBook(b, row)
        /\ disc' = [disc EXCEPT ![h].at = "attach", ![h].book = b]
  BY DEF CreateBook
<1>5. b \in Ids /\ (b \in OfHash(h) \/ b \notin Live)
  BY NewIdFresh DEF OfHash, Live
<1> HIDE DEF row
<1> HIDE DEF same
<1>6. books' = [books EXCEPT ![b] = row] /\ docs' = Ensured(docs, b, row)
  BY <1>4 DEF SaveBook
<1>7. Keeps(docs', docs) /\ docs' \in [Hashes -> Doc \cup {None}]
  <2>1. Keeps(Ensured(docs, b, row), docs)
    BY <1>3, <1>5, EnsuredKeeps DEF Inv, TypeOK
  <2> QED
    BY <1>6, <2>1 DEF Keeps
<1>8. books' \in [Ids -> Book \cup {None}]
  BY <1>3, <1>6 DEF Inv, TypeOK
<1>9. PICK s \in Scan : disc' = [disc EXCEPT ![h] = s] /\ s.at = "attach" /\ s.kind = "put" /\ s.book = b
  <2> DEFINE one == [disc[h] EXCEPT !.at = "attach"]
             two == [one EXCEPT !.book = b]
  <2>1. disc' = [disc EXCEPT ![h] = two]
    BY <1>4 DEF Inv, TypeOK
  <2>2. one \in Scan /\ one.at = "attach" /\ one.kind = "put"
    BY <1>1, <1>2 DEF Scan
  <2> HIDE DEF one
  <2>3. two \in Scan /\ two.at = "attach" /\ two.kind = "put" /\ two.book = b
    BY <1>5, <2>2 DEF Scan
  <2> HIDE DEF two
  <2> QED
    BY <2>1, <2>3
<1>10. \A g \in Hashes : disc'[g] = IF g = h THEN s ELSE disc[g]
  BY <1>9 DEF Inv, TypeOK
<1>11. TypeOK'
  <2>1. disc' \in [Hashes -> Scan \cup {None}]
    BY <1>9 DEF Inv, TypeOK
  <2> QED
    BY <1>1, <1>7, <1>8, <2>1 DEF Inv, TypeOK, history, bounds
<1>12. StepsFit'
  <2>1. ThreadFits(s)
    BY <1>5, <1>9 DEF ThreadFits
  <2> QED
    BY <1>1, <1>10, <2>1 DEF Inv, StepsFit
<1>13. Slots'
  <2>1. \A g \in Hashes : disc'[g] = None <=> disc[g] = None
    BY <1>1, <1>10, Absent
  <2> QED
    BY <1>1, <2>1, SlotsStay DEF Inv, history
<1>14. Hashed'
  <2>1. Clean' = Clean /\ Clean \subseteq Hashes
    BY <1>1 DEF Clean, history
  <2>2. \A c \in Ids : books'[c] = IF c = b THEN row ELSE books[c]
    BY <1>6 DEF Inv, TypeOK
  <2>3. row # None
    BY <1>3, Absent
  <2>4. \A g \in Hashes : g # h => OfHash(g)' = OfHash(g)
    BY <1>3, <1>5, <2>2, <2>3 DEF OfHash, Live
  <2>5. h \in Clean => OfHash(h) = {}
    BY <1>1, <1>2 DEF Inv, Hashed, Searching
  <2>6. h \in Clean => OfHash(h)' = {b}
    BY <1>3, <1>5, <2>2, <2>3, <2>5 DEF OfHash, Live
  <2>7. \A t \in Threads : Backed(req[t])'
    <3>1. SUFFICES ASSUME NEW t \in Threads, req[t] # None, req[t].at \in {"link", "handle"},
                          req[t].book # None, req[t].snap.hash \in Clean
                   PROVE  req[t].book \in OfHash(req[t].snap.hash)'
      BY <1>1, <2>1 DEF Backed
    <3>2. PICK g \in Clean : g = req[t].snap.hash
      BY <3>1
    <3>3. req[t].book \in OfHash(g)
      BY <3>1, <3>2 DEF Inv, Hashed, Backed
    <3>4. g # h
      BY <2>5, <3>3
    <3>5. req[t].book \in OfHash(g)'
      BY <2>1, <2>4, <3>3, <3>4
    <3>6. req[t].book \in Ids /\ books'[req[t].book] # None /\ books'[req[t].book].hash = g
      BY <3>5 DEF OfHash, Live
    <3> QED
      BY <1>1, <3>2, <3>6 DEF OfHash, Live
  <2>8. \A g \in Clean' : Searching(disc'[g]) => OfHash(g)' = {}
    <3>1. ~Searching(s)
      BY <1>9 DEF Searching
    <3> QED
      BY <1>10, <2>1, <2>4, <3>1 DEF Inv, Hashed
  <2>9. \A g \in Clean' : \A c, d \in OfHash(g)' : c = d
    BY <2>1, <2>4, <2>6 DEF Inv, Hashed
  <2> QED
    BY <2>7, <2>8, <2>9 DEF Hashed, Searching
<1> QED
  BY <1>7, <1>11, <1>12, <1>13, <1>14, KeepsLowers DEF Inv

LEMMA Attaches ==
  ASSUME Inv, NEW h \in Hashes, AttachBook(h)
  PROVE  Inv' /\ Lowers
<1>1. disc[h] # None /\ disc[h] \in Scan /\ disc[h].at = "attach" /\ Ends(h)
      /\ UNCHANGED <<scans, req, history, bounds>>
  BY DEF AttachBook, At, Inv, TypeOK
<1>2. PICK b \in Ids : b = disc[h].book
  BY <1>1 DEF Inv, StepsFit, ThreadFits
<1>3. Keeps(docs', docs)
  BY <1>2, LinkedKeeps DEF AttachBook, Inv, TypeOK
<1>4. docs' \in [Hashes -> Doc \cup {None}] /\ Lowers
  BY <1>3, KeepsLowers DEF Keeps, Inv
<1>5. books' \in [Ids -> Book \cup {None}]
      /\ \A c \in Ids : (books'[c] = None <=> books[c] = None) /\ (books[c] # None => books'[c].hash = books[c].hash)
  <2>1. CASE books' = books
    BY <2>1 DEF Inv, TypeOK
  <2>2. CASE /\ b \in Live /\ docs[h] # None
             /\ books' = [books EXCEPT ![b].state = docs[h].pct]
    <3> DEFINE row == [books[b] EXCEPT !.state = docs[h].pct]
    <3>1. books[b] \in Book /\ docs[h].pct \in Place
      BY <2>2 DEF Live, Inv, TypeOK, Doc
    <3>2. row \in Book /\ row.hash = books[b].hash
      BY <3>1, BookWith
    <3>3. books' = [books EXCEPT ![b] = row]
      BY <2>2
    <3> HIDE DEF row
    <3> QED
      BY <3>1, <3>2, <3>3, Absent DEF Inv, TypeOK
  <2> QED
    BY <1>2, <2>1, <2>2 DEF AttachBook
<1>6. HashesStay
  BY <1>1, <1>5 DEF HashesStay, Clean, OfHash, Live, history
<1> DEFINE s == Thread(disc[h].kind, "end", {}, None)
<1>7. s \in Scan
  <2>1. disc[h].kind \in {"get", "put"}
    BY <1>1 DEF Scan
  <2> QED
    BY <2>1, ThreadIs
<1>8. ThreadFits(s) /\ ~Searching(s)
  BY DEF Thread, ThreadFits, Searching
<1>9. disc' = [disc EXCEPT ![h] = s]
  BY <1>1 DEF Ends, Goes
<1> HIDE DEF s
<1> QED
  BY <1>1, <1>4, <1>5, <1>6, <1>7, <1>8, <1>9, ScanMoves

LEMMA DiscoverySteps ==
  ASSUME Inv, NEW h \in Hashes, Discovery(h)
  PROVE  Inv' /\ Lowers
<1>1. CASE FindInDb(h) \/ FindInGrimmory(h) \/ GiveUp(h)
  BY <1>1, SearchSteps
<1>2. CASE VisitFile(h)
  BY <1>2, Visits
<1>3. CASE HashFile(h)
  BY <1>3, HashesFile
<1>4. CASE StoreFile(h) \/ StoreRemote(h)
  BY <1>4, Stores
<1>5. CASE GetFound(h)
  BY <1>5, GetFinds
<1>6. CASE SearchAudiobooks(h)
  BY <1>6, SearchesAudiobooks
<1>7. CASE CreateBook(h)
  BY <1>7, Creates
<1>8. CASE AttachBook(h)
  BY <1>8, Attaches
<1>9. CASE FinishDiscovery(h)
  BY <1>9, Finishes
<1> QED
  BY <1>1, <1>2, <1>3, <1>4, <1>5, <1>6, <1>7, <1>8, <1>9 DEF Discovery

LEMMA RequestSteps ==
  ASSUME Inv, NEW t \in Threads, Put(t) \/ Get(t)
  PROVE  Inv' /\ Lowers
<1>1. CASE PutRead(t)
  BY <1>1, PutReads
<1>2. CASE PutSave(t)
  BY <1>2, PutSaves
<1>3. CASE PutResolve(t)
  BY <1>3, PutResolves
<1>4. CASE PutLink(t)
  BY <1>4, PutLinks
<1>5. CASE PutLinked(t)
  BY <1>5, PutEnds
<1>6. CASE PutUnlinked(t)
  BY <1>6, PutDiscovers
<1>7. CASE GetRead(t)
  BY <1>7, GetReads
<1>8. CASE GetLookup(t)
  BY <1>8, GetLooksUp
<1>9. CASE GetRegister(t)
  BY <1>9, GetRegisters
<1>10. CASE GetStub(t)
  BY <1>10, GetStubs
<1>11. CASE GetStubFails(t)
  BY <1>11, GetStubIsLost
<1> QED
  BY <1>1, <1>2, <1>3, <1>4, <1>5, <1>6, <1>7, <1>8, <1>9, <1>10, <1>11 DEF Put, Get

-----------------------------------------------------------------------------
(***************************************************************************)
(* The administrator.                                                      *)
(***************************************************************************)
LEMMA Row ==
  ASSUME Inv, NEW b \in Live
  PROVE  b \in Ids /\ books[b] \in Book /\ books[b] # None /\ books[b].hash \in Hashes \cup {None}
<1>1. b \in Ids /\ books[b] \in Book /\ books[b] # None
  BY DEF Inv, TypeOK, Live
<1> QED
  BY <1>1 DEF Book

\* The rows of the books that a document lets go of.
LEMMA ReleasedFits ==
  ASSUME Inv, NEW h \in Hashes, Edit({h}), books' = Released(h)
  PROVE  books' \in [Ids -> Book \cup {None}] /\ HashesStay
<1>1. \A b \in Ids : \/ books'[b] = books[b]
                     \/ b \in OfHash(h) /\ books'[b] = [books[b] EXCEPT !.hash = None]
  BY DEF Released
<1>2. \A b \in Ids : books[b] # None => books[b] \in Book
  BY DEF Inv, TypeOK
<1>3. \A b \in OfHash(h) : b \in Ids /\ books[b] # None /\ books[b].hash = h
  BY DEF OfHash, Live
<1>4. \A b \in Ids : \/ books'[b] = books[b]
                     \/ books[b] # None /\ books'[b] \in Book /\ books[b].hash = h /\ books'[b].hash = None
  <2>1. SUFFICES ASSUME NEW b \in Ids, b \in OfHash(h), books'[b] = [books[b] EXCEPT !.hash = None]
                 PROVE  books[b] # None /\ books'[b] \in Book /\ books[b].hash = h /\ books'[b].hash = None
    BY <1>1
  <2> DEFINE row == [books[b] EXCEPT !.hash = None]
  <2>2. row \in Book /\ row.hash = None
    BY <1>2, <1>3, <2>1, BookWith
  <2>3. books'[b] = row
    BY <2>1
  <2> HIDE DEF row
  <2> QED
    BY <1>3, <2>1, <2>2, <2>3
<1>5. books' \in [Ids -> Book \cup {None}]
  <2>1. books' = [b \in Ids |-> books'[b]]
    BY DEF Released
  <2>2. \A b \in Ids : books'[b] \in Book \cup {None}
    BY <1>2, <1>4
  <2> QED
    BY <2>1, <2>2
<1>6. HashesStay
  <2>1. \A b \in Ids : (books'[b] = None <=> books[b] = None)
                        /\ (books[b] # None /\ books'[b].hash # books[b].hash
                              => {books[b].hash, books'[b].hash} \subseteq {h} \cup {None})
    BY <1>4, Absent
  <2> QED
    BY <2>1, EditedBooks DEF Inv
<1> QED
  BY <1>5, <1>6

LEMMA Unlinks ==
  ASSUME Inv, NEW h \in Hashes, UnlinkDocument(h)
  PROVE  Inv' /\ Lowers
<1>1. docs[h] # None /\ books' = Released(h) /\ Edit({h})
  BY DEF UnlinkDocument
<1>2. Keeps(docs', docs)
  <2>1. docs' = Linked(docs, h, None)
    BY <1>1 DEF UnlinkDocument, Linked
  <2> QED
    BY <2>1, LinkedKeeps DEF Inv, TypeOK
<1> QED
  BY <1>1, <1>2, ReleasedFits, Edits, KeepsLowers DEF Keeps, Inv

LEMMA Deletes ==
  ASSUME Inv, NEW h \in Hashes, DeleteDocument(h)
  PROVE  Inv' /\ Lowers
<1>1. books' = Released(h) /\ Edit({h}) /\ docs' = [docs EXCEPT ![h] = None]
  BY DEF DeleteDocument
<1>2. docs' \in [Hashes -> Doc \cup {None}] /\ \A g \in Hashes : docs'[g] # None => docs'[g] = docs[g]
  BY <1>1 DEF Inv, TypeOK
<1>3. Lowers
  <2>1. \A g \in Hashes : docs[g] # None => docs[g].pct \in Int
    BY KosyncAssumption DEF Inv, TypeOK, Doc, Place
  <2> QED
    BY <1>2, <2>1 DEF Lowers
<1> QED
  BY <1>1, <1>2, <1>3, ReleasedFits, Edits

\* A book that is given a hash, or loses it.
LEMMA Rehashed ==
  ASSUME Inv, NEW b \in Live, NEW h \in Hashes \cup {None}
  PROVE  /\ [books[b] EXCEPT !.hash = h] \in Book
         /\ [books[b] EXCEPT !.hash = h].hash = h
  BY Row, BookWith

LEMMA ClearsOrphan ==
  ASSUME Inv, NEW b \in Ids, ClearOrphan(b)
  PROVE  Inv' /\ Lowers
<1>1. b \in Live /\ UNCHANGED docs /\ Edit({books[b].hash})
  BY DEF ClearOrphan
<1> DEFINE row == [books[b] EXCEPT !.hash = None]
<1>2. row \in Book /\ row.hash = None
  BY <1>1, Rehashed
<1>3. books' = [books EXCEPT ![b] = row]
  BY DEF ClearOrphan
<1> HIDE DEF row
<1>4. books' \in [Ids -> Book \cup {None}]
  BY <1>2, <1>3 DEF Inv, TypeOK
<1>5. HashesStay
  <2>1. \A c \in Ids : books'[c] = IF c = b THEN row ELSE books[c]
    BY <1>3 DEF Inv, TypeOK
  <2>2. row # None /\ books[b] # None
    BY <1>1, <1>2, Row, Absent
  <2>3. \A c \in Ids : (books'[c] = None <=> books[c] = None)
                        /\ (books[c] # None /\ books'[c].hash # books[c].hash
                              => {books[c].hash, books'[c].hash} \subseteq {books[b].hash} \cup {None})
    BY <1>2, <2>1, <2>2
  <2> QED
    BY <1>1, <2>3, EditedBooks DEF Inv
<1> QED
  BY <1>1, <1>4, <1>5, Edits, SameDocs, KeepsLowers DEF Inv, Keeps

LEMMA Ages ==
  ASSUME Inv, NEW h \in Hashes, Age(h)
  PROVE  Inv' /\ Lowers
<1>1. docs[h] # None /\ books' = books /\ Edit({})
  BY DEF Age
<1> DEFINE doc == [docs[h] EXCEPT !.old = TRUE]
<1>2. doc \in Doc /\ doc.pct = docs[h].pct
  BY <1>1, ReadRow, DocWith DEF Inv
<1>3. docs' = [docs EXCEPT ![h] = doc]
  BY DEF Age
<1> HIDE DEF doc
<1>4. Keeps(docs', docs)
  BY <1>2, <1>3, RowKeeps DEF Inv, TypeOK
<1>5. HashesStay /\ books' \in [Ids -> Book \cup {None}]
  BY <1>1 DEF HashesStay, Clean, OfHash, Live, Edit, Inv, TypeOK
<1> QED
  BY <1>1, <1>4, <1>5, Edits, KeepsLowers DEF Keeps, Inv

LEMMA LinksDocument ==
  ASSUME Inv, NEW h \in Hashes, NEW b \in Ids, LinkDocument(h, b)
  PROVE  Inv' /\ Lowers
<1>1. b \in Live /\ Edit({h, books[b].hash})
  BY DEF LinkDocument
<1> DEFINE row == [books[b] EXCEPT !.hash = h]
           linked == Linked(docs, h, b)
<1>2. row \in Book /\ row.hash = h
  BY <1>1, Rehashed
<1>3. books' = [books EXCEPT ![b] = row] /\ docs' \in {linked, Ensured(linked, b, row)}
  BY DEF LinkDocument
<1> HIDE DEF row
<1>4. Keeps(docs', docs)
  <2>1. Keeps(linked, docs)
    BY LinkedKeeps DEF Inv, TypeOK
  <2> HIDE DEF linked
  <2>2. Keeps(Ensured(linked, b, row), linked)
    BY <1>2, <2>1, EnsuredKeeps DEF Keeps
  <2> QED
    BY <1>3, <2>1, <2>2, KeepsTwice
<1>5. books' \in [Ids -> Book \cup {None}]
  BY <1>2, <1>3 DEF Inv, TypeOK
<1>6. HashesStay
  <2>1. \A c \in Ids : books'[c] = IF c = b THEN row ELSE books[c]
    BY <1>3 DEF Inv, TypeOK
  <2>2. row # None /\ books[b] # None
    BY <1>1, <1>2, Row, Absent
  <2>3. \A c \in Ids : (books'[c] = None <=> books[c] = None)
                        /\ (books[c] # None /\ books'[c].hash # books[c].hash
                              => {books[c].hash, books'[c].hash} \subseteq {h, books[b].hash} \cup {None})
    BY <1>2, <2>1, <2>2
  <2> QED
    BY <1>1, <2>3, EditedBooks DEF Inv
<1> QED
  BY <1>1, <1>4, <1>5, <1>6, Edits, KeepsLowers DEF Inv, Keeps

LEMMA ResolvesOrphan ==
  ASSUME Inv, NEW b \in Ids, NEW target \in Ids, ResolveOrphan(b, target)
  PROVE  Inv' /\ Lowers
<1>1. b \in Live /\ target \in Live /\ books[b].hash # None
      /\ Edit({books[b].hash, books[target].hash})
  BY DEF ResolveOrphan
<1>2. PICK h \in Hashes : h = books[b].hash
  BY <1>1, Row
<1> DEFINE row == [books[target] EXCEPT !.hash = h]
           bare == [books[b] EXCEPT !.hash = None]
           registered == Registered(docs, h, target, books[target])
<1>3. row \in Book /\ row.hash = h /\ bare \in Book /\ bare.hash = None
  BY <1>1, Rehashed
<1>4. Keeps(registered, docs)
  BY <1>1, Row, RegisteredKeeps DEF Inv, TypeOK
<1>5. IF b = target THEN docs' = registered /\ books' = books
      ELSE /\ books' = [books EXCEPT ![b] = bare, ![target] = row]
           /\ docs' = Ensured(registered, target, row)
  BY <1>2 DEF ResolveOrphan
<1> HIDE DEF row
<1> HIDE DEF bare
<1> HIDE DEF registered
<1>6. Keeps(docs', docs)
  <2>1. Keeps(Ensured(registered, target, row), registered)
    BY <1>3, <1>4, EnsuredKeeps DEF Keeps
  <2> QED
    BY <1>4, <1>5, <2>1, KeepsTwice
<1>7. /\ books' \in [Ids -> Book \cup {None}]
      /\ \A c \in Ids : \/ books'[c] = books[c]
                        \/ c = target /\ books'[c] = row
                        \/ c = b /\ books'[c] = bare
  BY <1>3, <1>5 DEF Inv, TypeOK
<1>8. HashesStay
  <2>1. row # None /\ bare # None /\ books[b] # None /\ books[target] # None
    BY <1>1, <1>3, Row, Absent
  <2>2. \A c \in Ids : (books'[c] = None <=> books[c] = None)
                        /\ (books[c] # None /\ books'[c].hash # books[c].hash
                              => {books[c].hash, books'[c].hash}
                                   \subseteq {books[b].hash, books[target].hash} \cup {None})
    BY <1>2, <1>3, <1>7, <2>1
  <2> QED
    BY <1>1, <2>2, EditedBooks DEF Inv
<1> QED
  BY <1>1, <1>6, <1>7, <1>8, Edits, KeepsLowers DEF Inv, Keeps

LEMMA CreatesFromDocument ==
  ASSUME Inv, NEW h \in Hashes, CreateFromDocument(h)
  PROVE  Inv' /\ Lowers
<1>1. docs[h] \in Doc /\ Edit({h})
  BY ReadRow DEF CreateFromDocument, Inv
<1>2. PICK b \in Ids : b = NewId /\ b \notin Live
  BY NewIdFresh DEF CreateFromDocument
<1> DEFINE row == [hash |-> h, file |-> docs[h].file, status |-> "active", flag |-> FALSE,
                   audio |-> FALSE, state |-> docs[h].pct]
<1>3. row \in Book /\ row.hash = h
  BY <1>1 DEF Book, Doc
<1>4. books' = [books EXCEPT ![b] = row] /\ docs' = Linked(Ensured(docs, b, row), h, b)
  BY <1>2 DEF CreateFromDocument
<1> HIDE DEF row
<1>5. Keeps(docs', docs)
  <2> DEFINE ensured == Ensured(docs, b, row)
  <2>1. Keeps(ensured, docs)
    BY <1>3, EnsuredKeeps DEF Inv, TypeOK
  <2>2. docs' = Linked(ensured, h, b)
    BY <1>4
  <2> HIDE DEF ensured
  <2>3. Keeps(Linked(ensured, h, b), ensured)
    BY <2>1, LinkedKeeps DEF Keeps
  <2> QED
    BY <2>1, <2>2, <2>3, KeepsTwice
<1>6. books' \in [Ids -> Book \cup {None}]
      /\ \A c \in Ids : c # b => books'[c] = books[c]
  BY <1>3, <1>4 DEF Inv, TypeOK
<1>7. HashesStay
  <2>1. Clean' \subseteq Clean /\ h \notin Clean'
    BY <1>1 DEF Clean, Edit
  <2>2. books'[b] = row /\ books[b] = None
    BY <1>2, <1>4 DEF Live, Inv, TypeOK
  <2>3. ASSUME NEW g \in Clean' PROVE OfHash(g)' = OfHash(g)
    BY <1>3, <1>6, <2>1, <2>2 DEF OfHash, Live
  <2> QED
    BY <2>1, <2>3 DEF HashesStay
<1> QED
  BY <1>1, <1>5, <1>6, <1>7, Edits, KeepsLowers DEF Inv, Keeps

LEMMA DeletesBook ==
  ASSUME Inv, NEW b \in Ids, DeleteBook(b)
  PROVE  Inv' /\ Lowers
<1> DEFINE touched == {books[b].hash} \cup {h \in Hashes : docs[h] # None /\ docs[h].link = b}
<1>1. b \in Live /\ Edit(touched) /\ books' = [books EXCEPT ![b] = None]
  BY DEF DeleteBook
<1>2. Keeps(docs', docs)
  <2>1. \A h \in Hashes : docs'[h] \in {docs[h], [docs[h] EXCEPT !.link = None]}
                          /\ (docs[h] = None => docs'[h] = docs[h])
    BY DEF DeleteBook
  <2>2. ASSUME NEW h \in Hashes
        PROVE  docs'[h] \in Doc \cup {None}
               /\ (docs[h] # None => docs'[h] # None /\ docs'[h].pct = docs[h].pct)
    <3>1. CASE docs'[h] = docs[h]
      BY <3>1, ReadRow DEF Inv
    <3>2. CASE docs[h] # None /\ docs'[h] = [docs[h] EXCEPT !.link = None]
      <4> DEFINE doc == [docs[h] EXCEPT !.link = None]
      <4>1. doc \in Doc /\ doc.pct = docs[h].pct
        BY <3>2, ReadRow, DocWith DEF Inv
      <4>2. docs'[h] = doc
        BY <3>2
      <4> HIDE DEF doc
      <4> QED
        BY <4>1, <4>2, Absent
    <3> QED
      BY <2>1, <3>1, <3>2
  <2>3. docs' = [h \in Hashes |-> docs'[h]]
    BY DEF DeleteBook
  <2> QED
    BY <2>2, <2>3 DEF Keeps
<1>3. books' \in [Ids -> Book \cup {None}]
      /\ \A c \in Ids : books'[c] = IF c = b THEN None ELSE books[c]
  BY <1>1 DEF Inv, TypeOK
<1>4. HashesStay
  <2>1. Clean' \subseteq Clean /\ books[b].hash \notin Clean'
    BY <1>1 DEF Clean, Edit
  <2>2. ASSUME NEW g \in Clean' PROVE OfHash(g)' = OfHash(g)
    BY <1>3, <2>1 DEF OfHash, Live
  <2> QED
    BY <2>1, <2>2 DEF HashesStay
<1> HIDE DEF touched
<1> QED
  BY <1>1, <1>2, <1>3, <1>4, Edits, KeepsLowers DEF Inv, Keeps

LEMMA AdministrationSteps ==
  ASSUME Inv, Administration
  PROVE  Inv' /\ Lowers
<1>1. ASSUME NEW h \in Hashes, UnlinkDocument(h) \/ DeleteDocument(h) \/ CreateFromDocument(h) \/ Age(h)
      PROVE  Inv' /\ Lowers
  BY <1>1, Unlinks, Deletes, CreatesFromDocument, Ages
<1>2. ASSUME NEW h \in Hashes, NEW b \in Ids, LinkDocument(h, b)
      PROVE  Inv' /\ Lowers
  BY <1>2, LinksDocument
<1>3. ASSUME NEW b \in Ids, ClearOrphan(b) \/ DeleteBook(b) \/ \E target \in Ids : ResolveOrphan(b, target)
      PROVE  Inv' /\ Lowers
  BY <1>3, ClearsOrphan, DeletesBook, ResolvesOrphan
<1> QED
  BY <1>1, <1>2, <1>3 DEF Administration

-----------------------------------------------------------------------------
(***************************************************************************)
(* The invariant, and what follows from it.                                *)
(***************************************************************************)
LEMMA InitInv ==
  ASSUME Init
  PROVE  Inv
<1>1. /\ scans = {} /\ req = [t \in Threads |-> None] /\ disc = [h \in Hashes |-> None]
      /\ leaked = {} /\ late = {} /\ edited = {} /\ requests = 0 /\ edits = 0
  BY DEF Init
<1>2. /\ docs \in [Hashes -> Doc \cup {None}] /\ books \in [Ids -> Book \cup {None}]
      /\ \A b \in Ids : b # 1 => books[b] = None
  <2>1. CASE books = [b \in Ids |-> None] /\ docs = [h \in Hashes |-> None]
    BY <2>1
  <2>2. ASSUME NEW h \in Hashes, NEW f \in Files,
               books = [b \in Ids |-> IF b # 1 THEN None
                          ELSE [hash |-> h, file |-> f, status |-> "aside", flag |-> FALSE,
                                audio |-> TRUE, state |-> 0]],
               docs = [g \in Hashes |-> IF g # h THEN None
                         ELSE [Blank EXCEPT !.file = f, !.link = 1]]
        PROVE  docs \in [Hashes -> Doc \cup {None}] /\ books \in [Ids -> Book \cup {None}]
               /\ \A b \in Ids : b # 1 => books[b] = None
    <3> DEFINE row == [hash |-> h, file |-> f, status |-> "aside", flag |-> FALSE,
                       audio |-> TRUE, state |-> 0]
               one == [Blank EXCEPT !.file = f]
               doc == [one EXCEPT !.link = 1]
    <3>1. f \in Names /\ 1 \in Ids /\ 0 \in Place
      BY KosyncAssumption DEF Names, Ids, Place
    <3>2. row \in Book
      BY <3>1 DEF Book
    <3>3. one \in Doc
      BY <3>1, BlankFits, DocWith
    <3>4. docs = [g \in Hashes |-> IF g # h THEN None ELSE doc]
      BY <2>2
    <3>5. books = [b \in Ids |-> IF b # 1 THEN None ELSE row]
      BY <2>2
    <3> HIDE DEF row, one
    <3>6. doc \in Doc
      BY <3>1, <3>3, DocWith
    <3> HIDE DEF doc
    <3> QED
      BY <3>2, <3>4, <3>5, <3>6
  <2> QED
    BY <2>1, <2>2 DEF Init
<1>3. TypeOK
  BY <1>1, <1>2, KosyncAssumption DEF TypeOK
<1>4. StepsFit
  BY <1>1 DEF StepsFit
<1>5. Slots
  <2>1. IsFiniteSet({}) /\ Cardinality({}) = 0
    BY FS_EmptySet
  <2> QED
    BY <1>1, <2>1, KosyncAssumption DEF Slots, Stub
<1>6. Hashed
  <2>1. \A h \in Hashes : \A b, c \in OfHash(h) : b = c
    BY <1>2 DEF OfHash, Live
  <2> QED
    BY <1>1, <2>1 DEF Hashed, Backed, Searching, Clean
<1> QED
  BY <1>3, <1>4, <1>5, <1>6 DEF Inv

LEMMA NextInv ==
  ASSUME Inv, [Next]_vars
  PROVE  Inv' /\ Lowers
<1>1. ASSUME NEW t \in Threads, Put(t) \/ Get(t) PROVE Inv' /\ Lowers
  BY <1>1, RequestSteps
<1>2. ASSUME NEW h \in Hashes, Discovery(h) PROVE Inv' /\ Lowers
  BY <1>2, DiscoverySteps
<1>3. CASE Administration
  BY <1>3, AdministrationSteps
<1>4. CASE UNCHANGED vars
  <2>1. TypeOK'
    BY <1>4 DEF Inv, TypeOK, vars
  <2>2. StepsFit'
    BY <1>4 DEF Inv, StepsFit, vars
  <2>3. Slots'
    BY <1>4, SlotsStay DEF Inv, vars
  <2>4. Hashed'
    BY <1>4, SameBooks, HashedStays DEF Inv, Hashed, vars
  <2> QED
    BY <1>4, <2>1, <2>2, <2>3, <2>4, SameDocs, KeepsLowers DEF Inv, vars
<1> QED
  BY <1>1, <1>2, <1>3, <1>4 DEF Next

\* Inv always holds, whatever requests, scans and the administrator interleave.
THEOREM ServerInvariant == Spec => []Inv
  BY InitInv, NextInv, PTL DEF Spec

\* Two threads never search for one document, and a slot is only ever lost with a
\* stub that could not be saved (kosync_service.py, start_discovery_if_available).
THEOREM SlotsOwnedCorrect == Spec => []SlotsOwned
<1>1. Inv => SlotsOwned
  <2> SUFFICES ASSUME Inv PROVE SlotsOwned
    OBVIOUS
  <2>1. ASSUME NEW h \in Hashes
        PROVE  /\ disc[h] # None \/ Holders(h) # {} => h \in scans \ leaked
               /\ h \in scans => disc[h] # None \/ Holders(h) # {} \/ h \in leaked
    BY DEF Inv, Slots, Stub, Holders
  <2>2. ASSUME NEW h \in Hashes PROVE Cardinality(Holders(h)) <= IF disc[h] = None THEN 1 ELSE 0
    <3>1. CASE Holders(h) = {}
      <4>1. Cardinality(Holders(h)) = 0
        BY <3>1, FS_EmptySet
      <4> QED
        BY <4>1
    <3>2. ASSUME NEW t \in Holders(h) PROVE Cardinality(Holders(h)) <= IF disc[h] = None THEN 1 ELSE 0
      <4>1. disc[h] = None
        BY DEF Inv, Slots, Stub, Holders
      <4>2. Holders(h) = {t}
        BY DEF Inv, Slots, Stub, Holders
      <4>3. Cardinality({t}) = 1
        BY FS_Singleton
      <4> QED
        BY <4>1, <4>2, <4>3
    <3> QED
      BY <3>1, <3>2
  <2> QED
    BY <2>1, <2>2 DEF SlotsOwned, Inv, Slots
<1> QED
  BY <1>1, ServerInvariant, PTL

\* A document that nobody edited, and that no request was too late for, has one
\* book at most, however its PUTs and its scans overlap (run_put_auto_discovery).
THEOREM OneBookPerHashCorrect == Spec => []OneBookPerHash
<1>1. Inv => OneBookPerHash
  <2> SUFFICES ASSUME Inv, NEW h \in Hashes \ (edited \cup late)
               PROVE  Cardinality(OfHash(h)) <= 1
    BY DEF OneBookPerHash
  <2>1. CASE OfHash(h) = {}
    <3>1. Cardinality(OfHash(h)) = 0
      BY <2>1, FS_EmptySet
    <3> QED
      BY <3>1
  <2>2. ASSUME NEW b \in OfHash(h) PROVE Cardinality(OfHash(h)) <= 1
    <3>1. OfHash(h) = {b}
      BY DEF Inv, Hashed, Clean
    <3>2. Cardinality({b}) = 1
      BY FS_Singleton
    <3> QED
      BY <3>1, <3>2
  <2> QED
    BY <2>1, <2>2
<1> QED
  BY <1>1, ServerInvariant, PTL

\* The answer to a GET is never behind what the device stored itself within the
\* 30 days, whichever document of the book it comes from (resolve_best_progress).
THEOREM NeverSentBackCorrect == Spec => []NeverSentBack
<1>1. Inv => NeverSentBack
  <2> SUFFICES ASSUME Inv, NEW h \in Hashes, docs[h] # None, docs[h].link \in Live, docs[h].pct > 0
               PROVE  /\ BestProgress(docs[h].link) # None
                      /\ ~docs[h].old => BestProgress(docs[h].link) >= docs[h].pct
    BY DEF NeverSentBack
  <2> DEFINE b == docs[h].link
             recent == {d \in Siblings(b) : ~d.old}
             chosen == IF recent # {} THEN recent ELSE Siblings(b)
             from == {d.pct : d \in chosen}
  <2>1. \A d \in Siblings(b) : d \in Doc /\ d.pct \in Place
    BY DEF Siblings, Inv, TypeOK, Doc
  <2>2. docs[h] \in Siblings(b)
    BY DEF Siblings
  <2>3. chosen \subseteq Siblings(b) /\ chosen # {} /\ (~docs[h].old => docs[h] \in chosen)
    BY <2>2
  <2>4. Last \in Nat
    BY KosyncAssumption
  <2> HIDE DEF chosen
  <2>5. from \in SUBSET (0 .. Last) /\ from # {}
    BY <2>1, <2>3 DEF Place
  <2>6. BestProgress(b) = CHOOSE p \in from : \A q \in from : q <= p
    BY <2>5 DEF BestProgress, chosen
  <2>7. ~docs[h].old => docs[h].pct \in from
    BY <2>3
  <2> HIDE DEF from
  <2>8. \E p \in from : \A q \in from : q <= p
    BY <2>4, <2>5, Largest
  <2>9. BestProgress(b) \in from /\ \A q \in from : q <= BestProgress(b)
    BY <2>6, <2>8
  <2>10. BestProgress(b) \in Place
    BY <2>5, <2>9 DEF Place
  <2> QED
    BY <2>5, <2>7, <2>9, <2>10, Absent
<1> QED
  BY <1>1, ServerInvariant, PTL

\* Nothing takes a document back but the device that wrote it, one that forces
\* it, or a save of a row that changed since it was read (KOSYNC_FURTHEST_WINS).
THEOREM FurthestWinsCorrect == Spec => FurthestWins
<1>1. Inv /\ [Next]_vars =>
        [\A h \in Hashes : docs[h] # None /\ docs'[h] # None /\ docs'[h].pct < docs[h].pct
                             => MayLower(h)]_vars
  BY NextInv DEF Lowers
<1> QED
  BY <1>1, ServerInvariant, PTL DEF Spec, FurthestWins
=============================================================================
