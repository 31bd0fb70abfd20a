------------------------ MODULE PairingInboxProofs ------------------------
(***************************************************************************)
(* Theorems about PairingInbox, for any audiobooks, ebooks, requests,      *)
(* intents and bounds: who holds a detection, what a scan may undo, what   *)
(* becomes of the rows of a merge, and to how many books an ebook is       *)
(* linked.                                                                 *)
(***************************************************************************)
EXTENDS PairingInbox, FiniteSetTheorems, TLAPS

(***************************************************************************)
(* What a request has, by its intent and its step.                         *)
(***************************************************************************)
Fits(q) ==
    /\ q \in Request
    /\ q.kind = "map" => q.audio \in Audios /\ q.doc \in Docs
    /\ q.kind = "link" => q.audio \in GAudios /\ q.doc \in Docs /\ q.item \in Items
    /\ q.kind = "attach_audio" => q.audio \in Audios /\ q.seen \in Book
    /\ q.at \in {"claim", "check", "again", "renew", "commit", "undo", "complete"}
         => q.kind \in {"map", "link"}
    /\ q.at \in {"claim", "again", "renew", "undo", "complete"} => q.item \in Items
    /\ q.at = "check" => q.kind = "map"
    /\ q.at = "migrate" => q.kind = "attach_audio"

RequestsFit == \A r \in Requests : Fits(req[r])

\* Two books never have one audiobook, so a merge deletes one row.
AbsUnique ==
    \A b, c \in Ids :
        books[b] # None /\ books[c] # None /\ books[b].abs = books[c].abs /\ books[b].abs # None
          => b = c

(***************************************************************************)
(* Claims.  A request holds its detection from the claim to the end, and   *)
(* once it has committed a book the detection is its own or judged.        *)
(***************************************************************************)
Holds(q) == IF q.at \in {"check", "again", "renew", "commit", "undo", "complete"} THEN q.item ELSE None

\* A good claim is held by the request whose token it bears.
Held ==
    ~failed => \A i \in Items : det[i] # None /\ det[i].live => Holds(req[det[i].token]) = i

InTime == ~SlowRequests /\ ~failed

\* In time, what a request holds bears its token.
Owned ==
    InTime => \A r \in Requests : Holds(req[r]) # None =>
        det[Holds(req[r])] = [status |-> "processing", token |-> r, live |-> TRUE]

Judged(i) == det[i] # None /\ det[i].status \in {"resolved", "dismissed"}

\* In time, a detection of which a book was made is held by the one that made it, or judged.
Won ==
    InTime => \A i \in Items : \A r \in wins[i] :
        Judged(i) \/ (req[r].at = "complete" /\ req[r].item = i)

WonOnce == InTime => \A i \in Items : \A r, q \in wins[i] : r = q

Claims == Held /\ Owned /\ Won /\ WonOnce

Inv == TypeOK /\ RequestsFit /\ AbsUnique /\ Claims

-----------------------------------------------------------------------------
(***************************************************************************)
(* Requests from step to step.                                             *)
(***************************************************************************)
LEMMA Absent ==
    /\ \A i \in Items : i # None
    /\ \A b \in Ids : b # None
    /\ \A r \in Requests : r # None
    /\ \A a \in Audios : a # None /\ a \in Items
    /\ \A g \in GAudios : g # None /\ g \in Items
    /\ \A d \in Docs : d # None /\ d \in Items
    /\ None \notin Book /\ None \notin Detected /\ None \notin AllKinds
  BY InboxAssumption DEF Items

LEMMA IdleFits == Idle \in Request /\ Fits(Idle) /\ Done \in Request /\ Fits(Done)
                  /\ Holds(Idle) = None /\ Holds(Done) = None /\ Done.at = "done"
  BY Absent DEF Idle, Done, Fits, Request, AllKinds, Holds

Steps == {"new", "claim", "check", "again", "renew", "commit", "undo", "complete",
          "ensure", "migrate", "resolve", "done"}

\* A request at its next step is as before in all that Fits looks at.
Alike(q, n, x) ==
    /\ n \in Request /\ n.at = x
    /\ n.kind = q.kind /\ n.audio = q.audio /\ n.doc = q.doc /\ n.item = q.item /\ n.seen = q.seen

LEMMA Moved ==
  ASSUME NEW q \in Request, NEW x \in Steps, NEW b \in Ids \cup {None}
  PROVE  /\ Alike(q, [q EXCEPT !.at = x], x)
         /\ Alike(q, [q EXCEPT !.at = x, !.merge = b], x)
         /\ Alike(q, [q EXCEPT !.at = x, !.book = b], x)
<1>1. Alike(q, [q EXCEPT !.at = x], x)
  BY DEF Request, Steps, Alike
<1>2. \A n \in Request : Alike(q, n, x) => /\ Alike(q, [n EXCEPT !.merge = b], x)
                                           /\ Alike(q, [n EXCEPT !.book = b], x)
  BY DEF Request, Alike
<1>3. /\ [q EXCEPT !.at = x, !.merge = b] = [[q EXCEPT !.at = x] EXCEPT !.merge = b]
      /\ [q EXCEPT !.at = x, !.book = b] = [[q EXCEPT !.at = x] EXCEPT !.book = b]
  OBVIOUS
<1> QED
  BY <1>1, <1>2, <1>3 DEF Alike

\* The step of a request fits its intent.
LEMMA StepFits ==
  ASSUME NEW q, Fits(q), NEW x \in Steps \ {"claim"}, NEW n, Alike(q, n, x),
         x \in {"check", "again", "renew", "commit", "undo", "complete"} => q.kind \in {"map", "link"},
         x \in {"again", "renew", "undo", "complete"} => q.item # None,
         x = "check" => q.kind = "map",
         x = "migrate" => q.kind = "attach_audio"
  PROVE  Fits(n)
<1>1. q.item \in Items \cup {None}
  BY DEF Fits, Request
<1> QED
  BY <1>1 DEF Fits, Alike, Steps

\* One request moves on to new.
LEMMA MoveFits ==
  ASSUME Inv, NEW r \in Requests, NEW new, Fits(new), req' = [req EXCEPT ![r] = new]
  PROVE  /\ req' \in [Requests -> Request] /\ RequestsFit'
         /\ req'[r] = new /\ \A q \in Requests : q # r => req'[q] = req[q]
  BY DEF Inv, TypeOK, RequestsFit, Fits

(***************************************************************************)
(* Claims from step to step.                                               *)
(***************************************************************************)
\* A step that leaves the claim of a request alone.
SameClaim(q, n) ==
    Holds(n) = Holds(q) /\ (q.at = "complete" => n.at = "complete" /\ n.item = q.item)

\* Detections change that no claim is good for, and what was judged stays so.
Lenient ==
    \A i \in Items : \/ det'[i] = det[i]
                     \/ /\ det[i] # None => ~det[i].live
                        /\ det'[i] # None => ~det'[i].live
                        /\ Judged(i) => Judged(i)'

LEMMA ClaimsRest ==
  ASSUME Inv, UNCHANGED <<wins, failed>>, Lenient, \A r \in Requests : SameClaim(req[r], req'[r])
  PROVE  Claims'
<1>1. Held'
  BY Absent DEF Inv, TypeOK, Detected, Claims, Held, SameClaim, Lenient
<1>2. Owned'
  <2> SUFFICES ASSUME InTime, NEW r \in Requests, Holds(req[r]) # None
              PROVE  det'[Holds(req[r])] = [status |-> "processing", token |-> r, live |-> TRUE]
    BY DEF Owned, InTime, SameClaim
  <2>1. det[Holds(req[r])] = [status |-> "processing", token |-> r, live |-> TRUE]
    BY DEF Inv, Claims, Owned
  <2>2. Holds(req[r]) \in Items
    BY DEF Inv, TypeOK, Holds, Request
  <2>3. det[Holds(req[r])] # None /\ det[Holds(req[r])].live
    <3> DEFINE claimed == [status |-> "processing", token |-> r, live |-> TRUE]
    <3>1. claimed \in Detected /\ claimed.live
      BY DEF Detected, Statuses
    <3> HIDE DEF claimed
    <3>2. det[Holds(req[r])] = claimed
      BY <2>1 DEF claimed
    <3> QED
      BY <3>1, <3>2, Absent
  <2> QED
    BY <2>1, <2>2, <2>3 DEF Lenient
<1>3. \A i \in Items : Judged(i) => Judged(i)'
  BY DEF Judged, Lenient
<1>4. Won' /\ WonOnce'
  BY <1>3 DEF Inv, Claims, TypeOK, Won, WonOnce, InTime, SameClaim
<1> QED
  BY <1>1, <1>2, <1>4 DEF Claims

\* One request moves without touching its claim.
LEMMA MoveRests ==
  ASSUME Inv, NEW r \in Requests, NEW new, Fits(new), SameClaim(req[r], new),
         req' = [req EXCEPT ![r] = new], Lenient, UNCHANGED <<wins, failed>>
  PROVE  req' \in [Requests -> Request] /\ RequestsFit' /\ Claims'
<1>1. /\ req' \in [Requests -> Request] /\ RequestsFit'
      /\ req'[r] = new /\ \A q \in Requests : q # r => req'[q] = req[q]
  BY MoveFits
<1>2. \A q \in Requests : SameClaim(req[q], req'[q])
  BY <1>1 DEF SameClaim
<1> QED
  BY <1>1, <1>2, ClaimsRest

-----------------------------------------------------------------------------
(***************************************************************************)
(* Requests before and between their commits.                              *)
(***************************************************************************)
\* What is the same in a step of a request that only moves.
Frame == UNCHANGED <<books, link, sugg, scan, failed, events>>

LEMMA FrameInv ==
  ASSUME Inv, Frame, det' \in [Items -> Detected \cup {None}], wins' \in [Items -> SUBSET Requests],
         \A i \in Items : det'[i] # None =>
             /\ det'[i].status = "processing" <=> det'[i].token # None
             /\ det'[i].live => det'[i].status = "processing",
         req' \in [Requests -> Request], RequestsFit', Claims'
  PROVE  Inv'
<1>1. TypeOK'
  BY DEF Inv, TypeOK, Frame
<1>2. AbsUnique'
  BY DEF Inv, AbsUnique, Frame
<1> QED
  BY <1>1, <1>2 DEF Inv

\* A request moves, and nothing else happens.
LEMMA MoveInv ==
  ASSUME Inv, NEW r \in Requests, NEW new, Fits(new), SameClaim(req[r], new),
         req' = [req EXCEPT ![r] = new], Frame, UNCHANGED <<det, wins>>
  PROVE  Inv'
<1>1. req' \in [Requests -> Request] /\ RequestsFit' /\ Claims'
  BY MoveRests DEF Frame, Lenient
<1> QED
  BY <1>1, FrameInv DEF Inv, TypeOK

LEMMA PrepareMapInv ==
  ASSUME Inv, NEW r \in Requests, NEW a \in Audios, NEW d \in Docs, NEW i \in {None, a, d},
         NEW shown \in {None} \cup OfDoc(d), PrepareMap(r, a, d, i, shown)
  PROVE  Inv'
<1>1. PICK e \in {None} \cup Ids :
        /\ req' = [req EXCEPT ![r] =
              [at |-> IF i # None THEN "claim" ELSE "check", kind |-> "map", audio |-> a, doc |-> d,
               item |-> i, book |-> None, shown |-> shown, merge |-> e,
               seen |-> IF e = None THEN None ELSE books[e]]]
        /\ e # None => books[e] # None
  BY DEF PrepareMap, Set, OfDoc, Live
<1> DEFINE new == [at |-> IF i # None THEN "claim" ELSE "check", kind |-> "map", audio |-> a,
                   doc |-> d, item |-> i, book |-> None, shown |-> shown, merge |-> e,
                   seen |-> IF e = None THEN None ELSE books[e]]
<1>3. i \in Items \cup {None} /\ shown \in Ids \cup {None} /\ req[r].at = "new"
      /\ (e # None => books[e] \in Book)
  BY <1>1, Absent DEF OfDoc, Live, PrepareMap, Inv, TypeOK
<1>4. new \in Request
  BY <1>3 DEF Request, AllKinds
<1>5. Fits(new) /\ SameClaim(req[r], new)
  BY <1>3, <1>4, Absent DEF Fits, SameClaim, Holds
<1>6. req' = [req EXCEPT ![r] = new]
  BY <1>1
<1> HIDE DEF new
<1> QED
  BY <1>5, <1>6, MoveInv DEF PrepareMap, Frame, bounds

LEMMA TargetsFit == \A g, d : \A t \in Targets(g, d) : t \in Ids \cup {None}
  BY DEF Targets, OfGAudio, OfDoc, Live

LEMMA PrepareLinkInv ==
  ASSUME Inv, NEW r \in Requests, NEW g \in GAudios, NEW d \in Docs, NEW i \in {g, d},
         PrepareLink(r, g, d, i)
  PROVE  Inv'
<1>1. PICK t \in Ids \cup {None} :
        req' = [req EXCEPT ![r] =
            [at |-> "claim", kind |-> "link", audio |-> g, doc |-> d, item |-> i, book |-> None,
             shown |-> None, merge |-> t, seen |-> None]]
  BY TargetsFit DEF PrepareLink, Set
<1> DEFINE new == [at |-> "claim", kind |-> "link", audio |-> g, doc |-> d, item |-> i,
                   book |-> None, shown |-> None, merge |-> t, seen |-> None]
<1>3. i \in Items /\ req[r].at = "new"
  BY Absent DEF PrepareLink
<1>4. new \in Request
  BY <1>3 DEF Request, AllKinds
<1>5. Fits(new) /\ SameClaim(req[r], new)
  BY <1>3, <1>4, Absent DEF Fits, SameClaim, Holds
<1>6. req' = [req EXCEPT ![r] = new]
  BY <1>1
<1> HIDE DEF new
<1> QED
  BY <1>5, <1>6, MoveInv DEF PrepareLink, Frame, bounds

LEMMA CheckMergeInv ==
  ASSUME Inv, NEW r \in Requests, CheckMerge(r)
  PROVE  Inv'
<1>1. PICK x \in {"undo", "renew", "commit", "done"} :
        /\ req' = [req EXCEPT ![r] = IF x = "done" THEN Done ELSE [req[r] EXCEPT !.at = x]]
        /\ x \in {"undo", "renew"} <=> req[r].item # None
        /\ req[r].at = "check"
  BY DEF CheckMerge, Set, At
<1>2. Fits(req[r])
  BY DEF Inv, RequestsFit
<1> DEFINE new == IF x = "done" THEN Done ELSE [req[r] EXCEPT !.at = x]
<1>3. CASE x = "done"
  BY <1>1, <1>2, <1>3, IdleFits, MoveInv DEF CheckMerge, Frame, bounds, SameClaim, Holds
<1>4. CASE x # "done"
  <2>1. Alike(req[r], [req[r] EXCEPT !.at = x], x) /\ x \in Steps \ {"claim"}
    BY <1>1, <1>2, <1>4, Moved DEF Fits, Steps
  <2>2. req[r].kind = "map" /\ (x \in {"undo", "renew"} => req[r].item # None)
        /\ x \notin {"check", "again", "complete", "migrate"}
    BY <1>1, <1>2, <1>4 DEF Fits
  <2>4. Fits([req[r] EXCEPT !.at = x])
    BY <1>2, <2>1, <2>2, StepFits
  <2>3. SameClaim(req[r], [req[r] EXCEPT !.at = x])
    BY <1>1, <1>4, <2>1 DEF SameClaim, Holds, Alike
  <2> QED
    BY <1>1, <1>4, <2>4, <2>3, MoveInv DEF CheckMerge, Frame, bounds
<1> QED
  BY <1>3, <1>4

LEMMA PrepareAgainInv ==
  ASSUME Inv, NEW r \in Requests, PrepareAgain(r)
  PROVE  Inv'
<1>1. Fits(req[r]) /\ req[r] \in Request /\ req[r].at = "again"
  BY DEF Inv, RequestsFit, PrepareAgain, Fits
<1>2. ASSUME NEW t \in Ids \cup {None},
             req' = [req EXCEPT ![r] = [req[r] EXCEPT !.at = "renew", !.merge = t]]
      PROVE  Inv'
  <2>1. Alike(req[r], [req[r] EXCEPT !.at = "renew", !.merge = t], "renew")
    BY <1>1, Moved DEF Steps
  <2>2. Fits([req[r] EXCEPT !.at = "renew", !.merge = t])
    BY <1>1, <2>1, StepFits, Absent DEF Fits, Steps
  <2>3. SameClaim(req[r], [req[r] EXCEPT !.at = "renew", !.merge = t])
    BY <1>1, <2>1 DEF SameClaim, Holds, Alike
  <2> QED
    BY <1>2, <2>2, <2>3, MoveInv DEF PrepareAgain, Frame, bounds
<1>3. CASE req' = [req EXCEPT ![r] = [req[r] EXCEPT !.at = "undo"]]
  <2>1. Alike(req[r], [req[r] EXCEPT !.at = "undo"], "undo")
    BY <1>1, Moved DEF Steps
  <2>2. Fits([req[r] EXCEPT !.at = "undo"])
    BY <1>1, <2>1, StepFits, Absent DEF Fits, Steps
  <2>3. SameClaim(req[r], [req[r] EXCEPT !.at = "undo"])
    BY <1>1, <2>1 DEF SameClaim, Holds, Alike
  <2> QED
    BY <1>3, <2>2, <2>3, MoveInv DEF PrepareAgain, Frame, bounds
<1>4. \/ \E t \in Ids \cup {None} : req' = [req EXCEPT ![r] = [req[r] EXCEPT !.at = "renew", !.merge = t]]
      \/ req' = [req EXCEPT ![r] = [req[r] EXCEPT !.at = "undo"]]
  BY TargetsFit DEF PrepareAgain, Set, At
<1> QED
  BY <1>2, <1>3, <1>4

-----------------------------------------------------------------------------
(***************************************************************************)
(* Steps that take, renew or give back a claim.                            *)
(***************************************************************************)
\* A row that a claim is good for, and the token it bears.
LEMMA Tokens ==
  ASSUME Inv, NEW i \in Items, det[i] # None
  PROVE  /\ det[i] \in Detected
         /\ det[i].live => det[i].status = "processing" /\ det[i].token \in Requests
         /\ \A r \in Requests : Owns(r, i) <=> det[i].status = "processing" /\ det[i].token = r
  BY Absent DEF Inv, TypeOK, Detected, Owns

LEMMA RowFits ==
  /\ \A status \in Statuses : Unclaimed(status) \in Detected
  /\ \A status : Unclaimed(status).status = status /\ Unclaimed(status).token = None
                 /\ Unclaimed(status).live = FALSE
  BY DEF Unclaimed, Detected

LEMMA ClaimInv ==
  ASSUME Inv, NEW r \in Requests, Claim(r)
  PROVE  Inv'
<1>1. Fits(req[r]) /\ req[r] \in Request /\ req[r].at = "claim" /\ req[r].item \in Items
      /\ Holds(req[r]) = None
  BY DEF Inv, RequestsFit, Claim, Fits, Holds
<1> DEFINE i == req[r].item
           claimed == [status |-> "processing", token |-> r, live |-> TRUE]
           x == IF req[r].kind = "map" THEN "check" ELSE "again"
           new == [req[r] EXCEPT !.at = x]
<1>2. CASE ~Claimable(i)
  BY <1>1, <1>2, IdleFits, MoveInv DEF Claim, Set, Frame, bounds, SameClaim
<1>3. CASE Claimable(i)
  <2>1. claimed \in Detected /\ claimed.status = "processing" /\ claimed.token = r /\ claimed.live = TRUE
    BY DEF Detected, Statuses
  <2>2. Alike(req[r], new, x)
    BY <1>1, Moved DEF Steps
  <2>3. Fits(new)
    BY <1>1, <2>2, StepFits, Absent DEF Fits, Steps
  <2>4. Holds(new) = i
    BY <2>2 DEF Holds, Alike
  <2>5. req' = [req EXCEPT ![r] = new] /\ det' = [det EXCEPT ![i] = claimed]
    BY <1>3 DEF Claim, Set, At
  <2>12. new.at # "complete"
    BY <2>2 DEF Alike
  <2> HIDE DEF claimed, new
  <2>6. /\ req' \in [Requests -> Request] /\ RequestsFit'
        /\ req'[r] = new /\ \A q \in Requests : q # r => req'[q] = req[q]
    BY <2>3, <2>5, MoveFits
  <2>7. /\ det' \in [Items -> Detected \cup {None}]
        /\ det'[i] = claimed /\ \A j \in Items : j # i => det'[j] = det[j]
    BY <1>1, <2>1, <2>5 DEF Inv, TypeOK
  <2>8. Held'
    <3> SUFFICES ASSUME ~failed, NEW j \in Items, det'[j] # None, det'[j].live
                PROVE  Holds(req'[det'[j].token]) = j
      BY DEF Held, Claim, bounds
    <3>1. CASE j = i
      BY <3>1, <2>1, <2>4, <2>6, <2>7
    <3>2. CASE j # i
      BY <3>2, <1>1, <2>6, <2>7, Tokens, Absent DEF Inv, Claims, Held
    <3> QED
      BY <3>1, <3>2
  <2>9. Owned'
    <3> SUFFICES ASSUME InTime, NEW q \in Requests, Holds(req'[q]) # None
                PROVE  det'[Holds(req'[q])] = [status |-> "processing", token |-> q, live |-> TRUE]
      BY DEF Owned, InTime, Claim, bounds
    <3>1. CASE q = r
      BY <3>1, <2>4, <2>6, <2>7 DEF claimed
    <3>2. CASE q # r
      <4>1. det[Holds(req[q])] = [status |-> "processing", token |-> q, live |-> TRUE]
            /\ Holds(req[q]) \in Items
        BY <3>2, <2>6 DEF Inv, Claims, Owned, Holds, TypeOK, Request
      <4>2. Holds(req[q]) # i
        BY <4>1, <1>3 DEF Claimable
      <4> QED
        BY <3>2, <4>1, <4>2, <2>6, <2>7
    <3> QED
      BY <3>1, <3>2
  <2>10. InTime => wins[i] = {}
    <3> SUFFICES ASSUME InTime, NEW q \in wins[i]
                PROVE  FALSE
      OBVIOUS
    <3>1. q \in Requests /\ req[q].at = "complete" /\ req[q].item = i
      BY <1>1, <1>3 DEF Inv, TypeOK, Claims, Won, Judged, Claimable
    <3>2. det[i] = [status |-> "processing", token |-> q, live |-> TRUE]
      BY <1>1, <3>1, Absent DEF Inv, Claims, Owned, Holds
    <3> QED
      BY <3>2, <1>3 DEF Claimable
  <2>11. Won' /\ WonOnce'
    BY <1>1, <2>6, <2>7, <2>10 DEF Inv, TypeOK, Claims, Won, WonOnce, InTime, Judged, Claim, bounds
  <2> QED
    BY <2>1, <2>6, <2>7, <2>8, <2>9, <2>11, FrameInv, Absent DEF Inv, TypeOK, Claims, Claim, Frame, bounds
<1> QED
  BY <1>2, <1>3

\* A request gives its claim back, or ends it: nothing it holds stays claimed.
LEMMA ReleaseInv ==
  ASSUME Inv, NEW r \in Requests, req[r].item \in Items, Holds(req[r]) = req[r].item,
         NEW row, row \in Detected, row.live = FALSE, row.token = None, row.status # "processing",
         NEW new, Fits(new), Holds(new) = None, new.at # "complete", Set(r, new),
         det' = IF Owns(r, req[r].item) THEN [det EXCEPT ![req[r].item] = row] ELSE det,
         InTime => Owns(r, req[r].item),
         req[r].at = "complete" => row.status = "resolved",
         Frame, UNCHANGED wins
  PROVE  Inv'
<1>0. PICK i \in Items : i = req[r].item
  OBVIOUS
<1>1. /\ req' \in [Requests -> Request] /\ RequestsFit'
      /\ req'[r] = new /\ \A q \in Requests : q # r => req'[q] = req[q]
  BY MoveFits DEF Set
<1>2. /\ det' \in [Items -> Detected \cup {None}]
      /\ Owns(r, i) => det'[i] = row
      /\ ~Owns(r, i) => det'[i] = det[i]
      /\ \A j \in Items : j # i => det'[j] = det[j]
  BY <1>0 DEF Inv, TypeOK
<1>3. Held'
  <2> SUFFICES ASSUME ~failed, NEW j \in Items, det'[j] # None, det'[j].live
              PROVE  Holds(req'[det'[j].token]) = j
    BY DEF Held, Frame
  <2>1. det'[j] = det[j]
    BY <1>2
  <2>2. det[j].token \in Requests /\ Holds(req[det[j].token]) = j
    BY <2>1, Tokens DEF Inv, Claims, Held
  <2>3. det[j].token # r
    BY <2>1, <2>2, <1>0, <1>2, Tokens
  <2> QED
    BY <2>1, <2>2, <2>3, <1>1
<1>4. Owned'
  <2> SUFFICES ASSUME InTime, NEW q \in Requests, Holds(req'[q]) # None
              PROVE  det'[Holds(req'[q])] = [status |-> "processing", token |-> q, live |-> TRUE]
    BY DEF Owned, InTime, Frame
  <2>1. q # r /\ req'[q] = req[q]
    BY <1>1
  <2>2. det[Holds(req[q])] = [status |-> "processing", token |-> q, live |-> TRUE]
        /\ Holds(req[q]) \in Items
    BY <2>1 DEF Inv, Claims, Owned, Holds, TypeOK, Request
  <2>3. Holds(req[q]) # i
    BY <2>1, <2>2, <1>0, <1>2 DEF Owns
  <2> QED
    BY <2>1, <2>2, <2>3, <1>2
<1>5. \A j \in Items : j # i => (Judged(j)' <=> Judged(j))
  BY <1>2 DEF Judged
<1>6. InTime => ~Judged(i)
  BY <1>0 DEF Judged, Owns
<1>7. InTime /\ req[r].at = "complete" => Judged(i)'
  BY <1>0, <1>2, Absent DEF Judged
<1>8. Won'
  <2> SUFFICES ASSUME InTime, NEW j \in Items, NEW q \in wins[j]
              PROVE  Judged(j)' \/ (req'[q].at = "complete" /\ req'[q].item = j)
    BY DEF Won, InTime, Frame
  <2>1. q \in Requests /\ (Judged(j) \/ (req[q].at = "complete" /\ req[q].item = j))
    BY DEF Inv, TypeOK, Claims, Won
  <2>2. CASE q = r
    BY <2>1, <2>2, <1>0, <1>5, <1>6, <1>7
  <2>3. CASE q # r
    <3>1. CASE j = i
      BY <3>1, <2>1, <2>3, <1>1, <1>6
    <3>2. CASE j # i
      BY <3>2, <2>1, <2>3, <1>1, <1>5
    <3> QED
      BY <3>1, <3>2
  <2> QED
    BY <2>2, <2>3
<1>9. WonOnce'
  BY DEF Inv, Claims, WonOnce, InTime, Frame
<1> QED
  BY <1>1, <1>2, <1>3, <1>4, <1>8, <1>9, FrameInv, Absent DEF Inv, TypeOK, Claims

LEMMA OwnsInTime ==
  ASSUME Inv, NEW r \in Requests, Holds(req[r]) \in Items, InTime
  PROVE  Owns(r, Holds(req[r]))
<1>1. Holds(req[r]) # None
  BY Absent
<1> DEFINE claimed == [status |-> "processing", token |-> r, live |-> TRUE]
<1>2. claimed \in Detected /\ claimed.status = "processing" /\ claimed.token = r
  BY DEF Detected, Statuses
<1>3. det[Holds(req[r])] = claimed
  BY <1>1 DEF Inv, Claims, Owned
<1> HIDE DEF claimed
<1> QED
  BY <1>2, <1>3, Absent DEF Owns

LEMMA UndoInv ==
  ASSUME Inv, NEW r \in Requests, Undo(r)
  PROVE  Inv'
<1>1. req[r].at = "undo" /\ req[r].item \in Items /\ Holds(req[r]) = req[r].item
  BY DEF Inv, RequestsFit, Undo, Fits, Holds
<1>2. InTime => Owns(r, req[r].item)
  BY <1>1, OwnsInTime
<1>3. Set(r, Done) /\ Fits(Done) /\ Holds(Done) = None /\ Done.at # "complete"
  BY IdleFits DEF Undo
<1>4. det' = IF Owns(r, req[r].item) THEN [det EXCEPT ![req[r].item] = Unclaimed("detected")] ELSE det
  BY <1>1, Absent DEF Undo, Restored
<1>5. Unclaimed("detected") \in Detected /\ Unclaimed("detected").live = FALSE
      /\ Unclaimed("detected").token = None /\ Unclaimed("detected").status # "processing"
  BY RowFits DEF Statuses
<1>6. Frame /\ UNCHANGED wins
  BY DEF Undo, Frame, bounds
<1> QED
  BY <1>1, <1>2, <1>3, <1>4, <1>5, <1>6, ReleaseInv

LEMMA RenewInv ==
  ASSUME Inv, NEW r \in Requests, Renew(r)
  PROVE  Inv'
<1>1. req[r].at = "renew" /\ req[r].item \in Items /\ Holds(req[r]) = req[r].item /\ Fits(req[r])
      /\ req[r] \in Request
  BY DEF Inv, RequestsFit, Renew, Fits, Holds
<1>2. InTime => Owns(r, req[r].item)
  BY <1>1, OwnsInTime
<1>3. Frame /\ UNCHANGED wins
  BY DEF Renew, Frame, bounds
<1>4. CASE ~Owns(r, req[r].item)
  <2>1. Set(r, Done) /\ Fits(Done) /\ Holds(Done) = None /\ Done.at # "complete"
    BY <1>4, IdleFits DEF Renew
  <2>2. Unclaimed("detected") \in Detected /\ Unclaimed("detected").live = FALSE
        /\ Unclaimed("detected").token = None /\ Unclaimed("detected").status # "processing"
    BY RowFits DEF Statuses
  <2>3. det' = det
    BY <1>4 DEF Renew
  <2> QED
    BY <1>1, <1>2, <1>3, <1>4, <2>1, <2>2, <2>3, ReleaseInv
<1>5. CASE Owns(r, req[r].item)
  <2>1. PICK i \in Items : i = req[r].item
    BY <1>1
  <2> DEFINE new == [req[r] EXCEPT !.at = "commit"]
  <2>2. Alike(req[r], new, "commit")
    BY <1>1, Moved DEF Steps
  <2>3. Fits(new)
    BY <1>1, <2>2, StepFits, Absent DEF Fits, Steps
  <2>4. SameClaim(req[r], new)
    BY <1>1, <2>2 DEF SameClaim, Holds, Alike
  <2>5. det[i] # None /\ det[i].status = "processing" /\ det[i].token = r /\ det[i] \in Detected
    BY <1>5, <2>1 DEF Owns, Inv, TypeOK
  <2>6. /\ det' \in [Items -> Detected \cup {None}]
        /\ det'[i] \in Detected /\ det'[i].status = "processing" /\ det'[i].token = r
        /\ det'[i].live = TRUE /\ \A j \in Items : j # i => det'[j] = det[j]
    <3>1. det' = [det EXCEPT ![i].live = TRUE]
      BY <1>5, <2>1 DEF Renew
    <3>2. [det[i] EXCEPT !.live = TRUE] \in Detected
          /\ [det[i] EXCEPT !.live = TRUE].status = "processing"
          /\ [det[i] EXCEPT !.live = TRUE].token = r /\ [det[i] EXCEPT !.live = TRUE].live = TRUE
      BY <2>5 DEF Detected
    <3> QED
      BY <3>1, <3>2 DEF Inv, TypeOK
  <2>7. InTime => det'[i] = det[i]
    <3> SUFFICES ASSUME InTime
                PROVE  det'[i] = det[i]
      OBVIOUS
    <3> DEFINE claimed == [status |-> "processing", token |-> r, live |-> TRUE]
    <3>1. det[i] = claimed
      BY <1>1, <2>1, Absent DEF Inv, Claims, Owned
    <3>2. \A row \in Detected : row.status = "processing" /\ row.token = r /\ row.live = TRUE
                                  => row = claimed
      BY DEF Detected
    <3> HIDE DEF claimed
    <3> QED
      BY <3>1, <3>2, <2>6
  <2>8. req' = [req EXCEPT ![r] = new]
    BY <1>5 DEF Renew, Set, At
  <2> HIDE DEF new
  <2>9. /\ req' \in [Requests -> Request] /\ RequestsFit'
        /\ req'[r] = new /\ \A q \in Requests : q # r => req'[q] = req[q]
    BY <2>3, <2>8, MoveFits
  <2>10. \A q \in Requests : SameClaim(req[q], req'[q])
    BY <2>4, <2>9 DEF SameClaim
  <2>11. Held'
    <3> SUFFICES ASSUME ~failed, NEW j \in Items, det'[j] # None, det'[j].live
                PROVE  Holds(req'[det'[j].token]) = j
      BY <1>3 DEF Held, Frame
    <3>1. CASE j = i
      BY <3>1, <1>1, <2>1, <2>4, <2>6, <2>9 DEF SameClaim
    <3>2. CASE j # i
      BY <3>2, <2>6, <2>10, Tokens DEF Inv, Claims, Held, SameClaim
    <3> QED
      BY <3>1, <3>2
  <2>12. InTime => \A j \in Items : det'[j] = det[j]
    BY <2>6, <2>7
  <2>13. Owned'
    <3> SUFFICES ASSUME InTime, NEW q \in Requests, Holds(req'[q]) # None
                PROVE  det'[Holds(req'[q])] = [status |-> "processing", token |-> q, live |-> TRUE]
      BY <1>3 DEF Owned, InTime, Frame
    <3>1. Holds(req[q]) # None /\ Holds(req[q]) = Holds(req'[q]) /\ Holds(req[q]) \in Items
      BY <2>10 DEF SameClaim, Holds, Inv, TypeOK, Request
    <3> QED
      BY <3>1, <2>12 DEF Inv, Claims, Owned
  <2>14. Won' /\ WonOnce'
    BY <1>3, <2>10, <2>12 DEF Inv, TypeOK, Claims, Won, WonOnce, InTime, Judged, SameClaim, Frame
  <2> QED
    BY <1>3, <2>6, <2>9, <2>11, <2>13, <2>14, FrameInv, Absent DEF Inv, TypeOK, Claims
<1> QED
  BY <1>4, <1>5

LEMMA CompleteInv ==
  ASSUME Inv, NEW r \in Requests, Complete(r)
  PROVE  Inv'
<1>1. req[r].at = "complete" /\ req[r].item \in Items /\ Holds(req[r]) = req[r].item /\ Fits(req[r])
      /\ req[r] \in Request
  BY DEF Inv, RequestsFit, Complete, Fits, Holds
<1>2. InTime => Owns(r, req[r].item)
  BY <1>1, OwnsInTime
<1> DEFINE x == IF req[r].kind = "map" THEN "ensure" ELSE "resolve"
           new == [req[r] EXCEPT !.at = x]
<1>3. Unclaimed("resolved") \in Detected /\ Unclaimed("resolved").live = FALSE
      /\ Unclaimed("resolved").token = None /\ Unclaimed("resolved").status = "resolved"
  BY RowFits DEF Statuses
<1>4. CASE Owns(r, req[r].item) /\ det' = [det EXCEPT ![req[r].item] = Unclaimed("resolved")]
           /\ Set(r, new) /\ UNCHANGED bounds
  <2>1. Alike(req[r], new, x)
    BY <1>1, Moved DEF Steps
  <2>2. Fits(new) /\ Holds(new) = None /\ new.at # "complete"
    BY <1>1, <2>1, StepFits DEF Fits, Steps, Holds, Alike
  <2>3. Frame /\ UNCHANGED wins
    BY <1>4 DEF Complete, Frame, bounds
  <2> HIDE DEF new
  <2> QED
    BY <1>1, <1>2, <1>3, <1>4, <2>2, <2>3, ReleaseInv
<1>5. CASE ~Owns(r, req[r].item) /\ Set(r, Done) /\ UNCHANGED <<det, bounds>>
  <2>1. Frame /\ UNCHANGED wins
    BY <1>5 DEF Complete, Frame, bounds
  <2> QED
    BY <1>1, <1>2, <1>3, <1>5, <2>1, IdleFits, ReleaseInv
<1>6. CASE Event /\ failed' = TRUE /\ Set(r, Done) /\ UNCHANGED det
  <2>1. req' \in [Requests -> Request] /\ RequestsFit'
    BY <1>6, IdleFits, MoveFits DEF Set
  <2>2. Claims'
    BY <1>6 DEF Claims, Held, Owned, Won, WonOnce, InTime
  <2>3. events' \in 0 .. MaxEvents /\ failed' \in BOOLEAN
    BY <1>6, InboxAssumption DEF Event, Inv, TypeOK
  <2>4. TypeOK'
    BY <1>6, <2>1, <2>3 DEF Inv, TypeOK, Complete
  <2>5. AbsUnique'
    BY DEF Inv, AbsUnique, Complete
  <2> QED
    BY <2>1, <2>2, <2>4, <2>5 DEF Inv
<1> QED
  BY <1>4, <1>5, <1>6 DEF Complete, At

-----------------------------------------------------------------------------
(***************************************************************************)
(* Books and links.                                                        *)
(***************************************************************************)
LEMMA NewBookFits ==
  ASSUME NEW b \in Ids, NEW a \in Audios \cup {None}, NEW d \in Docs \cup {None},
         NEW g \in GAudios \cup {None}
  PROVE  NewBook(b, a, d, g) \in Book /\ NewBook(b, a, d, g).abs = a /\ NewBook(b, a, d, g).doc = d
  BY DEF NewBook, Book

LEMMA BookWith ==
  ASSUME NEW row \in Book, NEW d \in Docs \cup {None}, NEW g \in GAudios \cup {None}
  PROVE  /\ [row EXCEPT !.doc = d] \in Book /\ [row EXCEPT !.doc = d].abs = row.abs
         /\ [row EXCEPT !.gaudio = g] \in Book /\ [row EXCEPT !.gaudio = g].abs = row.abs
  BY DEF Book

\* The books and the links fit, and an audiobook still has one book.
BooksFit ==
    /\ books \in [Ids -> Book \cup {None}]
    /\ link \in [Docs -> Ids \cup {None}]
    /\ AbsUnique

\* No row is deleted.
RowsStay == \A b \in Ids : books[b] # None => books'[b] # None

\* One row is written, for an audiobook that no other row has.
LEMMA UniqueSaved ==
  ASSUME Inv, NEW b \in Ids, NEW row \in Book, books' = [books EXCEPT ![b] = row],
         row.abs = None \/ OfAbs(row.abs) \subseteq {b}
  PROVE  books' \in [Ids -> Book \cup {None}] /\ AbsUnique' /\ RowsStay
<1>1. books' \in [Ids -> Book \cup {None}] /\ books'[b] = row
      /\ \A c \in Ids : c # b => books'[c] = books[c]
  BY DEF Inv, TypeOK
<1>2. AbsUnique'
  BY <1>1 DEF Inv, AbsUnique, OfAbs, Live
<1> QED
  BY <1>1, <1>2, Absent DEF RowsStay

LEMMA Unshared ==
  ASSUME Inv, NEW b \in Ids, books[b] # None, books[b].abs # None
  PROVE  OfAbs(books[b].abs) \subseteq {b}
  BY DEF Inv, AbsUnique, OfAbs, Live

LEMMA SavedByAbsFits ==
  ASSUME Inv, NEW a \in Audios, NEW d \in Docs \cup {None}, NEW b \in Ids,
         b \in OfAbs(a) \/ OfAbs(a) = {}, books' = SavedByAbs(books, b, a, d)
  PROVE  books' \in [Ids -> Book \cup {None}] /\ AbsUnique' /\ RowsStay
<1> DEFINE row == IF books[b] = None THEN NewBook(b, a, d, None)
                  ELSE [books[b] EXCEPT !.doc = d, !.gaudio = None]
<1>1. books' = [books EXCEPT ![b] = row]
  BY DEF SavedByAbs
<1>2. row \in Book /\ row.abs = IF books[b] = None THEN a ELSE books[b].abs
  <2>1. NewBook(b, a, d, None) \in Book /\ NewBook(b, a, d, None).abs = a
    BY NewBookFits
  <2>2. ASSUME books[b] # None
        PROVE  /\ [books[b] EXCEPT !.doc = d, !.gaudio = None] \in Book
               /\ [books[b] EXCEPT !.doc = d, !.gaudio = None].abs = books[b].abs
    <3>1. books[b] \in Book
      BY <2>2 DEF Inv, TypeOK
    <3>2. [books[b] EXCEPT !.doc = d] \in Book /\ [books[b] EXCEPT !.doc = d].abs = books[b].abs
      BY <3>1, BookWith
    <3>3. [books[b] EXCEPT !.doc = d, !.gaudio = None] = [[books[b] EXCEPT !.doc = d] EXCEPT !.gaudio = None]
      OBVIOUS
    <3> QED
      BY <3>2, <3>3, BookWith
  <2> QED
    BY <2>1, <2>2
<1>3. row.abs = None \/ OfAbs(row.abs) \subseteq {b}
  <2>1. CASE books[b] = None
    BY <2>1, <1>2 DEF OfAbs, Live
  <2>2. CASE books[b] # None
    BY <2>2, <1>2, Unshared
  <2> QED
    BY <2>1, <2>2
<1> HIDE DEF row
<1> QED
  BY <1>1, <1>2, <1>3, UniqueSaved

LEMMA EnsuredFits ==
  ASSUME Inv, NEW b \in Ids \cup {None}, NEW d \in Docs \cup {None}, link' = Ensured(b, d)
  PROVE  link' \in [Docs -> Ids \cup {None}]
  BY DEF Inv, TypeOK, Ensured

LEMMA RelinkedFits ==
  ASSUME Inv, NEW s \in Ids, NEW a, link' = Relinked(s, a)
  PROVE  link' \in [Docs -> Ids \cup {None}]
  BY DEF Inv, TypeOK, Relinked

\* What a merge does: the row that goes, if there is one, and the row that stays.
LEMMA Merged ==
  ASSUME Inv, NEW s \in Ids, books[s] # None, NEW a \in Audios, NEW d \in Docs \cup {None},
         books' = Migrated(books, s, a, d)
  PROVE  /\ books' \in [Ids -> Book \cup {None}]
         /\ books'[s] # None /\ books'[s].abs = a
         /\ \A b \in Ids : b # s => books'[b] = IF b \in OfAbs(a) THEN None ELSE books[b]
         /\ \A t \in OfAbs(a) \ {s} :
              /\ books'[s].kids = books[s].kids \cup books[t].kids
              /\ books'[s].one = IF books[s].one = None THEN books[t].one ELSE books[s].one
<1> DEFINE T == {b \in Ids : books[b] # None /\ books[b].abs = a} \ {s}
<1>1. T = OfAbs(a) \ {s} /\ T \subseteq Ids /\ s \notin T
  BY DEF OfAbs, Live
<1>2. \A t, u \in T : t = u
  BY Absent DEF Inv, AbsUnique
<1>3. CASE T = {}
  <2> DEFINE row == [books[s] EXCEPT !.abs = a, !.doc = d]
  <2>1. row \in Book /\ row.abs = a
    <3>1. [books[s] EXCEPT !.abs = a] \in Book /\ [books[s] EXCEPT !.abs = a].abs = a
      BY DEF Inv, TypeOK, Book
    <3>2. \A new \in Book : [new EXCEPT !.doc = d] \in Book /\ [new EXCEPT !.doc = d].abs = new.abs
      BY DEF Book
    <3>3. row = [[books[s] EXCEPT !.abs = a] EXCEPT !.doc = d]
      OBVIOUS
    <3> QED
      BY <3>1, <3>2, <3>3
  <2>2. books' = [b \in Ids |-> IF b = s THEN row ELSE books[b]]
    BY <1>3 DEF Migrated
  <2> HIDE DEF row, T
  <2>3. books' \in [Ids -> Book \cup {None}] /\ books'[s] = row
        /\ \A b \in Ids : b # s => books'[b] = books[b]
    BY <2>1, <2>2 DEF Inv, TypeOK
  <2> QED
    BY <1>1, <1>3, <2>1, <2>3, Absent
<1>4. CASE T # {}
  <2>1. PICK t \in T : t = CHOOSE u \in T : TRUE
    BY <1>4
  <2> DEFINE row == [abs |-> a, doc |-> d,
                     gaudio |-> IF books[t].gaudio # None THEN books[t].gaudio ELSE books[s].gaudio,
                     kids |-> books[s].kids \cup books[t].kids,
                     one |-> Unique(books[s], books[t])]
  <2>2. books[t] \in Book /\ books[s] \in Book
    BY DEF Inv, TypeOK
  <2>3. row \in Book /\ row.abs = a /\ row.kids = books[s].kids \cup books[t].kids
        /\ row.one = IF books[s].one = None THEN books[t].one ELSE books[s].one
    BY <2>2 DEF Book, Unique
  <2>4. books' = [b \in Ids |-> IF b \in T THEN None ELSE IF b = s THEN row ELSE books[b]]
    BY <1>1, <1>4, <2>1 DEF Migrated
  <2> HIDE DEF row, T
  <2>5. books' \in [Ids -> Book \cup {None}] /\ books'[s] = row
        /\ \A b \in Ids : b # s => books'[b] = IF b \in T THEN None ELSE books[b]
    BY <1>1, <2>3, <2>4 DEF Inv, TypeOK
  <2> QED
    BY <1>1, <1>2, <2>3, <2>5, Absent
<1> QED
  BY <1>3, <1>4

LEMMA MergedUnique ==
  ASSUME Inv, NEW s \in Ids, books[s] # None, NEW a \in Audios, NEW d \in Docs \cup {None},
         books' = Migrated(books, s, a, d)
  PROVE  AbsUnique'
<1>1. /\ books'[s].abs = a
      /\ \A b \in Ids : b # s => books'[b] = IF b \in OfAbs(a) THEN None ELSE books[b]
  BY Merged
<1> QED
  BY <1>1 DEF Inv, AbsUnique, OfAbs, Live

-----------------------------------------------------------------------------
(***************************************************************************)
(* Commits.                                                                *)
(***************************************************************************)
\* A request commits a book: no other one has a claim on the detection it holds.
LEMMA CommittedInv ==
  ASSUME Inv, NEW r \in Requests, req[r].at = "commit", NEW b \in Ids, Committed(r, b),
         BooksFit', UNCHANGED <<det, sugg, scan, bounds>>
  PROVE  Inv'
<1>1. Fits(req[r]) /\ req[r] \in Request /\ Holds(req[r]) = req[r].item
      /\ req[r].kind \in {"map", "link"} /\ req[r].item \in Items \cup {None}
  BY DEF Inv, RequestsFit, Fits, Holds, Request
<1>2. PICK i \in Items \cup {None} : i = req[r].item
  BY <1>1
<1> DEFINE x == IF i = None THEN "ensure" ELSE "complete"
           new == [req[r] EXCEPT !.at = x, !.book = b]
<1>3. Alike(req[r], new, x)
  BY <1>1, Moved DEF Steps
<1>4. Fits(new) /\ Holds(new) = i
  BY <1>1, <1>2, <1>3, StepFits DEF Fits, Steps, Holds, Alike
<1>5. req' = [req EXCEPT ![r] = new]
  BY <1>2, Zenon DEF Committed, Set, At
<1>6. new.at = x /\ new.item = i
  BY <1>2, <1>3 DEF Alike
<1> HIDE DEF new
<1>7. /\ req' \in [Requests -> Request] /\ RequestsFit'
      /\ req'[r] = new /\ \A q \in Requests : q # r => req'[q] = req[q]
  BY <1>4, <1>5, MoveFits
<1>8. Held' /\ Owned'
  <2>1. \A q \in Requests : Holds(req'[q]) = Holds(req[q])
    BY <1>1, <1>2, <1>4, <1>7
  <2> QED
    BY <2>1, Tokens DEF Inv, Claims, Held, Owned, InTime, bounds
<1>9. InTime /\ i # None => wins[i] = {}
  <2> SUFFICES ASSUME InTime, i # None, NEW q \in wins[i]
              PROVE  FALSE
    OBVIOUS
  <2>1. Owns(r, i)
    BY <1>1, <1>2, OwnsInTime
  <2>2. q \in Requests /\ req[q].at = "complete" /\ req[q].item = i
    BY <2>1, <1>2 DEF Inv, TypeOK, Claims, Won, Judged, Owns
  <2>3. Owns(q, i)
    BY <1>2, <2>2, OwnsInTime DEF Holds
  <2> QED
    BY <2>1, <2>2, <2>3 DEF Owns
<1>10. /\ wins' \in [Items -> SUBSET Requests]
       /\ \A j \in Items : wins'[j] = IF j = i THEN wins[i] \cup {r} ELSE wins[j]
  BY <1>2, Absent DEF Committed, Inv, TypeOK
<1>11. \A q \in Requests : req[q].at = "complete" => req'[q].at = "complete" /\ req'[q].item = req[q].item
  BY <1>7
<1>12. Won'
  <2> SUFFICES ASSUME InTime, NEW j \in Items, NEW q \in wins'[j]
              PROVE  Judged(j)' \/ (req'[q].at = "complete" /\ req'[q].item = j)
    BY DEF Won, InTime, bounds
  <2>1. CASE j = i
    BY <2>1, <1>2, <1>6, <1>7, <1>9, <1>10, Absent
  <2>2. CASE j # i
    <3>1. q \in wins[j] /\ q \in Requests
      BY <2>2, <1>10 DEF Inv, TypeOK
    <3>2. Judged(j) \/ (req[q].at = "complete" /\ req[q].item = j)
      BY <3>1 DEF Inv, Claims, Won
    <3> QED
      BY <3>1, <3>2, <1>11 DEF Judged
  <2> QED
    BY <2>1, <2>2
<1>13. WonOnce'
  BY <1>9, <1>10, Absent DEF Inv, Claims, WonOnce, InTime, bounds
<1>14. TypeOK'
  BY <1>7, <1>10 DEF Inv, TypeOK, BooksFit, bounds
<1> QED
  BY <1>7, <1>8, <1>12, <1>13, <1>14 DEF Inv, Claims, BooksFit

\* A request changes books and links without touching a claim.
LEMMA SaveInv ==
  ASSUME Inv, NEW r \in Requests, NEW new, Fits(new), SameClaim(req[r], new), Set(r, new),
         BooksFit', UNCHANGED <<det, sugg, scan, wins, bounds>>
  PROVE  Inv'
<1>1. req' \in [Requests -> Request] /\ RequestsFit' /\ Claims'
  BY MoveRests DEF Set, bounds, Lenient
<1>2. TypeOK'
  BY <1>1 DEF Inv, TypeOK, BooksFit, bounds
<1> QED
  BY <1>1, <1>2 DEF Inv, BooksFit

LEMMA CommitSaveInv ==
  ASSUME Inv, NEW r \in Requests, CommitSave(r)
  PROVE  Inv' /\ RowsStay
<1>1. req[r].at = "commit" /\ req[r].audio \in Audios /\ req[r].doc \in Docs
  BY DEF Inv, RequestsFit, CommitSave, Fits
<1>2. PICK b \in Ids : /\ b \in OfAbs(req[r].audio) \/ OfAbs(req[r].audio) = {}
                       /\ books' = SavedByAbs(books, b, req[r].audio, req[r].doc)
                       /\ link' = Ensured(b, req[r].doc)
                       /\ Committed(r, b)
  BY DEF CommitSave, OfAbs, Live
<1>3. books' \in [Ids -> Book \cup {None}] /\ AbsUnique' /\ RowsStay
  BY <1>1, <1>2, SavedByAbsFits
<1>4. link' \in [Docs -> Ids \cup {None}]
  BY <1>1, <1>2, EnsuredFits
<1> QED
  BY <1>1, <1>2, <1>3, <1>4, CommittedInv DEF CommitSave, BooksFit

LEMMA CommitMergeInv ==
  ASSUME Inv, NEW r \in Requests, CommitMerge(r)
  PROVE  Inv'
<1>1. req[r].at = "commit" /\ req[r].kind = "map" /\ req[r].audio \in Audios /\ req[r].doc \in Docs
      /\ req[r].merge \in Ids /\ req[r] \in Request /\ Fits(req[r])
      /\ Holds(req[r]) = req[r].item
  BY DEF Inv, RequestsFit, CommitMerge, Fits, Request, Holds
<1>2. CASE Unchanged(r)
  <2>1. books[req[r].merge] # None
    BY <1>2 DEF Unchanged
  <2>2. books' = Migrated(books, req[r].merge, req[r].audio, req[r].doc)
        /\ link' = Relinked(req[r].merge, req[r].audio) /\ Committed(r, req[r].merge)
    BY <1>2 DEF CommitMerge
  <2>3. books' \in [Ids -> Book \cup {None}] /\ AbsUnique' /\ link' \in [Docs -> Ids \cup {None}]
    BY <1>1, <2>1, <2>2, Merged, MergedUnique, RelinkedFits
  <2> QED
    BY <1>1, <2>2, <2>3, CommittedInv DEF CommitMerge, BooksFit
<1>3. CASE ~Unchanged(r) /\ req[r].item = None
  <2>1. SameClaim(req[r], Done) /\ Set(r, Done)
    BY <1>1, <1>3, IdleFits DEF SameClaim, CommitMerge
  <2>2. BooksFit'
    BY <1>3 DEF CommitMerge, Inv, TypeOK, AbsUnique, BooksFit
  <2> QED
    BY <1>3, <2>1, <2>2, IdleFits, SaveInv DEF CommitMerge
<1>4. CASE ~Unchanged(r) /\ req[r].item # None
  <2> DEFINE new == [req[r] EXCEPT !.at = "undo"]
  <2>1. Alike(req[r], new, "undo")
    BY <1>1, Moved DEF Steps
  <2>5. Fits(new)
    BY <1>1, <1>4, <2>1, StepFits DEF Steps
  <2>2. Fits(new) /\ SameClaim(req[r], new)
    BY <1>1, <2>1, <2>5 DEF SameClaim, Holds, Alike
  <2>3. Set(r, new)
    BY <1>4 DEF CommitMerge, At
  <2>4. BooksFit'
    BY <1>4 DEF CommitMerge, Inv, TypeOK, AbsUnique, BooksFit
  <2> HIDE DEF new
  <2> QED
    BY <1>4, <2>2, <2>3, <2>4, SaveInv DEF CommitMerge
<1> QED
  BY <1>2, <1>3, <1>4

LEMMA CommitOwnedInv ==
  ASSUME Inv, NEW r \in Requests, CommitOwned(r)
  PROVE  Inv' /\ RowsStay
<1>1. req[r].at = "commit" /\ req[r].kind = "link" /\ req[r].audio \in GAudios /\ req[r].doc \in Docs
      /\ req[r].merge \in Ids \cup {None} /\ req[r] \in Request /\ Fits(req[r])
      /\ Holds(req[r]) = req[r].item /\ req[r].item \in Items
  BY DEF Inv, RequestsFit, CommitOwned, Fits, Request, Holds
<1>0. PICK d \in Docs, g \in GAudios, t \in Ids \cup {None} :
        d = req[r].doc /\ g = req[r].audio /\ t = req[r].merge
  BY <1>1
<1>2. CASE MayOwn(t, d, g)
  <2>1. PICK b \in Ids : /\ t # None => b = t /\ books[b] # None
                         /\ books' = [books EXCEPT ![b] = IF t = None THEN NewBook(b, None, d, g)
                                                          ELSE [@ EXCEPT !.doc = d, !.gaudio = g]]
                         /\ link' = [link EXCEPT ![d] = b]
                         /\ Committed(r, b)
    BY <1>0, <1>1, <1>2 DEF CommitOwned, MayOwn
  <2> DEFINE row == IF t = None THEN NewBook(b, None, d, g)
                    ELSE [books[b] EXCEPT !.doc = d, !.gaudio = g]
  <2>2. row \in Book /\ (row.abs = None \/ OfAbs(row.abs) \subseteq {b})
    <3>1. CASE t = None
      <4>1. NewBook(b, None, d, g) \in Book /\ NewBook(b, None, d, g).abs = None
        BY NewBookFits
      <4> QED
        BY <3>1, <4>1
    <3>2. CASE t # None
      <4>1. books[b] \in Book /\ books[b] # None
        BY <3>2, <2>1 DEF Inv, TypeOK
      <4>2. row = [[books[b] EXCEPT !.doc = d] EXCEPT !.gaudio = g]
        BY <3>2
      <4>3. [books[b] EXCEPT !.doc = d] \in Book /\ [books[b] EXCEPT !.doc = d].abs = books[b].abs
        BY <4>1, BookWith
      <4> HIDE DEF row
      <4>4. row \in Book /\ row.abs = books[b].abs
        BY <4>2, <4>3, BookWith
      <4> QED
        BY <4>1, <4>4, Unshared
    <3> QED
      BY <3>1, <3>2
  <2>3. books' = [books EXCEPT ![b] = row]
    BY <2>1
  <2>4. link' \in [Docs -> Ids \cup {None}]
    BY <2>1 DEF Inv, TypeOK
  <2> HIDE DEF row
  <2>5. books' \in [Ids -> Book \cup {None}] /\ AbsUnique' /\ RowsStay
    BY <2>2, <2>3, UniqueSaved
  <2> QED
    BY <1>1, <2>1, <2>4, <2>5, CommittedInv DEF CommitOwned, BooksFit
<1>3. CASE ~MayOwn(t, d, g)
  <2> DEFINE new == [req[r] EXCEPT !.at = "undo"]
  <2>1. Alike(req[r], new, "undo")
    BY <1>1, Moved DEF Steps
  <2>5. req[r].item # None /\ "undo" \in Steps \ {"claim"}
    BY <1>1, Absent DEF Steps
  <2>6. Fits(new)
    BY <1>1, <2>1, <2>5, StepFits
  <2>2. Fits(new) /\ SameClaim(req[r], new)
    BY <1>1, <2>1, <2>6 DEF SameClaim, Holds, Alike
  <2>3. Set(r, new)
    BY <1>0, <1>3 DEF CommitOwned, At
  <2>4. BooksFit' /\ RowsStay
    BY <1>0, <1>3 DEF CommitOwned, Inv, TypeOK, AbsUnique, BooksFit, RowsStay
  <2> HIDE DEF new
  <2> QED
    BY <1>0, <1>3, <2>2, <2>3, <2>4, SaveInv DEF CommitOwned
<1> QED
  BY <1>2, <1>3

-----------------------------------------------------------------------------
(***************************************************************************)
(* The other steps of requests.                                            *)
(***************************************************************************)
LEMMA EnsureInv ==
  ASSUME Inv, NEW r \in Requests, Ensure(r)
  PROVE  Inv'
<1>1. req[r].at = "ensure" /\ req[r] \in Request /\ Fits(req[r])
      /\ req[r].book \in Ids \cup {None} /\ req[r].doc \in Docs \cup {None}
  BY DEF Inv, RequestsFit, Ensure, Fits, Request
<1> DEFINE x == IF req[r].kind = "attach_audio" THEN "migrate" ELSE "resolve"
           new == [req[r] EXCEPT !.at = x]
<1>2. Alike(req[r], new, x) /\ x \in Steps \ {"claim"}
  BY <1>1, Moved DEF Steps
<1>3. Fits(new)
  BY <1>1, <1>2, StepFits
<1>4. SameClaim(req[r], new)
  BY <1>1, <1>2 DEF SameClaim, Holds, Alike
<1>5. BooksFit'
  <2>1. link' \in [Docs -> Ids \cup {None}]
    BY <1>1, EnsuredFits DEF Ensure
  <2> QED
    BY <2>1 DEF Ensure, Inv, TypeOK, AbsUnique, BooksFit
<1>6. Set(r, new)
  BY DEF Ensure, At
<1> HIDE DEF new
<1> QED
  BY <1>3, <1>4, <1>5, <1>6, SaveInv DEF Ensure

LEMMA MigrateSourceInv ==
  ASSUME Inv, NEW r \in Requests, MigrateSource(r)
  PROVE  Inv'
<1>1. req[r].at = "migrate" /\ req[r] \in Request /\ Fits(req[r])
      /\ req[r].doc \in Docs \cup {None} /\ req[r].audio \in Audios
  BY DEF Inv, RequestsFit, MigrateSource, Fits, Request
<1> DEFINE new == [req[r] EXCEPT !.at = "resolve"]
<1>2. Alike(req[r], new, "resolve") /\ "resolve" \in Steps \ {"claim"}
  BY <1>1, Moved DEF Steps
<1>3. Fits(new)
  BY <1>1, <1>2, StepFits
<1>4. SameClaim(req[r], new)
  BY <1>1, <1>2 DEF SameClaim, Holds, Alike
<1>5. BooksFit'
  <2>1. CASE UNCHANGED <<books, link>>
    BY <2>1 DEF Inv, TypeOK, AbsUnique, BooksFit
  <2>2. ASSUME NEW s \in OfAbs(req[r].seen.abs),
               books' = Migrated(books, s, req[r].audio, req[r].doc), link' = Relinked(s, req[r].audio)
        PROVE  BooksFit'
    <3>1. s \in Ids /\ books[s] # None
      BY DEF OfAbs, Live
    <3> QED
      BY <1>1, <2>2, <3>1, Merged, MergedUnique, RelinkedFits DEF BooksFit
  <2> QED
    BY <2>1, <2>2 DEF MigrateSource
<1>6. Set(r, new)
  BY DEF MigrateSource, At
<1> HIDE DEF new
<1> QED
  BY <1>3, <1>4, <1>5, <1>6, SaveInv DEF MigrateSource

\* A request that starts by saving a book.
LEMMA StartInv ==
  ASSUME Inv, NEW r \in Requests, req[r].at = "new", NEW new, Fits(new), new.at = "ensure", Set(r, new),
         BooksFit', UNCHANGED <<det, sugg, scan, wins, bounds>>
  PROVE  Inv'
<1>1. SameClaim(req[r], new)
  BY Absent DEF SameClaim, Holds
<1> QED
  BY <1>1, SaveInv

LEMMA StartFits ==
  ASSUME NEW kind \in {"audio_only", "ebook_only", "attach_ebook"}, NEW a \in Audios \cup {None},
         NEW d \in Docs \cup {None}, NEW b \in Ids
  PROVE  Fits([at |-> "ensure", kind |-> kind, audio |-> a, doc |-> d, item |-> None, book |-> b,
               shown |-> None, merge |-> None, seen |-> None])
  BY DEF Fits, Request, AllKinds

LEMMA ImportAudioInv ==
  ASSUME Inv, NEW r \in Requests, NEW a \in Audios, ImportAudio(r, a)
  PROVE  Inv' /\ RowsStay
<1>1. PICK b \in Ids : /\ b \in OfAbs(a) \/ OfAbs(a) = {}
                       /\ books' = SavedByAbs(books, b, a, None)
                       /\ Start(r, "audio_only", a, None, b)
  BY DEF ImportAudio, OfAbs, Live
<1>2. books' \in [Ids -> Book \cup {None}] /\ AbsUnique' /\ RowsStay
  BY <1>1, SavedByAbsFits
<1> DEFINE new == [at |-> "ensure", kind |-> "audio_only", audio |-> a, doc |-> None, item |-> None,
                   book |-> b, shown |-> None, merge |-> None, seen |-> None]
<1>3. Fits(new)
  BY StartFits
<1>4. new.at = "ensure" /\ Set(r, new)
  BY <1>1 DEF Start
<1> HIDE DEF new
<1> QED
  BY <1>2, <1>3, <1>4, StartInv DEF ImportAudio, BooksFit, Inv, TypeOK

LEMMA ImportEbookInv ==
  ASSUME Inv, NEW r \in Requests, NEW d \in Docs, ImportEbook(r, d)
  PROVE  Inv' /\ RowsStay
<1>1. PICK b \in Ids : /\ books' = [books EXCEPT ![b] = NewBook(b, None, d, None)]
                       /\ link' = Ensured(b, d)
                       /\ Start(r, "ebook_only", None, d, b)
  BY DEF ImportEbook
<1>2. books' \in [Ids -> Book \cup {None}] /\ AbsUnique' /\ RowsStay
  <2> DEFINE row == NewBook(b, None, d, None)
  <2>1. row \in Book /\ row.abs = None
    BY NewBookFits
  <2>2. books' = [books EXCEPT ![b] = row]
    BY <1>1
  <2> HIDE DEF row
  <2> QED
    BY <2>1, <2>2, UniqueSaved
<1>3. link' \in [Docs -> Ids \cup {None}]
  BY <1>1, EnsuredFits
<1> DEFINE new == [at |-> "ensure", kind |-> "ebook_only", audio |-> None, doc |-> d, item |-> None,
                   book |-> b, shown |-> None, merge |-> None, seen |-> None]
<1>4. Fits(new)
  BY StartFits
<1>5. new.at = "ensure" /\ Set(r, new)
  BY <1>1 DEF Start
<1> HIDE DEF new
<1> QED
  BY <1>2, <1>3, <1>4, <1>5, StartInv DEF ImportEbook, BooksFit

LEMMA AttachEbookInv ==
  ASSUME Inv, NEW r \in Requests, NEW b \in Ids, NEW d \in Docs, AttachEbook(r, b, d)
  PROVE  Inv' /\ RowsStay
<1>1. books[b] \in Book /\ books[b] # None
  BY DEF AttachEbook, Inv, TypeOK
<1> DEFINE row == [books[b] EXCEPT !.doc = d]
<1>2. row \in Book /\ row.abs = books[b].abs
  BY <1>1, BookWith
<1>3. books' = [books EXCEPT ![b] = row]
  BY DEF AttachEbook
<1> HIDE DEF row
<1>4. books' \in [Ids -> Book \cup {None}] /\ AbsUnique' /\ RowsStay
  BY <1>1, <1>2, <1>3, Unshared, UniqueSaved
<1>5. link' \in [Docs -> Ids \cup {None}]
  BY EnsuredFits DEF AttachEbook
<1> DEFINE new == [at |-> "ensure", kind |-> "attach_ebook", audio |-> None, doc |-> d, item |-> None,
                   book |-> b, shown |-> None, merge |-> None, seen |-> None]
<1>6. Fits(new)
  BY StartFits
<1>7. new.at = "ensure" /\ Set(r, new)
  BY DEF AttachEbook, Start
<1> HIDE DEF new
<1> QED
  BY <1>4, <1>5, <1>6, <1>7, StartInv DEF AttachEbook, BooksFit

LEMMA AttachAudioInv ==
  ASSUME Inv, NEW r \in Requests, NEW b \in Ids, NEW a \in Audios, AttachAudio(r, b, a)
  PROVE  Inv' /\ RowsStay
<1>1. books[b] \in Book /\ books[b] # None
  BY DEF AttachAudio, Inv, TypeOK
<1>2. PICK d \in Docs \cup {None}, g \in GAudios \cup {None} : d = books[b].doc /\ g = books[b].gaudio
  BY <1>1 DEF Book
<1> DEFINE new(t) == [at |-> "ensure", kind |-> "attach_audio", audio |-> a, doc |-> d, item |-> None,
                      book |-> t, shown |-> None, merge |-> b, seen |-> books[b]]
<1>3. PICK t \in Ids : /\ t \in OfAbs(a) \/ OfAbs(a) = {}
                       /\ books' = [books EXCEPT ![t] = IF @ = None THEN NewBook(t, a, d, g)
                                                        ELSE [@ EXCEPT !.doc = d, !.gaudio = g]]
                       /\ link' = Ensured(t, d)
                       /\ Set(r, new(t))
  BY <1>2 DEF AttachAudio, OfAbs, Live
<1> DEFINE row == IF books[t] = None THEN NewBook(t, a, d, g)
                  ELSE [books[t] EXCEPT !.doc = d, !.gaudio = g]
<1>4. row \in Book /\ (row.abs = None \/ OfAbs(row.abs) \subseteq {t})
  <2>1. CASE books[t] = None
    <3>1. row = NewBook(t, a, d, g)
      BY <2>1
    <3> HIDE DEF row
    <3>2. row \in Book /\ row.abs = a
      BY <3>1, NewBookFits
    <3> QED
      BY <2>1, <1>3, <3>2 DEF OfAbs, Live
  <2>2. CASE books[t] # None
    <3>1. row = [[books[t] EXCEPT !.doc = d] EXCEPT !.gaudio = g]
      BY <2>2
    <3>2. books[t] \in Book
      BY <2>2 DEF Inv, TypeOK
    <3>3. [books[t] EXCEPT !.doc = d] \in Book /\ [books[t] EXCEPT !.doc = d].abs = books[t].abs
      BY <3>2, BookWith
    <3> HIDE DEF row
    <3>4. row \in Book /\ row.abs = books[t].abs
      BY <3>1, <3>3, BookWith
    <3> QED
      BY <2>2, <3>4, Unshared
  <2> QED
    BY <2>1, <2>2
<1>5. books' = [books EXCEPT ![t] = row]
  BY <1>3
<1> HIDE DEF row
<1>6. books' \in [Ids -> Book \cup {None}] /\ AbsUnique' /\ RowsStay
  BY <1>4, <1>5, UniqueSaved
<1>7. link' \in [Docs -> Ids \cup {None}]
  BY <1>3, EnsuredFits
<1>8. new(t).at = "ensure" /\ Fits(new(t))
  BY <1>1 DEF Fits, Request, AllKinds
<1>9. req[r].at = "new" /\ UNCHANGED <<det, sugg, scan, wins, bounds>> /\ Set(r, new(t))
  BY <1>3 DEF AttachAudio
<1> HIDE DEF new
<1> QED
  BY <1>6, <1>7, <1>8, <1>9, StartInv DEF BooksFit

-----------------------------------------------------------------------------
(***************************************************************************)
(* Steps that change detections, suggestions or the scan.                  *)
(***************************************************************************)
DetFits ==
    /\ det \in [Items -> Detected \cup {None}]
    /\ \A i \in Items : det[i] # None => (det[i].status = "processing" <=> det[i].token # None)
    /\ \A i \in Items : det[i] # None /\ det[i].live => det[i].status = "processing"

OthersFit ==
    /\ sugg \in [Audios -> {None, "pending", "hidden", "ignored"}]
    /\ scan \in Scan
    /\ failed \in BOOLEAN /\ events \in 0 .. MaxEvents

LEMMA OthersInv ==
  ASSUME Inv, UNCHANGED <<books, link, wins>>, DetFits', OthersFit',
         req' \in [Requests -> Request], RequestsFit', Claims'
  PROVE  Inv'
<1>1. TypeOK'
  BY DEF Inv, TypeOK, DetFits, OthersFit
<1>2. AbsUnique'
  BY DEF Inv, AbsUnique
<1> QED
  BY <1>1, <1>2 DEF Inv

\* Only detections change that no claim is good for.
LEMMA LenientInv ==
  ASSUME Inv, UNCHANGED <<books, link, wins, req, failed>>, DetFits', OthersFit', Lenient
  PROVE  Inv'
<1>1. Claims'
  BY ClaimsRest DEF SameClaim
<1> QED
  BY <1>1, OthersInv DEF Inv, TypeOK, RequestsFit

LEMMA OthersFitNow == Inv => OthersFit /\ DetFits
  BY DEF Inv, TypeOK, OthersFit, DetFits

LEMMA EventFits == Inv /\ Event => events' \in 0 .. MaxEvents
  BY InboxAssumption DEF Inv, TypeOK, Event

LEMMA SetStatusFits ==
  ASSUME Inv, NEW S, NEW status \in {"resolved", "dismissed"}, det' = SetStatus(det, S, status)
  PROVE  DetFits' /\ Lenient
<1>1. \A i \in Items : det'[i] = IF i \in S /\ det[i] # None /\ det[i].status # "processing"
                                 THEN Unclaimed(status) ELSE det[i]
  BY DEF SetStatus
<1>2. det' = [i \in Items |-> det'[i]]
  BY DEF SetStatus
<1>3. Unclaimed(status) \in Detected /\ Unclaimed(status).status = status
      /\ Unclaimed(status).token = None /\ Unclaimed(status).live = FALSE
  BY RowFits DEF Statuses
<1>4. DetFits'
  BY <1>1, <1>2, <1>3, Absent DEF Inv, TypeOK, DetFits
<1>5. Lenient
  BY <1>1, <1>3, Absent DEF Inv, TypeOK, Lenient, Judged
<1> QED
  BY <1>4, <1>5

LEMMA ResolveInv ==
  ASSUME Inv, NEW r \in Requests, Resolve(r)
  PROVE  Inv'
<1>1. DetFits' /\ Lenient
  <2>1. PICK S : S = Resolves(r)
    OBVIOUS
  <2>2. det' = SetStatus(det, S, "resolved")
    BY <2>1 DEF Resolve
  <2> QED
    BY <2>2, SetStatusFits
<1>2. req[r].at = "resolve" /\ SameClaim(req[r], Done)
  BY IdleFits DEF Resolve, SameClaim, Holds
<1>3. req' \in [Requests -> Request] /\ RequestsFit' /\ Claims'
  BY <1>1, <1>2, IdleFits, MoveRests DEF Resolve, Set, bounds
<1>4. OthersFit'
  BY DEF Inv, TypeOK, OthersFit, Resolve, bounds
<1> QED
  BY <1>1, <1>3, <1>4, OthersInv DEF Resolve

LEMMA StartScanInv ==
  ASSUME Inv, StartScan
  PROVE  Inv'
<1>1. scan' \in Scan
  BY DEF StartScan, Scan
<1>2. DetFits' /\ OthersFit'
  BY <1>1, OthersFitNow DEF OthersFit, DetFits, StartScan, bounds
<1> QED
  BY <1>2, LenientInv DEF StartScan, bounds, Lenient

LEMMA ScannedFits ==
  ASSUME NEW row \in Detected \cup {None}
  PROVE  /\ Scanned(row) \in Detected
         /\ Scanned(row) = row \/ (Scanned(row).token = None /\ Scanned(row).live = FALSE
                                   /\ Scanned(row).status \in {"detected", "dismissed", "resolved"}
                                   /\ (row # None => ~(row.status = "processing" /\ row.live)))
         /\ row # None /\ row.status \in {"dismissed", "resolved"} => Scanned(row).status = row.status
<1>1. row # None => row \in Detected /\ row.status \in Statuses
  BY DEF Detected
<1>2. CASE row = None
  BY <1>2, RowFits, Absent DEF Scanned, Statuses
<1>3. CASE row # None /\ row.status = "processing" /\ row.live
  BY <1>1, <1>3 DEF Scanned
<1>4. CASE row # None /\ row.status \in {"dismissed", "resolved"}
  BY <1>1, <1>4, RowFits DEF Scanned, Statuses
<1>5. CASE row # None /\ row.status \notin {"dismissed", "resolved"}
           /\ ~(row.status = "processing" /\ row.live)
  BY <1>1, <1>5, RowFits DEF Scanned, Statuses
<1> QED
  BY <1>2, <1>3, <1>4, <1>5

LEMMA DetectInv ==
  ASSUME Inv, NEW i \in Items, Detect(i)
  PROVE  Inv'
<1>1. /\ det' \in [Items -> Detected \cup {None}]
      /\ det'[i] = Scanned(det[i]) /\ \A j \in Items : j # i => det'[j] = det[j]
      /\ det[i] \in Detected \cup {None}
  BY ScannedFits DEF Inv, TypeOK, Detect
<1>2. /\ Scanned(det[i]) \in Detected
      /\ Scanned(det[i]) = det[i] \/ (Scanned(det[i]).token = None /\ Scanned(det[i]).live = FALSE
                                   /\ Scanned(det[i]).status \in {"detected", "dismissed", "resolved"}
                                   /\ (det[i] # None => ~(det[i].status = "processing" /\ det[i].live)))
      /\ det[i] # None /\ det[i].status \in {"dismissed", "resolved"}
           => Scanned(det[i]).status = det[i].status
  BY <1>1, ScannedFits
<1>3. DetFits'
  BY <1>1, <1>2 DEF Inv, TypeOK, DetFits
<1>4. Lenient
  BY <1>1, <1>2, Absent DEF Inv, TypeOK, Lenient, Judged
<1>5. OthersFit'
  BY OthersFitNow DEF OthersFit, Detect, bounds
<1> QED
  BY <1>3, <1>4, <1>5, LenientInv DEF Detect, bounds

LEMMA ScanFits ==
  ASSUME NEW s \in Scan, NEW x \in {"idle", "detect", "save"}, NEW a \in Audios \cup {None},
         NEW t \in SUBSET Audios
  PROVE  [s EXCEPT !.at = x, !.audio = a] \in Scan /\ [s EXCEPT !.at = x, !.audio = a, !.stale = t] \in Scan
<1>1. \A n \in Scan : [n EXCEPT !.at = x] \in Scan /\ [n EXCEPT !.audio = a] \in Scan
                      /\ [n EXCEPT !.stale = t] \in Scan
  BY DEF Scan
<1>2. /\ [s EXCEPT !.at = x, !.audio = a] = [[s EXCEPT !.at = x] EXCEPT !.audio = a]
      /\ [s EXCEPT !.at = x, !.audio = a, !.stale = t]
           = [[[s EXCEPT !.at = x] EXCEPT !.audio = a] EXCEPT !.stale = t]
  OBVIOUS
<1> QED
  BY <1>1, <1>2

\* Suggestions and the scan change, and nothing else but the events.
LEMMA SuggestionsInv ==
  ASSUME Inv, UNCHANGED <<books, link, det, req, wins, failed>>, OthersFit'
  PROVE  Inv'
<1>1. DetFits'
  BY OthersFitNow DEF DetFits
<1> QED
  BY <1>1, LenientInv DEF Lenient

LEMMA ConsiderInv ==
  ASSUME Inv, NEW a \in Audios, Consider(a)
  PROVE  Inv'
<1>1. scan' \in Scan
  <2>1. scan \in Scan /\ {} \in SUBSET Audios
    BY DEF Inv, TypeOK
  <2> QED
    BY <2>1, ScanFits DEF Consider
<1> QED
  BY <1>1, OthersFitNow, SuggestionsInv DEF OthersFit, Consider, bounds

LEMMA SuggestInv ==
  ASSUME Inv, Suggest
  PROVE  Inv'
<1>1. scan' \in Scan
  <2>1. scan \in Scan /\ scan.stale \ {scan.audio} \in SUBSET Audios
    BY DEF Inv, TypeOK, Scan
  <2> QED
    BY <2>1, ScanFits DEF Suggest
<1>2. sugg' \in [Audios -> {None, "pending", "hidden", "ignored"}]
  BY DEF Suggest, Kept, Inv, TypeOK
<1> QED
  BY <1>1, <1>2, OthersFitNow, SuggestionsInv DEF OthersFit, Suggest, bounds

LEMMA CleanUpInv ==
  ASSUME Inv, CleanUp
  PROVE  Inv'
<1>1. scan' \in Scan
  BY DEF CleanUp, NoScan, Scan
<1>2. sugg' \in [Audios -> {None, "pending", "hidden", "ignored"}]
  BY DEF CleanUp, Inv, TypeOK
<1> QED
  BY <1>1, <1>2, OthersFitNow, SuggestionsInv DEF OthersFit, CleanUp, bounds

-----------------------------------------------------------------------------
(***************************************************************************)
(* Steps of the user, of time and crashes.                                 *)
(***************************************************************************)
LEMMA JudgeInv ==
  ASSUME Inv, NEW i \in Items, NEW status \in {"dismissed", "resolved"}, Judge(i, status)
  PROVE  Inv'
<1>1. DetFits' /\ Lenient
  BY SetStatusFits DEF Judge
<1>2. OthersFit'
  BY EventFits, OthersFitNow DEF OthersFit, Judge
<1> QED
  BY <1>1, <1>2, LenientInv DEF Judge

LEMMA DismissGroupInv ==
  ASSUME Inv, NEW S \in SUBSET Items, DismissGroup(S)
  PROVE  Inv'
<1>1. \A i \in Items : det'[i] = IF i \in S /\ det[i] # None /\ det[i].status = "detected"
                                 THEN Unclaimed("dismissed") ELSE det[i]
  BY DEF DismissGroup
<1>2. det' = [i \in Items |-> det'[i]]
  BY DEF DismissGroup
<1>3. Unclaimed("dismissed") \in Detected /\ Unclaimed("dismissed").status = "dismissed"
      /\ Unclaimed("dismissed").token = None /\ Unclaimed("dismissed").live = FALSE
  BY RowFits DEF Statuses
<1>4. DetFits'
  BY <1>1, <1>2, <1>3 DEF Inv, TypeOK, DetFits
<1>5. Lenient
  BY <1>1, <1>3, Absent DEF Inv, TypeOK, Lenient, Judged
<1>6. OthersFit'
  BY EventFits, OthersFitNow DEF OthersFit, DismissGroup
<1> QED
  BY <1>4, <1>5, <1>6, LenientInv DEF DismissGroup

LEMMA EditSuggestionInv ==
  ASSUME Inv, EditSuggestion
  PROVE  Inv'
<1>1. sugg' \in [Audios -> {None, "pending", "hidden", "ignored"}]
  <2>1. CASE ClearStale
    BY <2>1 DEF ClearStale, Inv, TypeOK
  <2>2. CASE \E a \in Audios : Hide(a) \/ Unhide(a) \/ Ignore(a)
    BY <2>2 DEF Hide, Unhide, Ignore, Inv, TypeOK
  <2> QED
    BY <2>1, <2>2 DEF EditSuggestion
<1>2. OthersFit'
  BY <1>1, EventFits, OthersFitNow DEF OthersFit, EditSuggestion
<1> QED
  BY <1>2, SuggestionsInv DEF EditSuggestion

LEMMA DeleteBookInv ==
  ASSUME Inv, NEW b \in Ids, DeleteBook(b)
  PROVE  Inv'
<1>1. /\ books' \in [Ids -> Book \cup {None}] /\ link' \in [Docs -> Ids \cup {None}]
      /\ \A c \in Ids : books'[c] = IF c = b THEN None ELSE books[c]
  BY DEF DeleteBook, Inv, TypeOK
<1>2. AbsUnique'
  BY <1>1 DEF Inv, AbsUnique
<1>3. Claims'
  BY ClaimsRest DEF DeleteBook, Lenient, SameClaim
<1>4. TypeOK'
  BY <1>1, EventFits DEF DeleteBook, Inv, TypeOK
<1> QED
  BY <1>2, <1>3, <1>4 DEF Inv, RequestsFit, DeleteBook

LEMMA ListInv ==
  ASSUME Inv, List
  PROVE  Inv'
<1>1. \A i \in Items : det'[i] = IF det[i] # None /\ det[i].status = "processing" /\ ~det[i].live
                                 THEN Unclaimed("detected") ELSE det[i]
  BY DEF List
<1>2. det' = [i \in Items |-> det'[i]]
  BY DEF List
<1>3. Unclaimed("detected") \in Detected /\ Unclaimed("detected").status = "detected"
      /\ Unclaimed("detected").token = None /\ Unclaimed("detected").live = FALSE
  BY RowFits DEF Statuses
<1>4. DetFits'
  BY <1>1, <1>2, <1>3 DEF Inv, TypeOK, DetFits
<1>5. Lenient
  BY <1>1, <1>3, Absent DEF Inv, TypeOK, Lenient, Judged
<1>6. OthersFit'
  BY OthersFitNow DEF OthersFit, List, bounds
<1> QED
  BY <1>4, <1>5, <1>6, LenientInv DEF List, bounds

\* The claim of a request at work runs out only if requests may be slow.
LEMMA ExpireInv ==
  ASSUME Inv, NEW i \in Items, Expire(i)
  PROVE  Inv'
<1>1. det[i] # None /\ det[i].live /\ det[i] \in Detected /\ det[i].token \in Requests
      /\ det[i].status = "processing"
  BY Tokens DEF Expire
<1> DEFINE row == [det[i] EXCEPT !.live = FALSE]
<1>2. row \in Detected /\ row.status = "processing" /\ row.token \in Requests /\ row.live = FALSE
  BY <1>1 DEF Detected
<1>3. det' = [det EXCEPT ![i] = row]
  BY DEF Expire
<1> HIDE DEF row
<1>9. /\ det' \in [Items -> Detected \cup {None}]
      /\ det'[i] = row /\ \A j \in Items : j # i => det'[j] = det[j]
  BY <1>2, <1>3 DEF Inv, TypeOK
<1>4. DetFits'
  BY <1>2, <1>9, Absent DEF Inv, TypeOK, DetFits
<1>5. ~InTime
  <2>1. ~failed => Holds(req[det[i].token]) = i
    BY <1>1 DEF Inv, Claims, Held
  <2> QED
    BY <2>1, <1>1, Absent DEF Expire, InTime, Holds
<1>6. Held'
  BY <1>2, <1>9 DEF Inv, Claims, Held, Expire, bounds
<1>7. Claims'
  BY <1>5, <1>6 DEF Claims, Owned, Won, WonOnce, InTime, Expire, bounds
<1>8. OthersFit'
  BY OthersFitNow DEF OthersFit, Expire, bounds
<1> QED
  BY <1>4, <1>7, <1>8, OthersInv DEF Expire, Inv, TypeOK, RequestsFit

LEMMA CrashInv ==
  ASSUME Inv, Crash
  PROVE  Inv'
<1>1. req' \in [Requests -> Request] /\ RequestsFit'
  BY IdleFits DEF Crash, RequestsFit
<1>2. Claims'
  BY DEF Crash, Claims, Held, Owned, Won, WonOnce, InTime
<1>3. OthersFit'
  BY EventFits, OthersFitNow DEF OthersFit, Crash, NoScan, Scan
<1> QED
  BY <1>1, <1>2, <1>3, OthersFitNow, OthersInv DEF Crash, DetFits

-----------------------------------------------------------------------------
LEMMA InitInv == Init => Inv
<1> SUFFICES ASSUME Init PROVE Inv
  OBVIOUS
<1>1. \A r \in Requests : req[r] = Idle /\ Fits(req[r]) /\ Holds(req[r]) = None
  BY IdleFits DEF Init
<1>2. \A i \in Items : det[i] # None => ~det[i].live /\ det[i].status = "detected" /\ det[i].token = None
  BY RowFits DEF Init
<1>3. det \in [Items -> Detected \cup {None}]
  BY RowFits DEF Init, Statuses
<1>4. PICK E \in SUBSET {1}, B \in SUBSET {2}, d \in Docs, a \in Audios, n \in {None, 1} :
        /\ B # {} => E # {}
        /\ B = {} => n = None
        /\ books = [b \in Ids |->
                CASE b \in E -> [NewBook(1, None, d, None) EXCEPT !.one = n]
                  [] b \in B -> [NewBook(2, a, None, None) EXCEPT !.one = 2]
                  [] OTHER -> None]
  BY Zenon DEF Init
<1>5. 1 \in Ids
  BY InboxAssumption DEF Ids
<1>6. [NewBook(1, None, d, None) EXCEPT !.one = n] \in Book
      /\ [NewBook(1, None, d, None) EXCEPT !.one = n].abs = None
  BY <1>5 DEF NewBook, Book
<1>7. 2 \in Ids => [NewBook(2, a, None, None) EXCEPT !.one = 2] \in Book
  BY DEF NewBook, Book
<1>8. \A b \in Ids : \/ b \in E /\ books[b] = [NewBook(1, None, d, None) EXCEPT !.one = n]
                     \/ b \in B /\ books[b] = [NewBook(2, a, None, None) EXCEPT !.one = 2]
                     \/ books[b] = None
  BY <1>4
<1>9. books = [b \in Ids |-> books[b]]
  BY <1>4
<1>10. books \in [Ids -> Book \cup {None}]
  BY <1>6, <1>7, <1>8, <1>9
<1>11. AbsUnique
  BY <1>6, <1>8 DEF AbsUnique
<1>12. link \in [Docs -> Ids \cup {None}]
  BY <1>5 DEF Init
<1>13. TypeOK
  <2>1. req \in [Requests -> Request]
    BY IdleFits DEF Init
  <2>2. scan \in Scan /\ sugg \in [Audios -> {None, "pending", "hidden", "ignored"}]
    BY DEF Init, NoScan, Scan
  <2>3. wins \in [Items -> SUBSET Requests] /\ failed \in BOOLEAN /\ events \in 0 .. MaxEvents
    <3>1. MaxEvents \in Nat /\ 0 \in 0 .. MaxEvents
      BY InboxAssumption
    <3> QED
      BY <3>1, Zenon DEF Init
  <2> QED
    BY <1>2, <1>3, <1>10, <1>12, <2>1, <2>2, <2>3 DEF TypeOK
<1>14. Claims
  BY <1>1, <1>2 DEF Claims, Held, Owned, Won, WonOnce, Init
<1> QED
  BY <1>1, <1>11, <1>13, <1>14 DEF Inv, RequestsFit

LEMMA NextInv == Inv /\ [Next]_vars => Inv'
<1> SUFFICES ASSUME Inv, [Next]_vars PROVE Inv'
  OBVIOUS
<1>1. ASSUME NEW r \in Requests, Begin(r)
      PROVE  Inv'
  BY <1>1, PrepareMapInv, PrepareLinkInv, ImportAudioInv, ImportEbookInv, AttachEbookInv,
     AttachAudioInv DEF Begin
<1>2. ASSUME NEW r \in Requests, Continue(r)
      PROVE  Inv'
  BY <1>2, ClaimInv, CheckMergeInv, PrepareAgainInv, UndoInv, RenewInv, CommitSaveInv,
     CommitMergeInv, CommitOwnedInv, CompleteInv, EnsureInv, MigrateSourceInv, ResolveInv DEF Continue
<1>3. CASE StartScan \/ Scanning \/ User \/ List \/ Crash \/ \E i \in Items : Expire(i)
  BY <1>3, StartScanInv, SuggestInv, CleanUpInv, DetectInv, ConsiderInv, JudgeInv, DismissGroupInv,
     EditSuggestionInv, DeleteBookInv, ListInv, CrashInv, ExpireInv DEF Scanning, User
<1>4. CASE UNCHANGED vars
  <2>1. UNCHANGED <<books, link, det, sugg, req, scan, wins, failed, events>>
    BY <1>4 DEF vars
  <2>2. DetFits' /\ OthersFit'
    BY <2>1, OthersFitNow DEF DetFits, OthersFit
  <2> QED
    BY <2>1, <2>2, LenientInv DEF Lenient
<1> QED
  BY <1>1, <1>2, <1>3, <1>4 DEF Next

\* The invariant holds in every reachable state.
THEOREM InboxInvariant == Spec => []Inv
<1> QED
  BY InitInv, NextInv, PTL DEF Spec

\* Every request keeps to its step and intent, and the tables to their columns; a claim
\* that is still good is held by the request whose token it bears, unless something failed.
THEOREM ClaimBackedCorrect == Spec => []ClaimBacked
<1>1. Inv => ClaimBacked
  <2> SUFFICES ASSUME Inv, NEW i \in Items, det[i] # None, det[i].live, ~failed
              PROVE  req[det[i].token].item = i
    BY DEF Inv, ClaimBacked
  <2>1. Holds(req[det[i].token]) = i
    BY DEF Inv, Claims, Held
  <2> QED
    BY <2>1, Absent DEF Holds
<1> QED
  BY <1>1, InboxInvariant, PTL

\* In time and without failures one request at most makes a book of a detection
\* (the claim, its renewal and its completion in book_intake_service).
THEOREM PairedOnceCorrect == Spec => []PairedOnce
<1>1. Inv => PairedOnce
  <2> SUFFICES ASSUME Inv, InTime, NEW i \in Items
              PROVE  Cardinality(wins[i]) <= 1
    BY DEF PairedOnce, InTime
  <2>1. \A r, q \in wins[i] : r = q
    BY DEF Inv, Claims, WonOnce
  <2>2. CASE wins[i] = {}
    BY <2>2, FS_EmptySet
  <2>3. CASE wins[i] # {}
    <3>1. PICK r \in wins[i] : wins[i] = {r}
      BY <2>1, <2>3
    <3>2. Cardinality({r}) = 1
      BY FS_Singleton
    <3> QED
      BY <3>1, <3>2
  <2> QED
    BY <2>2, <2>3
<1> QED
  BY <1>1, InboxInvariant, PTL

-----------------------------------------------------------------------------
(***************************************************************************)
(* What a step may do.                                                     *)
(***************************************************************************)
LEMMA JudgedStaysStep ==
  ASSUME Inv, [Next]_vars
  PROVE  \A i \in Items : Judged(i) => Judged(i)'
<1>1. ASSUME NEW r \in Requests, Begin(r)
      PROVE  UNCHANGED det
  BY <1>1 DEF Begin, PrepareMap, PrepareLink, ImportAudio, ImportEbook, AttachEbook, AttachAudio
<1>2. ASSUME NEW r \in Requests, Continue(r)
      PROVE  \A i \in Items : Judged(i) => Judged(i)'
  <2>1. CASE UNCHANGED det
    BY <2>1 DEF Judged
  <2>2. ASSUME NEW j \in Items, \A i \in Items : i # j => det'[i] = det[i],
               det[j] # None => det[j].status \notin {"resolved", "dismissed"}
        PROVE  \A i \in Items : Judged(i) => Judged(i)'
    BY <2>2 DEF Judged
  <2>3. req[r].at \in {"claim", "undo", "renew", "complete"} => req[r].item \in Items
    BY DEF Inv, RequestsFit, Fits
  <2>4. CASE Claim(r)
    BY <2>1, <2>2, <2>3, <2>4 DEF Claim, Claimable, Inv, TypeOK
  <2>5. CASE Undo(r)
    BY <2>1, <2>2, <2>3, <2>5 DEF Undo, Restored, Owns, Inv, TypeOK
  <2>6. CASE Renew(r)
    BY <2>1, <2>2, <2>3, <2>6 DEF Renew, Owns, Inv, TypeOK
  <2>7. CASE Complete(r)
    BY <2>1, <2>2, <2>3, <2>7 DEF Complete, Owns, Inv, TypeOK
  <2>8. CASE Resolve(r)
    <3>1. PICK S : S = Resolves(r)
      OBVIOUS
    <3>2. det' = SetStatus(det, S, "resolved")
      BY <2>8, <3>1 DEF Resolve
    <3> QED
      BY <3>2, SetStatusFits DEF Lenient, Judged
  <2>9. CASE CheckMerge(r) \/ PrepareAgain(r) \/ CommitSave(r) \/ CommitMerge(r) \/ CommitOwned(r)
             \/ Ensure(r) \/ MigrateSource(r)
    BY <2>1, <2>9 DEF CheckMerge, PrepareAgain, CommitSave, CommitMerge, CommitOwned, Ensure, MigrateSource
  <2> QED
    BY <1>2, <2>4, <2>5, <2>6, <2>7, <2>8, <2>9 DEF Continue
<1>3. ASSUME NEW i \in Items, Detect(i)
      PROVE  \A j \in Items : Judged(j) => Judged(j)'
  <2>1. det'[i] = Scanned(det[i]) /\ \A j \in Items : j # i => det'[j] = det[j]
    BY <1>3 DEF Detect, Inv, TypeOK
  <2>2. det[i] \in Detected \cup {None}
    BY DEF Inv, TypeOK
  <2>3. Scanned(det[i]) \in Detected
        /\ (det[i] # None /\ det[i].status \in {"dismissed", "resolved"}
              => Scanned(det[i]).status = det[i].status)
    BY <2>2, ScannedFits
  <2> QED
    BY <2>1, <2>3, Absent DEF Judged
<1>4. ASSUME NEW i \in Items, NEW status \in {"dismissed", "resolved"}, Judge(i, status)
      PROVE  \A j \in Items : Judged(j) => Judged(j)'
  BY <1>4, SetStatusFits DEF Judge, Lenient, Judged
<1>5. ASSUME NEW S \in SUBSET Items, DismissGroup(S)
      PROVE  \A j \in Items : Judged(j) => Judged(j)'
  BY <1>5 DEF DismissGroup, Judged
<1>6. CASE List
  BY <1>6 DEF List, Judged
<1>7. ASSUME NEW i \in Items, Expire(i)
      PROVE  \A j \in Items : Judged(j) => Judged(j)'
  <2>1. det[i].status = "processing" /\ \A j \in Items : j # i => det'[j] = det[j]
    BY <1>7, Tokens DEF Expire, Inv, TypeOK
  <2> QED
    BY <2>1 DEF Judged
<1>8. CASE UNCHANGED det
  BY <1>8 DEF Judged
<1>9. CASE StartScan \/ Suggest \/ CleanUp \/ (\E a \in Audios : Consider(a)) \/ EditSuggestion
           \/ (\E b \in Ids : DeleteBook(b)) \/ Crash \/ UNCHANGED vars
  BY <1>8, <1>9 DEF StartScan, Suggest, CleanUp, Consider, EditSuggestion, DeleteBook, Crash, vars
<1> QED
  BY <1>1, <1>2, <1>3, <1>4, <1>5, <1>6, <1>7, <1>8, <1>9 DEF Next, Scanning, User

LEMMA HiddenStaysStep ==
  ASSUME Inv, [Next]_vars
  PROVE  \A a \in Audios : sugg[a] = "hidden" /\ sugg'[a] = "pending" => events' # events
<1> SUFFICES ASSUME NEW a \in Audios, sugg[a] = "hidden", sugg'[a] = "pending"
            PROVE  events' # events
  OBVIOUS
<1>1. None # "pending" /\ events \in Nat
  BY InboxAssumption DEF Inv, TypeOK
<1>2. ASSUME NEW r \in Requests, Begin(r) \/ Continue(r)
      PROVE  UNCHANGED sugg \/ sugg' = [b \in Audios |-> IF b = req[r].audio THEN None ELSE sugg[b]]
  BY <1>2 DEF Begin, PrepareMap, PrepareLink, ImportAudio, ImportEbook, AttachEbook, AttachAudio,
     Continue, Claim, CheckMerge, PrepareAgain, Undo, Renew, CommitSave, CommitMerge, CommitOwned,
     Complete, Ensure, MigrateSource, Resolve
<1>3. ASSUME NEW r \in Requests, Begin(r) \/ Continue(r)
      PROVE  FALSE
  BY <1>1, <1>2, <1>3
<1>4. ~Suggest
  BY DEF Suggest, Kept, Inv, TypeOK
<1>5. ~CleanUp
  BY <1>1 DEF CleanUp
<1>6. EditSuggestion => events' # events
  BY <1>1 DEF EditSuggestion, Event
<1>7. ~UNCHANGED sugg
  OBVIOUS
<1>8. \/ EditSuggestion \/ Suggest \/ CleanUp
      \/ \E r \in Requests : Begin(r) \/ Continue(r)
      \/ UNCHANGED sugg
  BY DEF Next, Scanning, User, StartScan, Detect, Consider, Judge, DismissGroup, DeleteBook, List,
     Crash, Expire, vars
<1> QED
  BY <1>3, <1>4, <1>5, <1>6, <1>7, <1>8

\* A scan never brings back what was judged, and only the user shows a hidden suggestion
\* again (_normalize_for_update and _preserve_hidden_status).
THEOREM JudgedStaysCorrect == Spec => JudgedStays
<1>1. Inv /\ [Next]_vars =>
        [/\ \A i \in Items : det[i] # None /\ det[i].status \in {"dismissed", "resolved"}
              => det'[i] # None /\ det'[i].status \in {"dismissed", "resolved"}
         /\ \A a \in Audios : sugg[a] = "hidden" /\ sugg'[a] = "pending"
              => events' # events]_vars
  BY JudgedStaysStep, HiddenStaysStep DEF Judged
<1> QED
  BY <1>1, InboxInvariant, PTL DEF Spec, JudgedStays

\* The row that a merge deletes leaves its children to the row that stays.
Inherits(s, b) ==
    /\ books[s] # None /\ books'[s] # None
    /\ books'[s].kids = books[s].kids \cup books[b].kids
    /\ books'[s].one = IF books[s].one = None THEN books[b].one ELSE books[s].one

LEMMA MergeKeepsStep ==
  ASSUME Inv, NEW s \in Ids, books[s] # None, NEW a \in Audios, NEW d \in Docs \cup {None},
         books' = Migrated(books, s, a, d),
         NEW b \in Ids, books[b] # None, books'[b] = None
  PROVE  \E c \in Ids \ {b} : Inherits(c, b)
<1>1. b # s /\ b \in OfAbs(a) \ {s}
  BY Merged
<1>2. Inherits(s, b)
  BY <1>1, Merged DEF Inherits
<1> QED
  BY <1>1, <1>2

LEMMA DeletedStep ==
  ASSUME Inv, [Next]_vars, events' = events, NEW b \in Ids, books[b] # None, books'[b] = None
  PROVE  \E c \in Ids \ {b} : Inherits(c, b)
<1>1. ASSUME NEW r \in Requests, CommitMerge(r)
      PROVE  \E c \in Ids \ {b} : Inherits(c, b)
  <2>1. req[r].audio \in Audios /\ req[r].doc \in Docs /\ req[r].merge \in Ids
    BY <1>1 DEF Inv, RequestsFit, CommitMerge, Fits, Request
  <2>2. books[req[r].merge] # None /\ books' = Migrated(books, req[r].merge, req[r].audio, req[r].doc)
    BY <1>1 DEF CommitMerge, Unchanged
  <2>3. PICK s \in Ids, a \in Audios, d \in Docs : s = req[r].merge /\ a = req[r].audio /\ d = req[r].doc
    BY <2>1
  <2> QED
    BY <2>2, <2>3, MergeKeepsStep
<1>2. ASSUME NEW r \in Requests, MigrateSource(r)
      PROVE  \E c \in Ids \ {b} : Inherits(c, b)
  <2>1. req[r].audio \in Audios /\ req[r].doc \in Docs \cup {None}
    BY <1>2 DEF Inv, RequestsFit, MigrateSource, Fits, Request
  <2>2. PICK s \in Ids : books[s] # None /\ books' = Migrated(books, s, req[r].audio, req[r].doc)
    BY <1>2 DEF MigrateSource, OfAbs, Live
  <2>3. PICK a \in Audios, d \in Docs \cup {None} : a = req[r].audio /\ d = req[r].doc
    BY <2>1
  <2> QED
    BY <2>2, <2>3, MergeKeepsStep
<1>3. ASSUME NEW i \in Ids, DeleteBook(i)
      PROVE  FALSE
  BY <1>3 DEF DeleteBook, Event, Inv, TypeOK
<1>4. ~RowsStay
  BY DEF RowsStay
<1>5. ~UNCHANGED books
  BY <1>4 DEF RowsStay
<1>6. \A r \in Requests : ~CommitSave(r) /\ ~CommitOwned(r)
  BY <1>4, CommitSaveInv, CommitOwnedInv
<1>7. \A r \in Requests : ~Begin(r)
  BY <1>4, <1>5, ImportAudioInv, ImportEbookInv, AttachEbookInv, AttachAudioInv
     DEF Begin, PrepareMap, PrepareLink
<1>8. \A r \in Requests : ~Claim(r) /\ ~CheckMerge(r) /\ ~PrepareAgain(r) /\ ~Undo(r) /\ ~Renew(r)
                          /\ ~Complete(r) /\ ~Ensure(r) /\ ~Resolve(r)
  BY <1>5 DEF Claim, CheckMerge, PrepareAgain, Undo, Renew, Complete, Ensure, Resolve
<1>9. ~StartScan /\ ~Scanning /\ ~List /\ ~Crash /\ ~EditSuggestion
      /\ (\A i \in Items : ~Expire(i)) /\ (\A S \in SUBSET Items : ~DismissGroup(S))
      /\ (\A i \in Items, status \in {"dismissed", "resolved"} : ~Judge(i, status))
  BY <1>5 DEF StartScan, Scanning, Suggest, CleanUp, Detect, Consider, List, Crash, EditSuggestion,
     Expire, DismissGroup, Judge
<1> QED
  BY <1>1, <1>2, <1>3, <1>5, <1>6, <1>7, <1>8, <1>9 DEF Next, Continue, User, vars

\* A merge loses nothing of the row it deletes (_migrate_book_data).
THEOREM MergeKeepsChildrenCorrect == Spec => MergeKeepsChildren
<1>1. Inv /\ [Next]_vars =>
        [\A b \in Ids : books[b] # None /\ books'[b] = None /\ events' = events =>
          \E c \in Ids \ {b} :
             /\ books[c] # None /\ books'[c] # None
             /\ books'[c].kids = books[c].kids \cup books[b].kids
             /\ books'[c].one = IF books[c].one = None THEN books[b].one ELSE books[c].one]_vars
  BY DeletedStep DEF Inherits
<1> QED
  BY <1>1, InboxInvariant, PTL DEF Spec, MergeKeepsChildren

\* A set of books with at most one member.
LEMMA AtMostOne ==
  ASSUME NEW S \in SUBSET Ids, Cardinality(S) <= 1, NEW x \in S
  PROVE  S = {x}
<1>1. IsFiniteSet(S)
  <2>1. MaxBooks \in Int
    BY InboxAssumption
  <2>2. IsFiniteSet(1 .. MaxBooks)
    BY <2>1, FS_Interval
  <2> QED
    BY <2>2, FS_Subset DEF Ids
<1>2. IsFiniteSet(S \ {x}) /\ Cardinality(S \ {x}) = Cardinality(S) - 1
  BY <1>1, FS_RemoveElement
<1>3. Cardinality(S) \in Nat /\ Cardinality(S \ {x}) \in Nat
  BY <1>1, <1>2, FS_CardinalityType
<1>4. Cardinality(S \ {x}) = 0
  BY <1>2, <1>3
<1>5. S \ {x} = {}
  BY <1>2, <1>4, FS_EmptySet
<1> QED
  BY <1>5

LEMMA OwnedAloneStep ==
  ASSUME Inv, NEW r \in Requests, CommitOwned(r), books' # books
  PROVE  Cardinality(OfDoc(req[r].doc)') = 1
<1>1. PICK d \in Docs, g \in GAudios, t \in Ids \cup {None} :
        d = req[r].doc /\ g = req[r].audio /\ t = req[r].merge
  BY DEF Inv, RequestsFit, CommitOwned, Fits, Request
<1>2. MayOwn(t, d, g)
  BY <1>1 DEF CommitOwned
<1>3. PICK b \in Ids : /\ t # None => b = t /\ books[b] # None
                       /\ books' = [books EXCEPT ![b] = IF t = None THEN NewBook(b, None, d, g)
                                                        ELSE [@ EXCEPT !.doc = d, !.gaudio = g]]
                       /\ Committed(r, b)
  BY <1>1, <1>2 DEF CommitOwned, MayOwn
<1>4. OfDoc(d) \subseteq {b}
  <2>1. OfDoc(d) # {} => t \in OfDoc(d) /\ OfDoc(d) = {t} /\ t # None
    BY <1>2, AtMostOne, Absent DEF MayOwn, OfDoc, Live
  <2> QED
    BY <1>3, <2>1
<1> DEFINE row == IF t = None THEN NewBook(b, None, d, g)
                  ELSE [books[b] EXCEPT !.doc = d, !.gaudio = g]
<1>5. row # None /\ row.doc = d
  <2>1. CASE t = None
    <3>1. NewBook(b, None, d, g) \in Book /\ NewBook(b, None, d, g).doc = d
      BY NewBookFits
    <3> QED
      BY <2>1, <3>1, Absent
  <2>2. CASE t # None
    <3>1. books[b] \in Book
      BY <2>2, <1>3 DEF Inv, TypeOK
    <3>2. row = [[books[b] EXCEPT !.doc = d] EXCEPT !.gaudio = g]
      BY <2>2
    <3>3. [books[b] EXCEPT !.doc = d] \in Book /\ [books[b] EXCEPT !.doc = d].doc = d
      BY <3>1 DEF Book
    <3>4. \A new \in Book : [new EXCEPT !.gaudio = g] \in Book /\ [new EXCEPT !.gaudio = g].doc = new.doc
      BY DEF Book
    <3> HIDE DEF row
    <3> QED
      BY <3>2, <3>3, <3>4, Absent
  <2> QED
    BY <2>1, <2>2
<1>6. books' = [books EXCEPT ![b] = row]
  BY <1>3
<1> HIDE DEF row
<1>7. books'[b] = row /\ \A c \in Ids : c # b => books'[c] = books[c]
  BY <1>6 DEF Inv, TypeOK
<1>8. req'[r].doc = d
  <2> DEFINE x == IF req[r].item = None THEN "ensure" ELSE "complete"
             new == [req[r] EXCEPT !.at = x, !.book = b]
  <2>1. req[r] \in Request
    BY DEF Inv, TypeOK
  <2>2. Alike(req[r], new, x)
    BY <2>1, Moved DEF Steps
  <2>3. req' = [req EXCEPT ![r] = new]
    BY <1>3, Zenon DEF Committed, Set, At
  <2> HIDE DEF new
  <2> QED
    BY <1>1, <2>2, <2>3 DEF Alike, Inv, TypeOK
<1>9. OfDoc(req[r].doc)' = {b}
  BY <1>4, <1>5, <1>7, <1>8 DEF OfDoc, Live
<1> QED
  BY <1>9, FS_Singleton

\* A Grimmory link gives its ebook one book: the row it changes has it, and no other
\* (save_book_with_kosync_ownership).
THEOREM OwnedAloneCorrect == Spec => OwnedAlone
<1>1. ASSUME Inv, Next, NEW r \in Requests, req[r].at = "commit", req[r].kind = "link", books' # books
      PROVE  Cardinality(OfDoc(req[r].doc)') = 1 \/ req'[r] = req[r]
  <2>1. CASE CommitOwned(r)
    BY <1>1, <2>1, OwnedAloneStep
  <2>2. ASSUME ~CommitOwned(r)
        PROVE  ~Begin(r) /\ ~Continue(r)
    BY <1>1, <2>2 DEF Begin, PrepareMap, PrepareLink, ImportAudio, ImportEbook, AttachEbook,
       AttachAudio, Continue, Claim, CheckMerge, PrepareAgain, Undo, Renew, CommitSave, CommitMerge,
       Complete, Ensure, MigrateSource, Resolve
  <2>3. ASSUME NEW q \in Requests, q # r, Begin(q) \/ Continue(q)
        PROVE  req'[r] = req[r]
    <3>1. CASE Begin(q)
      <4>1. \E new : req' = [req EXCEPT ![q] = new]
        <5>1. ASSUME NEW a \in Audios, NEW d \in Docs, NEW i, NEW shown, PrepareMap(q, a, d, i, shown)
              PROVE  \E new : req' = [req EXCEPT ![q] = new]
          BY <5>1, Zenon DEF PrepareMap, Start, Set
        <5>2. ASSUME NEW g \in GAudios, NEW d \in Docs, NEW i, PrepareLink(q, g, d, i)
              PROVE  \E new : req' = [req EXCEPT ![q] = new]
          BY <5>2, Zenon DEF PrepareLink, Start, Set
        <5>3. ASSUME NEW a \in Audios, ImportAudio(q, a)
              PROVE  \E new : req' = [req EXCEPT ![q] = new]
          BY <5>3, Zenon DEF ImportAudio, Start, Set
        <5>4. ASSUME NEW d \in Docs, ImportEbook(q, d)
              PROVE  \E new : req' = [req EXCEPT ![q] = new]
          BY <5>4, Zenon DEF ImportEbook, Start, Set
        <5>5. ASSUME NEW b \in Ids, NEW d \in Docs, AttachEbook(q, b, d)
              PROVE  \E new : req' = [req EXCEPT ![q] = new]
          BY <5>5, Zenon DEF AttachEbook, Start, Set
        <5>6. ASSUME NEW b \in Ids, NEW a \in Audios, AttachAudio(q, b, a)
              PROVE  \E new : req' = [req EXCEPT ![q] = new]
          BY <5>6, Zenon DEF AttachAudio, Start, Set
        <5> QED
          BY <3>1, <5>1, <5>2, <5>3, <5>4, <5>5, <5>6 DEF Begin
      <4> QED
        BY <2>3, <4>1 DEF Inv, TypeOK
    <3>2. CASE Claim(q) \/ CheckMerge(q) \/ PrepareAgain(q) \/ Undo(q) \/ Renew(q)
      <4>1. \E new : req' = [req EXCEPT ![q] = new]
        BY <3>2 DEF Claim, CheckMerge, PrepareAgain, Undo, Renew, Set
      <4> QED
        BY <2>3, <4>1 DEF Inv, TypeOK
    <3>3. CASE CommitSave(q) \/ CommitMerge(q) \/ CommitOwned(q)
      <4>1. \E new : req' = [req EXCEPT ![q] = new]
        BY <3>3 DEF CommitSave, CommitMerge, CommitOwned, Committed, Set
      <4> QED
        BY <2>3, <4>1 DEF Inv, TypeOK
    <3>4. CASE Complete(q) \/ Ensure(q) \/ MigrateSource(q) \/ Resolve(q)
      <4>1. \E new : req' = [req EXCEPT ![q] = new]
        BY <3>4 DEF Complete, Ensure, MigrateSource, Resolve, Set
      <4> QED
        BY <2>3, <4>1 DEF Inv, TypeOK
    <3> QED
      BY <2>3, <3>1, <3>2, <3>3, <3>4 DEF Continue
  <2>4. ASSUME StartScan \/ Scanning \/ User \/ List \/ Crash \/ \E i \in Items : Expire(i)
        PROVE  req'[r] = req[r]
    BY <1>1, <2>4 DEF StartScan, Scanning, Suggest, CleanUp, Detect, Consider, User, Judge, DismissGroup,
       EditSuggestion, DeleteBook, List, Crash, Expire
  <2> QED
    BY <1>1, <2>1, <2>2, <2>3, <2>4 DEF Next
<1>2. Inv /\ [Next]_vars =>
        [\A r \in Requests : req[r].at = "commit" /\ req[r].kind = "link" /\ books' # books
          => Cardinality(OfDoc(req[r].doc)') = 1 \/ req'[r] = req[r]]_vars
  BY <1>1
<1> QED
  BY <1>2, InboxInvariant, PTL DEF Spec, OwnedAlone
=============================================================================
