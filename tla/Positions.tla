------------------------------ MODULE Positions ------------------------------
(***************************************************************************)
(* From what is said to who is ahead: an audiobook is transcribed and      *)
(* aligned with its ebook, then readers move the clients up and down, a    *)
(* State row is saved now and then for one of them, and one pass of the    *)
(* sync engine decides on what it finds, with the positions of the ebooks  *)
(* brought onto the axis of the audiobook by the alignment.                *)
(***************************************************************************)
EXTENDS SyncDecision, Transcription

CONSTANTS
    Clients,     \* the sync clients
    Abs,         \* the audiobook client
    Leading,     \* the clients with can_be_leader()
    Places,      \* the places a client may be at, as fractions of the book
    Read,        \* the books of Stories that readers move in
    Between      \* sync_delta_between_clients

ASSUME DecisionAssumption ==
    /\ Places \subseteq 0 .. Unit /\ 0 \in Places
    /\ Leading \subseteq Clients /\ Read \subseteq Stories
    /\ Between \in Nat

VARIABLES
    now,         \* what each client reports
    recorded     \* the State row of each client

vars == <<pipeline, now, recorded>>

Init == /\ InitPipeline
        /\ now = [c \in Clients |-> 0]
        /\ recorded = [c \in Clients |-> 0]

\* The job is done.  What jobs that ended early or lost a chunk left behind
\* is not tried with readers.
Settled == pc[1] \in {"stored", "failed"} /\ ends = 0 /\ flaws = 0 /\ story \in Read

\* A reader moves on the device of one client.
Reads(c, p) == Settled /\ now' = [now EXCEPT ![c] = p] /\ UNCHANGED <<pipeline, recorded>>

\* The position of one client is saved as its State row.
Records(c) == Settled /\ recorded' = [recorded EXCEPT ![c] = now[c]] /\ UNCHANGED <<pipeline, now>>

Next ==
    \/ RunJob /\ UNCHANGED <<now, recorded>>
    \/ \E c \in Clients : Records(c) \/ \E p \in Places : Reads(c, p)

Spec == Init /\ [][Next]_vars

(***************************************************************************)
(* One pass over the book.                                                 *)
(***************************************************************************)

BookSeconds == Sum([k \in DOMAIN FlattenSeq(story.parts) |-> FlattenSeq(story.parts)[k].seconds])

\* normalize_for_cross_format_comparison with an audiobook: its second as it
\* is, and for an ebook the second of its character, where there is one.
Normalize(at) ==
    LET char(c) == (at[c] * story.length) \div Unit
        timed   == {c \in Clients \ {Abs} : TimeForText(alignment, char(c)) # None}
    IN  IF alignment = <<>> THEN <<>>
        ELSE [c \in timed \cup {Abs} |->
                IF c = Abs THEN (at[c] * BookSeconds) \div Unit ELSE TimeForText(alignment, char(c))]

config == [c \in Clients |-> ServiceState(c = Abs, now[c], recorded[c], BookSeconds)]

\* The clients that may lead when the normalisation works, or when it fails.
MayLead == Leaders(config, Leading, BookSeconds, Normalize(now))
           \cup Leaders(config, Leading, BookSeconds, <<>>)

(***************************************************************************)
(* Properties.                                                             *)
(***************************************************************************)

\* A client is in what only the ebook or only the audiobook has, before the
\* first point of the alignment or beyond its last one.
Outside(norm, c) == norm # <<>> /\ (c \notin DOMAIN norm \/ norm[c] =< alignment[1].ts)

\* A client at the start of the book that is new (no State row) or was reset
\* does not lead while another one that may lead has progress: "A
\* newly-added client reporting 0% from being elected leader".  Progress in
\* what only one of ebook and audiobook has does not count.
ZeroDoesNotLead ==
    \A norm \in {Normalize(now), <<>>} :
        \A l \in Leaders(config, Leading, BookSeconds, norm) :
            /\ now[l] = 0
            /\ recorded[l] = 0 \/ recorded[l] > 100
            => \A c \in Leading : now[c] = 0 \/ Outside(norm, c)

\* The reader is followed: when one client alone moved, by its threshold or
\* more, and did not fall back to the start, there is a synchronisation and
\* that client leads it, also when the reader went back in the book.
ReaderIsFollowed ==
    \A c \in Leading :
        /\ config[c].delta >= config[c].threshold
        /\ now[c] >= 10
        /\ \A d \in Clients \ {c} : now[d] = recorded[d]
        => EvaluateSyncSignificance(config, Between) /\ MayLead = {c}

\* With the alignments of the books, whoever reads leads, and a new or reset client does
\* not (_determine_leader).
ReaderLeads == ZeroDoesNotLead /\ ReaderIsFollowed

\* The chapters can be told apart by their lengths, and the files of an
\* ebook begin near 0 or follow each other, not both.
Recognisable ==
    \A j, k \in DOMAIN story.chapters :
        j # k => Max({Seconds(story.chapters[j]) - Seconds(story.chapters[k]),
                      Seconds(story.chapters[k]) - Seconds(story.chapters[j])}) >= 30

\* What is handed to the alignment is said where it says, however often the
\* job ended early and went on from its cache; and a transcription in which
\* no chunk failed has all of it, once.
TranscriptTrue ==
    pc = <<"align">> /\ Recognisable =>
        /\ amiss \subseteq {"not transcribed"} => ToSet(segs) \subseteq ToSet(Truth)
        /\ amiss = {} /\ ~HasMediaOverlays(story.smil) => segs = Truth

\* The stored alignment grows in both directions, and the word of the book at
\* each of its anchors is said in the sentence its time falls into.
AlignmentTrue ==
    pc = <<"stored">> =>
        /\ \A i \in 1 .. Len(alignment) - 1 :
               /\ alignment[i].char < alignment[i + 1].char
               /\ alignment[i].ts =< alignment[i + 1].ts
        /\ Recognisable /\ amiss \subseteq {"not transcribed"} =>
               \A p \in ToSet(alignment), w \in ToSet(story.text) :
                   p.char = w.char /\ p.char > 0 =>
                       \E s \in ToSet(RebuildFragmentedSentences(Truth)) :
                           s.start =< p.ts /\ p.ts =< s.end /\ w.word \in ToSet(s.words)

\* The two lookups agree: a character that has a time is found again between
\* the same two points, not beyond where it was, and exactly what lies beyond
\* the last real point has no time and no character.
LookupsAgree ==
    alignment # <<>> =>
        LET info == AlignmentInfo(alignment)
            T(c) == TimeForText(alignment, c)
            C(t) == CharForTime(alignment, t)
            At(c) == alignment[Max({i \in DOMAIN alignment : alignment[i].char =< c})]
            \* The first point that has the time of the last one before c.
            Low(c) == Min({p.char : p \in {q \in ToSet(alignment) : q.ts = At(c).ts}})
        IN  /\ \A c \in {w.char : w \in ToSet(story.text)} \cup {0, info.total_chars} :
                   /\ T(c) = None <=> c > info.max_char
                   /\ T(c) # None => C(T(c)) \in Low(c) .. c
            /\ \A t \in {0, info.max_timestamp, info.max_timestamp + 1, BookSeconds} :
                   C(t) = None <=> t > info.max_timestamp
=============================================================================
