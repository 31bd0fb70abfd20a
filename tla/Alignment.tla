------------------------------ MODULE Alignment ------------------------------
(***************************************************************************)
(* How the text of an ebook and the transcript of its audiobook are laid   *)
(* side by side: services/alignment_service.py and the rejoining of        *)
(* sentences in utils/polisher.py.                                         *)
(*                                                                         *)
(* A segment is [start, end, words, stop]: its times in whole seconds, its *)
(* words, and whether its text ends with a mark that ends a sentence.  A   *)
(* text is a sequence of [word, char].  Words stand for what normalize     *)
(* makes of them; Blank is one of which nothing is left.  A quotient is    *)
(* rounded down.                                                           *)
(***************************************************************************)
EXTENDS Integers, Sequences, SequencesExt

CONSTANTS
    LongGram,     \* n_size of the first pass (12)
    ShortGram,    \* n_size of the backfill (6)
    LateChar,     \* the first anchor is late when it is beyond this char (1000)
    LateTime,     \* and this second (30)
    SentinelRate, \* characters per second no narrator reads (1000)
    None          \* no such thing

Blank == ""

ASSUME AlignmentAssumption ==
    /\ LongGram \in Nat /\ ShortGram \in 1 .. LongGram
    /\ LateChar \in Nat /\ LateTime \in Nat /\ SentinelRate \in Nat

(***************************************************************************)
(* Segments.                                                               *)
(***************************************************************************)

\* rebuild_fragmented_sentences: a segment is joined to the one before when
\* less than two seconds lie between them and no sentence ended.
RebuildFragmentedSentences(segments) ==
    LET Joins(s, t) == t.start - s.end < 2 /\ ~s.stop
        Add(done, t) ==
            IF done # <<>> /\ Joins(Last(done), t)
            THEN Append(Front(done),
                        [start |-> Last(done).start, end |-> t.end,
                         words |-> Last(done).words \o t.words, stop |-> t.stop])
            ELSE Append(done, t)
    IN  FoldLeft(Add, <<>>, segments)

\* align_storyteller_and_store: the words of the timeline, each with its
\* time, are gathered into segments of fifteen seconds; what is left over
\* becomes the last one.
StorytellerSegments(timeline) ==
    LET Closed(cur) ==
            [start |-> cur[1].start, end |-> Last(cur).start,
             words |-> [i \in DOMAIN cur |-> cur[i].word], stop |-> Last(cur).stop]
        Take(acc, w) ==
            LET cur == Append(acc.cur, w)
            IN  IF w.start - cur[1].start >= 15 /\ Len(cur) > 1
                THEN [segs |-> Append(acc.segs, Closed(cur)), cur |-> <<>>]
                ELSE [acc EXCEPT !.cur = cur]
        all == FoldLeft(Take, [segs |-> <<>>, cur |-> <<>>], timeline)
        rest == Closed(all.cur)
    IN  IF all.cur = <<>> THEN all.segs
        ELSE Append(all.segs, [rest EXCEPT !.end = Max({@, rest.start + 1})])

(***************************************************************************)
(* The anchors.                                                            *)
(***************************************************************************)

\* The words of a transcript: those of a segment are spread evenly over it,
\* the ones of which nothing is left take their share of the time and go.
TranscriptWords(segments) ==
    LET Spread(s) == [i \in DOMAIN s.words |->
                        [word |-> s.words[i],
                         ts |-> s.start + ((i - 1) * (s.end - s.start)) \div Len(s.words)]]
    IN  SelectSeq(FlattenSeq([k \in DOMAIN segments |-> Spread(segments[k])]),
                  LAMBDA w : w.word # Blank)

BookWords(text) == SelectSeq(text, LAMBDA w : w.word # Blank)

Gram(items, i, n) == [k \in 1 .. n |-> items[i + k - 1].word]

\* Where the grams of n words begin.
Grams(items, n) == 1 .. Len(items) - n + 1

\* _find_anchors: the grams that occur once in the transcript and once in
\* the book.
FindAnchors(said, book, n) ==
    LET Once(items, i) == \A j \in Grams(items, n) : Gram(items, j, n) = Gram(items, i, n) => j = i
    IN  {[ts |-> said[p[1]].ts, char |-> book[p[2]].char, said |-> p[1], book |-> p[2]] :
            p \in {q \in Grams(said, n) \X Grams(book, n) :
                    /\ Gram(said, q[1], n) = Gram(book, q[2], n)
                    /\ Once(said, q[1]) /\ Once(book, q[2])}}

\* Mutant: every anchor is kept.
KeepAll(anchors) == SetToSortSeq(anchors, LAMBDA a, b : a.char < b.char)

\* In the order of the book, each anchor later than the last one kept.
Monotonic(anchors) ==
    FoldLeft(LAMBDA kept, a : IF kept = <<>> \/ a.ts > Last(kept).ts THEN Append(kept, a) ELSE kept,
             <<>>, SetToSortSeq(anchors, LAMBDA a, b : a.char < b.char))

\* The second pass: a late start is searched once more, for short grams.
Backfill(said, book, first) ==
    IF first.char > LateChar /\ first.ts > LateTime
    THEN Monotonic(FindAnchors(SubSeq(said, 1, first.said - 1),
                               SubSeq(book, 1, first.book - 1), ShortGram))
    ELSE <<>>

\* _generate_alignment_map: the anchors, with the start of both and the end
\* of both; empty when there are none.
GenerateAlignmentMap(segments, text, length) ==
    LET said  == TranscriptWords(segments)
        book  == BookWords(text)
        late  == Monotonic(FindAnchors(said, book, LongGram))
        found == IF late = <<>> THEN <<>> ELSE Backfill(said, book, late[1]) \o late
        point == [i \in DOMAIN found |-> [char |-> found[i].char, ts |-> found[i].ts]]
    IN  IF found = <<>> THEN <<>>
        ELSE (IF point[1].char > 0 THEN <<[char |-> 0, ts |-> 0]>> ELSE <<>>)
             \o point
             \o (IF Last(point).char < length
                 THEN <<[char |-> length, ts |-> Last(segments).end]>> ELSE <<>>)

\* align_storyteller_and_store falls back to a straight line.
AlignStoryteller(timeline, text, length) ==
    LET segments == StorytellerSegments(timeline)
        anchored == GenerateAlignmentMap(RebuildFragmentedSentences(segments), text, length)
    IN  IF segments = <<>> THEN <<>>
        ELSE IF anchored # <<>> THEN anchored
        ELSE <<[char |-> 0, ts |-> 0], [char |-> length, ts |-> Last(segments).end]>>

\* align_and_store
AlignTranscript(segments, text, length) ==
    GenerateAlignmentMap(RebuildFragmentedSentences(segments), text, length)

(***************************************************************************)
(* Looking a position up.                                                  *)
(***************************************************************************)

\* The last point, unless it is an end of the book that the audio does not
\* reach: then the one before it.
RealEnd(points) ==
    LET n == Len(points)
        chars == points[n].char - points[n - 1].char
        time  == points[n].ts - points[n - 1].ts
    IN  IF n >= 2 /\ time > 0 /\ chars > SentinelRate * time THEN points[n - 1] ELSE points[n]

\* get_alignment_info
AlignmentInfo(points) ==
    [max_timestamp |-> RealEnd(points).ts, max_char |-> RealEnd(points).char,
     total_chars |-> Last(points).char]

\* get_time_for_text, from a character offset.
TimeForText(points, char) ==
    LET f == Max({i \in DOMAIN points : points[i].char =< char} \cup {1})
        p == points[f]
        q == points[f + 1]
    IN  IF char < points[1].char THEN points[1].ts
        ELSE IF char > RealEnd(points).char THEN None
        ELSE IF f = Len(points) \/ q.char = p.char THEN p.ts
        ELSE p.ts + ((q.ts - p.ts) * (char - p.char)) \div (q.char - p.char)

\* Mutant: the end the audio does not reach is taken for a real one.
CharForTimeToEnd(points, ts) ==
    LET f == Max({i \in DOMAIN points : points[i].ts =< ts} \cup {1})
        p == points[f]
        q == points[f + 1]
    IN  IF ts =< points[1].ts THEN points[1].char
        ELSE IF ts > Last(points).ts THEN None
        ELSE IF f = Len(points) \/ q.ts = p.ts THEN p.char
        ELSE p.char + ((q.char - p.char) * (ts - p.ts)) \div (q.ts - p.ts)

\* get_char_for_time
CharForTime(points, ts) ==
    LET f == Max({i \in DOMAIN points : points[i].ts =< ts} \cup {1})
        p == points[f]
        q == points[f + 1]
    IN  IF ts =< points[1].ts THEN points[1].char
        ELSE IF ts > RealEnd(points).ts THEN None
        ELSE IF f = Len(points) \/ q.ts = p.ts THEN p.char
        ELSE p.char + ((q.char - p.char) * (ts - p.ts)) \div (q.ts - p.ts)

=============================================================================
