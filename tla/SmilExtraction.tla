--------------------------- MODULE SmilExtraction ---------------------------
(***************************************************************************)
(* The transcript a read-along ebook carries: utils/smil_extractor.py, and *)
(* the checks of utils/transcriber.py before it is taken.                  *)
(*                                                                         *)
(* An ebook is [files, spine]: its SMIL files in the order of their names, *)
(* and for each document of the spine the file it names, or 0.             *)
(* A file is [src, front, clips]: the audio its clips refer to (None when  *)
(* it names none), whether its name is that of front matter, and its clips *)
(* in order, which are segments whose times may count from the start of    *)
(* the audiobook or of something else.  A chapter is [start, end].  A clip *)
(* whose text element is empty has no words: it counts for the times of    *)
(* its file and is left out of the transcript.                             *)
(***************************************************************************)
EXTENDS Alignment

CONSTANTS
    ValidShare    \* SMIL_VALIDATION_THRESHOLD, in percent

Seconds(c) == c.end - c.start

\* has_media_overlays
HasMediaOverlays(book) == book.files # <<>>

\* _get_smil_files_in_order: each file once, where the spine first names it;
\* when the spine names none, all of them by name.
FilesInOrder(book) ==
    LET named  == SelectSeq(book.spine, LAMBDA k : k # 0)
        Met(i) == \A j \in 1 .. i - 1 : named[j] # named[i]
        first  == SetToSortSeq({i \in DOMAIN named : Met(i)}, LAMBDA i, j : i < j)
    IN  IF named = <<>> THEN book.files ELSE [n \in DOMAIN first |-> book.files[named[first[n]]]]

(***************************************************************************)
(* From what the times of the files count.                                 *)
(***************************************************************************)

\* _get_raw_info: where the clips of a file begin and end.
RawStart(file) == IF file.clips = <<>> THEN 0 ELSE Min({c.start : c \in ToSet(file.clips)})
RawEnd(file)   == IF file.clips = <<>> THEN 0 ELSE Max({c.end : c \in ToSet(file.clips)})

\* Mutant: one file that starts near 0 makes the times relative.
DetectOften(files) ==
    LET sample == SelectSeq(SubSeq(files, 1, Min({10, Len(files)})), LAMBDA f : f.clips # <<>>)
        near   == Cardinality({i \in DOMAIN sample : RawStart(sample[i]) < 30})
    IN  IF Len(sample) < 2 THEN "absolute"
        ELSE IF near = 0 THEN "absolute" ELSE "relative"

\* _detect_timestamp_mode, from the first ten files.
DetectTimestampMode(files) ==
    LET sample == SelectSeq(SubSeq(files, 1, Min({10, Len(files)})), LAMBDA f : f.clips # <<>>)
        n      == Len(sample)
        near   == Cardinality({i \in 1 .. n : RawStart(sample[i]) < 30})
        sorted == SortSeq(sample, LAMBDA f, g : RawStart(f) < RawStart(g))
        follow == Cardinality({i \in 2 .. n : RawStart(sorted[i]) >= RawEnd(sorted[i - 1]) - 10})
    IN  IF n < 2 \/ (near =< 1 /\ follow >= n - 2) THEN "absolute"
        ELSE IF 10 * near >= 7 * n THEN "relative"
        ELSE "auto"

\* _process_smil_with_offset: the clips that have words, so much later.
Shifted(file, by) ==
    LET heard == SelectSeq(file.clips, LAMBDA c : c.words # <<>>)
    IN  [i \in DOMAIN heard |-> [heard[i] EXCEPT !.start = @ + by, !.end = @ + by]]

\* _process_smil_absolute: the clips at their own times.
Direct(file) == Shifted(file, 0)

\* _process_relative_with_chapters, for one file: the chapter among the next
\* six whose length is nearest, within fifteen seconds; without one the file
\* follows the one before.
PlaceFile(last, seconds, chapters, offset) ==
    LET from  == Max({1, last})
        near  == {k \in from .. Min({Len(chapters), from + 5}) :
                     Max({Seconds(chapters[k]) - seconds, seconds - Seconds(chapters[k])}) < 15}
        off(k) == Max({Seconds(chapters[k]) - seconds, seconds - Seconds(chapters[k])})
        best  == Min({k \in near : \A j \in near : off(k) =< off(j)})
    IN  IF near = {} THEN [last |-> last, offset |-> offset, next |-> offset + seconds]
        ELSE [last |-> best, offset |-> chapters[best].start, next |-> chapters[best].end]

\* _process_relative_with_chapters
WithChapters(files, chapters) ==
    LET Step(acc, f) ==
            LET at == PlaceFile(acc.last, RawEnd(f) - RawStart(f), chapters, acc.next)
            IN  [last |-> at.last, next |-> at.next, segs |-> acc.segs \o Shifted(f, at.offset)]
    IN  FoldLeft(Step, [last |-> 0, next |-> 0, segs |-> <<>>],
                 SelectSeq(files, LAMBDA f : ~f.front)).segs

\* _process_relative_sequential: each file after the last segment of the
\* one before.
Stacked(files) ==
    LET Step(acc, f) ==
            LET segs == Shifted(f, acc.next)
            IN  IF segs = <<>> THEN acc
                ELSE [next |-> Max({s.end : s \in ToSet(segs)}), segs |-> acc.segs \o segs]
    IN  FoldLeft(Step, [next |-> 0, segs |-> <<>>], files).segs

\* _process_auto_sequence: times count from the start of the audio file
\* named; where the name changes, the audio before is added.
BySource(files) ==
    LET Step(acc, f) ==
            LET new  == f.src # None /\ acc.src # None /\ f.src # acc.src
                base == IF new THEN acc.base + acc.end ELSE acc.base
            IN  [src |-> IF f.src # None THEN f.src ELSE acc.src,
                 base |-> base,
                 end |-> Max({RawEnd(f), IF new THEN 0 ELSE acc.end}),
                 segs |-> acc.segs \o Shifted(f, base)]
    IN  FoldLeft(Step, [src |-> None, base |-> 0, end |-> 0, segs |-> <<>>], files).segs

(***************************************************************************)
(* extract_transcript: in order, without repetitions, and cut at the end   *)
(* of the audiobook.                                                       *)
(***************************************************************************)
InOrder(s, t) == s.start < t.start \/ (s.start = t.start /\ s.end < t.end)

ExtractTranscript(book, chapters) ==
    LET files == FilesInOrder(book)
        mode  == DetectTimestampMode(files)
        raw   == IF mode = "absolute" THEN FlattenSeq([i \in DOMAIN files |-> Direct(files[i])])
                 ELSE IF mode = "auto" THEN BySource(files)
                 ELSE IF chapters # <<>> THEN WithChapters(files, chapters)
                 ELSE Stacked(files)
        total == IF chapters = <<>> THEN 0 ELSE Last(chapters).end
        kept  == SetToSortSeq({s \in ToSet(raw) : total = 0 \/ s.start < total}, InOrder)
    IN  [i \in DOMAIN kept |->
            IF total > 0 /\ kept[i].end > total THEN [kept[i] EXCEPT !.end = total] ELSE kept[i]]

(***************************************************************************)
(* The checks.                                                             *)
(***************************************************************************)

\* validate_smil: enough of its words are words of the book.
ValidateSmil(segments, text) ==
    LET tokens == UNION {ToSet(s.words) : s \in ToSet(segments)} \ {Blank}
        common == tokens \cap {w.word : w \in ToSet(text)}
    IN  \/ Len(segments) < 2
        \/ /\ tokens # {}
           /\ 100 * Cardinality(common) >= ValidShare * Cardinality(tokens)

\* transcribe_from_smil: empty when the transcript ends before 85 percent of
\* the audiobook, or is that of another text.
TranscribeFromSmil(book, chapters, text) ==
    LET found == ExtractTranscript(book, chapters)
        total == IF chapters = <<>> THEN 0 ELSE Last(chapters).end
    IN  IF /\ HasMediaOverlays(book) /\ found # <<>>
           /\ 100 * Last(found).end >= 85 * total
           /\ ValidateSmil(found, text)
        THEN found ELSE <<>>
=============================================================================
