----------------------------- MODULE MCPositions -----------------------------
(***************************************************************************)
(* Four sentences of an audiobook and the books that are checked: audio in *)
(* short, long or mixed parts, ebooks with front matter, without a         *)
(* sentence, in another order or with an appendix, read-alongs whose times *)
(* count from different starts, and word timings.                          *)
(***************************************************************************)
EXTENDS Positions

\* A sentence of so many seconds, with a mark at its end.
Sentence(words, seconds) == [start |-> 0, end |-> seconds, words |-> words, stop |-> TRUE]

S1 == Sentence(<<"a", "b", "c">>, 2400)
S2 == Sentence(<<"d", "e">>, 2400)
S3 == Sentence(<<"a", "b", "f">>, 1800)
S4 == Sentence(<<"g", "", "h">>, 2100)
S5 == Sentence(<<"i", "j">>, 60)

Chunk(s) == [seconds |-> s.end, said |-> <<s>>]

\* A chunk without a mark at the end of its sentence.
Open(s) == [seconds |-> s.end, said |-> <<[s EXCEPT !.stop = FALSE]>>]

C1 == Chunk(S1)
C2 == Chunk(S2)
C3 == Chunk(S3)
C4 == Chunk(S4)
C5 == Chunk(S5)

\* A text of words, 6000 characters each.
Text(words) == [i \in DOMAIN words |-> [word |-> words[i], char |-> 6000 * (i - 1)]]

Plain    == S1.words \o S2.words \o S3.words \o S4.words
Front2   == <<"x", "y">> \o Plain
Shorter  == S2.words \o S3.words \o S4.words
Swapped  == S1.words \o S3.words \o S2.words \o S4.words
Garbled  == <<"g", "x", "a", "c", "b">> \o S2.words \o S4.words
Refrain  == S1.words \o S2.words \o S1.words

\* A book that has to be transcribed.
Spoken(parts, words, extra) ==
    [text |-> Text(words), length |-> 6000 * Len(words) + extra, parts |-> parts,
     smil |-> [files |-> <<>>, spine |-> <<>>],
     chapters |-> <<>>, timeline |-> <<>>]

Short == <<<<Open(S1)>>, <<C2>>, <<C3>>>>
Long  == <<<<C1, C2>>, <<C3, C4>>>>
Mixed == <<<<C1>>, <<C2, C3>>>>

\* The clip of a sentence, with times that count from another start.
Clip(s, from) == [s EXCEPT !.start = @ + from, !.end = @ + from]

File(src, clips) == [src |-> src, front |-> FALSE, clips |-> clips]

Chapters(lengths) ==
    LET Start(i) == Sum(SubSeq(lengths, 1, i - 1))
    IN  [i \in DOMAIN lengths |-> [start |-> Start(i), end |-> Start(i) + lengths[i]]]

\* An ebook whose spine names these files.
Ebook(named, spine) == [files |-> named, spine |-> spine]

ReadAlong(parts, words, smil, chapters) ==
    [Spoken(parts, words, 0) EXCEPT !.smil = smil, !.chapters = chapters]

Three == <<<<C1>>, <<C3>>, <<C4>>>>
Text3 == S1.words \o S3.words \o S4.words

Absolute == <<File("a", <<Clip(S1, 0)>>), File("a", <<Clip(S3, 2400)>>), File("a", <<Clip(S4, 4200)>>)>>
Relative == <<[File("a", <<Clip(S2, 0)>>) EXCEPT !.front = TRUE],
              File("a", <<Clip(S1, 0)>>), File("b", <<Clip(S3, 0)>>), File("c", <<Clip(S4, 0)>>)>>
TwoTapes == <<File("a", <<Clip(S1, 0)>>), File("a", <<Clip(S3, 2400)>>), File("b", <<Clip(S4, 0)>>)>>

\* The same files in the order of their names.
TapesByName == <<TwoTapes[3], TwoTapes[1], TwoTapes[2]>>

\* The words of an audiobook with the times they are said at.
Timeline(parts) ==
    LET all == Said(FlattenSeq(parts), 0)
        timed(s) == [i \in DOMAIN s.words |->
                        [word |-> s.words[i], stop |-> i = Len(s.words),
                         start |-> s.start + ((i - 1) * Seconds(s)) \div Len(s.words)]]
    IN  SelectSeq(FlattenSeq([k \in DOMAIN all |-> timed(all[k])]), LAMBDA w : w.word # Blank)

MCStories == [
    short    |-> Spoken(Short, Plain, 0),
    long     |-> Spoken(Long, Front2, 0),
    mixed    |-> Spoken(Mixed, Plain, 0),
    shorter  |-> Spoken(Short, Shorter, 0),
    swapped  |-> Spoken(Short, Swapped, 0),
    garbled  |-> Spoken(<<<<C1>>, <<C2>>, <<C4>>>>, Garbled, 0),
    refrain  |-> Spoken(<<<<C1, C2>>, <<C1>>>>, Refrain, 0),
    appendix |-> Spoken(<<<<C1>>, <<C5>>>>, S1.words \o S5.words, 200000),
    absolute |-> ReadAlong(Three, Text3, Ebook(Absolute, <<0, 1, 2, 3>>), Chapters(<<2400, 1800, 2100>>)),
    relative |-> ReadAlong(Three, Text3, Ebook(Relative, <<1, 2, 3, 4>>), Chapters(<<2400, 1800, 2100>>)),
    stacked  |-> ReadAlong(Three, Text3, Ebook(Tail(Relative), <<0, 0>>), <<>>),
    tapes    |-> ReadAlong(Three, Text3, Ebook(TapesByName, <<2, 2, 3, 0, 1>>), Chapters(<<2400, 1800, 2100>>)),
    alike    |-> ReadAlong(<<<<C1>>, <<C2>>, <<C3>>>>, S1.words \o S2.words \o S3.words,
                           Ebook(<<File("a", <<Clip(S1, 0)>>), File("b", <<Clip(S2, 0)>>),
                                   File("c", <<Clip(S3, 0)>>)>>, <<1, 2, 3>>),
                           Chapters(<<2400, 2400, 1800>>)),
    silent   |-> Spoken(<<<<C5>>>>, Text3, 0),
    timed    |-> [Spoken(Three, Text3, 0) EXCEPT !.timeline = Timeline(Three)]]

\* A book with front matter, one without the first sentence, one with an
\* appendix, and one that has no alignment.
ReadStories == {MCStories[k] : k \in {"long", "shorter", "appendix", "silent"}}

AllStories == {MCStories[k] : k \in DOMAIN MCStories}
=============================================================================
