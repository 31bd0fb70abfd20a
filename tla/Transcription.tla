---------------------------- MODULE Transcription ----------------------------
(***************************************************************************)
(* One book on its way from an audiobook and an ebook to an alignment: the *)
(* three sources of a transcript in the order _phase_transcription of      *)
(* services/background_job_service.py tries them, process_audio of         *)
(* utils/transcriber.py with the cache that lets a later job go on where   *)
(* one ended, and the alignment that is stored in the end.                 *)
(*                                                                         *)
(* An audiobook is a sequence of parts, the files that are downloaded, and *)
(* a part is the sequence of the chunks it would be split into: one for a  *)
(* part of at most 45 minutes.  A chunk is [seconds, said], what is said   *)
(* counted from its own start.  An audio file <<i, j>> is chunk j of part  *)
(* i, and <<i, 0>> the whole part.                                         *)
(***************************************************************************)
EXTENDS SmilExtraction

CONSTANTS
    Stories,     \* [text, length, parts, smil, chapters, timeline] of a book
    MaxEnds,     \* bound on the jobs that end early
    MaxFlaws     \* bound on the chunks that ffmpeg or the provider fail on

ASSUME TranscriptionAssumption == MaxEnds \in Nat /\ MaxFlaws \in Nat

VARIABLES
    story,       \* the book
    pc,          \* where its job is
    splits,      \* cache directory: the files part_*_split_*.wav
    progress,    \* cache directory: _progress.json
    files,       \* downloaded_files
    segs,        \* full_transcript
    chunks,      \* chunks_completed
    total,       \* cumulative_duration
    alignment,   \* the BookAlignment row
    ends,        \* jobs that ended early so far
    flaws,       \* chunks that failed so far
    counted,     \* history: the files chunks_completed counts
    amiss        \* history: what went wrong with the audio

cache   == <<splits, progress>>
memory  == <<files, segs, chunks, total>>
history == <<counted, amiss>>
pipeline == <<story, pc, cache, memory, alignment, ends, flaws, history>>

Nothing == [chunks |-> 0, total |-> 0, segs |-> <<>>, done |-> FALSE]

InitPipeline ==
    /\ story \in Stories
    /\ pc = <<"idle">>
    /\ splits = {} /\ progress = Nothing
    /\ files = <<>> /\ segs = <<>> /\ chunks = 0 /\ total = 0
    /\ alignment = <<>>
    /\ ends = 0 /\ flaws = 0
    /\ counted = <<>> /\ amiss = {}

(***************************************************************************)
(* The audio.                                                              *)
(***************************************************************************)
Parts == DOMAIN story.parts
Sum(s) == FoldLeft(+, 0, s)

ChunkFiles(i) == {<<i, j>> : j \in DOMAIN story.parts[i]}

\* The files a part is split into, none for one that is short enough.
SplitFiles(i) == IF Len(story.parts[i]) > 1 THEN ChunkFiles(i) ELSE {}

\* sorted(book_cache_dir.glob("part_*_split_*.wav"))
Sorted(fs) == SetToSortSeq(fs, LAMBDA f, g : f[1] < g[1] \/ (f[1] = g[1] /\ f[2] < g[2]))

Shift(said, by) == [k \in DOMAIN said |-> [said[k] EXCEPT !.start = @ + by, !.end = @ + by]]

\* What is said in a sequence of chunks, from a given second on.
Said(cs, from) ==
    FlattenSeq([j \in DOMAIN cs |->
        Shift(cs[j].said, from + Sum([k \in 1 .. j - 1 |-> cs[k].seconds]))])

ChunksOf(file) == IF file[2] = 0 THEN story.parts[file[1]] ELSE <<story.parts[file[1]][file[2]]>>

\* get_audio_duration
Duration(file) == Sum([j \in DOMAIN ChunksOf(file) |-> ChunksOf(file)[j].seconds])

\* What the whole audiobook says, and when.
Truth == Said(FlattenSeq(story.parts), 0)

(***************************************************************************)
(* The job.                                                                *)
(***************************************************************************)
Rest == <<story, alignment, ends>>

\* Priorities 1 and 2: the word timings of Storyteller, or the transcript the
\* ebook carries.
OtherSources ==
    LET smil == TranscribeFromSmil(story.smil, story.chapters, story.text)
    IN  /\ pc = <<"idle">>
        /\ \/ /\ story.timeline # <<>>
              /\ alignment' = AlignStoryteller(story.timeline, story.text, story.length)
              /\ pc' = <<"stored">>
              /\ UNCHANGED segs
           \/ /\ story.timeline = <<>> /\ smil # <<>>
              /\ segs' = smil /\ pc' = <<"align">>
              /\ UNCHANGED alignment
        /\ UNCHANGED <<story, cache, files, chunks, total, ends, flaws, history>>

\* The parts of which the cache holds something.
Covered == {f[1] : f \in splits}

\* Transcription begins: chunks that were counted in another list of files,
\* or files that leave some of the audio out, are what went wrong.
Begin(fs, n) ==
    /\ files' = fs
    /\ pc' = <<"transcribe">>
    /\ amiss' = amiss
         \cup (IF n > 0 /\ fs # counted THEN {"counted otherwise"} ELSE {})
         \cup (IF FlattenSeq([k \in DOMAIN fs |-> ChunksOf(fs[k])]) # FlattenSeq(story.parts)
               THEN {"audio left out"} ELSE {})

\* process_audio opens the cache.  A finished transcript is returned.
\* Otherwise what was finished is loaded, and the job goes on with the split
\* files that are there, if there are any; a file that was torn while it was
\* written empties the cache.  Without finished chunks the split files are
\* used when every part has some, else wiped and downloaded again.
OpenCache ==
    /\ pc = <<"idle">> /\ story.timeline = <<>>
    /\ TranscribeFromSmil(story.smil, story.chapters, story.text) = <<>>
    /\ IF progress # None /\ progress.done
       THEN /\ segs' = progress.segs /\ pc' = <<"align">>
            /\ UNCHANGED <<cache, files, chunks, total, amiss>>
       ELSE LET left == IF progress = None THEN Nothing ELSE progress
                there == IF progress = None THEN {} ELSE splits
                resume == there # {} /\ left.chunks > 0
            IN  /\ chunks' = left.chunks /\ total' = left.total /\ segs' = left.segs
                /\ IF resume \/ (there # {} /\ Covered = Parts)
                   THEN /\ Begin(Sorted(there), left.chunks)
                        /\ UNCHANGED cache
                   ELSE /\ files' = <<>> /\ pc' = <<"download", 1>>
                        /\ splits' = {}
                        /\ progress' = IF there # {} THEN Nothing ELSE left
                        /\ UNCHANGED amiss
    /\ UNCHANGED <<flaws, counted>>
    /\ UNCHANGED Rest

\* The next part is downloaded, normalised and looked at: one that is short
\* enough, or whose duration ffprobe does not find, stays whole.
After(i) == IF i = Len(story.parts) THEN <<"ready">> ELSE <<"download", i + 1>>

Download(i) ==
    /\ pc = <<"download", i>>
    /\ \/ /\ SplitFiles(i) # {}
          /\ pc' = <<"split", i, 1>>
          /\ UNCHANGED <<files, flaws>>
       \/ /\ SplitFiles(i) = {} \/ flaws < MaxFlaws
          /\ flaws' = IF SplitFiles(i) = {} THEN flaws ELSE flaws + 1
          /\ files' = Append(files, <<i, 0>>)
          /\ pc' = After(i)
    /\ UNCHANGED <<cache, segs, chunks, total, history>>
    /\ UNCHANGED Rest

\* split_audio_file makes chunk j of part i, or ffmpeg fails and it is left
\* out; a part of which no chunk was made stays whole.
SplitChunk(i, j) ==
    /\ pc = <<"split", i, j>>
    /\ \E made \in BOOLEAN :
           /\ made \/ flaws < MaxFlaws
           /\ flaws' = IF made THEN flaws ELSE flaws + 1
           /\ splits' = IF made THEN splits \cup {<<i, j>>} ELSE splits
           /\ LET done == IF made THEN Append(files, <<i, j>>) ELSE files
                  last == j = Len(story.parts[i])
                  none == \A k \in DOMAIN done : done[k][1] # i
              IN  /\ files' = IF last /\ none THEN Append(done, <<i, 0>>) ELSE done
                  /\ pc' = IF last THEN After(i) ELSE <<"split", i, j + 1>>
    /\ UNCHANGED <<progress, segs, chunks, total, history>>
    /\ UNCHANGED Rest

\* Phase 2 begins with all the files.
AllDownloaded ==
    /\ pc = <<"ready">>
    /\ Begin(files, chunks)
    /\ UNCHANGED <<cache, segs, chunks, total, flaws, counted>>
    /\ UNCHANGED Rest

\* The next chunk that was not finished before is transcribed and placed
\* behind those before it.  One whose duration is not found takes no time
\* and is not saved; one the provider fails on is counted without text.
TranscribeChunk ==
    /\ pc = <<"transcribe">> /\ chunks < Len(files)
    /\ LET file == files[chunks + 1]
       IN  \/ /\ segs' = segs \o Said(ChunksOf(file), total)
              /\ total' = total + Duration(file)
              /\ pc' = <<"save">>
              /\ UNCHANGED <<flaws, amiss>>
           \/ /\ flaws < MaxFlaws /\ flaws' = flaws + 1
              /\ \/ /\ total' = total + Duration(file)
                    /\ pc' = <<"save">>
                    /\ amiss' = amiss \cup {"not transcribed"}
                 \/ /\ amiss' = amiss \cup {"no duration"}
                    /\ UNCHANGED <<total, pc>>
              /\ UNCHANGED segs
    /\ chunks' = chunks + 1
    /\ UNCHANGED <<cache, files, counted>>
    /\ UNCHANGED Rest

\* Mutant: the time of the finished chunks is not saved.
SaveWithoutTime ==
    /\ pc = <<"save">>
    /\ progress' = [chunks |-> chunks, total |-> 0, segs |-> segs, done |-> chunks = Len(files)]
    /\ counted' = files
    /\ pc' = <<"transcribe">>
    /\ UNCHANGED <<splits, memory, flaws, amiss>>
    /\ UNCHANGED Rest

SaveProgress ==
    /\ pc = <<"save">>
    /\ progress' = [chunks |-> chunks, total |-> total, segs |-> segs, done |-> chunks = Len(files)]
    /\ counted' = files
    /\ pc' = <<"transcribe">>
    /\ UNCHANGED <<splits, memory, flaws, amiss>>
    /\ UNCHANGED Rest

\* All chunks are done: the cache is removed and the transcript returned.
FinishAudio ==
    /\ pc = <<"transcribe">> /\ chunks >= Len(files)
    /\ splits' = {} /\ progress' = Nothing
    /\ pc' = <<"align">>
    /\ UNCHANGED <<memory, flaws, history>>
    /\ UNCHANGED Rest

\* _phase_alignment: the map is stored, or the job fails because there is no
\* transcript or no anchor.
AlignAndStore ==
    LET points == AlignTranscript(segs, story.text, story.length)
    IN  /\ pc = <<"align">>
        /\ alignment' = points
        /\ pc' = IF points = <<>> THEN <<"failed">> ELSE <<"stored">>
        /\ files' = <<>> /\ segs' = <<>> /\ chunks' = 0 /\ total' = 0
        /\ UNCHANGED <<story, cache, ends, flaws, history>>

\* The job ends early: a download or the provider fails, or the process
\* stops.  What it had in memory is gone, and a file being written is torn.
EndEarly ==
    /\ ends < MaxEnds /\ ends' = ends + 1
    /\ pc[1] \in {"download", "split", "transcribe", "save", "align"}
    /\ progress' \in {progress} \cup IF pc[1] = "save" THEN {None} ELSE {}
    /\ pc' = <<"idle">>
    /\ files' = <<>> /\ segs' = <<>> /\ chunks' = 0 /\ total' = 0
    /\ UNCHANGED <<story, splits, alignment, flaws, history>>

ProcessAudio ==
    \/ OpenCache \/ AllDownloaded \/ TranscribeChunk \/ SaveProgress \/ FinishAudio
    \/ \E i \in Parts : Download(i) \/ \E j \in DOMAIN story.parts[i] : SplitChunk(i, j)

RunJob == OtherSources \/ ProcessAudio \/ AlignAndStore \/ EndEarly
=============================================================================
