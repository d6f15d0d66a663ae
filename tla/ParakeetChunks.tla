--------------------------- MODULE ParakeetChunks ---------------------------
(***************************************************************************)
(* The chunked recognition of Parakeet (src/app/engines/asr/parakeet.py,   *)
(* ParakeetASR.words): windows of at most PARAKEET_CHUNK_SEC are cut into  *)
(* files of their own, recognised one by one, and their words moved to the *)
(* time of the recording.  A run that dies leaves its files behind, and    *)
(* the restart of the task finds them, perhaps under another setting.      *)
(* The recogniser is external: any words within the audio it is given.     *)
(* Times are whole numbers; the sums of the code are exact as well, as a   *)
(* last window is never longer than what lies before it.                   *)
(***************************************************************************)
EXTENDS EngineOutputs

CONSTANTS MaxDuration,   \* bound: the length of the recording
          ChunkSettings, \* the values of PARAKEET_CHUNK_SEC to look at
          MaxDeaths,     \* bound
          NoFile

ASSUME ChunksAssumption ==
  /\ MaxDuration \in Nat /\ MaxDeaths \in Nat
  /\ ChunkSettings \subseteq Nat \ {0}   \* _positive_parakeet_chunk of config.py
  /\ NoFile \notin [from : Nat, length : Nat]

VARIABLES duration,
          chunkSec,    \* _chunk_sec of the process
          pc,
          start, segment_id,
          files,       \* chunk_<id>.wav: the window each of them holds, or NoFile
          heard,       \* history: the windows the recogniser was given
          all_words,
          deaths       \* the runs that died since the chunks were last removed

positionVars == <<start, segment_id>>
chunkVars == <<duration, chunkSec, pc, positionVars, files, heard, all_words, deaths>>

Times == 0 .. MaxDuration
Window(from, length) == [from |-> from, length |-> length]
Windows == [from : Times, length : Nat]
Ids == 0 .. MaxDuration

ChunksTypeOK ==
  /\ duration \in Times /\ chunkSec \in ChunkSettings
  /\ pc \in {"idle", "whole", "loop", "chunk", "returned", "raised"}
  /\ start \in Times /\ segment_id \in Ids
  /\ files \in [Ids -> Windows \cup {NoFile}]
  /\ heard \in Seq(Windows) /\ all_words \in Seq(Word)
  /\ deaths \in 0 .. MaxDeaths

NoFiles == [i \in Ids |-> NoFile]

ChunksInit ==
  /\ duration \in Times \ {0}   \* _run_pipeline refuses an empty recording
  /\ chunkSec \in ChunkSettings
  /\ pc = "idle"
  /\ start = 0 /\ segment_id = 0
  /\ files = NoFiles
  /\ heard = <<>> /\ all_words = <<>>
  /\ deaths = 0

----------------------------------------------------------------------------
(* The recogniser.                                                         *)

\* A text without timestamps is one word as long as its audio.
WholeAsWord(window, offset, id) ==
  <<WordAt([start |-> 0, end |-> window.length], offset, id)>>

\* _transcribe_file of this audio, its words moved by offset.
Transcribe(window, offset, id) ==
  /\ heard' = Append(heard, window)
  /\ \/ \E stamps \in StampSeqs(window.length) :
          all_words' = all_words \o WordsFromStamps(stamps, offset, id)
     \/ all_words' = all_words \o WholeAsWord(window, offset, id)

----------------------------------------------------------------------------
(* words().                                                                *)

Begin ==
  /\ pc = "idle"
  /\ pc' = IF duration <= chunkSec THEN "whole" ELSE "loop"
  /\ UNCHANGED <<duration, chunkSec, positionVars, files, heard, all_words, deaths>>

TranscribeWhole ==
  /\ pc = "whole"
  /\ Transcribe(Window(0, duration), 0, 0)
  /\ pc' = "returned"
  /\ UNCHANGED <<duration, chunkSec, positionVars, files, deaths>>

\* Faulty variant: the last window is as long as the others.
ChunkDurFixed == chunkSec

ChunkDur == IF chunkSec <= duration - start THEN chunkSec ELSE duration - start

\* Faulty variant: a file that is there already is kept (ffmpeg without -y).
KeptWindow == IF files[segment_id] = NoFile THEN Window(start, ChunkDur) ELSE files[segment_id]

\* ffmpeg -y: the window from start, whatever the file held before.
CutWindow == Window(start, ChunkDur)

\* _extract_wav_segment.
Extract ==
  /\ pc = "loop" /\ start < duration
  /\ files' = [files EXCEPT ![segment_id] = CutWindow]
  /\ pc' = "chunk"
  /\ UNCHANGED <<duration, chunkSec, positionVars, heard, all_words, deaths>>

\* Faulty variant: the words of every chunk begin at 0.
OffsetForgotten == 0

TimeOffset == start

\* The chunk is recognised, its file unlinked, and the loop goes on.
TranscribeChunk ==
  /\ pc = "chunk"
  /\ Transcribe(files[segment_id], TimeOffset, segment_id)
  /\ files' = [files EXCEPT ![segment_id] = NoFile]
  /\ start' = start + ChunkDur
  /\ segment_id' = segment_id + 1
  /\ pc' = "loop"
  /\ UNCHANGED <<duration, chunkSec, deaths>>

Return ==
  /\ pc = "loop" /\ start >= duration
  /\ pc' = "returned"
  /\ files' = NoFiles /\ deaths' = 0
  /\ UNCHANGED <<duration, chunkSec, positionVars, heard, all_words>>

\* Faulty variant: the directory is removed on a return only.
LeftByFailure == files

\* rmtree in the finally of the loop.
AfterFailure == NoFiles

\* ffmpeg or the recogniser raises.
Raise ==
  /\ \/ pc \in {"loop", "chunk"} /\ start < duration /\ files' = AfterFailure
     \/ pc = "whole" /\ UNCHANGED files
  /\ pc' = "raised"
  /\ UNCHANGED <<duration, chunkSec, positionVars, heard, all_words, deaths>>

\* The process dies; the next run of the task finds the files.
Die ==
  /\ pc \in {"whole", "loop", "chunk"} /\ deaths < MaxDeaths
  /\ deaths' = deaths + 1
  /\ pc' = "idle"
  /\ chunkSec' \in ChunkSettings
  /\ start' = 0 /\ segment_id' = 0
  /\ heard' = <<>> /\ all_words' = <<>>
  /\ UNCHANGED <<duration, files>>

\* Parakeet at work, or failing.
ChunksNext ==
  \/ Begin \/ TranscribeWhole \/ Extract \/ TranscribeChunk \/ Return \/ Raise \/ Die
----------------------------------------------------------------------------
(* Properties.                                                             *)

End(window) == window.from + window.length

\* The recogniser hears the whole recording once: each window begins where the one
\* before it ended, none is longer than the limit, and none is a leftover of a run
\* that died.
HearsEverythingOnce ==
  /\ \A i \in DOMAIN heard :
       /\ heard[i].from = IF i = 1 THEN 0 ELSE End(heard[i - 1])
       /\ heard[i].length <= chunkSec
  /\ pc = "returned" => heard # <<>> /\ End(Last(heard)) = duration

\* Every word has the id of the window it was heard in and lies within it, and the words
\* of the recording are in the order of time.  (The alignment relies on the order.)
WordsInTheirWindow ==
  /\ \A i \in DOMAIN all_words :
       LET window == heard[all_words[i].segment_id + 1] IN
       window.from <= all_words[i].start /\ all_words[i].end <= End(window)
  /\ \A i \in 1 .. Len(all_words) - 1 :
       /\ all_words[i].end <= all_words[i + 1].start
       /\ all_words[i].segment_id <= all_words[i + 1].segment_id

\* A run never adds more than one chunk to the disk, and the loop leaves none behind,
\* its own or those of a run that died, whether it returns or raises.
ChunksRemoved ==
  /\ Cardinality({i \in Ids : files[i] # NoFile}) <= deaths + 1
  /\ pc \in {"returned", "raised"} /\ duration > chunkSec => files = NoFiles

----------------------------------------------------------------------------
(* The inductive invariant behind these properties.                        *)

\* The loop stands where the last window ended, and its chunk file holds the next one.
LoopKnown ==
  /\ duration > 0
  /\ pc \in {"idle", "whole"} =>
       heard = <<>> /\ all_words = <<>> /\ start = 0 /\ segment_id = 0
  /\ pc = "whole" => duration <= chunkSec
  /\ pc \in {"loop", "chunk"} =>
       /\ duration > chunkSec /\ start <= duration
       /\ segment_id = Len(heard) /\ segment_id <= start
       /\ start = IF heard = <<>> THEN 0 ELSE End(Last(heard))
  /\ pc = "chunk" => start < duration /\ files[segment_id] = Window(start, ChunkDur)

\* The words so far lie in the windows heard, and before the place of the loop.
WordsBehind ==
  \A i \in DOMAIN all_words :
    /\ all_words[i].segment_id < Len(heard)
    /\ all_words[i].start <= all_words[i].end
    /\ pc \in {"loop", "chunk"} => all_words[i].end <= start

ChunkFiles == {i \in Ids : files[i] # NoFile}

\* Every death has left one file at most, and there is one more while it is recognised.
FilesCounted == Cardinality(ChunkFiles) <= deaths + (IF pc = "chunk" THEN 1 ELSE 0)

ChunksInv ==
  ChunksTypeOK /\ LoopKnown /\ WordsBehind /\ FilesCounted
    /\ HearsEverythingOnce /\ WordsInTheirWindow /\ ChunksRemoved
=============================================================================
