--------------------------- MODULE Transcription ---------------------------
(***************************************************************************)
(* From the audio of a task to its utterances, as _run_pipeline composes   *)
(* them (src/app/pipeline.py): the words of Parakeet or Whisper, then the  *)
(* segments of a diarizer if the task names one, then the alignment of     *)
(* both.  The clock and the checks between the stages are in Pipeline.     *)
(***************************************************************************)
EXTENDS ParakeetChunks, Alignment

\* What each diarizer may answer for a recording of so many seconds, and what Whisper may.
DiarizerAnswers ==
  [d \in Times |-> {SegmentsFromSortformer(lines) : lines \in SortformerLines(d)} \cup Tracks(d)]
WhisperAnswers ==
  [d \in Times |-> {WordsFromAsrSegments(segs) : segs \in AsrSegmentSeqs(d)}]

VARIABLE asr   \* asr_model of the task

vars == <<asr, chunkVars, alignVars>>

TranscriptionTypeOK ==
  /\ asr \in {"parakeet", "whisper"}
  /\ ChunksTypeOK /\ AlignmentTypeOK

\* Parakeet works only for a task that names it, and its words are the words of the task.
WordsHandedOver ==
  /\ asr = "whisper" => pc = "idle"
  /\ asr = "parakeet" /\ phase # "idle" => pc = "returned" /\ words = all_words

\* The inductive invariant of the whole.
TranscriptionInv == TranscriptionTypeOK /\ ChunksInv /\ AlignmentInv /\ WordsHandedOver

Init ==
  /\ asr \in {"parakeet", "whisper"}
  /\ ChunksInit /\ AlignmentInit

Parakeet == asr = "parakeet" /\ ChunksNext /\ UNCHANGED <<asr, alignVars>>

\* words = list(asr.words(...)), with Parakeet.
WordsOfParakeet ==
  /\ pc = "returned"
  /\ TakeWords(all_words)
  /\ UNCHANGED <<asr, chunkVars>>

\* The same with Whisper, which answers for the whole recording.
WordsOfWhisper ==
  /\ asr = "whisper" /\ phase = "idle"
  /\ \E ws \in WhisperAnswers[duration] : TakeWords(ws)
  /\ UNCHANGED <<asr, chunkVars>>

\* segments = list(diar.segments(...)).
Diarize ==
  /\ phase = "segments"
  /\ \E segs \in DiarizerAnswers[duration] : TakeSegments(segs)
  /\ UNCHANGED <<asr, chunkVars>>

\* Whisper or the diarizer raises.
EngineRaises ==
  /\ phase = "segments" \/ (phase = "idle" /\ asr = "whisper")
  /\ phase' = "raised"
  /\ UNCHANGED <<asr, chunkVars, inputVars, pos, raw, numbers, speakers, buf, utterances>>

Align == AlignmentNext /\ UNCHANGED <<asr, chunkVars>>

Next ==
  \/ Parakeet \/ WordsOfParakeet \/ WordsOfWhisper \/ Diarize \/ EngineRaises \/ Align

Spec == Init /\ [][Next]_vars
----------------------------------------------------------------------------
(* The transcript as a whole.                                              *)

StartOf(utterance) == words[Head(utterance.words)].start
EndOf(utterance) == words[Last(utterance.words)].end

\* The lines of a transcript follow one another in time, and with Parakeet none reaches
\* from one window into the next: a window that is cut, moved or numbered wrongly shows
\* in the transcript, however the speakers are assigned.
LinesFollowInTime ==
  phase = "done" =>
    /\ \A u \in DOMAIN utterances :
         /\ StartOf(utterances[u]) <= EndOf(utterances[u])
         /\ u > 1 => EndOf(utterances[u - 1]) <= StartOf(utterances[u])
    /\ asr = "parakeet" => \A u \in DOMAIN utterances : \E i \in DOMAIN heard :
         heard[i].from <= StartOf(utterances[u]) /\ EndOf(utterances[u]) <= End(heard[i])
=============================================================================
