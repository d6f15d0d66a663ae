------------------------------ MODULE Pipeline ------------------------------
(***************************************************************************)
(* One run of run_pipeline (src/app/pipeline.py) against the clock, from   *)
(* the moment its row is running and its upload found: the stages, the     *)
(* deadline of TASK_TIMEOUT_SEC that is looked at between them, the limit  *)
(* given to ffmpeg, and the code the run ends with.  Time passes anywhere, *)
(* also between two statements of the thread.  PipelineThread is the same  *)
(* run as the other threads and the event loop see it.                     *)
(***************************************************************************)
EXTENDS Integers

CONSTANTS FfmpegTimeouts,   \* the values of FFMPEG_TIMEOUT_SEC to look at, 0 for none
          TaskTimeouts,     \* the values of TASK_TIMEOUT_SEC, 0 for none
          MaxTime,          \* bound: the clock stops here
          NoLimit

ASSUME PipelineAssumption ==
  /\ FfmpegTimeouts \subseteq Nat
  /\ TaskTimeouts \subseteq Nat
  /\ MaxTime \in Nat
  /\ NoLimit \notin Int

VARIABLES conf,       \* the settings: both timeouts, the tone layers configured
          task,       \* what the row asks for: diarization, tone
          loaded,     \* the engines the slot can resolve
          now,        \* the clock, 0 when the run starts
          pc,         \* the stage under way, or the next one
          due,        \* the deadline is to be checked before it
          limit,      \* the timeout subprocess.run gets for ffmpeg
          began,      \* when ffmpeg was started
          ended,      \* when each stage returned
          layers,     \* tone_layers
          skipped,    \* tone_skipped
          code        \* the code the run ends with

inputVars == <<conf, task, loaded>>
ffmpegVars == <<limit, began>>
resultVars == <<layers, skipped>>
vars == <<inputVars, now, pc, due, ffmpegVars, ended, resultVars, code>>

Layers == {"text", "prosody", "ser"}
Engines == {"asr", "diar", "text", "ser"}
Stages == {"convert", "asr", "diar", "align", "tone"}
PC == Stages \cup {"remaining", "spawn", "killed", "measure", "commit", "done"}
Code == {"none", "success", "task_timeout", "ffmpeg_timeout", "zero_duration",
         "engine_unavailable", "pipeline_error"}

NotEnded == -1

PipelineTypeOK ==
  /\ conf \in [ffmpeg : FfmpegTimeouts, task : TaskTimeouts, layers : SUBSET Layers]
  /\ task \in [diar : BOOLEAN, tone : BOOLEAN]
  /\ loaded \in SUBSET Engines
  /\ now \in 0 .. MaxTime
  /\ pc \in PC
  /\ due \in BOOLEAN
  /\ limit \in Nat \cup {NoLimit}
  /\ began \in Nat
  /\ ended \in [Stages -> Nat \cup {NotEnded}]
  /\ layers \in SUBSET Layers
  /\ skipped \in BOOLEAN
  /\ code \in Code

Init ==
  /\ conf \in [ffmpeg : FfmpegTimeouts, task : TaskTimeouts, layers : SUBSET Layers]
  /\ task \in [diar : BOOLEAN, tone : BOOLEAN]
  /\ loaded \in SUBSET Engines
  /\ now = 0
  /\ pc = "remaining" /\ due = TRUE
  /\ limit = NoLimit /\ began = 0
  /\ ended = [s \in Stages |-> NotEnded]
  /\ layers = {} /\ skipped = FALSE
  /\ code = "none"

----------------------------------------------------------------------------
(* The clock and the deadline.                                             *)

HasDeadline == conf.task > 0

\* The run starts at 0, so the deadline is the timeout itself.
Deadline == conf.task

Over == HasDeadline /\ now >= Deadline

\* communicate(timeout) gives up, and subprocess.run kills the process, as soon as
\* the limit has passed.
KillDue == pc = "convert" /\ limit # NoLimit /\ now >= began + limit

Tick ==
  /\ pc # "done" /\ now < MaxTime
  /\ ~KillDue
  /\ now' = now + 1
  /\ UNCHANGED <<inputVars, pc, due, ffmpegVars, ended, resultVars, code>>

Goto(next, check) == pc' = next /\ due' = check

\* mark_error with this code; the run is over.
Fail(c) == code' = c /\ Goto("done", FALSE)

\* _raise_if_task_timeout.
CheckDeadline ==
  /\ due
  /\ IF Over THEN Fail("task_timeout") ELSE Goto(pc, FALSE) /\ UNCHANGED code
  /\ UNCHANGED <<inputVars, now, ffmpegVars, ended, resultVars>>

\* Faulty variant: no check after the recognition of the words.
CheckedButAsr == {"convert", "diar", "align"}

\* Faulty variant: none after the alignment.
CheckedButAlign == {"convert", "asr", "diar"}

\* The stages after which the deadline is checked.
Checked == {"convert", "asr", "diar", "align"}

InStage(s) == pc = s /\ ~due

Return(s, next) ==
  /\ ended' = [ended EXCEPT ![s] = now]
  /\ Goto(next, s \in Checked)
  /\ UNCHANGED code

\* A stage returns, or the exception it raises ends the run.
ReturnOrRaise(s, next) ==
  \/ Return(s, next)
  \/ Fail("pipeline_error") /\ UNCHANGED ended

----------------------------------------------------------------------------
(* ffmpeg.                                                                 *)

MinOf(a, b) == IF a <= b THEN a ELSE b

\* Faulty variant: a FFMPEG_TIMEOUT_SEC of 0 is compared like any other.
FfmpegTimeoutMin ==
  IF HasDeadline THEN MinOf(conf.ffmpeg, Deadline - now) ELSE conf.ffmpeg

\* _ffmpeg_timeout_bounded after its check: the clock is read once more.
FfmpegTimeoutBounded ==
  LET remaining == Deadline - now IN
  IF ~HasDeadline THEN conf.ffmpeg
  ELSE IF conf.ffmpeg <= 0 THEN remaining
  ELSE MinOf(conf.ffmpeg, remaining)

\* Faulty variant: the value is passed on as it is.
FfmpegTimeoutPlain(value) == value

\* audio._ffmpeg_timeout_sec: what is not positive means no limit.
FfmpegTimeoutSec(value) == IF value <= 0 THEN NoLimit ELSE value

BoundFfmpeg ==
  /\ InStage("remaining")
  /\ limit' = FfmpegTimeoutSec(FfmpegTimeoutBounded)
  /\ Goto("spawn", FALSE)
  /\ UNCHANGED <<inputVars, now, began, ended, resultVars, code>>

\* prepare_wav starts ffmpeg, or refuses the suffix of the upload.
StartFfmpeg ==
  /\ InStage("spawn")
  /\ \/ Goto("convert", FALSE) /\ began' = now /\ UNCHANGED code
     \/ Fail("pipeline_error") /\ UNCHANGED began
  /\ UNCHANGED <<inputVars, now, limit, ended, resultVars>>

Convert ==
  /\ InStage("convert")
  /\ ReturnOrRaise("convert", "measure")
  /\ UNCHANGED <<inputVars, now, ffmpegVars, resultVars>>

KillFfmpeg ==
  /\ InStage("convert") /\ KillDue
  /\ Goto("killed", FALSE)
  /\ UNCHANGED <<inputVars, now, ffmpegVars, ended, resultVars, code>>

\* Faulty variant: FfmpegTimeout is not looked at again.
AlwaysFfmpegTimeout == "ffmpeg_timeout"

\* Whose limit it was: except FfmpegTimeout checks the deadline first.
KilledBy == IF Over THEN "task_timeout" ELSE "ffmpeg_timeout"

FfmpegTimedOut ==
  /\ InStage("killed")
  /\ Fail(KilledBy)
  /\ UNCHANGED <<inputVars, now, ffmpegVars, ended, resultVars>>

----------------------------------------------------------------------------
(* The stages after it.                                                    *)

\* audio_duration_sec: nothing in the file, or no file.
Measure ==
  /\ InStage("measure")
  /\ \/ Goto("asr", FALSE) /\ UNCHANGED code
     \/ Fail("zero_duration")
     \/ Fail("pipeline_error")
  /\ UNCHANGED <<inputVars, now, ffmpegVars, ended, resultVars>>

\* resolve_* and the engine's call.
Infer(s, next) ==
  /\ InStage(s)
  /\ IF s \in loaded THEN ReturnOrRaise(s, next)
                     ELSE Fail("engine_unavailable") /\ UNCHANGED ended
  /\ UNCHANGED <<inputVars, now, ffmpegVars, resultVars>>

Asr == Infer("asr", IF task.diar THEN "diar" ELSE "align")

Diarize == Infer("diar", "align")

\* align, or utterances_from_words without diarization.
Align ==
  /\ InStage("align")
  /\ ReturnOrRaise("align", "tone")
  /\ UNCHANGED <<inputVars, now, ffmpegVars, resultVars>>

\* Prosody needs no engine; text and ser are left out if theirs is not there.
LayersApplied == {l \in conf.layers : l = "prosody" \/ l \in loaded}

\* Faulty variant: only a task for which nothing is configured counts as skipped.
SkippedWhenNotConfigured(applied) == conf.layers = {}

\* tone_any_layer_configured() is false, or run_tone_pass applied none.
ToneSkipped(applied) == applied = {}

NoTone ==
  /\ InStage("tone")
  /\ ~task.tone
  /\ Goto("commit", FALSE)
  /\ UNCHANGED <<inputVars, now, ffmpegVars, ended, resultVars, code>>

\* run_tone_pass: its layers, one after the other, with no look at the deadline.
Tone ==
  /\ InStage("tone")
  /\ task.tone
  /\ \/ /\ Return("tone", "commit")
        /\ layers' = LayersApplied
        /\ skipped' = ToneSkipped(LayersApplied)
     \/ /\ LayersApplied # {}
        /\ Fail("pipeline_error")
        /\ UNCHANGED <<ended, resultVars>>
  /\ UNCHANGED <<inputVars, now, ffmpegVars>>

\* mark_success, or mark_error with what it raised.
Commit ==
  /\ InStage("commit")
  /\ \/ Goto("done", FALSE) /\ code' = "success"
     \/ Fail("pipeline_error")
  /\ UNCHANGED <<inputVars, now, ffmpegVars, ended, resultVars>>

Next ==
  \/ Tick \/ CheckDeadline
  \/ BoundFfmpeg \/ StartFfmpeg \/ Convert \/ KillFfmpeg \/ FfmpegTimedOut
  \/ Measure \/ Asr \/ Diarize \/ Align \/ NoTone \/ Tone \/ Commit

Spec == Init /\ [][Next]_vars
----------------------------------------------------------------------------
(* Properties.                                                             *)

Late(s) == HasDeadline /\ ended[s] >= Deadline

\* README.md:109: "the current stage is allowed to finish, later stages are skipped".
\* At most one stage of a run returns after the deadline, wherever the clock jumps.
OneStageOverruns == \A s, t \in Stages : Late(s) /\ Late(t) => s = t

\* A transcript that was ready only after the deadline is never stored as a success
\* (README.md:109: ffmpeg, ASR, diarization and alignment count, the tone pass does not).
SuccessInTime ==
  code = "success" /\ HasDeadline => ended["align"] < Deadline

\* The code names the limit that was really used up: the task's, or ffmpeg's own
\* while the task still had time.
CodeNamesLimit ==
  /\ code = "task_timeout" => Over
  /\ code = "ffmpeg_timeout" => conf.ffmpeg > 0 /\ now >= began + conf.ffmpeg

\* README.md:222: a success that was asked for tone either names the layers applied,
\* only such as are configured, or says that tone was skipped.
ToneAnswered ==
  code = "success" /\ task.tone =>
    /\ skipped <=> layers = {}
    /\ layers \subseteq conf.layers
    /\ "prosody" \in conf.layers => "prosody" \in layers

\* pipeline.py:87: ffmpeg gets FFMPEG_TIMEOUT_SEC, but not longer than what remains of
\* TASK_TIMEOUT_SEC; so it has a limit if either is set.  The code keeps to that unless
\* the deadline passes between its check and the second reading of the clock.
UnlimitedOnlyIfLate ==
  pc = "convert" /\ limit = NoLimit /\ (HasDeadline \/ conf.ffmpeg > 0)
    => HasDeadline /\ began >= Deadline

----------------------------------------------------------------------------
(* The inductive invariant behind these properties.                        *)

EndedInThePast == \A s \in Stages : ended[s] <= now

\* After a late stage there is a check to come, or nothing is left to run.
LateIsLast == (\E s \in Stages : Late(s)) => due \/ pc \in {"commit", "done"}

AlignedInTime ==
  ((pc \in {"tone", "commit"} /\ ~due) \/ code = "success") /\ HasDeadline
    => ended["align"] < Deadline

\* The code is set by the last step.
CodeAtTheEnd == code # "none" => pc = "done" /\ ~due

\* Where the limit of ffmpeg comes from, and that it has passed when ffmpeg is killed.
LimitKnown ==
  /\ pc \in {"spawn", "convert", "killed"} =>
       LET asked == IF pc = "spawn" THEN now ELSE began IN
       IF limit = NoLimit
         THEN HasDeadline \/ conf.ffmpeg > 0 => HasDeadline /\ asked >= Deadline
         ELSE \/ conf.ffmpeg > 0 /\ limit = conf.ffmpeg
              \/ HasDeadline /\ asked + limit >= Deadline
  /\ pc = "killed" => limit # NoLimit /\ now >= began + limit

\* A run that has ended has a code.
EndHasCode == pc = "done" => ~due /\ code # "none"

\* The tone pass has answered before the commit.
ToneKnown ==
  (pc = "commit" \/ code = "success") /\ task.tone =>
    /\ skipped <=> layers = {}
    /\ layers \subseteq conf.layers
    /\ "prosody" \in conf.layers => "prosody" \in layers

DeadlineInv ==
  PipelineTypeOK /\ EndedInThePast /\ LateIsLast /\ AlignedInTime /\ CodeAtTheEnd
    /\ OneStageOverruns

PipelineInv == DeadlineInv /\ LimitKnown /\ EndHasCode /\ ToneKnown /\ CodeNamesLimit
=============================================================================
