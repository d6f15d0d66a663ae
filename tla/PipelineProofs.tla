--------------------------- MODULE PipelineProofs ---------------------------
(***************************************************************************)
(* What the deadline of a run guarantees, for every value of the timeouts  *)
(* and however the clock jumps between two statements of the thread.       *)
(***************************************************************************)
EXTENDS PipelineMetrics, TLAPS

\* A step of a run; the clock goes on between its end and its metrics.
RunMoves == Next \/ TickAfterwards

\* A run begins before its deadline.
LEMMA DeadlineInit == Init => DeadlineInv
<1> SUFFICES ASSUME Init PROVE DeadlineInv
  OBVIOUS
<1> USE PipelineAssumption
<1>1. PipelineTypeOK
  <2>1. 0 \in 0 .. MaxTime
    OBVIOUS
  <2> QED
    BY <2>1 DEF Init, PipelineTypeOK, PC, Code
<1>2. \A s \in Stages : ended[s] = -1
  BY DEF Init, NotEnded
<1>3. \A s \in Stages : ~Late(s)
  <2>1. conf.task \in Nat
    BY DEF Init
  <2> QED
    BY <1>2, <2>1 DEF Late, HasDeadline, Deadline
<1>4. EndedInThePast
  BY <1>2 DEF EndedInThePast, Init
<1> QED
  BY <1>1, <1>3, <1>4 DEF DeadlineInv, LateIsLast, AlignedInTime, CodeAtTheEnd,
                          OneStageOverruns, Init

\* The steps that end no stage: what was late stays late, nothing else becomes late.
LEMMA NoStageEnds ==
  ASSUME DeadlineInv, PipelineTypeOK', UNCHANGED <<conf, ended>>, now' >= now,
         due \/ pc \in {"commit", "done"} => due' \/ pc' \in {"commit", "done"}
                                          \/ ~(\E s \in Stages : Late(s)),
         code' # "none" => pc' = "done" /\ ~due',
         ((pc' \in {"tone", "commit"} /\ ~due') \/ code' = "success") /\ HasDeadline
           => ended["align"] < Deadline
  PROVE  DeadlineInv'
<1>1. Deadline' = Deadline /\ HasDeadline' = HasDeadline
  BY DEF Deadline, HasDeadline
<1>2. \A s \in Stages : Late(s)' <=> Late(s)
  BY <1>1 DEF Late
<1>3. EndedInThePast'
  BY DEF EndedInThePast, DeadlineInv, PipelineTypeOK, NotEnded
<1>4. LateIsLast'
  BY <1>2 DEF LateIsLast, DeadlineInv
<1>5. AlignedInTime'
  BY <1>1 DEF AlignedInTime
<1>6. OneStageOverruns'
  BY <1>2 DEF OneStageOverruns, DeadlineInv
<1> QED
  BY <1>3, <1>4, <1>5, <1>6 DEF DeadlineInv, CodeAtTheEnd

\* A stage that runs without a check to come is the first that may be late.
LEMMA StageEnds ==
  ASSUME DeadlineInv, PipelineTypeOK', NEW s \in Stages, pc = s, ~due, code' = "none",
         UNCHANGED <<conf, now>>, ended' = [ended EXCEPT ![s] = now],
         due' \/ pc' \in {"commit", "done"},
         s = "align" => due',
         pc' \in {"tone", "commit"} /\ ~due' => s = "tone"
  PROVE  DeadlineInv'
<1>1. Deadline' = Deadline /\ HasDeadline' = HasDeadline
  BY DEF Deadline, HasDeadline
<1>2. \A t \in Stages : ~Late(t)
  BY DEF LateIsLast, DeadlineInv, Stages
<1>3. \A t \in Stages : t # s => ended'[t] = ended[t]
  BY DEF DeadlineInv, PipelineTypeOK
<1>4. \A t \in Stages : Late(t)' => t = s
  BY <1>1, <1>2, <1>3 DEF Late
<1>5. OneStageOverruns'
  BY <1>4 DEF OneStageOverruns
<1>6. EndedInThePast'
  BY DEF EndedInThePast, DeadlineInv, PipelineTypeOK
<1>7. AlignedInTime'
  BY <1>1, <1>3 DEF AlignedInTime, DeadlineInv, Stages
<1>8. LateIsLast'
  BY DEF LateIsLast
<1> QED
  BY <1>5, <1>6, <1>7, <1>8 DEF DeadlineInv, CodeAtTheEnd

\* The numbers of the model.
LEMMA NumbersTyped ==
  ASSUME PipelineTypeOK
  PROVE  now \in Nat /\ conf.ffmpeg \in Nat /\ conf.task \in Nat
<1>1. now \in Nat
  BY PipelineAssumption DEF PipelineTypeOK
<1>2. conf.ffmpeg \in Nat /\ conf.task \in Nat
  BY PipelineAssumption DEF PipelineTypeOK
<1> QED
  BY <1>1, <1>2

\* A stage that returns keeps the types.
LEMMA ReturnTyped ==
  ASSUME PipelineTypeOK, NEW s \in Stages, NEW next \in PC, Return(s, next)
  PROVE  /\ ended' \in [Stages -> Nat \cup {NotEnded}]
         /\ pc' \in PC /\ due' \in BOOLEAN /\ code' \in Code
<1>1. now \in Nat
  BY NumbersTyped
<1>2. ended' \in [Stages -> Nat \cup {NotEnded}]
  BY <1>1 DEF Return, PipelineTypeOK
<1>3. due' \in BOOLEAN
  BY DEF Return, Goto
<1> QED
  BY <1>2, <1>3 DEF Return, Goto, PipelineTypeOK

\* Every step of a run keeps the types.
LEMMA TypePreserved == PipelineTypeOK /\ [RunMoves]_vars => PipelineTypeOK'
<1> SUFFICES ASSUME PipelineTypeOK, [RunMoves]_vars PROVE PipelineTypeOK'
  OBVIOUS
<1>n. now \in Nat /\ conf.ffmpeg \in Int /\ conf.task \in Int
  BY NumbersTyped
<1> USE PipelineAssumption DEF PipelineTypeOK, Stages, inputVars, ffmpegVars, resultVars
<1>1. CASE Tick \/ TickAfterwards
  BY <1>1 DEF Tick, TickAfterwards
<1>2. CASE CheckDeadline
  <2>1. pc' \in {pc, "done"} /\ due' \in BOOLEAN /\ code' \in {code, "task_timeout"}
    BY <1>2 DEF CheckDeadline, Fail, Goto
  <2>2. UNCHANGED <<inputVars, now, began, limit, ended, resultVars>>
    BY <1>2 DEF CheckDeadline
  <2> QED
    BY <2>1, <2>2 DEF PC, Code
<1>3. CASE BoundFfmpeg
  <2>1. FfmpegTimeoutBounded \in Int
    BY <1>n DEF FfmpegTimeoutBounded, MinOf, Deadline, HasDeadline
  <2>2. FfmpegTimeoutSec(FfmpegTimeoutBounded) \in Nat \cup {NoLimit}
    BY <2>1 DEF FfmpegTimeoutSec
  <2> QED
    BY <1>3, <2>2 DEF BoundFfmpeg, Goto, PC
<1>4. CASE StartFfmpeg
  BY <1>4, <1>n DEF StartFfmpeg, Fail, Goto, PC, Code
<1>5. CASE Convert
  <2>1. CASE Return("convert", "measure")
    BY <1>5, <2>1, ReturnTyped DEF Convert, PC
  <2>2. CASE Fail("pipeline_error") /\ UNCHANGED ended
    BY <1>5, <2>2 DEF Convert, Fail, Goto, PC, Code
  <2> QED
    BY <1>5, <2>1, <2>2 DEF Convert, ReturnOrRaise
<1>6. CASE KillFfmpeg
  BY <1>6 DEF KillFfmpeg, Goto, PC
<1>7. CASE FfmpegTimedOut
  BY <1>7 DEF FfmpegTimedOut, KilledBy, Fail, Goto, PC, Code
<1>8. CASE Measure
  BY <1>8 DEF Measure, Fail, Goto, PC, Code
<1>9. CASE Asr
  <2> DEFINE next == IF task.diar THEN "diar" ELSE "align"
  <2>1. CASE Return("asr", next)
    BY <1>9, <2>1, ReturnTyped DEF Asr, Infer, PC
  <2>2. CASE (Fail("pipeline_error") \/ Fail("engine_unavailable")) /\ UNCHANGED ended
    BY <1>9, <2>2 DEF Asr, Infer, Fail, Goto, PC, Code
  <2> QED
    BY <1>9, <2>1, <2>2 DEF Asr, Infer, ReturnOrRaise
<1>10. CASE Diarize
  <2>1. CASE Return("diar", "align")
    BY <1>10, <2>1, ReturnTyped DEF Diarize, Infer, PC
  <2>2. CASE (Fail("pipeline_error") \/ Fail("engine_unavailable")) /\ UNCHANGED ended
    BY <1>10, <2>2 DEF Diarize, Infer, Fail, Goto, PC, Code
  <2> QED
    BY <1>10, <2>1, <2>2 DEF Diarize, Infer, ReturnOrRaise
<1>11. CASE Align
  <2>1. CASE Return("align", "tone")
    BY <1>11, <2>1, ReturnTyped DEF Align, PC
  <2>2. CASE Fail("pipeline_error") /\ UNCHANGED ended
    BY <1>11, <2>2 DEF Align, Fail, Goto, PC, Code
  <2> QED
    BY <1>11, <2>1, <2>2 DEF Align, ReturnOrRaise
<1>12. CASE NoTone
  BY <1>12 DEF NoTone, Goto, PC
<1>13. CASE Tone
  <2>1. LayersApplied \subseteq Layers /\ ToneSkipped(LayersApplied) \in BOOLEAN
    BY DEF LayersApplied, ToneSkipped
  <2>2. CASE Return("tone", "commit")
    BY <1>13, <2>1, <2>2, ReturnTyped DEF Tone, PC
  <2>3. CASE Fail("pipeline_error") /\ UNCHANGED <<ended, layers, skipped>>
    BY <1>13, <2>3 DEF Tone, Fail, Goto, PC, Code
  <2> QED
    BY <1>13, <2>2, <2>3 DEF Tone
<1>14. CASE Commit
  BY <1>14 DEF Commit, Fail, Goto, PC, Code
<1>15. CASE UNCHANGED vars
  BY <1>15 DEF vars
<1> QED
  BY <1>1, <1>2, <1>3, <1>4, <1>5, <1>6, <1>7, <1>8, <1>9, <1>10, <1>11, <1>12, <1>13,
     <1>14, <1>15 DEF RunMoves, Next

\* Every step of a run keeps what is known of its deadline.
LEMMA DeadlineStep == DeadlineInv /\ [RunMoves]_vars => DeadlineInv'
<1> SUFFICES ASSUME DeadlineInv, [RunMoves]_vars PROVE DeadlineInv'
  OBVIOUS
<1>0. PipelineTypeOK /\ PipelineTypeOK'
  BY TypePreserved DEF DeadlineInv
<1> USE <1>0 DEF inputVars, ffmpegVars, resultVars, InStage
<1>a. now \in Int /\ now <= now /\ conf.task \in Int
  BY NumbersTyped
<1>b. ~due /\ pc \notin {"commit", "done"} => ~(\E s \in Stages : Late(s))
  BY DEF DeadlineInv, LateIsLast
<1>c. code # "none" => pc = "done" /\ ~due
  BY DEF DeadlineInv, CodeAtTheEnd
<1>d. ((pc \in {"tone", "commit"} /\ ~due) \/ code = "success") /\ HasDeadline
        => ended["align"] < Deadline
  BY DEF DeadlineInv, AlignedInTime
<1>1. CASE Tick \/ TickAfterwards
  <2>1. now' >= now
    BY <1>1 DEF Tick, TickAfterwards, PipelineTypeOK
  <2> QED
    BY <1>1, <2>1, <1>c, <1>d, NoStageEnds DEF Tick, TickAfterwards
<1>2. CASE CheckDeadline
  <2>1. CASE Over
    BY <1>2, <2>1, <1>a, NoStageEnds DEF CheckDeadline, Fail, Goto
  <2>2. CASE ~Over
    <3>1. \A s \in Stages : ~Late(s)
      BY <1>a, <2>2 DEF Over, Late, DeadlineInv, EndedInThePast, PipelineTypeOK, NotEnded,
                        Deadline, HasDeadline
    <3>2. HasDeadline => ended["align"] < Deadline
      BY <1>a, <3>1 DEF Late, Stages, PipelineTypeOK, NotEnded, Deadline
    <3>3. UNCHANGED <<conf, ended, now, code, pc>>
      BY <1>2, <2>2 DEF CheckDeadline, Goto
    <3>4. code' # "none" => pc' = "done" /\ ~due'
      BY <3>3, <1>c, <1>2 DEF CheckDeadline
    <3> QED
      BY <3>1, <3>2, <3>3, <3>4, <1>a, NoStageEnds
  <2> QED
    BY <2>1, <2>2
<1>3. CASE BoundFfmpeg
  BY <1>3, <1>a, <1>b, <1>c, NoStageEnds DEF BoundFfmpeg, Goto
<1>4. CASE StartFfmpeg
  BY <1>4, <1>a, <1>b, <1>c, NoStageEnds DEF StartFfmpeg, Goto, Fail
<1>5. CASE Convert
  <2>1. CASE Return("convert", "measure")
    BY <1>5, <2>1, <1>c, StageEnds DEF Convert, Return, Goto, Checked, Stages
  <2>2. CASE Fail("pipeline_error") /\ UNCHANGED ended
    BY <1>5, <2>2, <1>a, NoStageEnds DEF Convert, Goto, Fail
  <2> QED
    BY <1>5, <2>1, <2>2 DEF Convert, ReturnOrRaise
<1>6. CASE KillFfmpeg
  BY <1>6, <1>a, <1>b, <1>c, NoStageEnds DEF KillFfmpeg, Goto
<1>7. CASE FfmpegTimedOut
  BY <1>7, <1>a, NoStageEnds DEF FfmpegTimedOut, KilledBy, Goto, Fail
<1>8. CASE Measure
  BY <1>8, <1>a, <1>b, <1>c, NoStageEnds DEF Measure, Goto, Fail
<1>9. CASE Asr
  <2> DEFINE next == IF task.diar THEN "diar" ELSE "align"
  <2>1. CASE Return("asr", next)
    BY <1>9, <2>1, <1>c, StageEnds DEF Asr, Infer, Return, Goto, Checked, Stages
  <2>2. CASE (Fail("pipeline_error") \/ Fail("engine_unavailable")) /\ UNCHANGED ended
    BY <1>9, <2>2, <1>a, NoStageEnds DEF Asr, Infer, Goto, Fail
  <2> QED
    BY <1>9, <2>1, <2>2 DEF Asr, Infer, ReturnOrRaise
<1>10. CASE Diarize
  <2>1. CASE Return("diar", "align")
    BY <1>10, <2>1, <1>c, StageEnds DEF Diarize, Infer, Return, Goto, Checked, Stages
  <2>2. CASE (Fail("pipeline_error") \/ Fail("engine_unavailable")) /\ UNCHANGED ended
    BY <1>10, <2>2, <1>a, NoStageEnds DEF Diarize, Infer, Goto, Fail
  <2> QED
    BY <1>10, <2>1, <2>2 DEF Diarize, Infer, ReturnOrRaise
<1>11. CASE Align
  <2>1. CASE Return("align", "tone")
    BY <1>11, <2>1, <1>c, StageEnds DEF Align, Return, Goto, Checked, Stages
  <2>2. CASE Fail("pipeline_error") /\ UNCHANGED ended
    BY <1>11, <2>2, <1>a, NoStageEnds DEF Align, Goto, Fail
  <2> QED
    BY <1>11, <2>1, <2>2 DEF Align, ReturnOrRaise
<1>12. CASE NoTone
  BY <1>12, <1>a, <1>c, <1>d, NoStageEnds DEF NoTone, Goto
<1>13. CASE Tone
  <2>1. CASE Return("tone", "commit")
    BY <1>13, <2>1, <1>c, StageEnds DEF Tone, Return, Goto, Checked, Stages
  <2>2. CASE Fail("pipeline_error") /\ UNCHANGED ended
    BY <1>13, <2>2, <1>a, NoStageEnds DEF Tone, Goto, Fail
  <2> QED
    BY <1>13, <2>1, <2>2 DEF Tone
<1>14. CASE Commit
  BY <1>14, <1>a, <1>d, NoStageEnds DEF Commit, Fail, Goto
<1>15. CASE UNCHANGED vars
  BY <1>15, <1>a, <1>c, <1>d, NoStageEnds DEF vars
<1> QED
  BY <1>1, <1>2, <1>3, <1>4, <1>5, <1>6, <1>7, <1>8, <1>9, <1>10, <1>11, <1>12, <1>13,
     <1>14, <1>15 DEF RunMoves, Next

----------------------------------------------------------------------------
(* The limit of ffmpeg, the code, the tone layers.                         *)

\* The steps after which ffmpeg is not under way.
AfterFfmpeg ==
  \/ Convert \/ FfmpegTimedOut \/ Measure \/ Asr \/ Diarize \/ Align \/ NoTone \/ Tone \/ Commit

\* After ffmpeg a run goes on to another stage or to its end, and keeps its settings.
LEMMA FfmpegIsOver ==
  ASSUME AfterFfmpeg
  PROVE  /\ pc' \in Stages \cup {"measure", "commit", "done"} /\ pc' # "convert"
         /\ UNCHANGED <<conf, task, now, began>>
  BY DEF AfterFfmpeg, Convert, FfmpegTimedOut, Measure, Asr, Diarize, Infer, Align,
     NoTone, Tone, Commit, ReturnOrRaise, Return, Fail, Goto, Stages, inputVars, ffmpegVars

\* The limit is the smaller of what is set and what remains, counted from a moment that
\* is not later than the start of ffmpeg.
LEMMA LimitKnownStep ==
  ASSUME PipelineTypeOK, LimitKnown, [RunMoves]_vars
  PROVE  LimitKnown'
<1>1. now \in Nat /\ began \in Nat /\ limit \in Nat \cup {NoLimit} /\ NoLimit \notin Int
      /\ conf.ffmpeg \in Nat /\ conf.task \in Nat
  BY NumbersTyped, PipelineAssumption DEF PipelineTypeOK
<1> USE <1>1 DEF LimitKnown, HasDeadline, Deadline, inputVars
<1>2. CASE Tick \/ TickAfterwards
  BY <1>2 DEF Tick, TickAfterwards, ffmpegVars
<1>3. CASE CheckDeadline
  BY <1>3 DEF CheckDeadline, Fail, Goto, ffmpegVars
<1>4. CASE BoundFfmpeg
  <2>1. /\ pc' = "spawn" /\ UNCHANGED <<conf, now>>
        /\ limit' = FfmpegTimeoutSec(FfmpegTimeoutBounded)
    BY <1>4 DEF BoundFfmpeg, Goto
  <2>2. FfmpegTimeoutBounded \in Int
    BY DEF FfmpegTimeoutBounded, MinOf
  <2>3. CASE FfmpegTimeoutBounded <= 0
    <3>1. HasDeadline \/ conf.ffmpeg > 0 => HasDeadline /\ now >= Deadline
      BY <2>3 DEF FfmpegTimeoutBounded, MinOf
    <3> QED
      BY <2>1, <2>3, <3>1 DEF FfmpegTimeoutSec
  <2>4. CASE FfmpegTimeoutBounded > 0
    <3>1. \/ conf.ffmpeg > 0 /\ FfmpegTimeoutBounded = conf.ffmpeg
          \/ HasDeadline /\ now + FfmpegTimeoutBounded >= Deadline
      BY <2>4 DEF FfmpegTimeoutBounded, MinOf
    <3>2. limit' = FfmpegTimeoutBounded
      BY <2>1, <2>2, <2>4 DEF FfmpegTimeoutSec
    <3> QED
      BY <2>1, <2>2, <3>1, <3>2
  <2> QED
    BY <2>2, <2>3, <2>4
<1>5. CASE StartFfmpeg
  BY <1>5 DEF StartFfmpeg, InStage, Fail, Goto
<1>6. CASE KillFfmpeg
  BY <1>6 DEF KillFfmpeg, KillDue, InStage, Goto, ffmpegVars
<1>7. CASE AfterFfmpeg
  BY <1>7, FfmpegIsOver DEF Stages
<1>8. CASE UNCHANGED vars
  BY <1>8 DEF vars, ffmpegVars
<1> QED
  BY <1>2, <1>3, <1>4, <1>5, <1>6, <1>7, <1>8 DEF RunMoves, Next, AfterFfmpeg

\* How a code comes about.
LEMMA CodeMoves ==
  ASSUME [RunMoves]_vars
  PROVE  \/ code' = code /\ (pc' = "done" => pc = "done" /\ (due' => due))
         \/ /\ pc' = "done" /\ ~due' /\ UNCHANGED <<conf, task, now, began>>
            /\ \/ code' \notin {"none", "task_timeout", "ffmpeg_timeout"}
               \/ code' = "task_timeout" /\ Over
               \/ code' = "ffmpeg_timeout" /\ pc = "killed" /\ ~Over
<1> USE DEF Goto, Fail, InStage, inputVars, ffmpegVars
<1>1. CASE Tick \/ TickAfterwards \/ CheckDeadline
  BY <1>1 DEF Tick, TickAfterwards, CheckDeadline
<1>2. CASE BoundFfmpeg \/ StartFfmpeg \/ KillFfmpeg
  BY <1>2 DEF BoundFfmpeg, StartFfmpeg, KillFfmpeg
<1>3. CASE Convert \/ FfmpegTimedOut \/ Measure
  BY <1>3 DEF Convert, ReturnOrRaise, Return, FfmpegTimedOut, KilledBy, Measure
<1>4. CASE Asr \/ Diarize \/ Align
  BY <1>4 DEF Asr, Diarize, Infer, Align, ReturnOrRaise, Return
<1>5. CASE NoTone \/ Tone \/ Commit
  BY <1>5 DEF NoTone, Tone, Commit, Return
<1>6. CASE UNCHANGED vars
  BY <1>6 DEF vars
<1> QED
  BY <1>1, <1>2, <1>3, <1>4, <1>5, <1>6 DEF RunMoves, Next

\* ffmpeg is blamed only while the task still had time.
LEMMA CodeNamesLimitStep ==
  ASSUME PipelineTypeOK, CodeAtTheEnd, LimitKnown, EndHasCode, CodeNamesLimit, [RunMoves]_vars
  PROVE  CodeNamesLimit' /\ EndHasCode'
<1>1. now \in Nat /\ began \in Nat /\ limit \in Nat \cup {NoLimit} /\ NoLimit \notin Int
      /\ conf.ffmpeg \in Nat /\ conf.task \in Nat
  BY NumbersTyped, PipelineAssumption DEF PipelineTypeOK
<1>2. CASE code' = code /\ (pc' = "done" => pc = "done" /\ (due' => due))
  <2>1. EndHasCode'
    BY <1>2 DEF EndHasCode
  <2>2. SUFFICES ASSUME code # "none"
                 PROVE  CodeNamesLimit'
    BY <1>2, <2>1 DEF CodeNamesLimit
  <2>3. pc = "done" /\ ~due
    BY <2>2 DEF CodeAtTheEnd
  <2>4. UNCHANGED <<conf, began>> /\ now' \in {now, now + 1}
    <3>1. TickAfterwards \/ UNCHANGED vars
      BY <2>3 DEF RunMoves, Next, Tick, CheckDeadline, BoundFfmpeg, StartFfmpeg, Convert,
         KillFfmpeg, FfmpegTimedOut, Measure, Asr, Diarize, Infer, Align, NoTone, Tone, Commit,
         InStage
    <3> QED
      BY <3>1 DEF TickAfterwards, vars, inputVars, ffmpegVars
  <2> QED
    BY <1>1, <1>2, <2>4 DEF CodeNamesLimit, Over, HasDeadline, Deadline
<1>3. ASSUME pc' = "done", ~due', UNCHANGED <<conf, task, now, began>>,
             \/ code' \notin {"none", "task_timeout", "ffmpeg_timeout"}
             \/ code' = "task_timeout" /\ Over
             \/ code' = "ffmpeg_timeout" /\ pc = "killed" /\ ~Over
      PROVE  CodeNamesLimit' /\ EndHasCode'
  BY <1>1, <1>3 DEF CodeNamesLimit, EndHasCode, LimitKnown, Over, HasDeadline, Deadline
<1> QED
  BY <1>2, <1>3, CodeMoves

\* The run comes to its commit through the tone pass, or without having been asked for it.
LEMMA ToneKnownStep ==
  ASSUME PipelineTypeOK, CodeAtTheEnd, ToneKnown, [RunMoves]_vars
  PROVE  ToneKnown'
<1> USE DEF Goto, Fail, InStage, inputVars, resultVars, ToneKnown
<1>1. CASE Tick \/ TickAfterwards \/ CheckDeadline
  BY <1>1 DEF Tick, TickAfterwards, CheckDeadline
<1>2. CASE BoundFfmpeg \/ StartFfmpeg \/ KillFfmpeg
  BY <1>2 DEF BoundFfmpeg, StartFfmpeg, KillFfmpeg
<1>3. CASE Convert \/ FfmpegTimedOut \/ Measure
  BY <1>3 DEF Convert, ReturnOrRaise, Return, FfmpegTimedOut, KilledBy, Measure
<1>4. CASE Asr \/ Diarize \/ Align
  BY <1>4 DEF Asr, Diarize, Infer, Align, ReturnOrRaise, Return
<1>5. CASE NoTone \/ Commit
  BY <1>5 DEF NoTone, Commit, CodeAtTheEnd
<1>6. CASE Tone
  BY <1>6 DEF Tone, LayersApplied, ToneSkipped, Return, CodeAtTheEnd
<1>7. CASE UNCHANGED vars
  BY <1>7 DEF vars
<1> QED
  BY <1>1, <1>2, <1>3, <1>4, <1>5, <1>6, <1>7 DEF RunMoves, Next

----------------------------------------------------------------------------
(* What holds of every run.                                                *)

\* Every step of a run keeps the invariant of the stages.
LEMMA PipelineStep == PipelineInv /\ [RunMoves]_vars => PipelineInv'
<1> SUFFICES ASSUME PipelineInv, [RunMoves]_vars PROVE PipelineInv'
  OBVIOUS
<1>1. DeadlineInv /\ PipelineTypeOK /\ CodeAtTheEnd
  BY DEF PipelineInv, DeadlineInv
<1> QED
  BY <1>1, DeadlineStep, LimitKnownStep, CodeNamesLimitStep, ToneKnownStep DEF PipelineInv

\* The invariant of the stages holds before a run.
LEMMA PipelineInit == Init => PipelineInv
  BY DeadlineInit DEF Init, PipelineInv, LimitKnown, EndHasCode, ToneKnown, CodeNamesLimit

\* Every part of the invariant, in a run by itself.
LEMMA PipelineInvariant == Spec => []PipelineInv
<1>1. PipelineInv /\ [Next]_vars => PipelineInv'
  BY PipelineStep DEF RunMoves
<1> QED
  BY <1>1, PipelineInit, PTL DEF Spec

\* Whatever the clock does, a run lets at most one stage return after its deadline.
THEOREM OneStageOverrunsAlways == Spec => []OneStageOverruns
<1>1. PipelineInv => OneStageOverruns
  BY DEF PipelineInv, DeadlineInv
<1> QED
  BY <1>1, PipelineInvariant, PTL

\* A transcript that was ready only after the deadline is never stored as a success.
THEOREM SuccessIsInTime == Spec => []SuccessInTime
<1>1. PipelineInv => SuccessInTime
  BY DEF PipelineInv, DeadlineInv, AlignedInTime, SuccessInTime
<1> QED
  BY <1>1, PipelineInvariant, PTL

----------------------------------------------------------------------------
(* The steps of a run, as its times see them.                              *)

\* The clock goes on, or the deadline is found not to have passed.
Continues ==
  /\ pc' = pc /\ UNCHANGED <<code, ended>> /\ now' \in {now, now + 1}
  /\ ~due => due' = due

\* The run ends, with success if it has come to its commit.
Ends ==
  /\ pc' = "done" /\ UNCHANGED <<ended, now>> /\ code' # "none"
  /\ code' = "success" => pc = "commit"

\* A stage returns.
Returns ==
  /\ pc \in Stages /\ ~due /\ ended' = [ended EXCEPT ![pc] = now] /\ UNCHANGED <<code, now>>
  /\ \/ pc = "convert" /\ pc' = "measure"
     \/ pc = "asr" /\ pc \in loaded /\ pc' = (IF task.diar THEN "diar" ELSE "align")
     \/ pc = "diar" /\ pc \in loaded /\ pc' = "align"
     \/ pc = "align" /\ pc' = "tone"
     \/ pc = "tone" /\ task.tone /\ pc' = "commit"

\* What lies between the stages, and a tone pass that was not asked for.
Proceeds ==
  /\ UNCHANGED <<ended, code, now>>
  /\ \/ pc = "remaining" /\ pc' = "spawn"
     \/ pc = "spawn" /\ pc' = "convert"
     \/ pc = "convert" /\ pc' = "killed"
     \/ pc = "measure" /\ pc' = "asr"
     \/ pc = "tone" /\ pc' = "commit"

\* The actions, as the proofs about the metrics split them.
LEMMA RunningMoves ==
  ASSUME CodeAtTheEnd, EndHasCode, Next
  PROVE  /\ pc # "done" /\ code = "none"
         /\ UNCHANGED <<conf, task, loaded>>
         /\ Continues \/ Ends \/ Returns \/ Proceeds
<1> USE DEF Goto, Fail, InStage, inputVars, Continues, Ends, Returns, Proceeds, Stages
<1>1. pc # "done"
  BY DEF Next, Tick, CheckDeadline, BoundFfmpeg, StartFfmpeg, Convert, KillFfmpeg,
     FfmpegTimedOut, Measure, Asr, Diarize, Infer, Align, NoTone, Tone, Commit, EndHasCode
<1>2. code = "none"
  BY <1>1 DEF CodeAtTheEnd
<1>3. CASE Tick \/ CheckDeadline
  BY <1>1, <1>2, <1>3 DEF Tick, CheckDeadline
<1>4. CASE BoundFfmpeg \/ StartFfmpeg \/ KillFfmpeg \/ FfmpegTimedOut \/ Measure
  BY <1>1, <1>2, <1>4 DEF BoundFfmpeg, StartFfmpeg, KillFfmpeg, FfmpegTimedOut, KilledBy, Measure
<1>5. CASE Convert \/ Align
  BY <1>1, <1>2, <1>5 DEF Convert, Align, ReturnOrRaise, Return
<1>6. CASE Asr \/ Diarize
  BY <1>1, <1>2, <1>6 DEF Asr, Diarize, Infer, ReturnOrRaise, Return
<1>7. CASE NoTone \/ Tone \/ Commit
  BY <1>1, <1>2, <1>7 DEF NoTone, Tone, Commit, Return
<1> QED
  BY <1>3, <1>4, <1>5, <1>6, <1>7 DEF Next

\* The run goes on as it does without its times.
LEMMA MetricsMoves ==
  ASSUME [MetricsNext]_<<vars, metricsVars>>
  PROVE  [RunMoves]_vars
  BY DEF MetricsNext, StartTimer, RunStep, Emit, TickAfterwards, RunMoves

\* The variables of the times, and their types.
LEMMA MetricsTypes ==
  ASSUME MetricsTypeOK
  PROVE  /\ now \in Nat /\ NotTaken \notin Nat /\ conf.layers \in SUBSET Layers
         /\ ended \in [Stages -> Nat \cup {NotEnded}] /\ NotEnded = -1
         /\ t0 \in Time /\ spent \in [Spent -> Time] /\ total \in Time
         /\ task.diar \in BOOLEAN /\ task.tone \in BOOLEAN
         /\ \A s \in Spent : Seconds(spent[s]) \in Nat
  BY NumbersTyped, MetricsAssumption
     DEF MetricsTypeOK, PipelineTypeOK, NotEnded, Time, Seconds, Spent

\* A stage returns, and its timer is read.
StageMeasured ==
  /\ Returns /\ t0' = NotTaken /\ total' = total
  /\ HasTimer => t0 # NotTaken
  /\ \A s \in Spent \ {pc} : spent'[s] = spent[s]
  /\ pc \in Spent => spent'[pc] = (IF t0 # NotTaken /\ ended'[pc] # ended[pc]
                                     THEN now - t0 ELSE spent[pc])

\* What a step of the run does to its times.
LEMMA RunStepTimes ==
  ASSUME MetricsTypeOK, CodeAtTheEnd, EndHasCode, TimersKnown, RunStep
  PROVE  /\ code = "none" /\ pc # "done" /\ UNCHANGED <<conf, task, loaded, counted, emitted>>
         /\ \/ Continues /\ UNCHANGED <<spent, t0, total>> /\ (t0 # NotTaken => HasTimer')
            \/ /\ Ends /\ UNCHANGED spent /\ t0' = NotTaken /\ total' = now
            \/ StageMeasured
            \/ Proceeds /\ UNCHANGED <<spent, total>> /\ t0' = NotTaken
<1> USE MetricsTypes DEF Spent, Stages
<1>1. /\ pc # "done" /\ code = "none" /\ UNCHANGED <<conf, task, loaded, counted, emitted>>
      /\ Continues \/ Ends \/ Returns \/ Proceeds
  BY RunningMoves DEF RunStep
<1>2. /\ spent' = [s \in Spent |-> IF ended'[s] # ended[s] /\ t0 # NotTaken
                                     THEN now - t0 ELSE spent[s]]
      /\ t0' = IF pc' = pc THEN t0 ELSE NotTaken
      /\ total' = IF code' = code THEN total ELSE now
      /\ HasTimer /\ pc' # pc => t0 # NotTaken
  BY DEF RunStep, Returned
<1>3. ASSUME ended' = ended
      PROVE  spent' = spent
  BY <1>2, <1>3
<1>4. CASE Continues
  <2>1. t0 # NotTaken => HasTimer'
    BY <1>1, <1>4 DEF Continues, TimersKnown, HasTimer
  <2> QED
    BY <1>1, <1>2, <1>3, <1>4, <2>1 DEF Continues
<1>5. CASE Ends
  BY <1>1, <1>2, <1>3, <1>5 DEF Ends
<1>6. CASE Returns
  <2>1. pc' # pc
    BY <1>6 DEF Returns
  <2>2. \A s \in Spent \ {pc} : spent'[s] = spent[s]
    BY <1>2, <1>6 DEF Returns
  <2>3. pc \in Spent => spent'[pc] = (IF t0 # NotTaken /\ ended'[pc] # ended[pc]
                                        THEN now - t0 ELSE spent[pc])
    BY <1>2
  <2> QED
    BY <1>1, <1>2, <1>6, <2>1, <2>2, <2>3 DEF Returns, StageMeasured
<1>7. CASE Proceeds
  BY <1>1, <1>2, <1>3, <1>7 DEF Proceeds
<1> QED
  BY <1>1, <1>4, <1>5, <1>6, <1>7

\* What the start of a timer does.
LEMMA StartTimerTimes ==
  ASSUME MetricsTypeOK, EndHasCode, StartTimer
  PROVE  /\ pc \in Timed /\ ~due /\ t0 = NotTaken /\ t0' = now /\ HasTimer'
         /\ UNCHANGED <<vars, audio, total, emitted, counted>>
         /\ \A s \in {"asr", "tone"} : spent'[s] = spent[s]
         /\ spent'["diar"] = (IF pc = "align" /\ ~task.diar THEN 0 ELSE spent["diar"])
<1>1. /\ pc \in Timed /\ ~due /\ t0 = NotTaken /\ t0' = now
      /\ UNCHANGED <<vars, audio, total, emitted, counted>>
      /\ spent' = IF pc = "align" /\ ~task.diar THEN [spent EXCEPT !["diar"] = 0] ELSE spent
  BY DEF StartTimer, HasTimer
<1>2. HasTimer'
  BY <1>1 DEF StartTimer, HasTimer, vars, inputVars
<1> QED
  BY <1>1, <1>2, MetricsTypes DEF Spent

\* The steps of the times that come after the run, or do nothing.
LEMMA AfterwardsTimes ==
  ASSUME CodeAtTheEnd, EndHasCode,
         TickAfterwards \/ Emit \/ UNCHANGED <<vars, metricsVars>>
  PROVE  /\ UNCHANGED <<conf, task, loaded, pc, due, ended, code, t0, spent, audio, total>>
         /\ now' = now \/ (TickAfterwards /\ now' = now + 1)
         /\ HasTimer' = HasTimer
  BY DEF TickAfterwards, Emit, HasTimer, vars, metricsVars, timeVars, inputVars

\* Every stage that returned has its seconds, and no other.
LEMMA TimersStep ==
  ASSUME MetricsTypeOK, CodeAtTheEnd, EndHasCode, TimersKnown,
         [MetricsNext]_<<vars, metricsVars>>
  PROVE  TimersKnown'
<1> USE MetricsTypes DEF Spent, Stages, Time, TimersKnown
<1>1. CASE RunStep
  <2>1. CASE Continues /\ UNCHANGED <<spent, t0, total>> /\ (t0 # NotTaken => HasTimer')
    BY <1>1, <2>1, RunStepTimes DEF Continues
  <2>2. CASE (Ends \/ Proceeds) /\ UNCHANGED spent /\ t0' = NotTaken
    BY <1>1, <2>2, RunStepTimes DEF Ends, Proceeds
  <2>3. CASE StageMeasured
    <3>1. UNCHANGED <<conf, task>> /\ t0' = NotTaken
      BY <1>1, <2>3, RunStepTimes DEF StageMeasured
    <3>2. \A s \in {"asr", "diar", "tone"} \ {pc} : spent'[s] = spent[s] /\ ended'[s] = ended[s]
      BY <2>3 DEF StageMeasured, Returns
    <3>3. pc \in Stages => ended'[pc] = now /\ now # NotEnded
      BY <2>3 DEF StageMeasured, Returns
    <3>4. HasTimer => t0 # NotTaken
      BY <2>3 DEF StageMeasured
    <3>5. pc \in Spent /\ HasTimer /\ (pc = "diar" => task.diar) => spent'[pc] # NotTaken
      <4>1. SUFFICES ASSUME pc \in Spent, HasTimer, pc = "diar" => task.diar
                     PROVE  spent'[pc] # NotTaken
        OBVIOUS
      <4>2. t0 # NotTaken /\ t0 \in Nat /\ t0 <= now
        BY <3>4, <4>1
      <4>3. now - t0 \in Nat
        BY <4>2
      <4>4. ended'[pc] = ended[pc] => spent[pc] # NotTaken
        BY <3>3, <4>1 DEF HasTimer
      <4> QED
        BY <2>3, <4>1, <4>2, <4>3, <4>4 DEF StageMeasured
    <3>6. CASE pc = "asr"
      <4>1. HasTimer
        BY <2>3, <3>6 DEF StageMeasured, Returns, HasTimer, Timed
      <4> QED
        BY <2>3, <3>1, <3>2, <3>3, <3>5, <3>6, <4>1 DEF StageMeasured, Returns
    <3>7. CASE pc = "diar"
      <4>1. HasTimer /\ task.diar
        BY <2>3, <3>7 DEF StageMeasured, Returns, HasTimer, Timed
      <4> QED
        BY <2>3, <3>1, <3>2, <3>3, <3>5, <3>7, <4>1 DEF StageMeasured, Returns
    <3>8. CASE pc = "tone"
      <4>1. HasTimer <=> conf.layers # {}
        BY <2>3, <3>8 DEF StageMeasured, Returns, HasTimer, Timed
      <4>2. conf.layers = {} => spent'["tone"] = NotTaken
        BY <1>1, <2>3, <3>8, <4>1 DEF StageMeasured
      <4> QED
        BY <2>3, <3>1, <3>2, <3>3, <3>5, <3>8, <4>1, <4>2 DEF StageMeasured, Returns
    <3>9. CASE pc \in {"convert", "align"}
      BY <2>3, <3>1, <3>2, <3>9 DEF StageMeasured, Returns
    <3> QED
      BY <2>3, <3>6, <3>7, <3>8, <3>9 DEF StageMeasured, Returns
  <2> QED
    BY <1>1, <2>1, <2>2, <2>3, RunStepTimes
<1>2. CASE StartTimer
  BY <1>2, StartTimerTimes DEF vars, inputVars
<1>3. CASE TickAfterwards \/ Emit \/ UNCHANGED <<vars, metricsVars>>
  BY <1>3, AfterwardsTimes
<1> QED
  BY <1>1, <1>2, <1>3 DEF MetricsNext

\* What a run has done before it comes to a stage, it has also timed.
LEMMA PassedStep ==
  ASSUME MetricsTypeOK, CodeAtTheEnd, EndHasCode, TimersKnown, StagesPassed,
         [MetricsNext]_<<vars, metricsVars>>
  PROVE  StagesPassed'
<1> USE MetricsTypes DEF Stages, Timed, StagesPassed
<1>1. CASE RunStep
  <2>1. audio' = IF pc = "measure" /\ pc' = "asr" THEN "some"
                 ELSE IF code' = "zero_duration" THEN "zero" ELSE audio
    BY <1>1 DEF RunStep
  <2>2. code = "none" /\ pc # "done" /\ UNCHANGED <<task>>
    BY <1>1, RunStepTimes
  <2>3. CASE Continues /\ UNCHANGED spent
    BY <2>1, <2>2, <2>3 DEF Continues
  <2>4. CASE Ends /\ UNCHANGED spent
    BY <2>1, <2>2, <2>4 DEF Ends
  <2>5. CASE Proceeds /\ UNCHANGED spent
    BY <2>1, <2>2, <2>5 DEF Proceeds
  <2>6. CASE StageMeasured
    <3>1. /\ code' = "none" /\ pc \in Stages /\ ~due /\ now # NotEnded
          /\ \A s \in Stages : ended'[s] = (IF s = pc THEN now ELSE ended[s])
      BY <2>2, <2>6 DEF StageMeasured, Returns
    <3>2. pc # "diar" => spent'["diar"] = spent["diar"]
      BY <2>6 DEF StageMeasured, Spent
    <3>3. pc = "align" /\ ~task.diar => spent["diar"] = 0
      <4>1. pc = "align" => HasTimer
        BY <3>1 DEF HasTimer
      <4> QED
        BY <2>6, <4>1 DEF StageMeasured, TimersKnown
    <3>4. pc = "diar" => task.diar
      BY DEF TimersKnown
    <3>5. \/ pc = "convert" /\ pc' = "measure"
          \/ pc = "asr" /\ pc' = (IF task.diar THEN "diar" ELSE "align")
          \/ pc = "diar" /\ pc' = "align"
          \/ pc = "align" /\ pc' = "tone"
          \/ pc = "tone" /\ pc' = "commit"
      BY <2>6 DEF StageMeasured, Returns
    <3> QED
      BY <2>1, <2>2, <3>1, <3>2, <3>3, <3>4, <3>5
  <2> QED
    BY <1>1, <2>3, <2>4, <2>5, <2>6, RunStepTimes
<1>2. CASE StartTimer
  <2>1. pc # "commit" /\ code # "success"
    BY <1>2, StartTimerTimes DEF CodeAtTheEnd
  <2> QED
    BY <1>2, <2>1, StartTimerTimes DEF vars, inputVars
<1>3. CASE TickAfterwards \/ Emit \/ UNCHANGED <<vars, metricsVars>>
  BY <1>3, AfterwardsTimes
<1> QED
  BY <1>1, <1>2, <1>3 DEF MetricsNext

\* The seconds of a stage lie after those of the stages before it.
LEMMA TimesStep ==
  ASSUME MetricsTypeOK, CodeAtTheEnd, EndHasCode, TimersKnown, TimesAddUp,
         [MetricsNext]_<<vars, metricsVars>>
  PROVE  TimesAddUp'
<1> USE MetricsTypes DEF Spent, Time
<1> DEFINE a == Seconds(spent["asr"])
           d == Seconds(spent["diar"])
           n == Seconds(spent["tone"])
<1>1. /\ a \in Nat /\ d \in Nat /\ n \in Nat /\ SpentSum = a + d + n
      /\ t0 # NotTaken => t0 \in Nat /\ t0 <= now
      /\ SpentSum <= now
  BY DEF SpentSum, TimersKnown, TimesAddUp
<1>2. CASE RunStep
  <2>1. code = "none"
    BY <1>2, RunStepTimes
  <2>2. ASSUME UNCHANGED spent
        PROVE  SpentSum' = SpentSum
    BY <2>2 DEF SpentSum, Seconds
  <2>3. CASE Continues /\ UNCHANGED <<spent, t0, total>>
    BY <1>1, <2>1, <2>2, <2>3 DEF Continues, TimesAddUp
  <2>4. CASE Ends /\ UNCHANGED spent /\ t0' = NotTaken /\ total' = now
    BY <1>1, <2>2, <2>4 DEF Ends, TimesAddUp
  <2>5. CASE Proceeds /\ UNCHANGED spent /\ t0' = NotTaken
    BY <1>1, <2>1, <2>2, <2>5 DEF Proceeds, TimesAddUp
  <2>6. CASE StageMeasured
    <3>1. now' = now /\ code' = "none" /\ t0' = NotTaken
      BY <2>1, <2>6 DEF StageMeasured, Returns
    <3>2. SpentSum' = (IF spent'["asr"] = NotTaken THEN 0 ELSE spent'["asr"])
                        + (IF spent'["diar"] = NotTaken THEN 0 ELSE spent'["diar"])
                        + (IF spent'["tone"] = NotTaken THEN 0 ELSE spent'["tone"])
      BY DEF SpentSum, Seconds
    <3>3. \A s \in Spent \ {pc} : spent'[s] = spent[s]
      BY <2>6 DEF StageMeasured
    <3>4. CASE t0 = NotTaken
      <4>1. pc \in Spent => spent'[pc] = spent[pc]
        BY <2>6, <3>4 DEF StageMeasured
      <4>2. SpentSum' = SpentSum
        BY <3>2, <3>3, <4>1 DEF SpentSum, Seconds
      <4> QED
        BY <1>1, <3>1, <4>2 DEF TimesAddUp
    <3>5. CASE t0 # NotTaken
      <4>1. t0 \in Nat /\ t0 <= now /\ SpentSum <= t0
        BY <1>1, <3>5 DEF TimesAddUp
      <4>2. pc \in Spent => spent'[pc] = now - t0 \/ spent'[pc] = spent[pc]
        BY <2>6 DEF StageMeasured
      <4>3. now - t0 \in Nat /\ now - t0 # NotTaken
        BY <4>1
      <4>4. CASE pc = "asr"
        BY <1>1, <3>1, <3>2, <3>3, <4>1, <4>2, <4>3, <4>4 DEF TimesAddUp, Seconds
      <4>5. CASE pc = "diar"
        BY <1>1, <3>1, <3>2, <3>3, <4>1, <4>2, <4>3, <4>5 DEF TimesAddUp, Seconds
      <4>6. CASE pc = "tone"
        BY <1>1, <3>1, <3>2, <3>3, <4>1, <4>2, <4>3, <4>6 DEF TimesAddUp, Seconds
      <4>7. CASE pc \notin Spent
        BY <1>1, <3>1, <3>2, <3>3, <4>1, <4>7 DEF TimesAddUp, Seconds
      <4> QED
        BY <4>4, <4>5, <4>6, <4>7
    <3> QED
      BY <3>4, <3>5
  <2> QED
    BY <1>2, <2>3, <2>4, <2>5, <2>6, RunStepTimes
<1>3. CASE StartTimer
  <2>1. /\ code' = "none" /\ t0' = now /\ now' = now
        /\ spent'["asr"] = spent["asr"] /\ spent'["tone"] = spent["tone"]
        /\ spent'["diar"] \in {spent["diar"], 0}
    BY <1>3, StartTimerTimes DEF vars, CodeAtTheEnd, Timed
  <2>2. SpentSum' = a + (IF spent'["diar"] = NotTaken THEN 0 ELSE spent'["diar"]) + n
    BY <2>1 DEF SpentSum, Seconds
  <2>3. SpentSum' <= now
    BY <1>1, <2>1, <2>2 DEF Seconds
  <2> QED
    BY <2>1, <2>3 DEF TimesAddUp
<1>4. CASE TickAfterwards \/ Emit \/ UNCHANGED <<vars, metricsVars>>
  <2>1. SpentSum' = SpentSum
    BY <1>4, AfterwardsTimes DEF SpentSum, Seconds
  <2> QED
    BY <1>1, <1>4, <2>1, AfterwardsTimes DEF TimesAddUp
<1> QED
  BY <1>2, <1>3, <1>4 DEF MetricsNext

----------------------------------------------------------------------------
(* What is counted.                                                        *)

\* A run is counted once, after its end.
LEMMA CountedOnceStep ==
  ASSUME MetricsTypeOK, CodeAtTheEnd, EndHasCode, TimersKnown, CountedAtTheEnd,
         [MetricsNext]_<<vars, metricsVars>>
  PROVE  /\ CountedAtTheEnd'
         /\ \/ counted' = <<>>
            \/ Emit
            \/ UNCHANGED <<counted, ended, conf, code>>
<1> USE DEF CountedAtTheEnd
<1>1. CASE RunStep
  BY <1>1, RunStepTimes
<1>2. CASE StartTimer
  BY <1>2, StartTimerTimes DEF vars, inputVars, Timed
<1>3. CASE TickAfterwards
  BY <1>3 DEF TickAfterwards, metricsVars, inputVars
<1>4. CASE Emit
  BY <1>4 DEF Emit, vars
<1>5. CASE UNCHANGED <<vars, metricsVars>>
  BY <1>5 DEF vars, inputVars, metricsVars
<1> QED
  BY <1>1, <1>2, <1>3, <1>4, <1>5 DEF MetricsNext

\* What Emit counts, component by component.
LEMMA Observed ==
  ASSUME MetricsTypeOK
  PROVE  /\ Observation.error = code /\ Observation.audio = (audio # "none")
         /\ Observation.total = total /\ Observation.rtf = Rtf /\ Observation.wait = now
         /\ Observation.tone = ToneLabel
         /\ Observation.seconds \in [Spent -> Time]
         /\ Observation.seconds["asr"] = spent["asr"]
         /\ Observation.seconds["diar"] = DiarizationSeconds
         /\ Observation.seconds["tone"] = spent["tone"]
<1>1. DiarizationSeconds \in Time
  BY MetricsTypes DEF DiarizationSeconds, Spent, Time
<1> QED
  BY <1>1, MetricsTypes DEF Observation, QueueWaitSec, Spent

\* What is counted of a run is what its times say of it.
LEMMA ObservationHappened ==
  ASSUME MetricsTypeOK, EndHasCode, TimersKnown, StagesPassed, TimesAddUp,
         CountedAtTheEnd, Emit
  PROVE  CountedAsItHappened'
<1> USE MetricsTypes DEF Spent
<1>1. /\ pc = "done" /\ code # "none" /\ UNCHANGED <<ended, conf>>
      /\ counted' = <<Observation>> \/ counted' = <<>>
  BY DEF Emit, EndHasCode, CountedAtTheEnd, vars, inputVars
<1>2. /\ spent["asr"] # NotTaken <=> ended["asr"] # NotEnded
      /\ DiarizationSeconds # NotTaken <=> ended["diar"] # NotEnded
      /\ spent["tone"] # NotTaken <=> ended["tone"] # NotEnded /\ conf.layers # {}
  BY DEF TimersKnown, DiarizationSeconds
<1>3. Seconds(spent["asr"]) + Seconds(DiarizationSeconds) + Seconds(spent["tone"]) <= total
  <2>1. Seconds(DiarizationSeconds) \in {Seconds(spent["diar"]), 0}
    BY DEF DiarizationSeconds, Seconds
  <2>2. total \in Nat /\ SpentSum <= total
    BY <1>1 DEF TimesAddUp
  <2> QED
    BY <2>1, <2>2 DEF SpentSum
<1>4. total <= now
  BY <1>1 DEF TimesAddUp
<1>5. code = "success" => audio # "none" /\ Rtf # NotTaken
  <2>1. SUFFICES ASSUME code = "success" PROVE audio # "none" /\ Rtf # NotTaken
    OBVIOUS
  <2>2. audio = "some" /\ spent["asr"] # NotTaken /\ spent["diar"] # NotTaken
    BY <1>2, <2>1 DEF StagesPassed, TimersKnown, DiarizationSeconds
  <2>3. spent["asr"] \in Nat /\ spent["diar"] \in Nat
    BY <2>2 DEF Time
  <2> QED
    BY <2>2, <2>3 DEF Rtf
<1>6. ASSUME counted' = <<Observation>>
      PROVE  CountedAsItHappened'
  <2>1. Head(counted') = Observation
    BY <1>6
  <2> QED
    BY <1>1, <1>2, <1>3, <1>4, <1>5, <2>1, Observed DEF CountedAsItHappened, Seconds
<1> QED
  BY <1>1, <1>6 DEF CountedAsItHappened

\* What was counted stays as it was, and remains true.
LEMMA CountedStep ==
  ASSUME MetricsTypeOK, CodeAtTheEnd, EndHasCode, TimersKnown, StagesPassed, TimesAddUp,
         CountedAtTheEnd, CountedAsItHappened, [MetricsNext]_<<vars, metricsVars>>
  PROVE  CountedAsItHappened'
<1>1. CASE counted' = <<>>
  BY <1>1 DEF CountedAsItHappened
<1>2. CASE Emit
  BY <1>2, ObservationHappened
<1>3. CASE UNCHANGED <<counted, ended, conf, code>>
  BY <1>3 DEF CountedAsItHappened, Seconds
<1> QED
  BY <1>1, <1>2, <1>3, CountedOnceStep

\* Sequences of at most one element.
LEMMA AtMostOne ==
  ASSUME NEW S
  PROVE  /\ <<>> \in Seq(S) /\ Len(<<>>) <= 1
         /\ \A e \in S : <<e>> \in Seq(S) /\ Len(<<e>>) <= 1
  OBVIOUS

\* The types of what is measured and counted.
LEMMA MetricsTyped ==
  ASSUME MetricsTypeOK, CodeAtTheEnd, EndHasCode, TimersKnown, CountedAtTheEnd,
         [MetricsNext]_<<vars, metricsVars>>
  PROVE  MetricsTypeOK'
<1> USE MetricsTypes
<1>1. PipelineTypeOK'
  BY MetricsMoves, TypePreserved DEF MetricsTypeOK
<1>2. t0' \in Time /\ spent' \in [Spent -> Time] /\ total' \in Time
  <2>1. CASE RunStep
    <3>1. \A s \in Spent : t0 # NotTaken => now - t0 \in Nat
      BY DEF TimersKnown, Time
    <3> QED
      BY <2>1, <3>1 DEF RunStep, Time
  <2>2. CASE StartTimer
    BY <2>2 DEF StartTimer, Time
  <2>3. CASE TickAfterwards \/ Emit \/ UNCHANGED <<vars, metricsVars>>
    BY <2>3, AfterwardsTimes
  <2> QED
    BY <2>1, <2>2, <2>3 DEF MetricsNext
<1>3. audio' \in {"none", "zero", "some"} /\ emitted' \in BOOLEAN
  BY DEF MetricsTypeOK, MetricsNext, StartTimer, RunStep, Emit, TickAfterwards,
     timeVars, metricsVars
<1>4. Observation \in Counted
  <2>1. Rtf \in Time
    BY DEF Rtf, Time, Spent
  <2>2. ToneLabel \in Labels
    BY DEF ToneLabel, Labels
  <2>3. DiarizationSeconds \in Time
    BY DEF DiarizationSeconds, Spent, Time
  <2>4. [spent EXCEPT !["diar"] = DiarizationSeconds] \in [Spent -> Time]
    BY <2>3
  <2>5. code \in Code /\ QueueWaitSec \in Nat
    BY DEF MetricsTypeOK, PipelineTypeOK, QueueWaitSec
  <2> QED
    BY <2>1, <2>2, <2>4, <2>5 DEF Observation, Counted
<1>5. counted' \in Seq(Counted) /\ Len(counted') <= 1
  <2>1. CASE counted' = <<>>
    BY <2>1
  <2>2. CASE Emit
    <3>1. counted' = <<Observation>> \/ counted' = counted
      BY <2>2 DEF Emit
    <3> QED
      BY <1>4, <3>1, AtMostOne DEF MetricsTypeOK
  <2>3. CASE UNCHANGED <<counted, ended, conf, code>>
    BY <2>3 DEF MetricsTypeOK
  <2> QED
    BY <2>1, <2>2, <2>3, CountedOnceStep
<1> QED
  BY <1>1, <1>2, <1>3, <1>5 DEF MetricsTypeOK

----------------------------------------------------------------------------
(* What holds of every run that is measured.                               *)

\* Nothing is counted in the beginning.
LEMMA MetricsStart == MetricsInit => MetricsInv
<1> SUFFICES ASSUME MetricsInit PROVE MetricsInv
  OBVIOUS
<1>1. PipelineInv /\ PipelineTypeOK
  BY PipelineInit DEF MetricsInit, PipelineInv, DeadlineInv
<1>2. MetricsTypeOK
  BY <1>1, AtMostOne DEF MetricsInit, MetricsTypeOK, Time
<1>3. TimersKnown
  BY DEF MetricsInit, Init, TimersKnown, Spent, Stages
<1>4. StagesPassed
  BY DEF MetricsInit, Init, StagesPassed, Timed
<1>5. TimesAddUp /\ CountedAtTheEnd /\ CountedAsItHappened
  BY DEF MetricsInit, Init, TimesAddUp, SpentSum, Seconds, Spent, CountedAtTheEnd,
     CountedAsItHappened
<1> QED
  BY <1>1, <1>2, <1>3, <1>4, <1>5 DEF MetricsInv

\* A measured run keeps the invariant of the run and that of its times.
THEOREM MetricsInvariant == MetricsSpec => []MetricsInv
<1>1. MetricsInv /\ [MetricsNext]_<<vars, metricsVars>> => MetricsInv'
  <2> SUFFICES ASSUME MetricsInv, [MetricsNext]_<<vars, metricsVars>> PROVE MetricsInv'
    OBVIOUS
  <2>1. /\ MetricsTypeOK /\ PipelineInv /\ CodeAtTheEnd /\ EndHasCode /\ TimersKnown
        /\ StagesPassed /\ TimesAddUp /\ CountedAtTheEnd /\ CountedAsItHappened
    BY DEF MetricsInv, PipelineInv, DeadlineInv
  <2>2. PipelineInv'
    BY <2>1, MetricsMoves, PipelineStep
  <2>3. TimersKnown' /\ StagesPassed' /\ TimesAddUp'
    BY <2>1, TimersStep, PassedStep, TimesStep
  <2>4. MetricsTypeOK' /\ CountedAtTheEnd' /\ CountedAsItHappened'
    BY <2>1, MetricsTyped, CountedOnceStep, CountedStep
  <2> QED
    BY <2>2, <2>3, <2>4 DEF MetricsInv
<1> QED
  BY <1>1, MetricsStart, PTL DEF MetricsSpec

\* The variables of a measured run keep their types; it is counted at most once.
THEOREM MetricsTypesKept == MetricsSpec => []MetricsTypeOK
<1>1. MetricsInv => MetricsTypeOK
  BY DEF MetricsInv
<1> QED
  BY <1>1, MetricsInvariant, PTL

\* What is counted of a run is what happened in it: seconds of the stages that returned
\* and no others, in sum at most the total, and of a success its factor to real time.
THEOREM CountsAreTrue == MetricsSpec => []CountedAsItHappened
<1>1. MetricsInv => CountedAsItHappened
  BY DEF MetricsInv
<1> QED
  BY <1>1, MetricsInvariant, PTL

\* A run that ends with a timeout names the limit that was really used up: the task's, or
\* ffmpeg's own while the task still had time.
THEOREM TimeoutsNamed == MetricsSpec => []CodeNamesLimit
<1>1. MetricsInv => CodeNamesLimit
  BY DEF MetricsInv, PipelineInv
<1> QED
  BY <1>1, MetricsInvariant, PTL

\* ffmpeg runs without a limit, though one is configured, only if the deadline had passed
\* when it was started: between the check and the second reading of the clock.
THEOREM FfmpegLimited == MetricsSpec => []UnlimitedOnlyIfLate
<1>1. MetricsInv => UnlimitedOnlyIfLate
  BY DEF MetricsInv, PipelineInv, LimitKnown, UnlimitedOnlyIfLate
<1> QED
  BY <1>1, MetricsInvariant, PTL

\* A success that was asked for tone names the layers applied, or says it was skipped.
THEOREM ToneIsAnswered == MetricsSpec => []ToneAnswered
<1>1. MetricsInv => ToneAnswered
  BY DEF MetricsInv, PipelineInv, ToneKnown, ToneAnswered
<1> QED
  BY <1>1, MetricsInvariant, PTL
=============================================================================
