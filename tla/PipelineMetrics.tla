-------------------------- MODULE PipelineMetrics --------------------------
(***************************************************************************)
(* What is measured of a run of Pipeline and counted when it has ended     *)
(* (_emit_task_metrics of src/app/pipeline.py, observe_task_finished of    *)
(* src/app/prometheus_metrics.py): the seconds of its stages, its total,   *)
(* the factor to real time, the wait in the queue, the tone label.  The    *)
(* time before the run began, bytes, buckets, and the labels of the models *)
(* are left out, and the sums over runs are those of the library.          *)
(***************************************************************************)
EXTENDS Pipeline, Sequences

CONSTANT NotTaken   \* None, of a time

ASSUME MetricsAssumption == NotTaken \notin Nat

VARIABLES t0,        \* t0 of the stage under way, or NotTaken
          spent,     \* asr_time, diar_time, tone_time
          audio,     \* duration: not measured, zero, or some
          total,     \* total_time
          emitted,   \* _emit_task_metrics has run
          counted    \* what observe_task_finished counted, a sequence of at most one

timeVars == <<t0, spent, audio, total>>
metricsVars == <<timeVars, emitted, counted>>

Timed == {"asr", "diar", "align", "tone"}
Spent == {"asr", "diar", "tone"}
Labels == {"true", "false", "na", "none"}

Time == Nat \cup {NotTaken}
Counted ==
  [error : Code, seconds : [Spent -> Time], audio : BOOLEAN, total : Time, rtf : Time,
   wait : Nat, tone : Labels]

MetricsTypeOK ==
  /\ PipelineTypeOK
  /\ t0 \in Time /\ spent \in [Spent -> Time] /\ total \in Time
  /\ audio \in {"none", "zero", "some"}
  /\ emitted \in BOOLEAN
  /\ counted \in Seq(Counted) /\ Len(counted) <= 1

MetricsInit ==
  /\ Init
  /\ t0 = NotTaken /\ spent = [s \in Spent |-> NotTaken]
  /\ audio = "none" /\ total = NotTaken
  /\ emitted = FALSE /\ counted = <<>>

----------------------------------------------------------------------------
(* The times of a run.                                                     *)

\* A stage whose engine was resolved is timed; run_tone_pass is called, and times itself,
\* only if a layer is configured.
HasTimer ==
  /\ pc \in Timed /\ ~due
  /\ pc \in {"asr", "diar"} => pc \in loaded
  /\ pc = "tone" => task.tone /\ conf.layers # {}

\* t0 = perf_counter().  Without diarization its time is 0, once the words are aligned.
StartTimer ==
  /\ HasTimer /\ t0 = NotTaken
  /\ t0' = now
  /\ spent' = IF pc = "align" /\ ~task.diar THEN [spent EXCEPT !["diar"] = 0] ELSE spent
  /\ UNCHANGED <<vars, audio, total, emitted, counted>>

Returned(s) == ended'[s] # ended[s]

\* A step of the run, and what it measures.
RunStep ==
  /\ Next
  /\ HasTimer /\ pc' # pc => t0 # NotTaken
  /\ spent' = [s \in Spent |-> IF Returned(s) /\ t0 # NotTaken THEN now - t0 ELSE spent[s]]
  /\ t0' = IF pc' = pc THEN t0 ELSE NotTaken
  /\ audio' = IF pc = "measure" /\ pc' = "asr" THEN "some"
              ELSE IF code' = "zero_duration" THEN "zero" ELSE audio
  /\ total' = IF code' = code THEN total ELSE now
  /\ UNCHANGED <<emitted, counted>>

----------------------------------------------------------------------------
(* What is counted at the end.                                             *)

\* Faulty variant: a task without diarization counts as one of no seconds.
DiarizationEvenIfNone == spent["diar"]

\* diarization_model is None if the task names none.
DiarizationSeconds == IF task.diar THEN spent["diar"] ELSE NotTaken

\* _rtf, without its division.
Rtf ==
  IF audio = "some" /\ spent["asr"] # NotTaken /\ spent["diar"] # NotTaken
  THEN spent["asr"] + spent["diar"] ELSE NotTaken

\* queue_wait_sec: from the row's timestamp to the moment it is asked, which is here, after
\* the run (its help, prometheus_metrics.py:281, says "Time from submit to running").
QueueWaitSec == now

\* _tone_skipped_label of a tone_skipped that is True or None.
ToneLabel == IF ~task.tone THEN "none" ELSE IF skipped THEN "true" ELSE "na"

Observation ==
  [error |-> code, seconds |-> [spent EXCEPT !["diar"] = DiarizationSeconds],
   audio |-> audio # "none", total |-> total, rtf |-> Rtf,
   wait |-> QueueWaitSec, tone |-> ToneLabel]

\* The finally of the run.  If the line of the performance log cannot be written,
\* nothing is counted.
Emit ==
  /\ pc = "done" /\ ~emitted
  /\ emitted' = TRUE
  /\ \/ counted' = <<Observation>>
     \/ UNCHANGED counted
  /\ UNCHANGED <<vars, timeVars>>

\* Between the end of a run and its metrics tmp is cleaned and the log is written.
TickAfterwards ==
  /\ pc = "done" /\ ~emitted /\ now < MaxTime
  /\ now' = now + 1
  /\ UNCHANGED <<inputVars, pc, due, ffmpegVars, ended, resultVars, code, metricsVars>>

MetricsNext == StartTimer \/ RunStep \/ Emit \/ TickAfterwards

MetricsSpec == MetricsInit /\ [][MetricsNext]_<<vars, metricsVars>>
----------------------------------------------------------------------------
(* Properties.                                                             *)

Seconds(time) == IF time = NotTaken THEN 0 ELSE time

\* What is counted of a run is what happened in it: the seconds of the stages that
\* returned, and of no others; together they do not exceed the total; a success always
\* has its audio and its factor to real time.
CountedAsItHappened ==
  counted # <<>> =>
    LET c == Head(counted) IN
    /\ c.seconds["asr"] # NotTaken <=> ended["asr"] # NotEnded
    /\ c.seconds["diar"] # NotTaken <=> ended["diar"] # NotEnded
    /\ c.seconds["tone"] # NotTaken <=> ended["tone"] # NotEnded /\ conf.layers # {}
    /\ Seconds(c.seconds["asr"]) + Seconds(c.seconds["diar"]) + Seconds(c.seconds["tone"])
         <= c.total
    /\ c.error = "success" => c.audio /\ c.rtf # NotTaken

\* tests/test_prometheus.py:196: a successful task whose tone layers were applied is
\* counted with skipped="false".  The code leaves tone_skipped at None.
ToneCountedAsNotSkipped ==
  counted # <<>> /\ code = "success" /\ layers # {} => Head(counted).tone = "false"

----------------------------------------------------------------------------
(* The inductive invariant behind CountedAsItHappened.                     *)

SpentSum == Seconds(spent["asr"]) + Seconds(spent["diar"]) + Seconds(spent["tone"])

\* The stages that were timed are those that returned; without diarization its time is
\* none, and 0 from the alignment on.
TimersKnown ==
  /\ t0 # NotTaken => HasTimer /\ t0 <= now
  /\ spent["asr"] # NotTaken <=> ended["asr"] # NotEnded
  /\ spent["tone"] # NotTaken <=> ended["tone"] # NotEnded /\ conf.layers # {}
  /\ IF task.diar THEN spent["diar"] # NotTaken <=> ended["diar"] # NotEnded
     ELSE /\ pc # "diar" /\ ended["diar"] = NotEnded /\ spent["diar"] \in {NotTaken, 0}
          /\ pc = "align" /\ t0 # NotTaken => spent["diar"] = 0

\* What a run has behind it when it comes to a stage.
StagesPassed ==
  /\ pc \in Timed \cup {"commit"} \/ code = "success" => audio = "some"
  /\ pc \in {"diar", "align", "tone", "commit"} \/ code = "success" => ended["asr"] # NotEnded
  /\ (pc \in {"align", "tone", "commit"} \/ code = "success") /\ task.diar
       => ended["diar"] # NotEnded
  /\ (pc \in {"tone", "commit"} \/ code = "success") /\ ~task.diar => spent["diar"] = 0

\* The stages lie one after the other, before the total is taken.
TimesAddUp ==
  /\ SpentSum <= (IF t0 = NotTaken THEN now ELSE t0)
  /\ code # "none" => total \in Nat /\ SpentSum <= total /\ total <= now

CountedAtTheEnd == IF emitted THEN pc = "done" ELSE counted = <<>>

MetricsInv == MetricsTypeOK /\ PipelineInv /\ TimersKnown /\ StagesPassed /\ TimesAddUp
                /\ CountedAtTheEnd /\ CountedAsItHappened
=============================================================================
