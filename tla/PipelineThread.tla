--------------------------- MODULE PipelineThread ---------------------------
(***************************************************************************)
(* run_pipeline (src/app/pipeline.py) as the runner sees it: a thread of   *)
(* the executor that works for one task, calls the store and touches the   *)
(* task's files, interleaved with the event loop and the other threads.    *)
(* Its computations (ffmpeg, the engines, the alignment) are one step      *)
(* whose result is left open; module Pipeline looks inside them.           *)
(*                                                                         *)
(* Once the store is closed every call raises sqlite3.ProgrammingError:    *)
(* mark_success raises into the except branch, mark_error raises out of    *)
(* it, the get of the finally block is caught, and the thread ends with    *)
(* the row and the files as they are (StoreGone).                          *)
(***************************************************************************)
EXTENDS TaskStore, UploadFiles

VARIABLES thread,     \* where the task's thread is
          starts,     \* history: how often mark_running succeeded for the task
          abandoned   \* history: the tasks that this process leaves as they are, because
                      \* a call of the store has failed

threadVars == <<thread, starts, abandoned>>
historyVars == <<starts, abandoned>>

StorePC == {"get", "mark", "infer", "missing", "broken", "final"}
FilePC == {"check", "prepare", "cleanup"}
ThreadPC == {"none", "returned"} \cup StorePC \cup FilePC

PipelineThreadTypeOK ==
  /\ thread \in [Tasks -> ThreadPC]
  /\ starts \in [Tasks -> Nat]
  /\ abandoned \subseteq Tasks

PipelineThreadInit ==
  /\ thread = [t \in Tasks |-> "none"]
  /\ starts = [t \in Tasks |-> 0]
  /\ abandoned = {}

Alive(t) == thread[t] \in StorePC \cup FilePC

\* The thread is past mark_running and has not finished its row.
Working(t) == thread[t] \in {"check", "prepare", "infer", "missing", "broken"}

Goto(t, pc) == thread' = [thread EXCEPT ![t] = pc]

\* A step of the thread that calls the store, here still open.
AtStore(t, pc) == thread[t] = pc /\ storeOpen

Get(t) ==
  /\ AtStore(t, "get")
  /\ Goto(t, IF HasRow(t) THEN "mark" ELSE "returned")
  /\ UNCHANGED <<storeVars, fileVars, historyVars>>

MarkRunning(t) ==
  /\ AtStore(t, "mark")
  /\ IF CanMarkRunning(t)
       THEN /\ mark_running(t)
            /\ starts' = [starts EXCEPT ![t] = @ + 1]
            /\ Goto(t, "check")
       ELSE /\ Goto(t, "returned")
            /\ UNCHANGED <<storeVars, starts>>
  /\ UNCHANGED <<fileVars, abandoned>>

CheckUpload(t) ==
  /\ thread[t] = "check"
  /\ Goto(t, IF UploadExists(t) THEN "prepare" ELSE "missing")
  /\ UNCHANGED <<storeVars, fileVars, historyVars>>

\* create_tmp, then ffmpeg on the upload; an upload that is gone by now fails.
PrepareWav(t) ==
  /\ thread[t] = "prepare"
  /\ create_tmp(t)
  /\ \/ UploadExists(t) /\ Goto(t, "infer")
     \/ Goto(t, "broken")
  /\ UNCHANGED <<storeVars, historyVars>>

\* Everything from the wav to the transcript, and the commit of its result.
Infer(t) ==
  /\ AtStore(t, "infer")
  /\ \/ mark_success(t) /\ Goto(t, "final")
     \/ Goto(t, "broken") /\ UNCHANGED storeVars
  /\ UNCHANGED <<fileVars, historyVars>>

MarkError(t) ==
  /\ storeOpen
  /\ \/ thread[t] = "missing" /\ mark_error(t, "missing_upload")
     \/ thread[t] = "broken" /\ mark_error(t, "pipeline_error")
  /\ Goto(t, "final")
  /\ UNCHANGED <<fileVars, historyVars>>

\* Faulty variant: a finished row is left for the TTL, only a deleted one is cleaned.
TmpIsSpentWhenDeleted(t) == ~HasRow(t)

\* Faulty variant: the finally block forgets that its row may have been deleted.
TmpIsSpentWhenFinished(t) == rows[t].status \in Finished

\* The rows whose tmp the finally block removes: current is None or finished.
TmpIsSpent(t) == rows[t].status \in Finished \cup {"none"}

Final(t) ==
  /\ AtStore(t, "final")
  /\ Goto(t, IF TmpIsSpent(t) THEN "cleanup" ELSE "returned")
  /\ UNCHANGED <<storeVars, fileVars, historyVars>>

CleanupTmp(t) ==
  /\ thread[t] = "cleanup"
  /\ cleanup_tmp(t)
  /\ Goto(t, "returned")
  /\ UNCHANGED <<storeVars, historyVars>>

StoreGone(t) ==
  /\ thread[t] \in StorePC
  /\ ~storeOpen
  /\ Goto(t, "returned")
  /\ UNCHANGED <<storeVars, fileVars, historyVars>>

\* Where run_pipeline goes when a call raises sqlite3.Error: before its try block out of
\* the function, out of the except branch into the finally block, whose own get is caught.
AfterFailure(pc) == IF pc \in {"missing", "broken"} THEN "final" ELSE "returned"

\* The store is open but the call fails (database locked, disk full) and has changed
\* nothing.  A mark_success that fails is the second outcome of Infer.
StoreFails(t) ==
  /\ thread[t] \in StorePC \ {"infer"}
  /\ storeOpen
  /\ Goto(t, AfterFailure(thread[t]))
  /\ abandoned' = abandoned \cup {t}
  /\ UNCHANGED <<storeVars, fileVars, starts>>

ThreadStep(t) ==
  \/ Get(t) \/ MarkRunning(t) \/ CheckUpload(t) \/ PrepareWav(t) \/ Infer(t)
  \/ MarkError(t) \/ Final(t) \/ CleanupTmp(t) \/ StoreGone(t)
=============================================================================
