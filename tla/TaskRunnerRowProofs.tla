------------------------ MODULE TaskRunnerRowProofs ------------------------
(***************************************************************************)
(* That a row is running exactly while a thread works on it, and that the  *)
(* runner, with its segments, threads, deaths and restarts, implements     *)
(* what TaskLifecycle promises to a client.                                *)
(***************************************************************************)
EXTENDS TaskRunnerThreadProofs

\* The variables that RowInv is about, and their types.
LEMMA RowTypes ==
  ASSUME TypeOK
  PROVE  /\ NoTask \notin Tasks /\ rows \in [Tasks -> TaskRow]
         /\ thread \in [Tasks -> ThreadPC] /\ req \in [Tasks -> ReqPC]
         /\ loop.todo \in SUBSET Tasks /\ loop.cur \in Tasks \cup {NoTask}
         /\ abandoned \in SUBSET Tasks /\ storeOpen \in BOOLEAN
  BY RunnerAssumption DEF TypeOK, TaskStoreTypeOK, PipelineThreadTypeOK, RunnerTypeOK, LoopState

----------------------------------------------------------------------------
(* The phases of the store.                                                *)

\* A step that neither ends a segment nor moves on within one, nor closes the store.
LEMMA PhasesFrame ==
  ASSUME StorePhases, UNCHANGED <<proc, loop, storeOpen>>
  PROVE  StorePhases'
  BY DEF StorePhases

\* The store is open for as long as someone restores, serves or stops.
LEMMA PhasesStep ==
  ASSUME TypeOK, SegmentsInPhase, StorePhases, [Next]_vars
  PROVE  StorePhases'
<1>1. CASE UNCHANGED vars
  BY <1>1, PhasesFrame DEF vars, storeVars, runnerVars
<1>2. ASSUME NEW t \in Tasks, Post(t) \/ AnswerStep(t) \/ JobStep(t) \/ WorkerStep(t)
      PROVE  StorePhases'
  <2>1. UNCHANGED <<proc, loop, storeOpen>>
    BY <1>2 DEF Post, AnswerStep, WriteUpload, SubmitReject, SubmitBegin, Place, SubmitEnd,
       create, JobStep, JobCancelled, JobWaits, JobDropped, JobRuns, JobFinishes, WorkerStep,
       ThreadReturns, ThreadStep, Get, MarkRunning, mark_running, CheckUpload, PrepareWav,
       Infer, mark_success, MarkError, mark_error, Final, CleanupTmp, StoreGone, storeVars,
       runnerVars
  <2> QED
    BY <2>1, PhasesFrame
<1>3. ASSUME NEW t \in Tasks,
             \/ Expire(t) \/ LoseUpload(t) \/ SubmitFails(t) \/ JobFails(t)
             \/ StoreFails(t) /\ UNCHANGED runnerVars
      PROVE  StorePhases'
  <2>1. UNCHANGED <<proc, loop, storeOpen>>
    BY <1>3 DEF Expire, DeleteRows, LoseUpload, SubmitFails, create, JobFails, StoreFails,
       storeVars, runnerVars
  <2> QED
    BY <2>1, PhasesFrame
<1>4. CASE Dispatch \/ TtlFails \/ ChangeToken
  <2>1. UNCHANGED <<proc, loop, storeOpen>>
    BY <1>4 DEF Dispatch, TtlFails, ChangeToken, SealsBroken, storeVars, runnerVars
  <2> QED
    BY <2>1, PhasesFrame
<1>5. CASE Purge \/ PurgeQueued \/ PurgeFinished \/ PurgeTmp \/ PurgeFails
  <2>1. proc = "up" /\ proc' = proc /\ storeOpen' = storeOpen
    BY <1>5 DEF Purge, PurgeQueued, PurgeFinished, PurgeTmp, PurgeFails, delete_by_statuses,
       DeleteRows, Scheduled, InSegment, storeVars, StorePhases, PurgePC
  <2>2. loop'.at \in PurgePC \cup {"idle"}
    BY <1>5 DEF Purge, PurgeQueued, PurgeFinished, PurgeTmp, PurgeFails, At, Idle, PurgePC
  <2> QED
    BY <2>1, <2>2 DEF StorePhases, PurgePC
<1>6. ASSUME NEW t \in Tasks, Delete(t) \/ DeleteTmp(t)
      PROVE  StorePhases'
  <2>1. proc = "up" /\ proc' = proc /\ storeOpen' = storeOpen
    BY <1>6 DEF Delete, DeleteTmp, DeleteRows, Scheduled, InSegment, storeVars, StorePhases
  <2>2. loop'.at \in {"deleteTmp", "idle"}
    BY <1>6 DEF Delete, DeleteTmp, At, Idle
  <2> QED
    BY <2>1, <2>2 DEF StorePhases, PurgePC
<1>7. ASSUME NEW t \in Tasks,
             \/ RestoreInterrupted(t) \/ RestoreBump(t) \/ RestoreSettle(t)
             \/ RestoreCleanTmp(t) \/ RestoreMissing(t) \/ RestoreEnqueue(t)
      PROVE  StorePhases'
  <2>1. proc' = proc /\ storeOpen' = storeOpen
    BY <1>7 DEF RestoreInterrupted, RestoreBump, RestoreSettle, RestoreCleanTmp,
       RestoreMissing, RestoreEnqueue, ContinueAt, mark_error, bump_attempts,
       reset_to_queued, storeVars
  <2>2. loop.at \in RestorePC /\ loop'.at \in RestorePC
    BY <1>7 DEF RestoreInterrupted, RestoreBump, RestoreSettle, RestoreCleanTmp,
       RestoreMissing, RestoreEnqueue, Restoring, InSegment, ContinueAt, At,
       RestorePC
  <2> QED
    BY <2>1, <2>2 DEF StorePhases, SegmentsInPhase, RestorePC, PurgePC
<1>8. CASE RestoreNextList
  <2>1. proc' = proc /\ storeOpen' = storeOpen
    BY <1>8 DEF RestoreNextList, ContinueAt, storeVars
  <2>2. loop.at \in RestorePC /\ loop'.at \in RestorePC
    BY <1>8 DEF RestoreNextList, InSegment, ContinueAt, At, RestorePC
  <2> QED
    BY <2>1, <2>2 DEF StorePhases, SegmentsInPhase, RestorePC, PurgePC
<1>9. CASE Start
  <2>1. storeOpen' /\ proc' = "restoring" /\ loop'.at = "restoreRunning"
    BY <1>9 DEF Start, OpenStore, At
  <2> QED
    BY <2>1 DEF StorePhases, RestorePC, PurgePC
<1>10. CASE Serve
  <2>1. /\ proc = "restoring" /\ proc' = "up" /\ loop'.at = "idle"
        /\ storeOpen' = storeOpen
    BY <1>10 DEF Serve, InSegment, SegmentsInPhase, RestorePC, Idle, At, storeVars
  <2> QED
    BY <2>1 DEF StorePhases, PurgePC
<1>11. CASE Stop \/ StopClean
  <2>1. /\ proc \in {"up", "stopping"} /\ proc' \in {"stopping", "stopped"}
        /\ loop'.at \in {"idle", "stopClean", "stopClose"} /\ storeOpen' = storeOpen
    BY <1>11 DEF Stop, Scheduled, StopClean, InSegment, SegmentsInPhase, At, Idle, storeVars
  <2> QED
    BY <2>1 DEF StorePhases, PurgePC
<1>12. CASE StopClose \/ Exit \/ Crash
  <2>1. proc' \in {"stopped", "down"} /\ loop'.at = "idle"
    BY <1>12 DEF StopClose, Exit, Crash, LoseMemory, At, Idle
  <2> QED
    BY <2>1 DEF StorePhases, PurgePC
<1> QED
  BY <1>1, <1>2, <1>3, <1>4, <1>5, <1>6, <1>7, <1>8, <1>9, <1>10, <1>11, <1>12
     DEF Next, SegmentStep, ProcessStep, StoreFault

----------------------------------------------------------------------------
(* The rows that are running, and their threads.                           *)

\* Steps that leave the rows, the threads and the segment alone.
LEMMA RowFrame ==
  ASSUME RestoreClears, WorkingIsRunning, RunningIsOwned,
         UNCHANGED <<rows, thread, proc, loop>>, abandoned \subseteq abandoned'
  PROVE  RestoreClears' /\ WorkingIsRunning' /\ RunningIsOwned'
  BY DEF RestoreClears, WorkingIsRunning, RunningIsOwned, Working

\* Steps of a process that serves or stops, in which no row becomes running, none that is
\* running changes, and the threads that work are left alone.
LEMMA RowsLeave ==
  ASSUME WorkingIsRunning, RunningIsOwned,
         loop'.at \notin RestorePC, proc' # "restoring",
         proc' \in {"up", "stopping"} => proc \in {"up", "stopping"},
         abandoned \subseteq abandoned',
         \A t \in Tasks : /\ rows[t].status = "running" => rows'[t] = rows[t]
                          /\ rows'[t].status = "running" => rows[t].status = "running",
         \A t \in Tasks : Working(t)' <=> Working(t)
  PROVE  RestoreClears' /\ WorkingIsRunning' /\ RunningIsOwned'
<1>1. RestoreClears'
  BY DEF RestoreClears, RestorePC, QueuedListPC
<1>2. WorkingIsRunning'
  BY DEF WorkingIsRunning
<1>3. RunningIsOwned'
  BY DEF RunningIsOwned
<1> QED
  BY <1>1, <1>2, <1>3

\* A request makes a row where there was none.
LEMMA RowRequests ==
  ASSUME TypeOK, RetryInv, RowInv, NEW t \in Tasks,
         Post(t) \/ AnswerStep(t) \/ SubmitFails(t)
  PROVE  RestoreClears' /\ WorkingIsRunning' /\ RunningIsOwned'
<1> USE DEF RowInv
<1>1. CASE Post(t) \/ WriteUpload(t) \/ SubmitReject(t) \/ SubmitBegin(t) \/ Place(t)
  BY <1>1, RowFrame DEF Post, WriteUpload, SubmitReject, SubmitBegin, Place, storeVars,
     threadVars
<1>2. CASE SubmitEnd(t) \/ SubmitFails(t)
  <2>1. /\ UNCHANGED <<thread, proc, loop>> /\ abandoned \subseteq abandoned'
        /\ proc = "up" /\ loop.at = "idle"
    BY <1>2 DEF SubmitEnd, SubmitFails, threadVars, Scheduled, Idle, At
  <2>2. rows[t].status = "none"
    BY <1>2 DEF SubmitEnd, SubmitFails, RetryInv, RunsCounted, Accepted, HasRow
  <2>3. rows' = rows \/ Touched(t, "queued", 0)
    BY <1>2, Effects DEF SubmitEnd, SubmitFails, storeVars, TypeOK
  <2>4. \A u \in Tasks : /\ rows[u].status = "running" => rows'[u] = rows[u]
                         /\ rows'[u].status = "running" => rows[u].status = "running"
    BY <2>2, <2>3 DEF Touched
  <2>5. \A u \in Tasks : Working(u)' <=> Working(u)
    BY <2>1 DEF Working
  <2> QED
    BY <2>1, <2>4, <2>5, RowsLeave DEF RestorePC
<1> QED
  BY <1>1, <1>2 DEF AnswerStep

\* Coroutines start threads and wait for them; while a thread works, they do neither.
LEMMA RowJobs ==
  ASSUME TypeOK, SlotInv, RowInv, NEW t \in Tasks,
         JobStep(t) \/ JobFails(t) \/ ThreadReturns(t)
  PROVE  RestoreClears' /\ WorkingIsRunning' /\ RunningIsOwned'
<1> USE DEF RowInv
<1>1. CASE JobCancelled(t) \/ JobWaits(t) \/ JobDropped(t) \/ JobFinishes(t) \/ JobFails(t)
  BY <1>1, RowFrame DEF JobCancelled, JobWaits, JobDropped, JobFinishes, JobFails, storeVars,
     threadVars
<1>2. CASE JobRuns(t) \/ ThreadReturns(t)
  <2>1. /\ rows' = rows /\ UNCHANGED <<proc, loop, abandoned>>
        /\ thread[t] \in {"none", "returned"} /\ thread'[t] \in {"none", "get"}
        /\ \A u \in Tasks \ {t} : thread'[u] = thread[u]
    <3>1. CASE JobRuns(t)
      <4>1. proc = "up" /\ job[t] \in {"start", "woken"}
        BY <3>1 DEF JobRuns, AsksForSlot, Due, Scheduled
      <4>2. thread[t] = "none"
        BY <4>1 DEF SlotInv, ThreadsAwaited
      <4> QED
        BY <3>1, <4>2, RowTypes DEF JobRuns, Goto, storeVars, historyVars
    <3>2. CASE ThreadReturns(t)
      BY <3>2, RowTypes DEF ThreadReturns, Goto, storeVars, historyVars
    <3> QED
      BY <1>2, <3>1, <3>2
  <2>2. \A u \in Tasks : Working(u)' <=> Working(u)
    BY <2>1 DEF Working
  <2> QED
    BY <2>1, <2>2 DEF RestoreClears, WorkingIsRunning, RunningIsOwned
<1> QED
  BY <1>1, <1>2 DEF JobStep

\* A thread makes its own row running, and works on it until it finishes it; only a call
\* that fails makes it give up before.
LEMMA RowThreads ==
  ASSUME TypeOK, RetryInv, RowInv, NEW t \in Tasks, ThreadStep(t) \/ StoreFails(t),
         UNCHANGED runnerVars
  PROVE  RestoreClears' /\ WorkingIsRunning' /\ RunningIsOwned'
<1> USE RowTypes DEF RowInv
<1>1. thread[t] # "none"
  BY DEF ThreadStep, Get, MarkRunning, CheckUpload, PrepareWav, Infer, MarkError, Final,
     CleanupTmp, StoreGone, StoreFails, AtStore, StorePC
<1>2. UNCHANGED <<proc, loop>> /\ proc \notin {"down", "restoring"} /\ loop.at \notin RestorePC
  BY <1>1 DEF runnerVars, RetryInv, SegmentsInPhase
<1>3. RestoreClears'
  BY <1>2 DEF RestoreClears, RestorePC, QueuedListPC
<1>4. CASE Get(t) \/ CheckUpload(t) \/ PrepareWav(t) \/ Final(t) \/ CleanupTmp(t)
  <2>1. rows' = rows /\ abandoned' = abandoned
    BY <1>4 DEF Get, CheckUpload, PrepareWav, Final, CleanupTmp, storeVars, historyVars
  <2>2. \A u \in Tasks : Working(u)' <=> Working(u)
    BY <1>4 DEF Get, CheckUpload, PrepareWav, Final, CleanupTmp, AtStore, Goto, Working
  <2> QED
    BY <1>2, <1>3, <2>1, <2>2 DEF WorkingIsRunning, RunningIsOwned
<1>5. CASE MarkRunning(t)
  <2>1. CASE CanMarkRunning(t)
    <3>1. Touched(t, "running", rows[t].attempts)
      BY <1>5, <2>1, Effects DEF MarkRunning, TypeOK
    <3>2. thread' = [thread EXCEPT ![t] = "check"] /\ abandoned' = abandoned
      BY <1>5, <2>1 DEF MarkRunning, Goto
    <3> QED
      BY <1>2, <1>3, <3>1, <3>2 DEF Touched, WorkingIsRunning, RunningIsOwned, Working
  <2>2. CASE ~CanMarkRunning(t)
    <3>1. rows' = rows /\ thread' = [thread EXCEPT ![t] = "returned"] /\ thread[t] = "mark"
          /\ abandoned' = abandoned
      BY <1>5, <2>2 DEF MarkRunning, AtStore, Goto, storeVars
    <3>2. \A u \in Tasks : Working(u)' <=> Working(u)
      BY <3>1 DEF Working
    <3> QED
      BY <1>2, <1>3, <3>1, <3>2 DEF WorkingIsRunning, RunningIsOwned
  <2> QED
    BY <2>1, <2>2
<1>6. CASE Infer(t) \/ MarkError(t)
  <2>1. Working(t) /\ rows[t].status = "running" /\ abandoned' = abandoned
    BY <1>6 DEF Infer, MarkError, AtStore, WorkingIsRunning, Working, historyVars
  <2>2. \/ thread' = [thread EXCEPT ![t] = "broken"] /\ rows' = rows
        \/ /\ thread' = [thread EXCEPT ![t] = "final"]
           /\ \E st \in Finished : Touched(t, st, rows[t].attempts)
    BY <1>6, <2>1, Effects DEF Infer, MarkError, Goto, HasRow, Finished, storeVars, TypeOK
  <2> QED
    BY <1>2, <1>3, <2>1, <2>2
       DEF Touched, Finished, WorkingIsRunning, RunningIsOwned, Working
<1>7. CASE StoreGone(t)
  <2>1. rows' = rows /\ thread' = [thread EXCEPT ![t] = "returned"]
    BY <1>7 DEF StoreGone, Goto, storeVars
  <2>2. WorkingIsRunning'
    BY <2>1 DEF WorkingIsRunning, Working
  <2>3. ~storeOpen
    BY <1>7 DEF StoreGone
  <2>4. proc \notin {"up", "stopping"}
    BY <2>3 DEF StorePhases
  <2> QED
    BY <1>2, <1>3, <2>2, <2>4 DEF RunningIsOwned
<1>8. CASE StoreFails(t)
  <2>1. /\ rows' = rows /\ abandoned' = abandoned \cup {t}
        /\ \A u \in Tasks \ {t} : thread'[u] = thread[u]
        /\ thread'[t] \in {"returned", "final"}
    BY <1>8 DEF StoreFails, AfterFailure, Goto, storeVars
  <2> QED
    BY <1>2, <1>3, <2>1 DEF WorkingIsRunning, RunningIsOwned, Working
<1> QED
  BY <1>4, <1>5, <1>6, <1>7, <1>8 DEF ThreadStep

\* A row that is removed is not running.
LEMMA RowRemovals ==
  ASSUME TypeOK, RetryInv, RowInv,
         \/ \E t \in Tasks : Delete(t) \/ DeleteTmp(t) \/ Expire(t) \/ LoseUpload(t)
         \/ Purge \/ PurgeQueued \/ PurgeFinished \/ PurgeTmp \/ PurgeFails
         \/ Dispatch \/ TtlFails \/ ChangeToken
  PROVE  RestoreClears' /\ WorkingIsRunning' /\ RunningIsOwned'
<1> USE RowTypes DEF RowInv
<1>1. CASE Dispatch \/ TtlFails \/ ChangeToken \/ \E t \in Tasks : LoseUpload(t)
  <2>1. UNCHANGED <<rows, thread, proc, loop>> /\ abandoned \subseteq abandoned'
    BY <1>1 DEF Dispatch, TtlFails, ChangeToken, SealsBroken, LoseUpload, storeVars,
       threadVars, runnerVars
  <2> QED
    BY <2>1, RowFrame
<1>2. CASE \/ Purge \/ PurgeQueued \/ PurgeFinished \/ PurgeTmp \/ PurgeFails
           \/ \E t \in Tasks : Delete(t) \/ DeleteTmp(t) \/ Expire(t)
  <2>1. UNCHANGED <<thread, proc>> /\ abandoned \subseteq abandoned' /\ proc = "up"
    BY <1>2 DEF Purge, PurgeQueued, PurgeFinished, PurgeTmp, PurgeFails, Delete, DeleteTmp,
       Expire, Scheduled, InSegment, StorePhases, PurgePC, threadVars, runnerVars
  <2>2. loop'.at \notin RestorePC
    <3>0. loop'.at \in {"idle", "deleteTmp"} \cup PurgePC => loop'.at \notin RestorePC
      BY DEF PurgePC, RestorePC
    <3>1. CASE Purge \/ PurgeQueued \/ PurgeFinished \/ PurgeTmp \/ PurgeFails
      BY <3>0, <3>1 DEF Purge, PurgeQueued, PurgeFinished, PurgeTmp, PurgeFails, Idle, At,
         PurgePC
    <3>2. CASE \E t \in Tasks : Delete(t) \/ DeleteTmp(t) \/ Expire(t)
      BY <3>0, <3>2 DEF Delete, DeleteTmp, Expire, Scheduled, Idle, At, runnerVars
    <3> QED
      BY <1>2, <3>1, <3>2
  <2>3. \/ rows' = rows
        \/ \E S \in SUBSET Tasks : DeleteRows(S) /\ \A t \in S : rows[t].status # "running"
    <3>1. CASE PurgeQueued \/ PurgeFinished
      BY <3>1 DEF PurgeQueued, PurgeFinished, delete_by_statuses, list_tasks, Finished
    <3>2. ASSUME NEW t \in Tasks, Delete(t) \/ Expire(t)
          PROVE  DeleteRows({t}) /\ rows[t].status # "running"
      BY <3>2 DEF Delete, Deletable, Expire, Expirable, Finished
    <3>3. CASE Purge \/ PurgeTmp \/ PurgeFails \/ \E t \in Tasks : DeleteTmp(t)
      BY <3>3 DEF Purge, PurgeTmp, PurgeFails, DeleteTmp, storeVars
    <3>4. CASE \E t \in Tasks : Delete(t) \/ Expire(t)
      <4>1. PICK t \in Tasks : Delete(t) \/ Expire(t)
        BY <3>4
      <4>2. {t} \in SUBSET Tasks
        OBVIOUS
      <4> QED
        BY <3>2, <4>1, <4>2
    <3> QED
      BY <1>2, <3>1, <3>3, <3>4
  <2>4. \A t \in Tasks : /\ rows[t].status = "running" => rows'[t] = rows[t]
                         /\ rows'[t].status = "running" => rows[t].status = "running"
    BY <2>3 DEF DeleteRows, NoRow
  <2>5. \A t \in Tasks : Working(t)' <=> Working(t)
    BY <2>1 DEF Working
  <2> QED
    BY <2>1, <2>2, <2>4, <2>5, RowsLeave
<1> QED
  BY <1>1, <1>2

\* The restore treats the running rows one by one.
LEMMA RowRestore ==
  ASSUME TypeOK, RetryInv, RowInv, NEW t \in Tasks,
         \/ RestoreInterrupted(t) \/ RestoreBump(t) \/ RestoreSettle(t)
         \/ RestoreCleanTmp(t) \/ RestoreMissing(t) \/ RestoreEnqueue(t)
  PROVE  RestoreClears' /\ WorkingIsRunning' /\ RunningIsOwned'
<1> USE RowTypes DEF RowInv
<1>1. /\ UNCHANGED <<thread, proc>> /\ loop.at \in RestorePC /\ proc = "restoring"
  BY DEF RestoreInterrupted, RestoreBump, RestoreSettle, RestoreCleanTmp, RestoreMissing,
     RestoreEnqueue, Restoring, InSegment, ContinueAt, RestorePC, RetryInv, SegmentsInPhase,
     threadVars
<1>2. WorkingIsRunning' /\ RunningIsOwned'
  BY <1>1 DEF RetryInv, SegmentsInPhase, WorkingIsRunning, RunningIsOwned, Working
<1> USE DEF RestoreClears, QueuedListPC
<1>3. CASE RestoreInterrupted(t)
  <2>1. /\ loop.at = "restoreRunning" /\ t \in loop.todo
        /\ loop' = At("restoreRunningTmp", loop.todo \ {t}, t)
    BY <1>3 DEF RestoreInterrupted, Restoring, InSegment, ContinueAt
  <2>2. Touched(t, "error", rows[t].attempts)
    BY <1>3, <2>1, Effects DEF RestoreInterrupted, RetryInv, RestoreListed, RestorePC, TypeOK
  <2>3. RestoreClears'
    BY <1>1, <2>1, <2>2 DEF Touched, At
  <2> QED
    BY <1>2, <2>3
<1>4. CASE RestoreBump(t)
  <2>1. /\ loop.at = "restoreRunning" /\ t \in loop.todo
        /\ loop' = At("restoreBumped", loop.todo \ {t}, t)
    BY <1>4 DEF RestoreBump, Restoring, InSegment, ContinueAt
  <2>2. rows[t].status = "running" /\ HasRow(t)
    BY <2>1 DEF RetryInv, RestoreListed, RestorePC
  <2>3. Touched(t, "running", rows[t].attempts + 1)
    BY <1>4, <2>2, Effects DEF RestoreBump, TypeOK
  <2>4. RestoreClears'
    BY <1>1, <2>1, <2>2, <2>3 DEF Touched, At
  <2> QED
    BY <1>2, <2>4
<1>5. CASE RestoreSettle(t)
  <2>1. /\ loop.at = "restoreBumped" /\ t = loop.cur
        /\ \/ loop' = At("restoreRunning", loop.todo, NoTask)
           \/ loop' = At("restoreRunningTmp", loop.todo, t)
    BY <1>5 DEF RestoreSettle, InSegment, ContinueAt
  <2>2. HasRow(t)
    BY <2>1 DEF HasRow
  <2>3. \E st \in {"queued", "error"} : Touched(t, st, rows[t].attempts)
    BY <1>5, <2>2, Effects DEF RestoreSettle, TypeOK
  <2>4. RestoreClears'
    BY <1>1, <2>1, <2>3 DEF Touched, At
  <2> QED
    BY <1>2, <2>4
<1>6. CASE RestoreCleanTmp(t)
  <2>1. /\ rows' = rows
        /\ \/ loop.at = "restoreRunningTmp" /\ loop' = At("restoreRunning", loop.todo, NoTask)
           \/ loop.at = "restoreQueuedTmp" /\ loop' = At("restoreQueued", loop.todo, NoTask)
    BY <1>6 DEF RestoreCleanTmp, InSegment, ContinueAt, storeVars
  <2>2. RestoreClears'
    BY <1>1, <2>1 DEF At
  <2> QED
    BY <1>2, <2>2
<1>7. CASE RestoreMissing(t)
  <2>1. /\ loop.at = "restoreQueued" /\ t \in loop.todo
        /\ \/ loop' = At("restoreQueued", loop.todo \ {t}, NoTask)
           \/ loop' = At("restoreQueuedTmp", loop.todo \ {t}, t)
    BY <1>7 DEF RestoreMissing, Restoring, InSegment, ContinueAt
  <2>2. rows[t].status = "queued" /\ HasRow(t)
    BY <2>1 DEF HasRow
  <2>3. rows' = rows \/ Touched(t, "error", rows[t].attempts)
    BY <1>7, <2>2, Effects DEF RestoreMissing, storeVars, TypeOK
  <2>4. RestoreClears'
    BY <1>1, <2>1, <2>2, <2>3 DEF Touched, At
  <2> QED
    BY <1>2, <2>4
<1>8. CASE RestoreEnqueue(t)
  <2>1. /\ rows' = rows /\ loop.at = "restoreEnqueue"
        /\ loop' = At("restoreEnqueue", loop.todo \ {t}, NoTask)
        /\ rows[t].status = "queued"
    BY <1>8 DEF RestoreEnqueue, InSegment, OldestOf, storeVars
  <2>2. RestoreClears'
    BY <1>1, <2>1 DEF At
  <2> QED
    BY <1>2, <2>2
<1> QED
  BY <1>3, <1>4, <1>5, <1>6, <1>7, <1>8

\* A process finds the rows as the last one left them, serves when none of them is running
\* any more, and leaves its threads behind when it stops.
LEMMA RowProcess ==
  ASSUME TypeOK, RetryInv, RowInv,
         \/ Start \/ RestoreNextList \/ Serve \/ Stop \/ StopClean \/ StopClose \/ Exit \/ Crash
  PROVE  RestoreClears' /\ WorkingIsRunning' /\ RunningIsOwned'
<1> USE RowTypes DEF RowInv
<1>1. CASE Start
  <2>1. /\ UNCHANGED <<rows, thread>> /\ proc = "down" /\ proc' = "restoring"
        /\ loop' = At("restoreRunning", list_tasks({"running"}), NoTask)
    BY <1>1 DEF Start, OpenStore, InterruptedRows, threadVars
  <2>2. RestoreClears'
    BY <2>1 DEF RestoreClears, QueuedListPC, list_tasks, At
  <2> QED
    BY <2>1, <2>2 DEF RetryInv, SegmentsInPhase, WorkingIsRunning, RunningIsOwned, Working
<1>2. CASE RestoreNextList
  <2>1. /\ UNCHANGED <<rows, thread, proc>> /\ loop.todo = {} /\ proc = "restoring"
        /\ loop.at \in {"restoreRunning", "restoreQueued"}
        /\ \E pc \in QueuedListPC : loop' = At(pc, list_tasks({"queued"}), NoTask)
    BY <1>2 DEF RestoreNextList, InSegment, ContinueAt, RowsToEnqueue, RetryInv,
       SegmentsInPhase, RestorePC, QueuedListPC, storeVars, threadVars
  <2>2. RestoreClears'
    BY <2>1 DEF RestoreClears, QueuedListPC, list_tasks, At
  <2> QED
    BY <2>1, <2>2 DEF WorkingIsRunning, RunningIsOwned, Working
<1>3. CASE Serve
  <2>1. /\ UNCHANGED <<rows, thread>> /\ loop.todo = {} /\ proc = "restoring"
        /\ loop.at = "restoreEnqueue" /\ loop' = Idle /\ proc' = "up"
    BY <1>3 DEF Serve, InSegment, RetryInv, SegmentsInPhase, RestorePC, storeVars, threadVars
  <2>2. \A t \in Tasks : rows[t].status # "running" /\ thread[t] = "none"
    BY <2>1 DEF RestoreClears, RetryInv, SegmentsInPhase
  <2> QED
    BY <2>1, <2>2 DEF RestoreClears, QueuedListPC, Idle, At, WorkingIsRunning,
       RunningIsOwned, Working
<1>4. CASE Stop
  <2>1. /\ UNCHANGED <<rows, abandoned>> /\ proc = "up" /\ proc' \in {"stopping", "stopped"}
        /\ loop'.at \in {"stopClean", "idle"}
        /\ \A t \in Tasks : \/ thread'[t] = thread[t]
                            \/ thread[t] = "get" /\ thread'[t] = "none"
    BY <1>4 DEF Stop, Scheduled, NotPickedUp, Idle, At, storeVars, historyVars
  <2>2. \A t \in Tasks : Working(t)' <=> Working(t)
    BY <2>1 DEF Working
  <2> QED
    BY <2>1, <2>2, RowsLeave DEF RestorePC
<1>5. CASE StopClean \/ StopClose
  <2>1. /\ UNCHANGED <<rows, thread, abandoned>> /\ proc = "stopping"
        /\ proc' \in {"stopping", "stopped"} /\ loop'.at \in {"stopClose", "idle"}
    BY <1>5 DEF StopClean, StopClose, InSegment, close, RetryInv, SegmentsInPhase, Idle, At,
       storeVars, threadVars
  <2>2. \A t \in Tasks : Working(t)' <=> Working(t)
    BY <2>1 DEF Working
  <2> QED
    BY <2>1, <2>2, RowsLeave DEF RestorePC
<1>6. CASE Exit \/ Crash
  <2>1. proc' = "down" /\ loop'.at = "idle" /\ \A t \in Tasks : thread'[t] = "none"
    BY <1>6 DEF Exit, Crash, LoseMemory, Idle, At
  <2> QED
    BY <2>1 DEF RestoreClears, QueuedListPC, WorkingIsRunning, RunningIsOwned, Working
<1> QED
  BY <1>1, <1>2, <1>3, <1>4, <1>5, <1>6

\* Every step keeps the rows and the threads together.
LEMMA RowStep ==
  ASSUME TypeOK, RetryInv, SlotInv, RowInv, [Next]_vars
  PROVE  RowInv'
<1>1. StorePhases'
  BY PhasesStep DEF RowInv, RetryInv
<1>2. CASE UNCHANGED vars
  <2>1. UNCHANGED <<rows, thread, proc, loop>> /\ abandoned \subseteq abandoned'
    BY <1>2 DEF vars, storeVars, threadVars, runnerVars
  <2> QED
    BY <1>1, <2>1, RowFrame DEF RowInv
<1>3. CASE Next
  <2>1. RestoreClears' /\ WorkingIsRunning' /\ RunningIsOwned'
    BY <1>3, RowRequests, RowJobs, RowThreads, RowRemovals, RowRestore, RowProcess
       DEF Next, WorkerStep, SegmentStep, ProcessStep, StoreFault
  <2> QED
    BY <1>1, <2>1 DEF RowInv
<1> QED
  BY <1>2, <1>3

\* There are no rows and no threads at first.
LEMMA RowInit ==
  ASSUME Init
  PROVE  RowInv
  BY DEF Init, TaskStoreInit, PipelineThreadInit, NoRow, Idle, At, RowInv, StorePhases,
     RestoreClears, QueuedListPC, PurgePC, RestorePC, WorkingIsRunning, RunningIsOwned, Working

\* The invariants so far hold in every state.
LEMMA RowsInvariant == Spec => [](TypeOK /\ RetryInv /\ SlotInv /\ RowInv)
<1>1. Init => RetryInv /\ SlotInv /\ RowInv
  BY RetryInit, SlotInit, RowInit
<1>2. TypeOK /\ RetryInv /\ SlotInv /\ RowInv /\ [Next]_vars => (RetryInv /\ SlotInv /\ RowInv)'
  BY RetryStep, SlotStep, RowStep
<1> QED
  BY <1>1, <1>2, TypeCorrect, PTL DEF Spec

\* A row is running exactly while a thread works on it, for any number of tasks, slots,
\* deaths and failing calls: mark_running starts the work and one of the unguarded UPDATEs
\* of mark_success and mark_error ends it, nothing removes or resets the row in between,
\* and a new process has treated every row that the last one left running before it serves.
THEOREM RunningOwned == Spec => []RunningIsOwned
<1>1. RowInv => RunningIsOwned
  BY DEF RowInv
<1> QED
  BY <1>1, RowsInvariant, PTL

----------------------------------------------------------------------------
(* The refinement: every step is a step of TaskLifecycle or a stutter.     *)

\* Nothing that a client can see has changed.
SameForClients ==
  /\ \A t \in Tasks : rows'[t].status = rows[t].status /\ (Accepted(t)' <=> Accepted(t))
  /\ starts' = starts

\* Steps that clients cannot tell from no step at all.
LEMMA ClientsSeeNothing ==
  ASSUME SameForClients
  PROVE  UNCHANGED Lifecycle!lifecycleVars
<1>1. \A t \in Tasks : ClientStatus(t)' = ClientStatus(t)
  BY DEF SameForClients, ClientStatus, HasRow
<1> QED
  BY <1>1 DEF Lifecycle!lifecycleVars, SameForClients

\* One row is written, and the task is an accepted one afterwards.
LEMMA ClientsSeeMove ==
  ASSUME NEW t \in Tasks, NEW st \in TaskStatus, NEW n, Touched(t, st, n),
         \A u \in Tasks \ {t} : Accepted(u)' <=> Accepted(u)
  PROVE  Lifecycle!Move(t, ClientStatus(t), st)
<1>1. \A u \in Tasks \ {t} : ClientStatus(u)' = ClientStatus(u)
  BY DEF Touched, ClientStatus, HasRow
<1>2. ClientStatus(t)' = st
  BY DEF Touched, ClientStatus, HasRow, TaskStatus, Finished
<1> QED
  BY <1>1, <1>2 DEF Lifecycle!Move

\* A set of rows is removed.
LEMMA ClientsSeeRemoval ==
  ASSUME NEW S \in SUBSET Tasks, DeleteRows(S), req' = req, starts' = starts,
         \A t \in S : rows[t].status \in {"queued"} \cup Finished /\ Accepted(t)
  PROVE  Lifecycle!Remove(S)
<1>1. \A t \in Tasks : rows'[t] = IF t \in S THEN NoRow ELSE rows[t]
  BY DEF DeleteRows
<1>2. \A t \in S : ClientStatus(t)' = "deleted"
  BY <1>1 DEF ClientStatus, HasRow, NoRow, Accepted
<1>3. \A t \in Tasks \ S : ClientStatus(t)' = ClientStatus(t)
  BY <1>1 DEF ClientStatus, HasRow, Accepted
<1>4. \A t \in S : ClientStatus(t) \in {"queued"} \cup Finished
  BY DEF ClientStatus, HasRow, Finished
<1> QED
  BY <1>2, <1>3, <1>4 DEF Lifecycle!Remove, Lifecycle!Ended, Finished

\* What the lemmas below conclude.
ClientStep == Lifecycle!LifecycleNext \/ UNCHANGED Lifecycle!lifecycleVars

\* Steps that leave the rows and the runs alone, and no request is accepted.
LEMMA ClientStutter ==
  ASSUME rows' = rows, starts' = starts, \A t \in Tasks : Accepted(t)' <=> Accepted(t)
  PROVE  ClientStep
  BY ClientsSeeNothing DEF SameForClients, ClientStep

\* The end of submit is the acceptance.
LEMMA ClientRequests ==
  ASSUME TypeOK, RetryInv, NEW t \in Tasks, Post(t) \/ AnswerStep(t) \/ SubmitFails(t)
  PROVE  ClientStep
<1> USE RetryTypes
<1>1. \A u \in Tasks \ {t} : Accepted(u)' <=> Accepted(u)
  BY DEF Post, AnswerStep, WriteUpload, SubmitReject, SubmitBegin, Place, SubmitEnd,
     SubmitFails, Become, Accepted
<1>2. starts' = starts /\ ~Accepted(t)
  BY DEF Post, AnswerStep, WriteUpload, SubmitReject, SubmitBegin, Place, SubmitEnd,
     SubmitFails, Accepted, threadVars
<1>3. \/ rows' = rows /\ ~Accepted(t)'
      \/ create(t) /\ Accepted(t)'
  BY DEF Post, AnswerStep, WriteUpload, SubmitReject, SubmitBegin, Place, SubmitEnd,
     SubmitFails, Become, Accepted, storeVars
<1>4. CASE rows' = rows /\ ~Accepted(t)'
  BY <1>1, <1>2, <1>4, ClientStutter
<1>5. CASE create(t)
  <2>1. Touched(t, "queued", 0)
    BY <1>5, Effects DEF TypeOK
  <2>2. ClientStatus(t) = "absent"
    BY <1>2 DEF ClientStatus, RetryInv, RunsCounted
  <2>3. Lifecycle!Move(t, "absent", "queued")
    BY <1>1, <2>1, <2>2, ClientsSeeMove DEF TaskStatus
  <2> QED
    BY <1>2, <2>3 DEF ClientStep, Lifecycle!LifecycleNext, Lifecycle!Accept
<1> QED
  BY <1>3, <1>4, <1>5

\* A thread starts its task, and ends it; clients see no other step of it.
LEMMA ClientThreads ==
  ASSUME TypeOK, RetryInv, RowInv, NEW t \in Tasks, ThreadStep(t) \/ StoreFails(t),
         UNCHANGED runnerVars
  PROVE  ClientStep
<1> USE RetryTypes
<1>1. \A u \in Tasks : Accepted(u)' <=> Accepted(u)
  BY DEF runnerVars, Accepted
<1>2. CASE Get(t) \/ CheckUpload(t) \/ PrepareWav(t) \/ Final(t) \/ CleanupTmp(t)
           \/ StoreGone(t) \/ StoreFails(t)
  <2>1. rows' = rows /\ starts' = starts
    BY <1>2 DEF Get, CheckUpload, PrepareWav, Final, CleanupTmp, StoreGone, StoreFails,
       storeVars, historyVars
  <2> QED
    BY <1>1, <2>1, ClientStutter
<1>3. CASE MarkRunning(t)
  <2>1. CASE CanMarkRunning(t)
    <3>1. rows[t].status = "queued" /\ starts' = [starts EXCEPT ![t] = @ + 1]
      BY <1>3, <2>1 DEF MarkRunning, CanMarkRunning
    <3>2. ClientStatus(t) = "queued" /\ starts[t] <= TASK_MAX_RESTARTS
      BY <3>1 DEF ClientStatus, HasRow, RetryInv, RunsCounted
    <3>3. Touched(t, "running", rows[t].attempts)
      BY <1>3, <2>1, Effects DEF MarkRunning, TypeOK
    <3>4. Lifecycle!Move(t, "queued", "running")
      BY <1>1, <3>2, <3>3, ClientsSeeMove DEF TaskStatus
    <3> QED
      BY <3>1, <3>2, <3>4 DEF ClientStep, Lifecycle!LifecycleNext, Lifecycle!Run
  <2>2. CASE ~CanMarkRunning(t)
    BY <1>1, <1>3, <2>2, ClientStutter DEF MarkRunning, storeVars
  <2> QED
    BY <2>1, <2>2
<1>4. CASE Infer(t) \/ MarkError(t)
  <2>1. rows[t].status = "running"
    BY <1>4 DEF Infer, MarkError, AtStore, RowInv, WorkingIsRunning, Working
  <2>2. ClientStatus(t) = "running" /\ HasRow(t)
    BY <2>1 DEF ClientStatus, HasRow
  <2>3. starts' = starts
    BY <1>4 DEF Infer, MarkError, historyVars
  <2>4. \/ rows' = rows
        \/ Touched(t, "success", rows[t].attempts)
        \/ Touched(t, "error", rows[t].attempts)
    BY <1>4, <2>2, Effects DEF Infer, MarkError, storeVars, TypeOK
  <2>5. \/ rows' = rows
        \/ Lifecycle!Move(t, "running", "success")
        \/ Lifecycle!Move(t, "running", "error")
    BY <1>1, <2>2, <2>4, ClientsSeeMove DEF TaskStatus, Finished
  <2> QED
    BY <1>1, <2>3, <2>5, ClientStutter
       DEF ClientStep, Lifecycle!LifecycleNext, Lifecycle!Succeed, Lifecycle!Fail
<1> QED
  BY <1>2, <1>3, <1>4 DEF ThreadStep

\* DELETE /tasks/{id}, DELETE /tasks and the TTL remove queued and finished rows.
LEMMA ClientRemovals ==
  ASSUME TypeOK, RetryInv,
         PurgeQueued \/ PurgeFinished \/ \E t \in Tasks : Delete(t) \/ Expire(t)
  PROVE  ClientStep
<1>1. req' = req /\ starts' = starts
  BY DEF PurgeQueued, PurgeFinished, Delete, Expire, threadVars, runnerVars
<1>2. \A t \in Tasks : rows[t].status \in {"queued"} \cup Finished => Accepted(t)
  BY DEF RetryInv, RunsCounted, HasRow, Finished
<1>3. CASE PurgeQueued
  <2>1. DeleteRows(list_tasks({"queued"}))
    BY <1>3 DEF PurgeQueued, delete_by_statuses
  <2>2. Lifecycle!Remove(list_tasks({"queued"}))
    BY <1>1, <1>2, <2>1, ClientsSeeRemoval DEF list_tasks
  <2> QED
    BY <2>2 DEF ClientStep, Lifecycle!LifecycleNext, list_tasks
<1>4. CASE PurgeFinished
  <2>1. DeleteRows(list_tasks(Finished))
    BY <1>4 DEF PurgeFinished, delete_by_statuses
  <2>2. Lifecycle!Remove(list_tasks(Finished))
    BY <1>1, <1>2, <2>1, ClientsSeeRemoval DEF list_tasks
  <2> QED
    BY <2>2 DEF ClientStep, Lifecycle!LifecycleNext, list_tasks
<1>5. ASSUME NEW t \in Tasks, Delete(t) \/ Expire(t)
      PROVE  ClientStep
  <2>1. DeleteRows({t})
    BY <1>5 DEF Delete, Expire
  <2>2. rows[t].status \in {"queued"} \cup Finished
    BY <1>5, RowTypes
       DEF Delete, Deletable, HasRow, Expire, Expirable, TaskRow, TaskStatus
  <2>3. Lifecycle!Remove({t})
    BY <1>1, <1>2, <2>1, <2>2, ClientsSeeRemoval
  <2> QED
    BY <2>3 DEF ClientStep, Lifecycle!LifecycleNext
<1> QED
  BY <1>3, <1>4, <1>5

\* The restore queues a row again while a run is left, and fails the others.
LEMMA ClientRestore ==
  ASSUME TypeOK, RetryInv, RowInv, NEW t \in Tasks,
         \/ RestoreInterrupted(t) \/ RestoreBump(t) \/ RestoreSettle(t)
         \/ RestoreCleanTmp(t) \/ RestoreMissing(t) \/ RestoreEnqueue(t)
  PROVE  ClientStep
<1> USE RetryTypes
<1>1. starts' = starts /\ \A u \in Tasks : Accepted(u)' <=> Accepted(u)
  BY DEF RestoreInterrupted, RestoreBump, RestoreSettle, RestoreCleanTmp, RestoreMissing,
     RestoreEnqueue, ContinueAt, Accepted, threadVars
<1>2. CASE RestoreInterrupted(t)
  <2>1. rows[t].status = "running"
    BY <1>2 DEF RestoreInterrupted, Restoring, InSegment, RetryInv, RestoreListed
  <2>2. Touched(t, "error", rows[t].attempts) /\ ClientStatus(t) = "running"
    BY <1>2, <2>1, Effects DEF RestoreInterrupted, ClientStatus, HasRow, TypeOK
  <2>3. Lifecycle!Move(t, "running", "error")
    BY <1>1, <2>2, ClientsSeeMove DEF TaskStatus, Finished
  <2> QED
    BY <1>1, <2>3 DEF ClientStep, Lifecycle!LifecycleNext, Lifecycle!Fail
<1>3. CASE RestoreBump(t)
  <2>1. rows[t].status = "running"
    BY <1>3 DEF RestoreBump, Restoring, InSegment, RetryInv, RestoreListed
  <2>2. Touched(t, rows[t].status, rows[t].attempts + 1)
    BY <1>3, <2>1, Effects DEF RestoreBump, HasRow, TypeOK
  <2>3. SameForClients
    BY <1>1, <2>2 DEF SameForClients, Touched
  <2> QED
    BY <2>3, ClientsSeeNothing DEF ClientStep
<1>4. CASE RestoreSettle(t)
  <2>1. rows[t].status = "running"
    BY <1>4 DEF RestoreSettle, InSegment, RowInv, RestoreClears
  <2>2. ClientStatus(t) = "running" /\ HasRow(t)
    BY <2>1 DEF ClientStatus, HasRow
  <2>3. CASE MayRunAgain(t)
    <3>1. starts[t] <= TASK_MAX_RESTARTS
      BY <1>4, <2>3 DEF RestoreSettle, InSegment, MayRunAgain, RetryInv, RunsCounted
    <3>2. Touched(t, "queued", rows[t].attempts)
      BY <1>4, <2>2, <2>3, Effects DEF RestoreSettle, TypeOK
    <3>3. Lifecycle!Move(t, "running", "queued")
      BY <1>1, <2>2, <3>2, ClientsSeeMove DEF TaskStatus
    <3> QED
      BY <1>1, <3>1, <3>3 DEF ClientStep, Lifecycle!LifecycleNext, Lifecycle!RunAgainLater
  <2>4. CASE ~MayRunAgain(t)
    <3>1. Touched(t, "error", rows[t].attempts)
      BY <1>4, <2>2, <2>4, Effects DEF RestoreSettle, TypeOK
    <3>2. Lifecycle!Move(t, "running", "error")
      BY <1>1, <2>2, <3>1, ClientsSeeMove DEF TaskStatus, Finished
    <3> QED
      BY <1>1, <3>2 DEF ClientStep, Lifecycle!LifecycleNext, Lifecycle!Fail
  <2> QED
    BY <2>3, <2>4
<1>5. CASE RestoreCleanTmp(t) \/ RestoreEnqueue(t)
  BY <1>1, <1>5, ClientStutter DEF RestoreCleanTmp, RestoreEnqueue, storeVars
<1>6. CASE RestoreMissing(t)
  <2>1. rows[t].status = "queued"
    BY <1>6 DEF RestoreMissing, Restoring, InSegment, RowInv, RestoreClears, QueuedListPC
  <2>2. ClientStatus(t) = "queued" /\ HasRow(t)
    BY <2>1 DEF ClientStatus, HasRow
  <2>3. rows' = rows \/ Touched(t, "error", rows[t].attempts)
    BY <1>6, <2>2, Effects DEF RestoreMissing, storeVars, TypeOK
  <2>4. rows' = rows \/ Lifecycle!Move(t, "queued", "error")
    BY <1>1, <2>2, <2>3, ClientsSeeMove DEF TaskStatus, Finished
  <2> QED
    BY <1>1, <2>4, ClientStutter DEF ClientStep, Lifecycle!LifecycleNext, Lifecycle!Fail
<1> QED
  BY <1>2, <1>3, <1>4, <1>5, <1>6

\* All the other steps are invisible.
LEMMA ClientHidden ==
  ASSUME \/ \E t \in Tasks : \/ JobStep(t) \/ ThreadReturns(t) \/ LoseUpload(t) \/ DeleteTmp(t)
                             \/ JobFails(t)
         \/ Dispatch \/ Purge \/ PurgeTmp \/ RestoreNextList \/ Serve \/ StopClean \/ StopClose
         \/ ProcessStep \/ PurgeFails \/ TtlFails \/ ChangeToken
  PROVE  ClientStep
<1>1. ASSUME NEW t \in Tasks,
             JobStep(t) \/ ThreadReturns(t) \/ LoseUpload(t) \/ DeleteTmp(t) \/ JobFails(t)
      PROVE  rows' = rows /\ starts' = starts /\ req' = req
  BY <1>1 DEF JobStep, JobCancelled, JobWaits, JobDropped, JobRuns, JobFinishes,
     ThreadReturns, LoseUpload, DeleteTmp, JobFails, storeVars, threadVars, historyVars,
     runnerVars
<1>2. CASE Dispatch \/ Purge \/ PurgeTmp \/ RestoreNextList \/ Serve \/ StopClean \/ StopClose
  BY <1>2, ClientStutter DEF Dispatch, Purge, PurgeTmp, RestoreNextList, ContinueAt, Serve,
     StopClean, StopClose, close, storeVars, threadVars, Accepted
<1>3. CASE Start \/ Stop \/ PurgeFails \/ TtlFails \/ ChangeToken
  BY <1>3, ClientStutter DEF Start, OpenStore, Stop, PurgeFails, TtlFails, ChangeToken,
     SealsBroken, storeVars, threadVars, historyVars, runnerVars, Accepted
<1>4. CASE Exit \/ Crash
  <2>1. rows' = rows /\ starts' = starts
        /\ req' = [t \in Tasks |-> IF InFlight(t) THEN "failed" ELSE req[t]]
    BY <1>4 DEF Exit, Crash, LoseMemory, close
  <2>2. \A t \in Tasks : Accepted(t)' <=> Accepted(t)
    BY <2>1 DEF Accepted, InFlight
  <2> QED
    BY <2>1, <2>2, ClientStutter
<1> QED
  BY <1>1, <1>2, <1>3, <1>4, ClientStutter DEF ProcessStep, Accepted

\* Every step of the runner is one a client was promised, or none at all.
LEMMA LifecycleStep ==
  ASSUME TypeOK, RetryInv, RowInv, [Next]_vars
  PROVE  [Lifecycle!LifecycleNext]_(Lifecycle!lifecycleVars)
<1>1. CASE UNCHANGED vars
  BY <1>1, ClientStutter DEF ClientStep, vars, storeVars, threadVars, runnerVars, Accepted
<1>2. CASE Next
  BY <1>2, ClientRequests, ClientThreads, ClientRemovals, ClientRestore, ClientHidden
     DEF Next, WorkerStep, SegmentStep, StoreFault, ClientStep
<1> QED
  BY <1>1, <1>2

\* The runner implements the promise made to clients, for any number of tasks, slots and
\* deaths: a task is accepted once, runs at most 1 + TASK_MAX_RESTARTS times, never leaves
\* 'success' or 'error' except by being removed, is not removed while it runs, and does not
\* come back.  The step that needs the invariants is the unguarded UPDATE at the end of a
\* thread: that its row is still running is WorkingIsRunning.
THEOREM RunnerImplementsLifecycle == Spec => ImplementsLifecycle
<1>1. Init => Lifecycle!LifecycleInit
  BY DEF Init, TaskStoreInit, PipelineThreadInit, NoRow, Lifecycle!LifecycleInit,
     ClientStatus, HasRow, Accepted
<1>2. TypeOK /\ RetryInv /\ RowInv /\ [Next]_vars
        => [Lifecycle!LifecycleNext]_(Lifecycle!lifecycleVars)
  BY LifecycleStep
<1> QED
  BY <1>1, <1>2, RowsInvariant, PTL DEF Spec, ImplementsLifecycle, Lifecycle!LifecycleSpec
=============================================================================
