----------------------- MODULE TaskRunnerThreadProofs -----------------------
(***************************************************************************)
(* That every variable of the task runner keeps its type, and what follows *)
(* for the threads that tasks get: no task is started more than            *)
(* 1 + TASK_MAX_RESTARTS times, and no two threads work with one slot.     *)
(* For every set of tasks, every number of slots, every limit, and over    *)
(* deaths, restarts and stops that leave threads behind.                   *)
(***************************************************************************)
EXTENDS TaskRunnerInductive, TLAPS

----------------------------------------------------------------------------
(* The types.                                                              *)

\* The table stays well-typed when a row is replaced by a well-typed one.
LEMMA RowReplaced ==
  ASSUME TaskStoreTypeOK, NEW t \in Tasks, NEW row \in TaskRow
  PROVE  /\ SetRow(t, row) \in [Tasks -> TaskRow]
         /\ UpdateRow(t, row) \in [Tasks -> TaskRow]
  BY DEF TaskStoreTypeOK, SetRow, UpdateRow

\* Opening and closing the connection does not touch the table, nor does another token.
LEMMA StoreKeptTyped ==
  ASSUME TaskStoreTypeOK, UNCHANGED storeVars \/ OpenStore \/ close \/ SealsBroken
  PROVE  TaskStoreTypeOK'
  BY DEF TaskStoreTypeOK, storeVars, OpenStore, close, SealsBroken, list_tasks

\* What each UPDATE and INSERT of the store does keeps the table well-typed.
LEMMA UpdateTyped ==
  ASSUME TaskStoreTypeOK, NEW t \in Tasks,
         \/ create(t) \/ mark_running(t) \/ mark_success(t)
         \/ bump_attempts(t) \/ reset_to_queued(t)
  PROVE  TaskStoreTypeOK'
<1> USE DEF TaskStoreTypeOK
<1>1. CASE create(t)
  <2>1. [status |-> "queued", timestamp |-> clock, attempts |-> 0, error |-> "none"] \in TaskRow
    BY DEF TaskRow, TaskStatus
  <2> QED
    BY <1>1, <2>1, RowReplaced DEF create
<1>2. CASE mark_running(t)
  <2>1. [rows[t] EXCEPT !.status = "running"] \in TaskRow
    BY DEF TaskRow, TaskStatus
  <2> QED
    BY <1>2, <2>1, RowReplaced DEF mark_running
<1>3. CASE mark_success(t)
  <2>1. [rows[t] EXCEPT !.status = "success", !.error = "none"] \in TaskRow
    BY DEF TaskRow, TaskStatus, Finished
  <2> QED
    BY <1>3, <2>1, RowReplaced DEF mark_success
<1>4. CASE bump_attempts(t)
  <2>1. [rows[t] EXCEPT !.attempts = @ + 1] \in TaskRow
    BY DEF TaskRow
  <2> QED
    BY <1>4, <2>1, RowReplaced DEF bump_attempts
<1>5. CASE reset_to_queued(t)
  <2>1. [rows[t] EXCEPT !.status = "queued", !.error = "none"] \in TaskRow
    BY DEF TaskRow, TaskStatus
  <2> QED
    BY <1>5, <2>1, RowReplaced DEF reset_to_queued
<1> QED
  BY <1>1, <1>2, <1>3, <1>4, <1>5

\* So does mark_error with any of the codes.
LEMMA MarkErrorTyped ==
  ASSUME TaskStoreTypeOK, NEW t \in Tasks, NEW code \in ErrorCode, mark_error(t, code)
  PROVE  TaskStoreTypeOK'
<1>1. [rows[t] EXCEPT !.status = "error", !.error = code] \in TaskRow
  BY DEF TaskStoreTypeOK, TaskRow, TaskStatus, Finished
<1> QED
  BY <1>1, RowReplaced DEF TaskStoreTypeOK, mark_error

\* So does a DELETE of any set of rows.
LEMMA DeleteTyped ==
  ASSUME TaskStoreTypeOK, NEW S, DeleteRows(S)
  PROVE  TaskStoreTypeOK'
<1>1. NoRow \in TaskRow
  BY DEF NoRow, TaskRow
<1> QED
  BY <1>1 DEF TaskStoreTypeOK, DeleteRows

\* The thread's own step leaves the runner alone, also when its call fails.
LEMMA ThreadStepTyped ==
  ASSUME TypeOK, NEW t \in Tasks, ThreadStep(t) \/ StoreFails(t), UNCHANGED runnerVars
  PROVE  TypeOK'
<1> USE DEF TypeOK, UploadFilesTypeOK, PipelineThreadTypeOK
<1>1. RunnerTypeOK'
  BY DEF RunnerTypeOK, runnerVars, schedVars, otherVars
<1>2. TaskStoreTypeOK'
  BY StoreKeptTyped, UpdateTyped, MarkErrorTyped
     DEF ThreadStep, Get, MarkRunning, CheckUpload, PrepareWav, Infer, MarkError, Final,
         CleanupTmp, StoreGone, StoreFails, storeVars, ErrorCode
<1>3. UploadFilesTypeOK'
  BY DEF ThreadStep, Get, MarkRunning, CheckUpload, PrepareWav, Infer, MarkError, Final,
     CleanupTmp, StoreGone, StoreFails, fileVars, create_tmp, cleanup_tmp, WithTmpDir, TmpState
<1>4. PipelineThreadTypeOK'
  BY DEF ThreadStep, Get, MarkRunning, CheckUpload, PrepareWav, Infer, MarkError, Final,
     CleanupTmp, StoreGone, StoreFails, AfterFailure, Goto, historyVars, ThreadPC, StorePC, FilePC
<1> QED
  BY <1>1, <1>2, <1>3, <1>4

\* A segment is made of its place, its local set and its local task.
LEMMA LoopTyped ==
  /\ \A pc \in LoopPC, todo \in SUBSET Tasks, cur \in Tasks \cup {NoTask} :
       At(pc, todo, cur) \in LoopState
  /\ Idle \in LoopState
  /\ \A l \in LoopState : l.todo \in SUBSET Tasks /\ l.cur \in Tasks \cup {NoTask}
  BY DEF At, Idle, LoopState, LoopPC

\* Requests.
LEMMA RequestTyped ==
  ASSUME TypeOK, NEW t \in Tasks,
         \/ Post(t) \/ WriteUpload(t) \/ SubmitReject(t) \/ SubmitBegin(t) \/ Place(t)
         \/ SubmitEnd(t) \/ SubmitFails(t)
  PROVE  TypeOK'
<1> USE DEF TypeOK, UploadFilesTypeOK, PipelineThreadTypeOK, RunnerTypeOK, Become,
            fileVars, threadVars, historyVars, schedVars, otherVars, runnerVars
<1>1. CASE Post(t)
  <2>1. TaskStoreTypeOK'
    BY <1>1, StoreKeptTyped DEF Post, storeVars
  <2> QED
    BY <1>1, <2>1, LoopTyped DEF Post, ReqPC
<1>2. CASE WriteUpload(t)
  <2>1. TaskStoreTypeOK'
    BY <1>2, StoreKeptTyped DEF WriteUpload, storeVars
  <2> QED
    BY <1>2, <2>1, LoopTyped DEF WriteUpload, ReqPC
<1>3. CASE SubmitReject(t)
  <2>1. TaskStoreTypeOK'
    BY <1>3, StoreKeptTyped DEF SubmitReject, storeVars
  <2> QED
    BY <1>3, <2>1, LoopTyped DEF SubmitReject, ReqPC
<1>4. CASE SubmitBegin(t)
  <2>1. TaskStoreTypeOK'
    BY <1>4, StoreKeptTyped DEF SubmitBegin, storeVars
  <2> QED
    BY <1>4, <2>1, LoopTyped DEF SubmitBegin, create_tmp, WithTmpDir, ReqPC, TmpState
<1>5. CASE Place(t)
  <2>1. TaskStoreTypeOK'
    BY <1>5, StoreKeptTyped DEF Place, storeVars
  <2> QED
    BY <1>5, <2>1, LoopTyped DEF Place, place_upload, ReqPC, TmpState
<1>6. CASE SubmitEnd(t)
  <2>1. TaskStoreTypeOK'
    BY <1>6, UpdateTyped DEF SubmitEnd
  <2> QED
    BY <1>6, <2>1, LoopTyped DEF SubmitEnd, ReqPC
<1>7. CASE SubmitFails(t)
  <2>1. TaskStoreTypeOK'
    BY <1>7, StoreKeptTyped, UpdateTyped DEF SubmitFails, storeVars
  <2> QED
    BY <1>7, <2>1, LoopTyped DEF SubmitFails, ReqPC
<1> QED
  BY <1>1, <1>2, <1>3, <1>4, <1>5, <1>6, <1>7

\* Giving a slot back, with or without a coroutine to wake.
LEMMA PutSlotTyped ==
  ASSUME RunnerTypeOK, NEW s \in Slots, NEW rest \in Seq(Tasks), NEW jobs \in [Tasks -> JobPC],
         PutSlot(s, rest, jobs)
  PROVE  /\ freeSlots' \subseteq Slots
         /\ ready' \in Seq(Tasks) /\ waiters' \in Seq(Tasks)
         /\ job' \in [Tasks -> JobPC]
<1> USE DEF RunnerTypeOK, PutSlot, JobPC
<1>1. CASE waiters = <<>>
  BY <1>1
<1>2. CASE waiters # <<>>
  <2>1. Head(waiters) \in Tasks /\ Tail(waiters) \in Seq(Tasks)
    BY <1>2
  <2>2. /\ freeSlots' = freeSlots \cup {s}
        /\ ready' = Append(rest, Head(waiters))
        /\ job' = [jobs EXCEPT ![Head(waiters)] = "woken"]
        /\ waiters' = Tail(waiters)
    BY <1>2
  <2>3. Append(rest, Head(waiters)) \in Seq(Tasks)
    BY <2>1
  <2>4. [jobs EXCEPT ![Head(waiters)] = "woken"] \in [Tasks -> JobPC]
    BY <2>1
  <2> QED
    BY <2>1, <2>2, <2>3, <2>4
<1> QED
  BY <1>1, <1>2

\* Coroutines and the threads they start.
LEMMA JobTyped ==
  ASSUME TypeOK, JobHasSlot, NEW t \in Tasks,
         \/ JobCancelled(t) \/ JobWaits(t) \/ JobDropped(t) \/ JobFails(t) \/ JobRuns(t)
         \/ ThreadReturns(t) \/ JobFinishes(t)
  PROVE  TypeOK'
<1> USE DEF TypeOK, UploadFilesTypeOK, PipelineThreadTypeOK, RunnerTypeOK, Become,
            fileVars, threadVars, historyVars, schedVars, otherVars, runnerVars
<1>1. CASE JobCancelled(t)
  <2>1. TaskStoreTypeOK'
    BY <1>1, StoreKeptTyped DEF JobCancelled, storeVars
  <2> QED
    BY <1>1, <2>1, LoopTyped DEF JobCancelled, Due, JobPC
<1>2. CASE JobWaits(t)
  <2>1. TaskStoreTypeOK'
    BY <1>2, StoreKeptTyped DEF JobWaits, storeVars
  <2> QED
    BY <1>2, <2>1, LoopTyped DEF JobWaits, AsksForSlot, Due, JobPC
<1>3. CASE JobDropped(t) \/ JobFails(t)
  <2>1. TaskStoreTypeOK'
    BY <1>3, StoreKeptTyped DEF JobDropped, JobFails, storeVars
  <2>2. Tail(ready) \in Seq(Tasks) /\ Become(job, t, "none") \in [Tasks -> JobPC]
    BY <1>3 DEF JobDropped, JobFails, AsksForSlot, Due, JobPC
  <2>3. PICK s \in freeSlots : PutSlot(s, Tail(ready), Become(job, t, "none"))
    BY <1>3 DEF JobDropped, JobFails
  <2>4. /\ freeSlots' \subseteq Slots
        /\ ready' \in Seq(Tasks) /\ waiters' \in Seq(Tasks)
        /\ job' \in [Tasks -> JobPC]
    BY <2>2, <2>3, PutSlotTyped
  <2> QED
    BY <1>3, <2>1, <2>4 DEF JobDropped, JobFails
<1>4. CASE JobRuns(t)
  <2>1. TaskStoreTypeOK'
    BY <1>4, StoreKeptTyped DEF JobRuns, storeVars
  <2> QED
    BY <1>4, <2>1, LoopTyped
       DEF JobRuns, AsksForSlot, Due, TakeSlot, Goto, JobPC, ThreadPC, StorePC
<1>5. CASE ThreadReturns(t)
  <2>1. TaskStoreTypeOK'
    BY <1>5, StoreKeptTyped DEF ThreadReturns, storeVars
  <2>2. thread' \in [Tasks -> ThreadPC]
    BY <1>5 DEF ThreadReturns, Goto, ThreadPC
  <2>3. CASE job[t] = "inThread"
    <3>1. /\ ready' = Append(ready, t) /\ job' = [job EXCEPT ![t] = "finish"]
          /\ UNCHANGED slot
      BY <1>5, <2>3 DEF ThreadReturns
    <3>2. ready' \in Seq(Tasks) /\ job' \in [Tasks -> JobPC]
      BY <3>1 DEF JobPC
    <3> QED
      BY <1>5, <2>1, <2>2, <3>1, <3>2 DEF ThreadReturns
  <2>4. CASE job[t] # "inThread"
    BY <1>5, <2>1, <2>2, <2>4 DEF ThreadReturns
  <2> QED
    BY <2>3, <2>4
<1>6. CASE JobFinishes(t)
  <2>1. TaskStoreTypeOK'
    BY <1>6, StoreKeptTyped DEF JobFinishes, storeVars
  <2>2. Tail(ready) \in Seq(Tasks) /\ Become(job, t, "none") \in [Tasks -> JobPC]
    BY <1>6 DEF JobFinishes, Due, JobPC
  <2>3. slot[t] \in Slots
    BY <1>6 DEF JobFinishes, Due, JobHasSlot
  <2>4. /\ freeSlots' \subseteq Slots
        /\ ready' \in Seq(Tasks) /\ waiters' \in Seq(Tasks)
        /\ job' \in [Tasks -> JobPC]
    BY <1>6, <2>2, <2>3, PutSlotTyped DEF JobFinishes
  <2> QED
    BY <1>6, <2>1, <2>4 DEF JobFinishes
<1> QED
  BY <1>1, <1>2, <1>3, <1>4, <1>5, <1>6

\* Removal of single tasks.
LEMMA RemovalTyped ==
  ASSUME TypeOK, NEW t \in Tasks,
         Delete(t) \/ Expire(t) \/ LoseUpload(t) \/ DeleteTmp(t)
  PROVE  TypeOK'
<1> USE DEF TypeOK, UploadFilesTypeOK, PipelineThreadTypeOK, RunnerTypeOK, Become,
            fileVars, threadVars, historyVars, schedVars, otherVars, runnerVars
<1>1. CASE Delete(t)
  <2>1. TaskStoreTypeOK'
    BY <1>1, DeleteTyped DEF Delete
  <2> QED
    BY <1>1, <2>1, LoopTyped DEF Delete, LoopPC
<1>2. CASE Expire(t)
  <2>1. TaskStoreTypeOK'
    BY <1>2, DeleteTyped DEF Expire
  <2> QED
    BY <1>2, <2>1, LoopTyped DEF Expire
<1>3. CASE LoseUpload(t)
  <2>1. TaskStoreTypeOK'
    BY <1>3, StoreKeptTyped DEF LoseUpload, storeVars
  <2> QED
    BY <1>3, <2>1, LoopTyped DEF LoseUpload, cleanup_tmp, TmpState
<1>4. CASE DeleteTmp(t)
  <2>1. TaskStoreTypeOK'
    BY <1>4, StoreKeptTyped DEF DeleteTmp, storeVars
  <2> QED
    BY <1>4, <2>1, LoopTyped DEF DeleteTmp, cleanup_tmp, TmpState
<1> QED
  BY <1>1, <1>2, <1>3, <1>4

\* The restore, task by task.
LEMMA RestoreTyped ==
  ASSUME TypeOK, NEW t \in Tasks,
         \/ RestoreInterrupted(t) \/ RestoreBump(t) \/ RestoreSettle(t)
         \/ RestoreCleanTmp(t) \/ RestoreMissing(t) \/ RestoreEnqueue(t)
  PROVE  TypeOK'
<1> USE DEF TypeOK, UploadFilesTypeOK, PipelineThreadTypeOK, RunnerTypeOK, Become,
            fileVars, threadVars, historyVars, schedVars, otherVars, runnerVars
<1>1. CASE RestoreInterrupted(t)
  <2>1. TaskStoreTypeOK'
    BY <1>1, MarkErrorTyped DEF RestoreInterrupted, ErrorCode
  <2> QED
    BY <1>1, <2>1, LoopTyped DEF RestoreInterrupted, ContinueAt, ErrorCode, LoopPC
<1>2. CASE RestoreBump(t)
  <2>1. TaskStoreTypeOK'
    BY <1>2, UpdateTyped DEF RestoreBump
  <2> QED
    BY <1>2, <2>1, LoopTyped DEF RestoreBump, ContinueAt, LoopPC
<1>3. CASE RestoreSettle(t)
  <2>1. TaskStoreTypeOK'
    BY <1>3, UpdateTyped, MarkErrorTyped DEF RestoreSettle, ErrorCode
  <2> QED
    BY <1>3, <2>1, LoopTyped DEF RestoreSettle, ContinueAt, ErrorCode, LoopPC
<1>4. CASE RestoreCleanTmp(t)
  <2>1. TaskStoreTypeOK'
    BY <1>4, StoreKeptTyped DEF RestoreCleanTmp, storeVars
  <2> QED
    BY <1>4, <2>1, LoopTyped
       DEF RestoreCleanTmp, ContinueAt, cleanup_tmp, LoopPC, TmpState
<1>5. CASE RestoreMissing(t)
  <2>1. TaskStoreTypeOK'
    BY <1>5, StoreKeptTyped, MarkErrorTyped DEF RestoreMissing, ErrorCode, storeVars
  <2>2. loop.todo \ {t} \in SUBSET Tasks
    BY LoopTyped
  <2>3. \/ ContinueAt("restoreQueued", loop.todo \ {t}, NoTask)
        \/ ContinueAt("restoreQueuedTmp", loop.todo \ {t}, t)
    BY <1>5 DEF RestoreMissing
  <2>4. loop' \in LoopState
    BY <2>2, <2>3, LoopTyped DEF ContinueAt, LoopPC
  <2> QED
    BY <1>5, <2>1, <2>3, <2>4 DEF RestoreMissing, ContinueAt
<1>6. CASE RestoreEnqueue(t)
  <2>1. TaskStoreTypeOK'
    BY <1>6, StoreKeptTyped DEF RestoreEnqueue, storeVars
  <2> QED
    BY <1>6, <2>1, LoopTyped DEF RestoreEnqueue, LoopPC
<1> QED
  BY <1>1, <1>2, <1>3, <1>4, <1>5, <1>6

\* The dispatcher, the purge and the remaining segments.
LEMMA SegmentTyped ==
  ASSUME TypeOK,
         \/ Dispatch \/ Purge \/ PurgeQueued \/ PurgeFinished \/ PurgeTmp \/ RestoreNextList
         \/ Serve \/ StopClean \/ StopClose \/ PurgeFails \/ TtlFails
  PROVE  TypeOK'
<1> USE DEF TypeOK, UploadFilesTypeOK, PipelineThreadTypeOK, RunnerTypeOK, Become,
            fileVars, threadVars, historyVars, schedVars, otherVars, runnerVars
<1>1. CASE Dispatch
  <2>1. TaskStoreTypeOK'
    BY <1>1, StoreKeptTyped DEF Dispatch, storeVars
  <2> QED
    BY <1>1, <2>1, LoopTyped DEF Dispatch, JobPC
<1>2. CASE Purge
  <2>1. TaskStoreTypeOK'
    BY <1>2, StoreKeptTyped DEF Purge, storeVars
  <2> QED
    BY <1>2, <2>1, LoopTyped DEF Purge, list_tasks, LoopPC
<1>3. CASE PurgeQueued
  <2>1. TaskStoreTypeOK'
    BY <1>3, DeleteTyped DEF PurgeQueued, delete_by_statuses
  <2> QED
    BY <1>3, <2>1, LoopTyped DEF PurgeQueued, delete_by_statuses, list_tasks, LoopPC
<1>4. CASE PurgeFinished
  <2>1. TaskStoreTypeOK'
    BY <1>4, DeleteTyped DEF PurgeFinished, delete_by_statuses
  <2> QED
    BY <1>4, <2>1, LoopTyped DEF PurgeFinished, delete_by_statuses, LoopPC
<1>5. CASE PurgeTmp
  <2>1. TaskStoreTypeOK'
    BY <1>5, StoreKeptTyped DEF PurgeTmp, storeVars
  <2> QED
    BY <1>5, <2>1, LoopTyped
       DEF PurgeTmp, cleanup_tmp_except, cleanup_upload_scratch, TmpState
<1>6. CASE RestoreNextList
  <2>1. TaskStoreTypeOK'
    BY <1>6, StoreKeptTyped DEF RestoreNextList, storeVars
  <2> QED
    BY <1>6, <2>1, LoopTyped
       DEF RestoreNextList, ContinueAt, list_tasks, RowsToEnqueue, LoopPC
<1>7. CASE Serve
  <2>1. TaskStoreTypeOK'
    BY <1>7, StoreKeptTyped DEF Serve, storeVars
  <2> QED
    BY <1>7, <2>1, LoopTyped DEF Serve, Proc
<1>8. CASE StopClean
  <2>1. TaskStoreTypeOK'
    BY <1>8, StoreKeptTyped DEF StopClean, storeVars
  <2> QED
    BY <1>8, <2>1, LoopTyped DEF StopClean, LoopPC, TmpState
<1>9. CASE StopClose
  <2>1. TaskStoreTypeOK'
    BY <1>9, StoreKeptTyped DEF StopClose, storeVars
  <2> QED
    BY <1>9, <2>1, LoopTyped DEF StopClose, Proc
<1>10. CASE PurgeFails \/ TtlFails
  <2>1. TaskStoreTypeOK'
    BY <1>10, StoreKeptTyped DEF PurgeFails, TtlFails, storeVars
  <2> QED
    BY <1>10, <2>1, LoopTyped DEF PurgeFails, TtlFails
<1> QED
  BY <1>1, <1>2, <1>3, <1>4, <1>5, <1>6, <1>7, <1>8, <1>9, <1>10

\* Start and end of the process.
LEMMA ProcessTyped ==
  ASSUME TypeOK,
         Start \/ Stop \/ Exit \/ Crash \/ ChangeToken
  PROVE  TypeOK'
<1> USE DEF TypeOK, UploadFilesTypeOK, PipelineThreadTypeOK, RunnerTypeOK, Become,
            fileVars, threadVars, historyVars, schedVars, otherVars, runnerVars
<1>1. CASE Start
  <2>1. TaskStoreTypeOK'
    BY <1>1, StoreKeptTyped DEF Start, storeVars
  <2> QED
    BY <1>1, <2>1, LoopTyped DEF Start, InterruptedRows, list_tasks, Proc, LoopPC
<1>2. CASE Stop
  <2>1. TaskStoreTypeOK'
    BY <1>2, StoreKeptTyped DEF Stop, storeVars
  <2>2. thread' \in [Tasks -> ThreadPC] /\ slot' \in [Tasks -> Slots \cup {NoSlot}]
    BY <1>2 DEF Stop, ThreadPC
  <2>3. loop' \in LoopState /\ proc' \in Proc
    BY <1>2, LoopTyped DEF Stop, RowsToClean, list_tasks, Proc, LoopPC
  <2>4. ttlLoop' \in BOOLEAN
    BY <1>2, Zenon DEF Stop
  <2> QED
    BY <1>2, <2>1, <2>2, <2>3, <2>4 DEF Stop, AbandonJobs, JobPC
<1>3. CASE Exit
  <2>1. TaskStoreTypeOK'
    BY <1>3, StoreKeptTyped DEF Exit, LoseMemory, storeVars
  <2>2. ttlLoop' \in BOOLEAN
    BY <1>3, Zenon DEF Exit, LoseMemory
  <2>3. LoseMemory
    BY <1>3 DEF Exit
  <2> QED
    BY <2>1, <2>2, <2>3, LoopTyped DEF LoseMemory, AbandonJobs, Proc, ReqPC, JobPC, ThreadPC
<1>4. CASE Crash
  <2>1. TaskStoreTypeOK'
    BY <1>4, StoreKeptTyped DEF Crash, LoseMemory, storeVars
  <2>2. ttlLoop' \in BOOLEAN
    BY <1>4, Zenon DEF Crash, LoseMemory
  <2>3. LoseMemory
    BY <1>4 DEF Crash
  <2> QED
    BY <2>1, <2>2, <2>3, LoopTyped DEF LoseMemory, AbandonJobs, Proc, ReqPC, JobPC, ThreadPC
<1>5. CASE ChangeToken
  <2>1. TaskStoreTypeOK'
    BY <1>5, StoreKeptTyped DEF ChangeToken
  <2> QED
    BY <1>5, <2>1 DEF ChangeToken
<1> QED
  BY <1>1, <1>2, <1>3, <1>4, <1>5

\* Every step keeps the types.
LEMMA StepTyped ==
  ASSUME TypeOK, JobHasSlot, [Next]_vars
  PROVE  TypeOK'
<1>1. CASE UNCHANGED vars
  BY <1>1
     DEF vars, TypeOK, TaskStoreTypeOK, UploadFilesTypeOK, PipelineThreadTypeOK,
         RunnerTypeOK, storeVars, fileVars, threadVars, runnerVars, schedVars, otherVars
<1>2. CASE Next
  BY <1>2, RequestTyped, JobTyped, RemovalTyped, RestoreTyped, SegmentTyped, ProcessTyped,
     ThreadStepTyped
     DEF Next, AnswerStep, JobStep, WorkerStep, SegmentStep, ProcessStep, StoreFault
<1> QED
  BY <1>1, <1>2

\* The initial state has them.
LEMMA InitTyped == Init => TypeOK
<1> SUFFICES ASSUME Init PROVE TypeOK
  OBVIOUS
<1>1. TaskStoreTypeOK
  <2>1. NoRow \in TaskRow
    BY DEF NoRow, TaskRow
  <2>2. rows \in [Tasks -> TaskRow]
    BY <2>1 DEF Init, TaskStoreInit
  <2>3. clock \in Nat \ {0}
    BY DEF Init, TaskStoreInit
  <2>4. storeOpen \in BOOLEAN
    BY Zenon DEF Init, TaskStoreInit
  <2>5. unreadable \subseteq Tasks
    BY DEF Init, TaskStoreInit
  <2> QED
    BY <2>2, <2>3, <2>4, <2>5 DEF TaskStoreTypeOK
<1>2. UploadFilesTypeOK /\ PipelineThreadTypeOK
  BY DEF Init, UploadFilesInit, PipelineThreadInit, UploadFilesTypeOK,
     PipelineThreadTypeOK, TmpState, ThreadPC
<1>3. RunnerTypeOK
  <2>1. ttlLoop \in BOOLEAN
    BY Zenon DEF Init
  <2> QED
    BY <2>1, LoopTyped DEF Init, RunnerTypeOK, Proc, ReqPC, JobPC
<1> QED
  BY <1>1, <1>2, <1>3 DEF TypeOK

----------------------------------------------------------------------------
(* The types rest on JobHasSlot: the slot that _run_one gives back is one. *)

\* A thread's own step leaves job and slot alone and never begins a thread.
LEMMA ThreadKeepsJobs ==
  ASSUME TypeOK, JobHasSlot, NEW t \in Tasks, ThreadStep(t) \/ StoreFails(t),
         UNCHANGED runnerVars
  PROVE  JobHasSlot'
<1>1. thread[t] # "none"
  BY DEF ThreadStep, Get, MarkRunning, CheckUpload, PrepareWav, Infer, MarkError, Final,
     CleanupTmp, StoreGone, StoreFails, AtStore, StorePC
<1>2. \A u \in Tasks \ {t} : thread'[u] = thread[u]
  BY DEF ThreadStep, Get, MarkRunning, CheckUpload, PrepareWav, Infer, MarkError, Final,
     CleanupTmp, StoreGone, StoreFails, Goto, TypeOK, PipelineThreadTypeOK
<1> QED
  BY <1>1, <1>2 DEF JobHasSlot, runnerVars, schedVars

\* put_nowait wakes a coroutine or none; the others stay where `jobs' has them.
LEMMA PutSlotJobs ==
  ASSUME RunnerTypeOK, NEW s, NEW rest, NEW jobs \in [Tasks -> JobPC], PutSlot(s, rest, jobs)
  PROVE  \A u \in Tasks : job'[u] = jobs[u] \/ job'[u] = "woken"
<1>1. CASE waiters = <<>>
  BY <1>1 DEF PutSlot
<1>2. CASE waiters # <<>>
  <2>1. Head(waiters) \in Tasks
    BY <1>2 DEF RunnerTypeOK
  <2>2. job' = [jobs EXCEPT ![Head(waiters)] = "woken"]
    BY <1>2 DEF PutSlot
  <2> QED
    BY <2>1, <2>2
<1> QED
  BY <1>1, <1>2

\* Coroutines take a slot before their thread begins and keep it until they are through.
LEMMA JobKeepsSlot ==
  ASSUME TypeOK, JobHasSlot, NEW t \in Tasks, JobStep(t) \/ JobFails(t) \/ ThreadReturns(t)
  PROVE  JobHasSlot'
<1> USE DEF TypeOK, RunnerTypeOK, PipelineThreadTypeOK, JobHasSlot, Become
<1>1. CASE JobCancelled(t) \/ JobWaits(t)
  BY <1>1 DEF JobCancelled, JobWaits, threadVars
<1>2. CASE JobDropped(t) \/ JobFails(t)
  <2>1. Become(job, t, "none") \in [Tasks -> JobPC]
    BY DEF JobPC
  <2>2. \A u \in Tasks : job'[u] = Become(job, t, "none")[u] \/ job'[u] = "woken"
    BY <1>2, <2>1, PutSlotJobs DEF JobDropped, JobFails
  <2> QED
    BY <1>2, <2>2 DEF JobDropped, JobFails, threadVars
<1>3. CASE JobRuns(t)
  <2>1. PICK s \in freeSlots : slot' = [slot EXCEPT ![t] = s]
    BY <1>3 DEF JobRuns
  <2>2. job' = [job EXCEPT ![t] = "inThread"] /\ thread' = [thread EXCEPT ![t] = "get"]
    BY <1>3 DEF JobRuns, Goto
  <2> QED
    BY <2>1, <2>2
<1>4. CASE ThreadReturns(t)
  <2>1. thread[t] = "returned" /\ thread' = [thread EXCEPT ![t] = "none"]
    BY <1>4 DEF ThreadReturns, Goto
  <2>2. CASE job[t] = "inThread"
    BY <1>4, <2>1, <2>2 DEF ThreadReturns
  <2>3. CASE job[t] # "inThread"
    BY <1>4, <2>1, <2>3 DEF ThreadReturns
  <2> QED
    BY <2>2, <2>3
<1>5. CASE JobFinishes(t)
  <2>1. Become(job, t, "none") \in [Tasks -> JobPC]
    BY DEF JobPC
  <2>2. \A u \in Tasks : job'[u] = Become(job, t, "none")[u] \/ job'[u] = "woken"
    BY <1>5, <2>1, PutSlotJobs DEF JobFinishes
  <2>3. slot' = [slot EXCEPT ![t] = NoSlot] /\ thread' = thread
    BY <1>5 DEF JobFinishes, threadVars
  <2> QED
    BY <2>2, <2>3
<1> QED
  BY <1>1, <1>2, <1>3, <1>4, <1>5 DEF JobStep

\* Every step keeps JobHasSlot.
LEMMA JobHasSlotKept ==
  ASSUME TypeOK, JobHasSlot, [Next]_vars
  PROVE  JobHasSlot'
<1>1. CASE UNCHANGED <<thread, job, slot>>
  BY <1>1 DEF JobHasSlot
<1>2. CASE Dispatch \/ \E t \in Tasks : WorkerStep(t) \/ JobStep(t) \/ JobFails(t)
  <2>1. CASE Dispatch
    BY <2>1 DEF Dispatch, JobHasSlot, threadVars, TypeOK, RunnerTypeOK
  <2>2. ASSUME NEW t \in Tasks, WorkerStep(t) \/ JobStep(t) \/ JobFails(t)
        PROVE  JobHasSlot'
    BY <2>2, ThreadKeepsJobs, JobKeepsSlot DEF WorkerStep
  <2> QED
    BY <1>2, <2>1, <2>2
<1>3. CASE Stop \/ Exit \/ Crash
  <2>1. \A t \in Tasks : job'[t] = "none"
    BY <1>3 DEF Stop, Exit, Crash, LoseMemory, AbandonJobs
  <2> QED
    BY <2>1 DEF JobHasSlot
<1>4. ASSUME NEW t \in Tasks, StoreFails(t), UNCHANGED runnerVars
      PROVE  JobHasSlot'
  BY <1>4, ThreadKeepsJobs
<1>5. ASSUME NEW t \in Tasks,
             \/ Post(t) \/ AnswerStep(t) \/ SubmitFails(t) \/ Delete(t) \/ Expire(t)
             \/ LoseUpload(t)
      PROVE  UNCHANGED <<thread, job, slot>>
  BY <1>5
     DEF Post, AnswerStep, WriteUpload, SubmitReject, SubmitBegin, Place, SubmitEnd,
         SubmitFails, Delete, Expire, LoseUpload, threadVars, schedVars, runnerVars
<1>6. ASSUME Purge \/ SegmentStep \/ Start \/ PurgeFails \/ TtlFails \/ ChangeToken
      PROVE  UNCHANGED <<thread, job, slot>>
  BY <1>6
     DEF Purge, SegmentStep, Start, DeleteTmp, RestoreInterrupted, RestoreBump,
         RestoreSettle, RestoreCleanTmp, RestoreMissing, RestoreEnqueue, PurgeQueued,
         PurgeFinished, PurgeTmp, RestoreNextList, Serve, StopClean, StopClose,
         PurgeFails, TtlFails, ChangeToken, ContinueAt, threadVars, schedVars, runnerVars
<1> QED
  BY <1>1, <1>2, <1>3, <1>4, <1>5, <1>6
     DEF Next, ProcessStep, StoreFault, vars, threadVars, schedVars, runnerVars

\* Every variable keeps its type, whatever the tasks, the slots, the limits and the
\* deaths of the process: in particular no coroutine gives back a slot it does not have.
THEOREM TypeCorrect == Spec => []TypeOK
<1>1. Init => TypeOK /\ JobHasSlot
  <2>1. Init => JobHasSlot
    BY DEF Init, JobHasSlot
  <2> QED
    BY <2>1, InitTyped
<1>2. TypeOK /\ JobHasSlot /\ [Next]_vars => (TypeOK /\ JobHasSlot)'
  BY StepTyped, JobHasSlotKept
<1> QED
  BY <1>1, <1>2, PTL DEF Spec

----------------------------------------------------------------------------
(* How often a task is started.                                            *)

\* After the step only the row of t differs: its status is st, its attempts are n.
Touched(t, st, n) ==
  /\ \A u \in Tasks \ {t} : rows'[u] = rows[u]
  /\ rows'[t].status = st /\ rows'[t].attempts = n

\* What the methods of the store do to the two columns that matter here.
LEMMA Effects ==
  ASSUME TaskStoreTypeOK, NEW t \in Tasks
  PROVE  /\ create(t) => Touched(t, "queued", 0)
         /\ mark_running(t) => Touched(t, "running", rows[t].attempts)
         /\ HasRow(t) /\ mark_success(t) => Touched(t, "success", rows[t].attempts)
         /\ \A code : HasRow(t) /\ mark_error(t, code) => Touched(t, "error", rows[t].attempts)
         /\ HasRow(t) /\ bump_attempts(t) => Touched(t, rows[t].status, rows[t].attempts + 1)
         /\ HasRow(t) /\ reset_to_queued(t) => Touched(t, "queued", rows[t].attempts)
<1> USE DEF TaskStoreTypeOK
<1>1. rows[t] \in TaskRow
  OBVIOUS
<1>2. create(t) => Touched(t, "queued", 0)
  BY DEF create, SetRow, Touched
<1>3. mark_running(t) => Touched(t, "running", rows[t].attempts)
  BY <1>1 DEF mark_running, SetRow, Touched, TaskRow
<1>4. HasRow(t) /\ mark_success(t) => Touched(t, "success", rows[t].attempts)
  BY <1>1 DEF mark_success, UpdateRow, SetRow, Touched, TaskRow
<1>5. ASSUME NEW code, HasRow(t), mark_error(t, code)
      PROVE  Touched(t, "error", rows[t].attempts)
  BY <1>1, <1>5 DEF mark_error, UpdateRow, SetRow, Touched, TaskRow
<1>6. HasRow(t) /\ bump_attempts(t) => Touched(t, rows[t].status, rows[t].attempts + 1)
  BY <1>1 DEF bump_attempts, UpdateRow, SetRow, Touched, TaskRow
<1>7. HasRow(t) /\ reset_to_queued(t) => Touched(t, "queued", rows[t].attempts)
  BY <1>1 DEF reset_to_queued, UpdateRow, SetRow, Touched, TaskRow
<1> QED
  BY <1>2, <1>3, <1>4, <1>5, <1>6, <1>7

\* An UPDATE finds nothing to change for a task without a row.
LEMMA EffectsWithoutRow ==
  ASSUME TaskStoreTypeOK, NEW t \in Tasks, ~HasRow(t)
  PROVE  /\ mark_success(t) => rows' = rows
         /\ \A code : mark_error(t, code) => rows' = rows
         /\ bump_attempts(t) => rows' = rows
         /\ reset_to_queued(t) => rows' = rows
  BY DEF mark_success, mark_error, bump_attempts, reset_to_queued, UpdateRow

----------------------------------------------------------------------------
(* The retry invariant, step by step.                                     *)

\* The types that the arithmetic and the updates below rest on.
LEMMA RetryTypes ==
  ASSUME TypeOK
  PROVE  /\ NoTask \notin Tasks /\ rows \in [Tasks -> TaskRow]
         /\ \A t \in Tasks : rows[t].attempts \in Nat
         /\ starts \in [Tasks -> Nat] /\ thread \in [Tasks -> ThreadPC]
         /\ req \in [Tasks -> ReqPC] /\ loop.todo \in SUBSET Tasks
         /\ TASK_MAX_RESTARTS \in Nat
  BY RunnerAssumption DEF TypeOK, TaskStoreTypeOK, PipelineThreadTypeOK, RunnerTypeOK,
     TaskRow,
     LoopState

\* Requests change neither rows nor runs until submit creates the row.
LEMMA RetryRequests ==
  ASSUME TypeOK, RetryInv, NEW t \in Tasks,
         \/ Post(t) \/ WriteUpload(t) \/ SubmitReject(t) \/ SubmitBegin(t) \/ Place(t)
         \/ SubmitEnd(t) \/ SubmitFails(t)
  PROVE  RetryInv'
<1> USE RetryTypes DEF RetryInv, SegmentsInPhase, RestoreListed, RunsCounted, Accepted, HasRow
<1>1. CASE Post(t)
  BY <1>1 DEF Post, Become, storeVars, threadVars
<1>2. CASE WriteUpload(t)
  BY <1>2 DEF WriteUpload, Become, storeVars, threadVars
<1>3. CASE SubmitReject(t)
  BY <1>3 DEF SubmitReject, Become, storeVars, threadVars
<1>4. CASE SubmitBegin(t)
  BY <1>4 DEF SubmitBegin, Become, storeVars, threadVars
<1>5. CASE Place(t)
  BY <1>5 DEF Place, Become, storeVars, threadVars
<1>6. CASE SubmitEnd(t)
  BY <1>6, Effects DEF SubmitEnd, Become, Touched, Scheduled, Idle, At, TypeOK, RestorePC,
     threadVars
<1>7. CASE SubmitFails(t)
  <2>1. CASE rows' = rows
    BY <1>7, <2>1 DEF SubmitFails, Become, storeVars
  <2>2. CASE create(t) /\ req' = Become(req, t, "accepted")
    BY <1>7, <2>2, Effects DEF SubmitFails, Become, Touched, Scheduled, Idle, At, TypeOK,
       RestorePC
  <2> QED
    BY <1>7, <2>1, <2>2 DEF SubmitFails, storeVars
<1> QED
  BY <1>1, <1>2, <1>3, <1>4, <1>5, <1>6, <1>7

\* Coroutines do not touch the rows; only they start threads, while the runner serves.
LEMMA RetryJobs ==
  ASSUME TypeOK, RetryInv, NEW t \in Tasks,
         \/ JobCancelled(t) \/ JobWaits(t) \/ JobDropped(t) \/ JobFails(t) \/ JobFinishes(t)
         \/ JobRuns(t) \/ ThreadReturns(t)
  PROVE  RetryInv'
<1> USE RetryTypes DEF RetryInv, SegmentsInPhase, RestoreListed, RunsCounted, Accepted, HasRow
<1>1. CASE JobCancelled(t)
  BY <1>1 DEF JobCancelled, storeVars, threadVars
<1>2. CASE JobWaits(t)
  BY <1>2 DEF JobWaits, storeVars, threadVars
<1>3. CASE JobDropped(t) \/ JobFails(t)
  BY <1>3 DEF JobDropped, JobFails, storeVars, threadVars
<1>4. CASE JobFinishes(t)
  BY <1>4 DEF JobFinishes, storeVars, threadVars
<1>5. CASE JobRuns(t)
  BY <1>5 DEF JobRuns, AsksForSlot, Due, Scheduled, Goto, storeVars, historyVars
<1>6. CASE ThreadReturns(t)
  BY <1>6 DEF ThreadReturns, Goto, storeVars, historyVars
<1> QED
  BY <1>1, <1>2, <1>3, <1>4, <1>5, <1>6

\* A thread: there is none while rows are restored.
LEMMA RetryThreads ==
  ASSUME TypeOK, RetryInv, NEW t \in Tasks, ThreadStep(t) \/ StoreFails(t),
         UNCHANGED runnerVars
  PROVE  RetryInv'
<1> USE RetryTypes DEF RetryInv, SegmentsInPhase, RestoreListed, RunsCounted, Accepted, HasRow
<1>1. thread[t] # "none"
  BY DEF ThreadStep, Get, MarkRunning, CheckUpload, PrepareWav, Infer, MarkError, Final,
     CleanupTmp, StoreGone, StoreFails, AtStore, StorePC
<1>2. proc \notin {"down", "restoring"} /\ loop.at \notin RestorePC
  BY <1>1
<1>3. UNCHANGED <<proc, loop, req>>
  BY DEF runnerVars
<1> USE <1>1, <1>2, <1>3 DEF RestorePC
<1>4. CASE Get(t) \/ CheckUpload(t) \/ PrepareWav(t) \/ Final(t) \/ CleanupTmp(t)
           \/ StoreGone(t) \/ StoreFails(t)
  BY <1>4 DEF Get, CheckUpload, PrepareWav, Final, CleanupTmp, StoreGone, StoreFails,
     storeVars, historyVars
<1>5. CASE MarkRunning(t)
  <2>1. CASE CanMarkRunning(t)
    <3>1. Touched(t, "running", rows[t].attempts)
      BY <1>5, <2>1, Effects DEF MarkRunning, TypeOK
    <3>2. starts' = [starts EXCEPT ![t] = @ + 1]
      BY <1>5, <2>1 DEF MarkRunning
    <3> QED
      BY <2>1, <3>1, <3>2 DEF CanMarkRunning, Touched
  <2>2. CASE ~CanMarkRunning(t)
    BY <1>5, <2>2 DEF MarkRunning, storeVars
  <2> QED
    BY <2>1, <2>2
<1>6. CASE Infer(t) \/ MarkError(t)
  <2>1. starts' = starts
    BY <1>6 DEF Infer, MarkError, historyVars
  <2>2. \/ rows' = rows
        \/ \E st \in Finished : Touched(t, st, rows[t].attempts) /\ HasRow(t)
    BY <1>6, Effects, EffectsWithoutRow DEF Infer, MarkError, Finished, storeVars, TypeOK
  <2> QED
    BY <2>1, <2>2 DEF Touched, Finished
<1> QED
  BY <1>4, <1>5, <1>6 DEF ThreadStep

\* A removed row counts nothing any more.
LEMMA RetryRemovals ==
  ASSUME TypeOK, RetryInv, NEW t \in Tasks,
         Delete(t) \/ Expire(t) \/ LoseUpload(t) \/ DeleteTmp(t)
  PROVE  RetryInv'
<1> USE RetryTypes DEF RetryInv, SegmentsInPhase, RestoreListed, RunsCounted, Accepted, HasRow
<1>1. CASE Delete(t)
  BY <1>1 DEF Delete, DeleteRows, NoRow, Scheduled, Idle, At, RestorePC, threadVars
<1>2. CASE Expire(t)
  BY <1>2 DEF Expire, DeleteRows, NoRow, Scheduled, Idle, At, RestorePC, threadVars,
     runnerVars
<1>3. CASE LoseUpload(t)
  BY <1>3 DEF LoseUpload, runnerVars, storeVars, threadVars
<1>4. CASE DeleteTmp(t)
  BY <1>4 DEF DeleteTmp, InSegment, Idle, At, RestorePC, storeVars, threadVars
<1> QED
  BY <1>1, <1>2, <1>3, <1>4

\* The purge, the dispatcher, and how a process starts and ends.
LEMMA RetrySegments ==
  ASSUME TypeOK, RetryInv,
         \/ Dispatch \/ Purge \/ PurgeQueued \/ PurgeFinished \/ PurgeTmp \/ StopClean
         \/ StopClose \/ Stop \/ Start \/ Serve \/ RestoreNextList \/ Exit \/ Crash
         \/ PurgeFails \/ TtlFails \/ ChangeToken
  PROVE  RetryInv'
<1> USE RetryTypes DEF RetryInv, SegmentsInPhase, RestoreListed, RunsCounted, Accepted, HasRow
<1>1. CASE Dispatch
  BY <1>1 DEF Dispatch, storeVars, threadVars
<1>2. CASE Purge
  BY <1>2 DEF Purge, At, RestorePC, storeVars, threadVars
<1>3. CASE PurgeQueued
  BY <1>3 DEF PurgeQueued, delete_by_statuses, DeleteRows, NoRow, At, InSegment, RestorePC,
     threadVars
<1>4. CASE PurgeFinished
  BY <1>4 DEF PurgeFinished, delete_by_statuses, DeleteRows, NoRow, Idle, At, InSegment,
     RestorePC, threadVars
<1>5. CASE PurgeTmp
  BY <1>5 DEF PurgeTmp, Idle, At, RestorePC, storeVars, threadVars
<1>6. CASE StopClean
  BY <1>6 DEF StopClean, InSegment, At, RestorePC, storeVars, threadVars
<1>7. CASE StopClose
  BY <1>7 DEF StopClose, close, Idle, At, RestorePC, threadVars
<1>8. CASE Stop
  BY <1>8 DEF Stop, Scheduled, Idle, At, RestorePC, storeVars, historyVars
<1>9. CASE Start
  BY <1>9 DEF Start, OpenStore, At, RestorePC, InterruptedRows, list_tasks, threadVars,
     LoopState
<1>10. CASE Serve
  BY <1>10 DEF Serve, InSegment, Idle, At, RestorePC, storeVars, threadVars
<1>11. CASE Exit \/ Crash
  BY <1>11 DEF Exit, Crash, LoseMemory, close, Idle, At, RestorePC, InFlight
<1>12. CASE RestoreNextList
  BY <1>12 DEF RestoreNextList, RowsToEnqueue, list_tasks, InSegment, ContinueAt, At,
     RestorePC, storeVars, threadVars
<1>13. CASE PurgeFails
  BY <1>13 DEF PurgeFails, InSegment, Idle, At, RestorePC, storeVars
<1>14. CASE TtlFails \/ ChangeToken
  BY <1>14 DEF TtlFails, ChangeToken, SealsBroken, storeVars, threadVars, runnerVars
<1> QED
  BY <1>1, <1>2, <1>3, <1>4, <1>5, <1>6, <1>7, <1>8, <1>9, <1>10, <1>11, <1>12, <1>13, <1>14

\* The restore: a death is counted before the row may be queued again.
LEMMA RetryRestore ==
  ASSUME TypeOK, RetryInv, NEW t \in Tasks,
         \/ RestoreInterrupted(t) \/ RestoreBump(t) \/ RestoreSettle(t)
         \/ RestoreCleanTmp(t) \/ RestoreMissing(t) \/ RestoreEnqueue(t)
  PROVE  RetryInv'
<1> USE RetryTypes DEF RetryInv, SegmentsInPhase, RestoreListed, RunsCounted, Accepted, HasRow
<1>1. CASE RestoreInterrupted(t)
  BY <1>1, Effects DEF RestoreInterrupted, Restoring, InSegment, ContinueAt, At, Touched,
     RestorePC, TypeOK, threadVars
<1>2. CASE RestoreBump(t)
  BY <1>2, Effects DEF RestoreBump, Restoring, InSegment, ContinueAt, At, Touched,
     RestorePC, TypeOK, threadVars
<1>3. CASE RestoreSettle(t)
  BY <1>3, Effects, EffectsWithoutRow DEF RestoreSettle, MayRunAgain, InSegment, ContinueAt,
     At, Touched, RestorePC, TypeOK, threadVars
<1>4. CASE RestoreCleanTmp(t)
  BY <1>4 DEF RestoreCleanTmp, InSegment, ContinueAt, At, RestorePC, storeVars, threadVars
<1>5. CASE RestoreMissing(t)
  BY <1>5, Effects DEF RestoreMissing, Restoring, InSegment, ContinueAt, At, Touched,
     RestorePC, TypeOK, storeVars, threadVars
<1>6. CASE RestoreEnqueue(t)
  BY <1>6 DEF RestoreEnqueue, InSegment, At, RestorePC, storeVars, threadVars
<1> QED
  BY <1>1, <1>2, <1>3, <1>4, <1>5, <1>6

\* Every step keeps the retry invariant.
LEMMA RetryStep ==
  ASSUME TypeOK, RetryInv, [Next]_vars
  PROVE  RetryInv'
<1>1. CASE UNCHANGED vars
  <2>1. UNCHANGED <<rows, thread, starts, proc, loop, req>>
    BY <1>1 DEF vars, storeVars, threadVars, runnerVars, requestVars
  <2> QED
    BY <2>1 DEF RetryInv, SegmentsInPhase, RestoreListed, RunsCounted, Accepted, HasRow
<1>2. CASE Next
  BY <1>2, RetryRequests, RetryJobs, RetryThreads, RetryRemovals, RetrySegments, RetryRestore
     DEF Next, AnswerStep, JobStep, WorkerStep, SegmentStep, ProcessStep, StoreFault
<1> QED
  BY <1>1, <1>2

\* It holds before anything was accepted.
LEMMA RetryInit ==
  ASSUME Init
  PROVE  RetryInv
<1>1. TASK_MAX_RESTARTS \in Nat
  BY RunnerAssumption
<1> QED
  BY <1>1 DEF Init, TaskStoreInit, PipelineThreadInit, NoRow, Idle, At, RestorePC, RetryInv,
     SegmentsInPhase, RestoreListed, RunsCounted, Accepted, HasRow

\* A task is started at most 1 + TASK_MAX_RESTARTS times: the restore commits the count
\* of a death before it may queue the row again, a death between the two commits only
\* counts twice, and nothing else leads from 'running' back to 'queued'.
THEOREM RetryBounded == Spec => []RetryBound
<1>1. Init => RetryInv
  BY RetryInit
<1>2. TypeOK /\ RetryInv /\ [Next]_vars => RetryInv'
  BY RetryStep
<1>3. RetryInv => RetryBound
  BY DEF RetryInv, RunsCounted, RetryBound
<1> QED
  BY <1>1, <1>2, <1>3, TypeCorrect, PTL DEF Spec

----------------------------------------------------------------------------
(* The slots.                                                              *)

\* The variables that SlotInv is about, and their types.
LEMMA SlotTypes ==
  ASSUME TypeOK
  PROVE  /\ job \in [Tasks -> JobPC] /\ slot \in [Tasks -> Slots \cup {NoSlot}]
         /\ thread \in [Tasks -> ThreadPC] /\ req \in [Tasks -> ReqPC]
         /\ freeSlots \subseteq Slots
         /\ queue \in Seq(Tasks) /\ waiters \in Seq(Tasks) /\ ready \in Seq(Tasks)
  BY DEF TypeOK, RunnerTypeOK, PipelineThreadTypeOK

\* Steps that leave the coroutines, the slots and the threads alone.
LEMMA SlotFrame ==
  ASSUME TypeOK, SlotInv, UNCHANGED <<proc, queue, job, waiters, freeSlots, slot, thread>>,
         \A t \in Tasks : Accepted(t) => Accepted(t)'
  PROVE  SlotInv'
<1>1. JobHasSlot' /\ JobsOnlyUp' /\ ThreadsAwaited'
  BY DEF SlotInv, JobHasSlot, JobsOnlyUp, ThreadsAwaited
<1>2. QueuePlaces'
  <2>1. \A i \in DOMAIN queue : queue[i] \in Tasks /\ Accepted(queue[i])
    BY SlotTypes DEF SlotInv, QueuePlaces
  <2> QED
    BY <2>1 DEF SlotInv, QueuePlaces
<1>3. SlotsDivided' /\ SlotExclusive'
  BY DEF SlotInv, SlotsDivided, Holds, SlotExclusive, Alive
<1> QED
  BY <1>1, <1>2, <1>3 DEF SlotInv

\* The thread of t is gone, or goes on with the slot it has.
GoneOrKept(t) == thread'[t] = "none" \/ (thread'[t] = thread[t] /\ slot'[t] = slot[t])

\* Steps after which there are no coroutines.
LEMMA SlotNoJobs ==
  ASSUME SlotInv, \A t \in Tasks : job'[t] = "none", queue' = <<>>, waiters' = <<>>,
         proc' # "up" \/ \A t \in Tasks : thread'[t] = "none",
         \A t \in Tasks : GoneOrKept(t)
  PROVE  SlotInv'
<1>1. JobHasSlot' /\ JobsOnlyUp' /\ ThreadsAwaited' /\ QueuePlaces' /\ SlotsDivided'
  BY DEF JobHasSlot, JobsOnlyUp, ThreadsAwaited, QueuePlaces, SlotsDivided, Holds
<1>2. SlotExclusive'
  BY DEF SlotInv, SlotExclusive, Alive, StorePC, FilePC, GoneOrKept
<1> QED
  BY <1>1, <1>2 DEF SlotInv

\* A task enters _queue: by submit, or in the restore; in both cases without a coroutine.
LEMMA SlotEnqueues ==
  ASSUME TypeOK, RetryInv, SlotInv, NEW t \in Tasks, SubmitEnd(t) \/ RestoreEnqueue(t)
  PROVE  SlotInv'
<1> USE SlotTypes
<1>1. /\ UNCHANGED <<proc, job, waiters, freeSlots, slot, thread>>
      /\ queue' = Append(queue, t)
  BY DEF SubmitEnd, RestoreEnqueue, threadVars
<1>2. job[t] = "none" /\ Accepted(t)'
  <2>1. CASE SubmitEnd(t)
    BY <2>1 DEF SubmitEnd, Become, Accepted, SlotInv, QueuePlaces
  <2>2. CASE RestoreEnqueue(t)
    <3>1. loop.at = "restoreEnqueue" /\ t \in loop.todo /\ req' = req
      BY <2>2 DEF RestoreEnqueue, InSegment, OldestOf
    <3>2. proc = "restoring" /\ HasRow(t)
      BY <3>1 DEF RetryInv, SegmentsInPhase, RestoreListed, RestorePC
    <3> QED
      BY <3>1, <3>2 DEF RetryInv, RunsCounted, Accepted, SlotInv, JobsOnlyUp
  <2> QED
    BY <2>1, <2>2
<1>3. \A u \in Tasks : Accepted(u) => Accepted(u)'
  BY DEF SubmitEnd, RestoreEnqueue, Become, Accepted
<1>4. JobHasSlot' /\ JobsOnlyUp' /\ ThreadsAwaited'
  BY <1>1 DEF SlotInv, JobHasSlot, JobsOnlyUp, ThreadsAwaited
<1>5. QueuePlaces'
  <2>1. \A i \in DOMAIN queue' : \/ i = Len(queue) + 1 /\ queue'[i] = t
                                 \/ i \in DOMAIN queue /\ queue'[i] = queue[i]
    BY <1>1
  <2>2. \A i \in DOMAIN queue : queue[i] \in Tasks
    OBVIOUS
  <2>3. \A i \in DOMAIN queue' : job'[queue'[i]] = "none" /\ Accepted(queue[i])'
    BY <1>1, <1>2, <1>3, <2>1, <2>2 DEF SlotInv, QueuePlaces
  <2> QED
    BY <1>1, <1>3, <2>3 DEF SlotInv, QueuePlaces
<1>6. SlotsDivided' /\ SlotExclusive'
  BY <1>1 DEF SlotInv, SlotsDivided, Holds, SlotExclusive, Alive
<1> QED
  BY <1>4, <1>5, <1>6 DEF SlotInv

\* The dispatcher makes coroutines only of tasks that have none.
LEMMA SlotDispatch ==
  ASSUME TypeOK, SlotInv, Dispatch
  PROVE  SlotInv'
<1> USE SlotTypes
<1>1. /\ UNCHANGED <<proc, req, waiters, freeSlots, slot, thread>>
      /\ queue' = <<>> /\ proc = "up"
  BY DEF Dispatch, threadVars, Scheduled
<1>2. \A t \in Tasks : \/ job'[t] = job[t]
                       \/ job'[t] = "start" /\ job[t] = "none" /\ Accepted(t)
  BY DEF Dispatch, SlotInv, QueuePlaces
<1>3. JobHasSlot' /\ JobsOnlyUp' /\ ThreadsAwaited'
  BY <1>1, <1>2 DEF SlotInv, JobHasSlot, JobsOnlyUp, ThreadsAwaited
<1>4. QueuePlaces'
  <2>1. \A i \in DOMAIN waiters : waiters[i] \in Tasks
    OBVIOUS
  <2> QED
    BY <1>1, <1>2, <2>1 DEF SlotInv, QueuePlaces, Accepted
<1>5. SlotsDivided' /\ SlotExclusive'
  BY <1>1, <1>2 DEF SlotInv, SlotsDivided, Holds, SlotExclusive, Alive
<1> QED
  BY <1>3, <1>4, <1>5 DEF SlotInv

\* put_nowait by the coroutine of t wakes the first of the others in line, if any.
LEMMA PutSlotWakes ==
  ASSUME TypeOK, QueuePlaces, NEW t \in Tasks, NEW s, job[t] # "waiting",
         PutSlot(s, Tail(ready), Become(job, t, "none")), UNCHANGED <<queue, req>>
  PROVE  /\ freeSlots' = freeSlots \cup {s}
         /\ job'[t] = "none"
         /\ \A u \in Tasks \ {t} : \/ job'[u] = job[u]
                                   \/ job[u] = "waiting" /\ job'[u] = "woken"
         /\ QueuePlaces'
<1> USE SlotTypes DEF Become
<1>1. CASE waiters = <<>>
  <2>1. /\ freeSlots' = freeSlots \cup {s} /\ waiters' = <<>>
        /\ job' = [job EXCEPT ![t] = "none"]
    BY <1>1 DEF PutSlot
  <2>2. \A i \in DOMAIN queue : queue[i] \in Tasks
    OBVIOUS
  <2> QED
    BY <2>1, <2>2 DEF QueuePlaces, Accepted
<1>2. CASE waiters # <<>>
  <2> DEFINE w == Head(waiters)
  <2>1. /\ freeSlots' = freeSlots \cup {s} /\ waiters' = Tail(waiters)
        /\ job' = [[job EXCEPT ![t] = "none"] EXCEPT ![w] = "woken"]
    BY <1>2 DEF PutSlot
  <2>2. w \in Tasks /\ w = waiters[1] /\ 1 \in DOMAIN waiters
    BY <1>2
  <2>3. job[w] = "waiting" /\ w # t
    BY <2>2 DEF QueuePlaces
  <2>4. \A i \in DOMAIN waiters' : /\ i + 1 \in DOMAIN waiters /\ i + 1 # 1
                                   /\ waiters'[i] = waiters[i + 1] /\ waiters'[i] \in Tasks
    BY <1>2, <2>1
  <2>5. \A u \in Tasks \ {t, w} : job'[u] = job[u]
    BY <2>1
  <2>6. job'[t] = "none" /\ job'[w] = "woken"
    BY <2>1, <2>2, <2>3
  <2>7. \A i \in DOMAIN waiters' : waiters'[i] # w /\ waiters'[i] # t
    BY <2>2, <2>4 DEF QueuePlaces
  <2>8. \A i \in DOMAIN waiters' : job'[waiters'[i]] = "waiting"
    BY <2>4, <2>5, <2>7 DEF QueuePlaces
  <2>9. \A i, j \in DOMAIN waiters' : waiters'[i] = waiters'[j] => i = j
    <3>1. \A i \in DOMAIN waiters' : i \in Nat
      BY <2>1, <1>2
    <3> QED
      BY <2>4, <3>1 DEF QueuePlaces
  <2>10. \A i \in DOMAIN queue : queue[i] \in Tasks /\ queue[i] # w
    BY <2>3 DEF QueuePlaces
  <2>11. \A i \in DOMAIN queue' : job'[queue'[i]] = "none" /\ Accepted(queue[i])'
    BY <2>5, <2>6, <2>10 DEF QueuePlaces, Accepted
  <2>12. \A u \in Tasks : ~Accepted(u)' => job'[u] = "none"
    BY <2>2, <2>3, <2>5, <2>6 DEF QueuePlaces, Accepted
  <2> QED
    BY <2>1, <2>3, <2>5, <2>6, <2>8, <2>9, <2>11, <2>12 DEF QueuePlaces
<1> QED
  BY <1>1, <1>2

\* The coroutines: a slot is taken out of the pool, and goes back to it.
LEMMA SlotJobs ==
  ASSUME TypeOK, SlotInv, NEW t \in Tasks, JobStep(t) \/ JobFails(t)
  PROVE  SlotInv'
<1> USE SlotTypes
<1>1. UNCHANGED <<proc, req, queue>> /\ proc = "up" /\ JobsOnlyUp'
  BY DEF JobStep, JobCancelled, JobWaits, JobDropped, JobFails, JobRuns, JobFinishes,
     AsksForSlot, Due, Scheduled, JobsOnlyUp
<1>2. JobHasSlot'
  BY JobKeepsSlot DEF SlotInv
<1>3. \A i \in DOMAIN queue : queue[i] \in Tasks /\ Accepted(queue[i])
  BY DEF SlotInv, QueuePlaces
<1>4. \A i \in DOMAIN waiters : waiters[i] \in Tasks /\ job[waiters[i]] = "waiting"
  BY DEF SlotInv, QueuePlaces
<1>5. CASE JobCancelled(t)
  <2>1. /\ job' = [job EXCEPT ![t] = "none"] /\ job[t] = "start"
        /\ UNCHANGED <<waiters, freeSlots, slot, thread>>
    BY <1>5 DEF JobCancelled, Due, Become, threadVars
  <2>2. QueuePlaces'
    BY <1>1, <1>3, <1>4, <2>1 DEF SlotInv, QueuePlaces, Accepted
  <2>3. ThreadsAwaited' /\ SlotsDivided' /\ SlotExclusive'
    BY <1>1, <2>1 DEF SlotInv, ThreadsAwaited, SlotsDivided, Holds, SlotExclusive, Alive
  <2> QED
    BY <1>1, <1>2, <2>2, <2>3 DEF SlotInv
<1>6. CASE JobWaits(t)
  <2>1. /\ job' = [job EXCEPT ![t] = "waiting"] /\ job[t] \in {"start", "woken"}
        /\ UNCHANGED <<freeSlots, slot, thread>> /\ waiters' = Append(waiters, t)
    BY <1>6 DEF JobWaits, AsksForSlot, Due, Become, threadVars
  <2>2. \A i \in DOMAIN waiters' : \/ i = Len(waiters) + 1 /\ waiters'[i] = t
                                   \/ i \in DOMAIN waiters /\ waiters'[i] = waiters[i]
    BY <2>1
  <2>3. \A i \in DOMAIN waiters : waiters[i] # t
    BY <1>4, <2>1
  <2>4. Accepted(t)
    BY <2>1 DEF SlotInv, QueuePlaces
  <2>5. \A i \in DOMAIN waiters' : job'[waiters'[i]] = "waiting"
    BY <1>4, <2>1, <2>2
  <2>6. \A i, j \in DOMAIN waiters' : waiters'[i] = waiters'[j] => i = j
    BY <2>2, <2>3 DEF SlotInv, QueuePlaces
  <2>7. \A i \in DOMAIN queue' : job'[queue'[i]] = "none" /\ Accepted(queue[i])'
    BY <1>1, <1>3, <2>1 DEF SlotInv, QueuePlaces, Accepted
  <2>8. QueuePlaces'
    BY <1>1, <2>1, <2>4, <2>5, <2>6, <2>7 DEF SlotInv, QueuePlaces, Accepted
  <2>9. ThreadsAwaited' /\ SlotsDivided' /\ SlotExclusive'
    BY <1>1, <2>1 DEF SlotInv, ThreadsAwaited, SlotsDivided, Holds, SlotExclusive, Alive
  <2> QED
    BY <1>1, <1>2, <2>8, <2>9 DEF SlotInv
<1>7. CASE JobDropped(t) \/ JobFails(t)
  <2>1. PICK s \in freeSlots : PutSlot(s, Tail(ready), Become(job, t, "none"))
    BY <1>7 DEF JobDropped, JobFails
  <2>2. job[t] \in {"start", "woken"} /\ UNCHANGED <<slot, thread>>
    BY <1>7 DEF JobDropped, JobFails, AsksForSlot, Due, threadVars
  <2>3. /\ freeSlots' = freeSlots \cup {s} /\ job'[t] = "none"
        /\ \A u \in Tasks \ {t} : \/ job'[u] = job[u]
                                  \/ job[u] = "waiting" /\ job'[u] = "woken"
        /\ QueuePlaces'
    BY <1>1, <2>1, <2>2, PutSlotWakes DEF SlotInv
  <2>4. ThreadsAwaited' /\ SlotsDivided' /\ SlotExclusive'
    BY <1>1, <2>2, <2>3
       DEF SlotInv, ThreadsAwaited, SlotsDivided, Holds, SlotExclusive, Alive
  <2> QED
    BY <1>1, <1>2, <2>3, <2>4 DEF SlotInv
<1>8. CASE JobRuns(t)
  <2>1. PICK s \in freeSlots : freeSlots' = freeSlots \ {s} /\ slot' = [slot EXCEPT ![t] = s]
    BY <1>8 DEF JobRuns, TakeSlot, Become
  <2>2. /\ job' = [job EXCEPT ![t] = "inThread"] /\ thread' = [thread EXCEPT ![t] = "get"]
        /\ job[t] \in {"start", "woken"} /\ waiters' = waiters
    BY <1>8 DEF JobRuns, AsksForSlot, Due, Become, Goto
  <2>3. QueuePlaces'
    BY <1>1, <1>3, <1>4, <2>2 DEF SlotInv, QueuePlaces, Accepted
  <2>4. ThreadsAwaited'
    BY <1>1, <2>2 DEF SlotInv, ThreadsAwaited
  <2>5. \A u \in Tasks : Holds(u) => slot[u] # s
    BY DEF SlotInv, SlotsDivided
  <2>6. SlotsDivided'
    BY <2>1, <2>2, <2>5 DEF SlotInv, SlotsDivided, Holds
  <2>7. \A u \in Tasks : Alive(u) => Holds(u)
    BY <1>1 DEF SlotInv, ThreadsAwaited, Alive, Holds, StorePC, FilePC
  <2>8. SlotExclusive'
    BY <2>1, <2>2, <2>5, <2>7 DEF SlotInv, SlotExclusive, Alive
  <2> QED
    BY <1>1, <1>2, <2>3, <2>4, <2>6, <2>8 DEF SlotInv
<1>9. CASE JobFinishes(t)
  <2>1. /\ PutSlot(slot[t], Tail(ready), Become(job, t, "none"))
        /\ slot' = [slot EXCEPT ![t] = NoSlot] /\ thread' = thread /\ job[t] = "finish"
    BY <1>9 DEF JobFinishes, Due, Become, threadVars
  <2>2. /\ freeSlots' = freeSlots \cup {slot[t]} /\ job'[t] = "none"
        /\ \A u \in Tasks \ {t} : \/ job'[u] = job[u]
                                  \/ job[u] = "waiting" /\ job'[u] = "woken"
        /\ QueuePlaces'
    BY <1>1, <2>1, PutSlotWakes DEF SlotInv
  <2>3. thread[t] = "none"
    BY <2>1 DEF SlotInv, JobHasSlot
  <2>4. ThreadsAwaited'
    BY <1>1, <2>1, <2>2, <2>3 DEF SlotInv, ThreadsAwaited
  <2>5. SlotsDivided'
    BY <2>1, <2>2 DEF SlotInv, SlotsDivided, Holds
  <2>6. SlotExclusive'
    BY <2>1, <2>3 DEF SlotInv, SlotExclusive, Alive, StorePC, FilePC
  <2> QED
    BY <1>1, <1>2, <2>2, <2>4, <2>5, <2>6 DEF SlotInv
<1> QED
  BY <1>5, <1>6, <1>7, <1>8, <1>9 DEF JobStep

\* The threads: only a live one goes on, and one that returns gives up its place.
LEMMA SlotThreads ==
  ASSUME TypeOK, SlotInv, NEW t \in Tasks,
         \/ WorkerStep(t)
         \/ StoreFails(t) /\ UNCHANGED runnerVars
  PROVE  SlotInv'
<1> USE SlotTypes
<1>1. CASE (ThreadStep(t) \/ StoreFails(t)) /\ UNCHANGED runnerVars
  <2>1. UNCHANGED <<proc, req, queue, job, waiters, freeSlots, slot>>
    BY <1>1 DEF runnerVars, schedVars
  <2>2. JobHasSlot'
    BY <1>1, ThreadKeepsJobs DEF SlotInv
  <2>3. thread[t] \in StorePC \cup FilePC /\ \A u \in Tasks \ {t} : thread'[u] = thread[u]
    BY <1>1 DEF ThreadStep, Get, MarkRunning, CheckUpload, PrepareWav, Infer, MarkError,
       Final, CleanupTmp, StoreGone, StoreFails, AtStore, StorePC, FilePC, Goto
  <2>4. JobsOnlyUp' /\ QueuePlaces' /\ SlotsDivided'
    BY <2>1 DEF SlotInv, JobsOnlyUp, QueuePlaces, Accepted, SlotsDivided, Holds
  <2>5. ThreadsAwaited' /\ SlotExclusive'
    BY <2>1, <2>3 DEF SlotInv, ThreadsAwaited, SlotExclusive, Alive, StorePC, FilePC
  <2> QED
    BY <2>2, <2>4, <2>5 DEF SlotInv
<1>2. CASE ThreadReturns(t)
  <2>1. /\ UNCHANGED <<proc, req, queue, waiters, freeSlots>>
        /\ thread[t] = "returned" /\ thread' = [thread EXCEPT ![t] = "none"]
    BY <1>2 DEF ThreadReturns, Goto
  <2>2. JobHasSlot'
    BY <1>2, JobKeepsSlot DEF SlotInv
  <2>3. \A i \in DOMAIN queue : queue[i] \in Tasks
    OBVIOUS
  <2>4. \A i \in DOMAIN waiters : waiters[i] \in Tasks
    OBVIOUS
  <2>5. CASE job[t] = "inThread"
    <3>1. job' = [job EXCEPT ![t] = "finish"] /\ slot' = slot
      BY <1>2, <2>5 DEF ThreadReturns, Become
    <3>2. JobsOnlyUp' /\ QueuePlaces'
      BY <2>1, <2>3, <2>4, <2>5, <3>1 DEF SlotInv, JobsOnlyUp, QueuePlaces, Accepted
    <3>3. ThreadsAwaited' /\ SlotsDivided' /\ SlotExclusive'
      BY <2>1, <2>5, <3>1
         DEF SlotInv, ThreadsAwaited, SlotsDivided, Holds, SlotExclusive, Alive, StorePC, FilePC
    <3> QED
      BY <2>2, <3>2, <3>3 DEF SlotInv
  <2>6. CASE job[t] # "inThread"
    <3>1. job' = job /\ slot' = [slot EXCEPT ![t] = NoSlot]
      BY <1>2, <2>6 DEF ThreadReturns, Become
    <3>2. job[t] # "finish"
      BY <2>1 DEF SlotInv, JobHasSlot
    <3>3. JobsOnlyUp' /\ QueuePlaces'
      BY <2>1, <3>1 DEF SlotInv, JobsOnlyUp, QueuePlaces, Accepted
    <3>4. ThreadsAwaited' /\ SlotsDivided' /\ SlotExclusive'
      BY <2>1, <2>6, <3>1, <3>2
         DEF SlotInv, ThreadsAwaited, SlotsDivided, Holds, SlotExclusive, Alive, StorePC, FilePC
    <3> QED
      BY <2>2, <3>3, <3>4 DEF SlotInv
  <2> QED
    BY <2>5, <2>6
<1> QED
  BY <1>1, <1>2 DEF WorkerStep

\* How a process starts, serves, stops and ends.
LEMMA SlotProcess ==
  ASSUME TypeOK, RetryInv, SlotInv, ProcessStep \/ Serve \/ StopClose
  PROVE  SlotInv'
<1>1. CASE Stop
  <2>1. /\ \A t \in Tasks : job'[t] = "none"
        /\ queue' = <<>> /\ waiters' = <<>> /\ proc' # "up"
    BY <1>1 DEF Stop, AbandonJobs
  <2>2. \A t \in Tasks : GoneOrKept(t)
    BY <1>1 DEF Stop, GoneOrKept
  <2>3. proc' # "up" \/ \A t \in Tasks : thread'[t] = "none"
    BY <2>1
  <2> QED
    BY <2>1, <2>2, <2>3, SlotNoJobs
<1>2. CASE Exit \/ Crash
  <2>1. /\ \A t \in Tasks : job'[t] = "none" /\ thread'[t] = "none"
        /\ queue' = <<>> /\ waiters' = <<>>
    BY <1>2 DEF Exit, Crash, LoseMemory, AbandonJobs
  <2>2. \A t \in Tasks : GoneOrKept(t)
    BY <2>1 DEF GoneOrKept
  <2>3. proc' # "up" \/ \A t \in Tasks : thread'[t] = "none"
    BY <2>1
  <2> QED
    BY <2>1, <2>2, <2>3, SlotNoJobs
<1>3. CASE Start \/ Serve \/ StopClose
  <2>1. UNCHANGED <<req, queue, job, waiters, freeSlots, slot, thread>>
    BY <1>3 DEF Start, Serve, StopClose, threadVars, schedVars
  <2>2. \/ proc \in {"down", "restoring"} /\ \A t \in Tasks : thread[t] = "none"
        \/ proc = "stopping" /\ proc' = "stopped"
    BY <1>3 DEF Start, Serve, StopClose, InSegment, RetryInv, SegmentsInPhase, RestorePC
  <2>3. \A t \in Tasks : job[t] = "none"
    BY <2>2 DEF SlotInv, JobsOnlyUp
  <2>4. JobHasSlot' /\ JobsOnlyUp' /\ ThreadsAwaited'
    BY <2>1, <2>2, <2>3 DEF JobHasSlot, JobsOnlyUp, ThreadsAwaited
  <2>5. QueuePlaces' /\ SlotsDivided' /\ SlotExclusive'
    BY <2>1 DEF SlotInv, QueuePlaces, Accepted, SlotsDivided, Holds, SlotExclusive, Alive
  <2> QED
    BY <2>4, <2>5 DEF SlotInv
<1> QED
  BY <1>1, <1>2, <1>3 DEF ProcessStep

\* Every step keeps the slots divided.
LEMMA SlotStep ==
  ASSUME TypeOK, RetryInv, SlotInv, [Next]_vars
  PROVE  SlotInv'
<1>1. CASE UNCHANGED vars
  BY <1>1, SlotFrame DEF vars, threadVars, runnerVars, schedVars, requestVars, Accepted
<1>2. ASSUME NEW t \in Tasks,
             \/ Post(t) \/ WriteUpload(t) \/ SubmitReject(t) \/ SubmitBegin(t) \/ Place(t)
             \/ SubmitFails(t) \/ Delete(t) \/ Expire(t) \/ LoseUpload(t)
      PROVE  SlotInv'
  <2>1. UNCHANGED <<proc, queue, job, waiters, freeSlots, slot, thread>>
    BY <1>2 DEF Post, WriteUpload, SubmitReject, SubmitBegin, Place, SubmitFails, Delete,
       Expire, LoseUpload, threadVars, schedVars, runnerVars
  <2>2. \A u \in Tasks : Accepted(u) => Accepted(u)'
    BY <1>2, SlotTypes DEF Post, WriteUpload, SubmitReject, SubmitBegin, Place,
       SubmitFails, Delete, Expire, LoseUpload, runnerVars, Become, Accepted
  <2> QED
    BY <2>1, <2>2, SlotFrame
<1>3. ASSUME NEW t \in Tasks,
             \/ DeleteTmp(t) \/ RestoreInterrupted(t) \/ RestoreBump(t) \/ RestoreSettle(t)
             \/ RestoreCleanTmp(t) \/ RestoreMissing(t)
      PROVE  SlotInv'
  <2>1. UNCHANGED <<proc, req, queue, job, waiters, freeSlots, slot, thread>>
    BY <1>3 DEF DeleteTmp, RestoreInterrupted, RestoreBump, RestoreSettle, RestoreCleanTmp,
       RestoreMissing, ContinueAt, threadVars, schedVars
  <2> QED
    BY <2>1, SlotFrame DEF Accepted
<1>4. CASE \/ Purge \/ PurgeQueued \/ PurgeFinished \/ PurgeTmp \/ PurgeFails \/ TtlFails
           \/ RestoreNextList \/ StopClean \/ ChangeToken
  <2>1. UNCHANGED <<proc, req, queue, job, waiters, freeSlots, slot, thread>>
    BY <1>4 DEF Purge, PurgeQueued, PurgeFinished, PurgeTmp, PurgeFails, TtlFails,
       RestoreNextList, StopClean, ChangeToken, ContinueAt, threadVars, schedVars, runnerVars
  <2> QED
    BY <2>1, SlotFrame DEF Accepted
<1> QED
  BY <1>1, <1>2, <1>3, <1>4, SlotEnqueues, SlotDispatch, SlotJobs, SlotThreads, SlotProcess
     DEF Next, AnswerStep, SegmentStep, ProcessStep, StoreFault

\* There are no coroutines and no threads at first.
LEMMA SlotInit ==
  ASSUME Init
  PROVE  SlotInv
  BY DEF Init, PipelineThreadInit, SlotInv, JobHasSlot, JobsOnlyUp, QueuePlaces,
     ThreadsAwaited, SlotsDivided, Holds, SlotExclusive, Alive, StorePC, FilePC

\* No two threads ever work with one slot, that is with one replica of the engines:
\* a slot leaves _free_slots for one coroutine, the coroutine keeps it until its thread
\* is through, and after a stop, when the pool is full again beside threads that go on,
\* no coroutine is left to take from it.
THEOREM SlotsExclusive == Spec => []SlotExclusive
<1>1. Init => RetryInv /\ SlotInv
  BY RetryInit, SlotInit
<1>2. TypeOK /\ RetryInv /\ SlotInv /\ [Next]_vars => (RetryInv /\ SlotInv)'
  BY RetryStep, SlotStep
<1>3. SlotInv => SlotExclusive
  BY DEF SlotInv
<1> QED
  BY <1>1, <1>2, <1>3, TypeCorrect, PTL DEF Spec
=============================================================================
