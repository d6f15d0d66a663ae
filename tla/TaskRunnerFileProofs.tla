------------------------ MODULE TaskRunnerFileProofs ------------------------
(***************************************************************************)
(* That the upload of a task is kept for as long as it can be needed, and  *)
(* that no directory is left without someone to remove it; and, at the     *)
(* end, that all of it holds with the few threads the executor really has. *)
(***************************************************************************)
EXTENDS PooledRunner, TaskRunnerQueueProofs

\* The variables that FileInv is about, and their types.
LEMMA FileTypes ==
  ASSUME TypeOK
  PROVE  /\ NoTask \notin Tasks /\ rows \in [Tasks -> TaskRow]
         /\ tmp \in [Tasks -> TmpState] /\ deaths \in Nat
         /\ thread \in [Tasks -> ThreadPC] /\ req \in [Tasks -> ReqPC]
         /\ job \in [Tasks -> JobPC] /\ queue \in Seq(Tasks)
         /\ loop.todo \in SUBSET Tasks /\ loop.cur \in Tasks \cup {NoTask}
  BY RunnerAssumption
     DEF TypeOK, TaskStoreTypeOK, UploadFilesTypeOK, PipelineThreadTypeOK, RunnerTypeOK, LoopState

\* Who removes the directory of t.
Removes(t) ==
  \/ CleanupTmp(t) /\ UNCHANGED runnerVars
  \/ DeleteTmp(t)
  \/ PurgeTmp /\ t \notin loop.todo
  \/ StopClean /\ t \in loop.todo
  \/ RestoreCleanTmp(t)
  \/ LoseUpload(t)

\* What may happen to the directory of t.
LEMMA TmpMoves ==
  ASSUME TypeOK, [Next]_vars, NEW t \in Tasks
  PROVE  \/ tmp'[t] = tmp[t]
         \/ SubmitBegin(t) /\ tmp'[t] = WithTmpDir(t)
         \/ Place(t) /\ tmp'[t] = "upload"
         \/ PrepareWav(t) /\ UNCHANGED runnerVars /\ tmp'[t] = WithTmpDir(t)
         \/ Removes(t) /\ tmp'[t] = "none"
<1> USE FileTypes
<1>1. CASE UNCHANGED vars
  BY <1>1 DEF vars, fileVars
<1>2. ASSUME NEW u \in Tasks,
             \/ Post(u) \/ WriteUpload(u) \/ SubmitReject(u) \/ SubmitEnd(u)
             \/ SubmitFails(u) \/ JobStep(u) \/ JobFails(u) \/ ThreadReturns(u)
             \/ Delete(u) \/ Expire(u)
      PROVE  tmp' = tmp
  BY <1>2 DEF Post, WriteUpload, SubmitReject, SubmitEnd, SubmitFails, JobStep,
     JobCancelled, JobWaits, JobDropped, JobRuns, JobFinishes, JobFails, ThreadReturns, Delete,
     Expire, fileVars
<1>3. ASSUME NEW u \in Tasks,
             \/ Get(u) \/ MarkRunning(u) \/ CheckUpload(u) \/ Infer(u) \/ MarkError(u)
             \/ Final(u) \/ StoreGone(u) \/ StoreFails(u)
             \/ RestoreInterrupted(u) \/ RestoreBump(u) \/ RestoreSettle(u)
             \/ RestoreMissing(u) \/ RestoreEnqueue(u)
      PROVE  tmp' = tmp
  BY <1>3 DEF Get, MarkRunning, CheckUpload, Infer, MarkError, Final, StoreGone, StoreFails,
     RestoreInterrupted, RestoreBump, RestoreSettle, RestoreMissing, RestoreEnqueue, fileVars
<1>4. CASE \/ Dispatch \/ Purge \/ PurgeQueued \/ PurgeFinished \/ PurgeFails \/ TtlFails
           \/ ChangeToken \/ RestoreNextList \/ Start \/ Serve \/ StopClose
           \/ Stop \/ Exit \/ Crash
  <2>1. tmp' = tmp
    BY <1>4 DEF Dispatch, Purge, PurgeQueued, PurgeFinished, PurgeFails, TtlFails, ChangeToken,
       RestoreNextList, Start, Serve, StopClose, Stop, Exit, Crash, LoseMemory, fileVars
  <2> QED
    BY <2>1
<1>5. ASSUME NEW u \in Tasks, SubmitBegin(u) \/ Place(u)
      PROVE  \/ tmp'[t] = tmp[t]
             \/ SubmitBegin(t) /\ tmp'[t] = WithTmpDir(t)
             \/ Place(t) /\ tmp'[t] = "upload"
  BY <1>5 DEF SubmitBegin, Place, create_tmp, place_upload, fileVars
<1>6. ASSUME NEW u \in Tasks, PrepareWav(u) \/ CleanupTmp(u), UNCHANGED runnerVars
      PROVE  \/ tmp'[t] = tmp[t]
             \/ PrepareWav(t) /\ UNCHANGED runnerVars /\ tmp'[t] = WithTmpDir(t)
             \/ Removes(t) /\ tmp'[t] = "none"
  BY <1>6 DEF PrepareWav, CleanupTmp, create_tmp, cleanup_tmp, Removes
<1>7. ASSUME NEW u \in Tasks, DeleteTmp(u) \/ RestoreCleanTmp(u) \/ LoseUpload(u)
      PROVE  tmp'[t] = tmp[t] \/ (Removes(t) /\ tmp'[t] = "none")
  BY <1>7 DEF DeleteTmp, RestoreCleanTmp, LoseUpload, cleanup_tmp, Removes
<1>8. CASE PurgeTmp \/ StopClean
  BY <1>8 DEF PurgeTmp, cleanup_tmp_except, StopClean, Removes
<1> QED
  BY <1>1, <1>2, <1>3, <1>4, <1>5, <1>6, <1>7, <1>8
     DEF Next, AnswerStep, WorkerStep, ThreadStep, SegmentStep, ProcessStep, StoreFault

----------------------------------------------------------------------------
(* Threads and coroutines, and what they know of their rows.               *)

\* A thread belongs to a task that was accepted.
LEMMA ThreadsAcceptedStep ==
  ASSUME TypeOK, RetryInv, SlotInv, ThreadsAccepted, [Next]_vars
  PROVE  ThreadsAccepted'
<1> USE FileTypes
<1> SUFFICES ASSUME NEW t \in Tasks, thread'[t] # "none"
             PROVE  Accepted(t)'
  BY DEF ThreadsAccepted
<1>1. thread[t] # "none" \/ JobRuns(t)
  <2>1. ThreadStep(t) \/ StoreFails(t) => thread[t] # "none"
    BY DEF ThreadStep, Get, MarkRunning, CheckUpload, PrepareWav, Infer, MarkError, Final,
       CleanupTmp, StoreGone, StoreFails, AtStore, StorePC
  <2>2. ThreadReturns(t) => thread[t] # "none"
    BY DEF ThreadReturns
  <2>3. Stop \/ Exit \/ Crash => thread[t] # "none"
    BY DEF Stop, Exit, Crash, LoseMemory
  <2> QED
    BY <2>1, <2>2, <2>3, ThreadMoves
<1>2. JobRuns(t) => Accepted(t)
  BY DEF JobRuns, AsksForSlot, Due, SlotInv, QueuePlaces
<1> QED
  BY <1>1, <1>2, AcceptedStays DEF ThreadsAccepted, RetryInv

\* A row that is queued or gone stays so, unless its thread starts the work or the restore
\* misses its upload.
LEMMA NotBegunStays ==
  ASSUME TypeOK, RetryInv, RowInv, [Next]_vars, NEW t \in Tasks,
         rows[t].status \in {"queued", "none"}
  PROVE  rows'[t].status \in {"queued", "none"} \/ MarkRunning(t) \/ RestoreMissing(t)
  BY RowMoves DEF Finished

\* The dispatcher makes the coroutines, of the entries of _queue.
LEMMA NewlyUnstarted ==
  ASSUME TypeOK, SlotInv, [Next]_vars, NEW t \in Tasks, job[t] \notin Unstarted,
         job'[t] \in Unstarted
  PROVE  t \in Elements(queue)
<1> USE FileTypes DEF Unstarted
<1>1. CASE Dispatch
  BY <1>1 DEF Dispatch, Elements
<1>2. ASSUME NEW u \in Tasks, JobCancelled(u) \/ JobWaits(u) \/ JobRuns(u) \/ ThreadReturns(u)
      PROVE  FALSE
  BY <1>2 DEF JobCancelled, JobWaits, JobRuns, ThreadReturns, AsksForSlot, Due, Become
<1>3. ASSUME NEW u \in Tasks, JobDropped(u) \/ JobFails(u) \/ JobFinishes(u)
      PROVE  FALSE
  <2>1. /\ \E s : PutSlot(s, Tail(ready), Become(job, u, "none"))
        /\ UNCHANGED <<queue, req>>
    BY <1>3 DEF JobDropped, JobFails, JobFinishes
  <2>2. job[u] # "waiting"
    BY <1>3, DueIsHead DEF JobStep
  <2>3. /\ job'[u] = "none"
        /\ \A v \in Tasks \ {u} : \/ job'[v] = job[v]
                                  \/ job[v] = "waiting" /\ job'[v] = "woken"
    BY <2>1, <2>2, PutSlotWakes DEF SlotInv
  <2> QED
    BY <2>3
<1>4. ~(Stop \/ Exit \/ Crash)
  BY SchedEnds
<1> QED
  BY <1>1, <1>2, <1>3, <1>4, SchedMoves DEF JobMove, JobStep

\* What has been enqueued has not been run since.
LEMMA PendingStep ==
  ASSUME TypeOK, RetryInv, SlotInv, RowInv, QueueInv, PendingQueued, [Next]_vars
  PROVE  PendingQueued'
<1> USE FileTypes
<1>1. ASSUME proc' # "up", loop'.at # "restoreEnqueue"
      PROVE  queue' = <<>>
  <2>1. CASE Stop \/ Exit \/ Crash
    BY <2>1 DEF Stop, Exit, Crash, LoseMemory, AbandonJobs
  <2>2. CASE Dispatch
    BY <2>2 DEF Dispatch
  <2>3. ASSUME NEW u \in Tasks, SubmitEnd(u) \/ RestoreEnqueue(u)
        PROVE  FALSE
    BY <1>1, <2>3 DEF SubmitEnd, RestoreEnqueue, Scheduled, At
  <2>4. ASSUME queue' = queue, ~(Stop \/ Exit \/ Crash)
        PROVE  queue' = <<>>
    <3>1. proc # "up"
      BY <1>1, <2>4, RequestMoves DEF RetryInv, Post, AnswerStep, WriteUpload, SubmitReject,
         SubmitBegin, Place, SubmitEnd, SubmitFails
    <3>2. loop.at # "restoreEnqueue"
      <4>1. CASE UNCHANGED <<loop, proc>>
        BY <1>1, <4>1
      <4>2. ASSUME loop.at = "restoreEnqueue", SegmentStep
            PROVE  FALSE
        BY <1>1, <2>3, <4>2 DEF SegmentStep, DeleteTmp, RestoreInterrupted, RestoreBump,
           RestoreSettle, RestoreCleanTmp, RestoreMissing, Restoring, InSegment, PurgeQueued,
           PurgeFinished, PurgeTmp, RestoreNextList, Serve, StopClean, StopClose
      <4>3. ASSUME loop.at = "restoreEnqueue",
                   Start \/ Purge \/ PurgeFails \/ \E u \in Tasks : Delete(u)
            PROVE  FALSE
        BY <4>3 DEF Start, Purge, PurgeFails, Delete, Scheduled, Idle, At, InSegment,
           RetryInv, SegmentsInPhase, RestorePC
      <4> QED
        BY <2>4, <4>1, <4>2, <4>3, LoopMoves DEF ProcessStep
    <3> QED
      BY <2>4, <3>1, <3>2 DEF PendingQueued
  <2> QED
    BY <2>1, <2>2, <2>3, <2>4, QueueMoves
<1>2. ASSUME NEW t \in Tasks, t \in Elements(queue') \/ job'[t] \in Unstarted
      PROVE  rows'[t].status \in {"queued", "none"}
  <2>1. CASE t \in Elements(queue) \/ job[t] \in Unstarted
    <3>1. rows[t].status \in {"queued", "none"}
      BY <2>1 DEF PendingQueued, Unstarted
    <3>2. ~MarkRunning(t)
      <4>1. SUFFICES ASSUME thread[t] = "mark"
                     PROVE  FALSE
        BY DEF MarkRunning, AtStore
      <4>2. CASE proc = "up"
        <5>1. job[t] = "inThread"
          BY <4>1, <4>2 DEF SlotInv, ThreadsAwaited
        <5> QED
          BY <2>1, <5>1 DEF Elements, SlotInv, QueuePlaces, Unstarted
      <4>3. CASE proc # "up"
        <5>1. job[t] = "none"
          BY <4>3 DEF SlotInv, JobsOnlyUp
        <5>2. loop.at # "restoreEnqueue"
          BY <4>1 DEF RetryInv, SegmentsInPhase, RestorePC
        <5>3. queue = <<>>
          BY <4>3, <5>2 DEF PendingQueued
        <5> QED
          BY <2>1, <5>1, <5>3 DEF Elements, Unstarted
      <4> QED
        BY <4>2, <4>3
    <3>3. ~RestoreMissing(t)
      <4> SUFFICES ASSUME loop.at = "restoreQueued"
                   PROVE  FALSE
        BY DEF RestoreMissing, Restoring, InSegment
      <4>1. proc # "up"
        BY DEF RetryInv, SegmentsInPhase, RestorePC
      <4>2. queue = <<>> /\ job[t] = "none"
        BY <4>1 DEF PendingQueued, SlotInv, JobsOnlyUp
      <4> QED
        BY <2>1, <4>2 DEF Elements, Unstarted
    <3> QED
      BY <3>1, <3>2, <3>3, NotBegunStays
  <2>2. CASE ~(t \in Elements(queue) \/ job[t] \in Unstarted)
    <3>1. CASE job'[t] \in Unstarted
      BY <2>2, <3>1, NewlyUnstarted DEF Unstarted
    <3>2. CASE t \in Elements(queue')
      <4>1. PICK u \in Tasks : (SubmitEnd(u) \/ RestoreEnqueue(u)) /\ queue' = Append(queue, u)
        <5>1. Dispatch \/ Stop \/ Exit \/ Crash => queue' = <<>>
          BY DEF Dispatch, Stop, Exit, Crash, LoseMemory, AbandonJobs
        <5> QED
          BY <2>2, <3>2, <5>1, QueueMoves DEF Elements
      <4>2. u = t
        BY <2>2, <3>2, <4>1, ElementsAppend
      <4>3. SubmitEnd(t) => rows'[t].status = "queued"
        BY Effects DEF SubmitEnd, TypeOK, Touched
      <4>4. RestoreEnqueue(t) => rows' = rows /\ rows[t].status = "queued"
        BY DEF RestoreEnqueue, InSegment, OldestOf, storeVars, RowInv, RestoreClears, QueuedListPC
      <4> QED
        BY <4>1, <4>2, <4>3, <4>4
    <3> QED
      BY <1>2, <3>1, <3>2
  <2> QED
    BY <2>1, <2>2
<1> QED
  BY <1>1, <1>2 DEF PendingQueued, Unstarted

\* A row that is finished or gone stays so, once its task was accepted.
LEMMA EndedStays ==
  ASSUME TypeOK, RetryInv, RowInv, [Next]_vars, NEW t \in Tasks, Accepted(t),
         rows[t].status \in Finished \cup {"none"}
  PROVE  rows'[t].status \in Finished \cup {"none"}
  BY RowMoves DEF Finished

\* A thread looks for its row before its work and after it, and knows what it may find.
LEMMA ThreadKnowsStep ==
  ASSUME TypeOK, RetryInv, SlotInv, RowInv, ThreadsAccepted, PendingQueued, ThreadKnows,
         [Next]_vars
  PROVE  ThreadKnows'
<1> USE FileTypes
<1> SUFFICES ASSUME NEW t \in Tasks
             PROVE  /\ thread'[t] \in {"get", "mark"} => rows'[t].status \in {"queued", "none"}
                    /\ thread'[t] = "cleanup" => rows'[t].status \in Finished \cup {"none"}
                    /\ thread'[t] = "final" /\ t \notin abandoned'
                         => rows'[t].status \in Finished \cup {"none"}
  BY DEF ThreadKnows
<1>1. CASE thread'[t] = thread[t] /\ thread[t] # "none"
  <2>1. abandoned \subseteq abandoned'
    BY <1>1, AbandonedGrows DEF Exit, Crash, LoseMemory
  <2>2. ~RestoreMissing(t)
    BY <1>1 DEF RestoreMissing, Restoring, InSegment, RetryInv, SegmentsInPhase, RestorePC
  <2>3. ~MarkRunning(t)
    BY <1>1 DEF MarkRunning, AtStore, Goto
  <2>4. Accepted(t)
    BY <1>1 DEF ThreadsAccepted
  <2>5. thread[t] \in {"get", "mark"} => rows'[t].status \in {"queued", "none"}
    BY <2>2, <2>3, NotBegunStays DEF ThreadKnows
  <2>6. thread[t] = "cleanup" => rows'[t].status \in Finished \cup {"none"}
    BY <2>4, EndedStays DEF ThreadKnows
  <2>7. thread[t] = "final" /\ t \notin abandoned'
          => rows'[t].status \in Finished \cup {"none"}
    BY <2>1, <2>4, EndedStays DEF ThreadKnows
  <2> QED
    BY <1>1, <2>5, <2>6, <2>7
<1>2. CASE thread'[t] = "none" \/ ThreadReturns(t)
  BY <1>2 DEF ThreadReturns, Goto
<1>3. CASE JobRuns(t)
  <2>1. job[t] \in Unstarted /\ rows' = rows /\ thread'[t] = "get"
    BY <1>3 DEF JobRuns, AsksForSlot, Due, Unstarted, Goto, storeVars
  <2> QED
    BY <2>1 DEF PendingQueued, Unstarted
<1>4. CASE Get(t) \/ Final(t)
  BY <1>4 DEF Get, Final, AtStore, Goto, TmpIsSpent, storeVars, ThreadKnows
<1>5. CASE MarkRunning(t) \/ CheckUpload(t) \/ PrepareWav(t) \/ CleanupTmp(t) \/ StoreGone(t)
  BY <1>5 DEF MarkRunning, CheckUpload, PrepareWav, CleanupTmp, StoreGone, Goto
<1>6. CASE Infer(t) \/ MarkError(t)
  <2>1. HasRow(t)
    BY <1>6 DEF Infer, MarkError, AtStore, RowInv, WorkingIsRunning, Working, HasRow
  <2>2. \/ thread'[t] = "broken"
        \/ thread'[t] = "final" /\ \E st \in Finished : Touched(t, st, rows[t].attempts)
    BY <1>6, <2>1, Effects DEF Infer, MarkError, Goto, Finished, TypeOK
  <2> QED
    BY <2>2 DEF Touched
<1>7. CASE StoreFails(t)
  BY <1>7 DEF StoreFails, AfterFailure, Goto
<1>8. thread'[t] = thread[t] \/ thread'[t] = "none" \/ ~(Stop \/ Exit \/ Crash)
  BY DEF Stop, Exit, Crash, LoseMemory
<1> QED
  BY <1>1, <1>2, <1>3, <1>4, <1>5, <1>6, <1>7, <1>8, ThreadMoves DEF ThreadStep

----------------------------------------------------------------------------
(* What a segment under way knows.                                         *)

\* _submit_lock is taken between two segments.
LEMMA LockTaken ==
  ASSUME TypeOK, RetryInv, [Next]_vars, SubmitLocked'
  PROVE  SubmitLocked \/ (loop = Idle /\ proc = "up")
<1> USE FileTypes
<1>1. ASSUME NEW u \in Tasks,
             \/ Post(u) \/ WriteUpload(u) \/ SubmitReject(u) \/ SubmitBegin(u) \/ SubmitEnd(u)
             \/ SubmitFails(u)
      PROVE  loop = Idle /\ proc = "up"
  BY <1>1 DEF Post, WriteUpload, SubmitReject, SubmitBegin, SubmitEnd, SubmitFails, Scheduled
<1>2. ASSUME NEW u \in Tasks, Place(u)
      PROVE  SubmitLocked
  BY <1>2 DEF Place, SubmitLocked
<1>3. CASE req' = req
  BY <1>3 DEF SubmitLocked
<1>4. CASE Stop \/ Exit \/ Crash
  BY <1>4 DEF Stop, Exit, Crash, LoseMemory, InFlight, SubmitLocked
<1> QED
  BY <1>1, <1>2, <1>3, <1>4, RequestMoves DEF AnswerStep, RetryInv

\* How a purge gets to be under way.
LEMMA LoopInPurge ==
  ASSUME [Next]_vars, loop'.at \in PurgePC
  PROVE  UNCHANGED <<loop, proc>> \/ Purge \/ PurgeQueued \/ PurgeFinished
<1> USE DEF PurgePC
<1>1. ASSUME NEW u \in Tasks,
             \/ DeleteTmp(u) \/ RestoreInterrupted(u) \/ RestoreBump(u) \/ RestoreSettle(u)
             \/ RestoreCleanTmp(u) \/ RestoreMissing(u) \/ RestoreEnqueue(u) \/ Delete(u)
      PROVE  FALSE
  BY <1>1 DEF DeleteTmp, RestoreInterrupted, RestoreBump, RestoreSettle, RestoreCleanTmp,
     RestoreMissing, RestoreEnqueue, ContinueAt, Delete, At, Idle
<1>2. ASSUME PurgeTmp \/ PurgeFails \/ RestoreNextList \/ Serve \/ StopClean \/ StopClose
             \/ ProcessStep
      PROVE  FALSE
  BY <1>2 DEF PurgeTmp, PurgeFails, RestoreNextList, ContinueAt, Serve, StopClean,
     StopClose, ProcessStep, Start, Stop, Exit, Crash, LoseMemory, At, Idle
<1> QED
  BY <1>1, <1>2, LoopMoves DEF SegmentStep

\* While a purge is under way no request is in submit, and no row becomes queued.
LEMMA PurgeSegments ==
  ASSUME TypeOK, RetryInv, RowInv, SegmentKnows, [Next]_vars, loop'.at \in PurgePC
  PROVE  /\ ~SubmitLocked' /\ "purge" \in Ops
         /\ loop'.at \in {"purgeFinished", "purgeTmp"}
              => \A t \in Tasks : rows'[t].status # "queued"
<1> USE FileTypes DEF PurgePC
<1>1. CASE Purge
  BY <1>1, LockTaken DEF Purge, PurgeMayStart, At, SubmitLocked
<1>2. CASE UNCHANGED <<loop, proc>>
  <2>1. loop # Idle /\ loop.at # "restoreBumped"
    BY <1>2 DEF Idle, At
  <2>2. \A t \in Tasks : rows'[t].status = "queued" => rows[t].status = "queued"
    BY <2>1, RowMoves DEF SubmitEnd, SubmitFails, Scheduled, RestoreSettle, InSegment, Finished
  <2> QED
    BY <1>2, <2>1, <2>2, LockTaken DEF SegmentKnows
<1>3. CASE PurgeQueued
  <2>1. loop.at = "purgeQueued" /\ \A t \in Tasks : rows'[t].status # "queued"
    BY <1>3 DEF PurgeQueued, InSegment, delete_by_statuses, list_tasks, DeleteRows, NoRow
  <2> QED
    BY <2>1, LockTaken DEF SegmentKnows, Idle, At
<1>4. CASE PurgeFinished
  <2>1. /\ loop.at = "purgeFinished"
        /\ \A t \in Tasks : rows'[t].status = rows[t].status \/ rows'[t].status = "none"
    BY <1>4 DEF PurgeFinished, InSegment, delete_by_statuses, list_tasks, DeleteRows, NoRow
  <2> QED
    BY <2>1, LockTaken DEF SegmentKnows, Idle, At
<1> QED
  BY <1>1, <1>2, <1>3, <1>4, LoopInPurge

\* While the restore runs, nobody else touches the files.
LEMMA TmpInRestore ==
  ASSUME TypeOK, RetryInv, LimitReserved, [Next]_vars, NEW t \in Tasks,
         loop.at \in RestorePC
  PROVE  tmp'[t] = tmp[t] \/ RestoreCleanTmp(t)
<1>1. proc = "restoring" /\ thread[t] = "none"
  BY DEF RetryInv, SegmentsInPhase
<1>2. ~(SubmitBegin(t) \/ Place(t) \/ LoseUpload(t))
  BY <1>1 DEF SubmitBegin, Place, LoseUpload, Scheduled, LimitReserved, InFlight
<1>3. ~(PrepareWav(t) \/ CleanupTmp(t))
  BY <1>1 DEF PrepareWav, CleanupTmp
<1>4. ~(DeleteTmp(t) \/ PurgeTmp \/ StopClean)
  BY DEF DeleteTmp, PurgeTmp, StopClean, InSegment, RestorePC
<1> QED
  BY <1>2, <1>3, <1>4, TmpMoves DEF Removes

\* A step that neither begins, nor goes on with, nor ends a segment leaves a finished row
\* alone, and one that is gone, unless it comes between two segments.
LEMMA EndedInSegment ==
  ASSUME TypeOK, RetryInv, RowInv, [Next]_vars, NEW t \in Tasks,
         UNCHANGED loop, loop # Idle
  PROVE  /\ rows[t].status \in Finished => rows'[t].status \in Finished
         /\ Accepted(t) /\ ~HasRow(t) => ~HasRow(t)'
<1>1. ~(Delete(t) \/ Expire(t) \/ PurgeQueued \/ PurgeFinished)
  BY DEF Delete, Expire, Scheduled, PurgeQueued, PurgeFinished, InSegment, At, Idle
<1> QED
  BY <1>1, RowMoves DEF Finished, HasRow

\* stop() cleans the directories of rows that are finished, and stay so.
LEMMA StopSegments ==
  ASSUME TypeOK, RetryInv, RowInv, SegmentKnows, [Next]_vars, loop'.at = "stopClean"
  PROVE  \A t \in loop'.todo : rows'[t].status \in Finished
<1> USE FileTypes
<1>1. CASE UNCHANGED <<loop, proc>>
  <2>1. loop.at = "stopClean" /\ loop # Idle
    BY <1>1 DEF Idle, At
  <2> QED
    BY <1>1, <2>1, EndedInSegment DEF SegmentKnows
<1>2. CASE Stop
  BY <1>2 DEF Stop, At, Idle, RowsToClean, list_tasks, storeVars
<1>3. ASSUME NEW u \in Tasks,
             \/ DeleteTmp(u) \/ RestoreInterrupted(u) \/ RestoreBump(u) \/ RestoreSettle(u)
             \/ RestoreCleanTmp(u) \/ RestoreMissing(u) \/ RestoreEnqueue(u) \/ Delete(u)
      PROVE  FALSE
  BY <1>3 DEF DeleteTmp, RestoreInterrupted, RestoreBump, RestoreSettle, RestoreCleanTmp,
     RestoreMissing, RestoreEnqueue, ContinueAt, Delete, At, Idle
<1>4. ASSUME \/ Purge \/ PurgeQueued \/ PurgeFinished \/ PurgeTmp \/ PurgeFails
             \/ RestoreNextList \/ Serve \/ StopClean \/ StopClose \/ Start \/ Exit \/ Crash
      PROVE  FALSE
  BY <1>4 DEF Purge, PurgeQueued, PurgeFinished, PurgeTmp, PurgeFails, RestoreNextList,
     ContinueAt, Serve, StopClean, StopClose, Start, Exit, Crash, LoseMemory, At, Idle
<1> QED
  BY <1>1, <1>2, <1>3, <1>4, LoopMoves DEF SegmentStep, ProcessStep

\* The task that a segment is about: its row is gone or finished when its directory is
\* removed, its upload is there when its row is queued again.
LEMMA CurrentSegments ==
  ASSUME TypeOK, RetryInv, RowInv, LimitReserved, SegmentKnows, [Next]_vars,
         NEW t \in Tasks, t = loop'.cur
  PROVE  /\ loop'.at = "deleteTmp" => Accepted(t)' /\ ~HasRow(t)'
         /\ loop'.at = "restoreBumped" => UploadExists(t)'
         /\ loop'.at \in {"restoreRunningTmp", "restoreQueuedTmp"}
              => rows'[t].status \in Finished
<1> USE FileTypes
<1>1. CASE UNCHANGED <<loop, proc>>
  <2>1. loop # Idle
    BY <1>1 DEF Idle, At
  <2>2. loop.at = "deleteTmp" => Accepted(t)' /\ ~HasRow(t)'
    BY <1>1, <2>1, EndedInSegment, AcceptedStays DEF SegmentKnows, RetryInv
  <2>3. loop.at = "restoreBumped" => UploadExists(t)'
    BY <1>1, TmpInRestore
       DEF SegmentKnows, UploadExists, RestorePC, RestoreCleanTmp, InSegment
  <2>4. loop.at \in {"restoreRunningTmp", "restoreQueuedTmp"} => rows'[t].status \in Finished
    BY <1>1, <2>1, EndedInSegment DEF SegmentKnows
  <2> QED
    BY <1>1, <2>2, <2>3, <2>4
<1>2. ASSUME NEW u \in Tasks, Delete(u)
      PROVE  Accepted(t)' /\ ~HasRow(t)' /\ loop'.at = "deleteTmp"
  <2>1. t = u /\ HasRow(u) /\ DeleteRows({u}) /\ loop'.at = "deleteTmp"
    BY <1>2 DEF Delete, Deletable, At
  <2>2. Accepted(t)
    BY <2>1 DEF RetryInv, RunsCounted
  <2> QED
    BY <2>1, <2>2, AcceptedStays DEF DeleteRows, NoRow, HasRow, RetryInv
<1>3. ASSUME NEW u \in Tasks, RestoreBump(u)
      PROVE  UploadExists(t)' /\ loop'.at = "restoreBumped"
  BY <1>3 DEF RestoreBump, ContinueAt, At, UploadExists, fileVars
<1>4. ASSUME NEW u \in Tasks, RestoreInterrupted(u) \/ RestoreSettle(u) \/ RestoreMissing(u)
      PROVE  /\ loop'.at \notin {"deleteTmp", "restoreBumped"}
             /\ loop'.at \in {"restoreRunningTmp", "restoreQueuedTmp"}
                  => rows'[t].status \in Finished
  <2>1. CASE RestoreInterrupted(u)
    <3>1. rows[u].status = "running"
      BY <2>1 DEF RestoreInterrupted, Restoring, InSegment, RetryInv, RestoreListed
    <3>2. Touched(u, "error", rows[u].attempts) /\ loop'.cur = u /\ loop'.at = "restoreRunningTmp"
      BY <2>1, <3>1, Effects DEF RestoreInterrupted, ContinueAt, At, HasRow, TypeOK
    <3> QED
      BY <3>2 DEF Touched, Finished
  <2>2. CASE RestoreSettle(u)
    <3>1. rows[u].status = "running"
      BY <2>2 DEF RestoreSettle, InSegment, RowInv, RestoreClears
    <3>2. \/ loop'.at = "restoreRunning"
          \/ /\ Touched(u, "error", rows[u].attempts) /\ loop'.cur = u
             /\ loop'.at = "restoreRunningTmp"
      BY <2>2, <3>1, Effects DEF RestoreSettle, ContinueAt, At, HasRow, TypeOK
    <3> QED
      BY <3>2 DEF Touched, Finished
  <2>3. CASE RestoreMissing(u)
    <3>1. rows[u].status = "queued"
      BY <2>3 DEF RestoreMissing, Restoring, InSegment, RowInv, RestoreClears, QueuedListPC
    <3>2. \/ loop'.at = "restoreQueued"
          \/ /\ Touched(u, "error", rows[u].attempts) /\ loop'.cur = u
             /\ loop'.at = "restoreQueuedTmp"
      BY <2>3, <3>1, Effects DEF RestoreMissing, ContinueAt, At, HasRow, TypeOK
    <3> QED
      BY <3>2 DEF Touched, Finished
  <2> QED
    BY <1>4, <2>1, <2>2, <2>3
<1>5. ASSUME NEW u \in Tasks, DeleteTmp(u) \/ RestoreCleanTmp(u) \/ RestoreEnqueue(u)
      PROVE  loop'.cur = NoTask
  BY <1>5 DEF DeleteTmp, RestoreCleanTmp, RestoreEnqueue, ContinueAt, At, Idle
<1>6. ASSUME \/ Purge \/ PurgeQueued \/ PurgeFinished \/ PurgeTmp \/ PurgeFails
             \/ RestoreNextList \/ Serve \/ StopClean \/ StopClose \/ ProcessStep
      PROVE  loop'.cur = NoTask
  BY <1>6 DEF Purge, PurgeQueued, PurgeFinished, PurgeTmp, PurgeFails, RestoreNextList,
     ContinueAt, Serve, StopClean, StopClose, ProcessStep, Start, Stop, Exit, Crash,
     LoseMemory, At, Idle
<1> QED
  BY <1>1, <1>2, <1>3, <1>4, <1>5, <1>6, LoopMoves DEF SegmentStep

\* What the segments under way know stays true while threads and requests go on.
LEMMA SegmentKnowsStep ==
  ASSUME TypeOK, RetryInv, RowInv, LimitReserved, SegmentKnows, [Next]_vars
  PROVE  SegmentKnows'
  BY PurgeSegments, StopSegments, CurrentSegments DEF SegmentKnows, PurgePC

----------------------------------------------------------------------------
(* The upload.                                                             *)

\* Only a removal takes an upload away.
LEMMA UploadStays ==
  ASSUME TypeOK, [Next]_vars, NEW t \in Tasks, UploadExists(t)
  PROVE  UploadExists(t)' \/ Removes(t)
  BY TmpMoves DEF UploadExists, WithTmpDir

\* What a removal knows of its task.
LEMMA RemovalKnows ==
  ASSUME TypeOK, RetryInv, ThreadsAccepted, SegmentKnows, ThreadKnows, NEW t \in Tasks,
         Removes(t)
  PROVE  \/ /\ Accepted(t) /\ rows[t].status \in Finished \cup {"none"}
         \/ /\ PurgeTmp /\ ~SubmitLocked /\ "purge" \in Ops
            /\ \A u \in Tasks : rows[u].status # "queued"
         \/ LoseUpload(t)
<1> USE FileTypes
<1>1. ASSUME CleanupTmp(t)
      PROVE  Accepted(t) /\ rows[t].status \in Finished \cup {"none"}
  BY <1>1 DEF CleanupTmp, ThreadsAccepted, ThreadKnows
<1>2. ASSUME DeleteTmp(t)
      PROVE  Accepted(t) /\ rows[t].status \in Finished \cup {"none"}
  BY <1>2 DEF DeleteTmp, InSegment, SegmentKnows, HasRow
<1>3. \A u \in Tasks : rows[u].status \in Finished => Accepted(u)
  BY DEF RetryInv, RunsCounted, HasRow, Finished
<1>4. ASSUME StopClean, t \in loop.todo
      PROVE  Accepted(t) /\ rows[t].status \in Finished \cup {"none"}
  BY <1>3, <1>4 DEF StopClean, InSegment, SegmentKnows
<1>5. ASSUME RestoreCleanTmp(t)
      PROVE  Accepted(t) /\ rows[t].status \in Finished \cup {"none"}
  BY <1>3, <1>5 DEF RestoreCleanTmp, InSegment, SegmentKnows
<1>6. ASSUME PurgeTmp
      PROVE  ~SubmitLocked /\ "purge" \in Ops /\ \A u \in Tasks : rows[u].status # "queued"
  BY <1>6 DEF PurgeTmp, InSegment, SegmentKnows, PurgePC
<1> QED
  BY <1>1, <1>2, <1>4, <1>5, <1>6 DEF Removes

\* A request has its upload in place before it may enter the row.
LEMMA PlacedKept ==
  ASSUME TypeOK, RetryInv, LimitReserved, ThreadsAccepted, SegmentKnows, ThreadKnows,
         UploadKept, [Next]_vars, NEW t \in Tasks, req'[t] = "placed"
  PROVE  UploadExists(t)'
<1> USE FileTypes
<1>1. req[t] = "placed" \/ (Place(t) /\ t \in scratch)
  <2>1. ASSUME NEW u \in Tasks, Post(u) \/ AnswerStep(u) \/ SubmitFails(u)
        PROVE  req[t] = "placed" \/ (Place(t) /\ t \in scratch)
    BY <2>1 DEF Post, AnswerStep, WriteUpload, SubmitReject, SubmitBegin, Place, SubmitEnd,
       SubmitFails, Become
  <2>2. Stop \/ Exit \/ Crash => req[t] = "placed"
    BY DEF Stop, Exit, Crash, LoseMemory, InFlight
  <2> QED
    BY <2>1, <2>2, RequestMoves DEF RetryInv
<1>2. CASE Place(t) /\ t \in scratch
  BY <1>2 DEF Place, place_upload, UploadExists
<1>3. CASE req[t] = "placed"
  <2>1. UploadExists(t)
    BY <1>3 DEF UploadKept
  <2>2. ~Removes(t)
    <3>1. SubmitLocked /\ ~Accepted(t) /\ proc = "up"
      BY <1>3 DEF SubmitLocked, Accepted, LimitReserved, InFlight
    <3> QED
      BY <3>1, RemovalKnows DEF LoseUpload
  <2> QED
    BY <2>1, <2>2, UploadStays
<1> QED
  BY <1>1, <1>2, <1>3

\* The restore looks at the uploads of all the rows it has listed.
LEMMA SeenMoves ==
  ASSUME TypeOK, RetryInv, RowInv, [Next]_vars, NEW t \in Tasks, UploadSeen(t)',
         rows[t].status = "queued", rows'[t].status = "queued"
  PROVE  UploadSeen(t) \/ UploadExists(t)
<1> USE FileTypes
<1>1. CASE UNCHANGED <<loop, proc>>
  BY <1>1 DEF UploadSeen
<1>2. CASE RestoreNextList
  <2>1. /\ proc' = proc /\ loop.todo = {}
        /\ \/ loop'.at = "restoreQueued" /\ t \in loop'.todo
           \/ loop'.at = "restoreEnqueue" /\ loop.at = "restoreQueued"
    BY <1>2 DEF RestoreNextList, InSegment, ContinueAt, At, list_tasks
  <2> QED
    BY <2>1 DEF UploadSeen
<1>3. ASSUME NEW u \in Tasks, RestoreMissing(u)
      PROVE  UploadSeen(t) \/ UploadExists(t)
  <2>1. /\ proc' = proc /\ loop.at = "restoreQueued" /\ loop'.todo = loop.todo \ {u}
        /\ loop'.at \in {"restoreQueued", "restoreQueuedTmp"}
    BY <1>3 DEF RestoreMissing, Restoring, InSegment, ContinueAt, At
  <2>2. u = t => UploadExists(t)
    <3>1. u = t /\ ~UploadExists(t) => rows'[t].status = "error"
      BY <1>3, Effects DEF RestoreMissing, HasRow, Touched, TypeOK
    <3> QED
      BY <3>1
  <2> QED
    BY <2>1, <2>2 DEF UploadSeen
<1>4. ASSUME NEW u \in Tasks, RestoreCleanTmp(u) \/ RestoreEnqueue(u)
      PROVE  UploadSeen(t)
  BY <1>4 DEF RestoreCleanTmp, RestoreEnqueue, InSegment, ContinueAt, At, UploadSeen
<1>5. ASSUME NEW u \in Tasks, RestoreInterrupted(u) \/ RestoreBump(u) \/ RestoreSettle(u)
      PROVE  UploadSeen(t)
  BY <1>5 DEF RestoreInterrupted, RestoreBump, RestoreSettle, ContinueAt, At, UploadSeen
<1>6. ASSUME NEW u \in Tasks, DeleteTmp(u) \/ Delete(u)
      PROVE  UploadSeen(t)
  BY <1>6 DEF DeleteTmp, Delete, Idle, At, UploadSeen
<1>7. CASE Purge \/ PurgeQueued \/ PurgeFinished \/ PurgeTmp \/ PurgeFails
  BY <1>7 DEF Purge, PurgeQueued, PurgeFinished, PurgeTmp, PurgeFails, Idle, At, UploadSeen
<1>8. CASE Serve \/ StopClean \/ StopClose \/ Stop
  BY <1>8 DEF Serve, StopClean, StopClose, Stop, InSegment, Scheduled, UploadSeen, RetryInv,
     SegmentsInPhase
<1>9. ~(Start \/ Exit \/ Crash)
  BY DEF Start, Exit, Crash, LoseMemory, Idle, At, UploadSeen
<1> QED
  BY <1>1, <1>2, <1>3, <1>4, <1>5, <1>6, <1>7, <1>8, <1>9, LoopMoves
     DEF SegmentStep, ProcessStep

\* A queued row keeps its upload, and a row is queued only where there is one.
LEMMA QueuedKept ==
  ASSUME TypeOK, RetryInv, RowInv, LimitReserved, ThreadsAccepted, SegmentKnows, ThreadKnows,
         UploadKept, [Next]_vars, NEW t \in Tasks, rows'[t].status = "queued",
         "lose" \notin Ops \/ UploadSeen(t)'
  PROVE  UploadExists(t)'
<1> USE FileTypes
<1>1. ASSUME SubmitEnd(t) \/ SubmitFails(t)
      PROVE  UploadExists(t)'
  BY <1>1 DEF SubmitEnd, SubmitFails, UploadKept, UploadExists, fileVars
<1>2. ASSUME RestoreSettle(t)
      PROVE  UploadExists(t)'
  BY <1>2 DEF RestoreSettle, InSegment, SegmentKnows, UploadExists, fileVars
<1>3. CASE rows[t].status = "queued"
  <2>1. UploadExists(t)
    BY <1>3, SeenMoves DEF UploadKept
  <2>2. ~Removes(t)
    <3>1. ~LoseUpload(t)
      <4> SUFFICES ASSUME LoseUpload(t)
                   PROVE  FALSE
        OBVIOUS
      <4>1. "lose" \in Ops /\ proc' = "down" /\ proc = "down" /\ loop' = loop
        BY DEF LoseUpload, runnerVars
      <4> QED
        BY <4>1 DEF UploadSeen, RetryInv, SegmentsInPhase, RestorePC
    <3> QED
      BY <1>3, <3>1, RemovalKnows DEF Finished
  <2> QED
    BY <2>1, <2>2, UploadStays
<1> QED
  BY <1>1, <1>2, <1>3, RowMoves DEF Finished

\* So a restart finds the upload of every row it will enqueue.
LEMMA UploadKeptStep ==
  ASSUME TypeOK, RetryInv, RowInv, LimitReserved, ThreadsAccepted, SegmentKnows, ThreadKnows,
         UploadKept, [Next]_vars
  PROVE  UploadKept'
  BY PlacedKept, QueuedKept DEF UploadKept

----------------------------------------------------------------------------
(* Who removes a directory.                                                *)

\* How a thread comes to its end while the runner serves.
LEMMA ThreadEnds ==
  ASSUME TypeOK, [Next]_vars, NEW t \in Tasks, Alive(t), storeOpen, loop' # Idle \/ proc' = "up"
  PROVE  \/ Alive(t)'
         \/ t \in abandoned'
         \/ /\ UNCHANGED runnerVars
            /\ \/ Get(t) /\ ~HasRow(t)
               \/ MarkRunning(t) /\ rows[t].status # "queued"
               \/ Final(t) /\ ~TmpIsSpent(t)
               \/ CleanupTmp(t)
         \/ Stop
<1> USE FileTypes DEF Alive, StorePC, FilePC
<1>1. ~(ThreadReturns(t) \/ StoreGone(t) \/ Exit \/ Crash)
  BY DEF ThreadReturns, StoreGone, Exit, Crash, LoseMemory
<1>2. JobRuns(t) => Alive(t)'
  BY DEF JobRuns, Goto
<1>3. StoreFails(t) => t \in abandoned'
  BY DEF StoreFails
<1>4. CheckUpload(t) \/ PrepareWav(t) \/ Infer(t) \/ MarkError(t) => Alive(t)'
  BY DEF CheckUpload, PrepareWav, Infer, MarkError, Goto
<1>5. Get(t) /\ HasRow(t) => Alive(t)'
  BY DEF Get, AtStore, Goto
<1>6. MarkRunning(t) /\ rows[t].status = "queued" => Alive(t)'
  BY DEF MarkRunning, CanMarkRunning, Goto
<1>7. Final(t) /\ TmpIsSpent(t) => Alive(t)'
  BY DEF Final, Goto
<1> QED
  BY <1>1, <1>2, <1>3, <1>4, <1>5, <1>6, <1>7, ThreadMoves DEF ThreadStep

\* A thread never goes back to its beginning.
LEMMA ThreadBegun ==
  ASSUME TypeOK, [Next]_vars, NEW t \in Tasks, thread[t] \notin {"get", "mark"}
  PROVE  thread'[t] \notin {"get", "mark"} \/ JobRuns(t)
<1> USE FileTypes
<1>1. ~(ThreadStep(t) \/ StoreFails(t)) \/ thread'[t] \notin {"get", "mark"}
  BY DEF ThreadStep, Get, MarkRunning, CheckUpload, PrepareWav, Infer, MarkError, Final,
     CleanupTmp, StoreGone, StoreFails, AfterFailure, AtStore, Goto
<1>2. ~(ThreadReturns(t) \/ Stop \/ Exit \/ Crash) \/ thread'[t] \notin {"get", "mark"}
  BY DEF ThreadReturns, Goto, Stop, Exit, Crash, LoseMemory
<1> QED
  BY <1>1, <1>2, ThreadMoves

\* A task that was running when a purge began is cleaned by its thread, as long as the
\* thread sees its row.
LEMMA PurgeSparesStep ==
  ASSUME TypeOK, RetryInv, RowInv, SegmentKnows, ThreadKnows, PurgeSpares, [Next]_vars
  PROVE  PurgeSpares'
<1> USE FileTypes
<1> SUFFICES ASSUME loop'.at \in PurgePC, NEW t \in loop'.todo \ abandoned'
             PROVE  \/ Alive(t)' /\ thread'[t] \notin {"get", "mark"}
                    \/ ~Alive(t)' /\ tmp'[t] = "none"
  BY DEF PurgeSpares
<1>1. CASE Purge
  <2>1. /\ t \in Tasks /\ rows[t].status = "running" /\ t \notin abandoned /\ proc = "up"
        /\ thread' = thread
    BY <1>1 DEF Purge, Scheduled, At, list_tasks, threadVars
  <2>2. Working(t)
    BY <2>1 DEF RowInv, RunningIsOwned
  <2> QED
    BY <2>1, <2>2 DEF Working, Alive, StorePC, FilePC
<1>2. CASE PurgeQueued \/ PurgeFinished
  <2>1. /\ loop.at \in PurgePC /\ loop'.todo = loop.todo
        /\ UNCHANGED <<thread, abandoned, tmp>>
    BY <1>2 DEF PurgeQueued, PurgeFinished, InSegment, PurgePC, At, Idle, threadVars, fileVars
  <2> QED
    BY <2>1 DEF PurgeSpares, Alive
<1>3. CASE UNCHANGED <<loop, proc>>
  <2>1. /\ loop # Idle /\ loop' # Idle /\ proc = "up" /\ storeOpen /\ t \in Tasks
        /\ ~SubmitLocked
    BY <1>3 DEF RowInv, StorePhases, PurgePC, Idle, At, SegmentKnows
  <2>2. ~(JobRuns(t) \/ Stop \/ Exit \/ Crash)
    BY <1>3, <2>1 DEF JobRuns, AsksForSlot, Due, Stop, Exit, Crash, Scheduled, LoseMemory
  <2>3. t \in loop.todo \ abandoned
    BY <1>3, <2>2, AbandonedGrows
  <2>4. CASE Alive(t) /\ thread[t] \notin {"get", "mark"}
    <3>1. thread'[t] \notin {"get", "mark"}
      BY <2>1, <2>2, <2>4, ThreadBegun
    <3>2. ~(Final(t) /\ ~TmpIsSpent(t))
      BY <2>3 DEF Final, AtStore, TmpIsSpent, ThreadKnows
    <3>3. ~(Get(t) \/ MarkRunning(t))
      BY <2>4 DEF Get, MarkRunning, AtStore
    <3>4. CleanupTmp(t) => ~Alive(t)' /\ tmp'[t] = "none"
      BY <2>1 DEF CleanupTmp, cleanup_tmp, Goto, Alive, StorePC, FilePC
    <3> QED
      BY <2>1, <2>2, <2>4, <3>1, <3>2, <3>3, <3>4, ThreadEnds
  <2>5. CASE ~Alive(t) /\ tmp[t] = "none"
    <3>1. ~(ThreadStep(t) \/ StoreFails(t))
      BY <2>5 DEF ThreadStep, Get, MarkRunning, CheckUpload, PrepareWav, Infer, MarkError,
         Final, CleanupTmp, StoreGone, StoreFails, AtStore, Alive, StorePC, FilePC
    <3>2. ~Alive(t)'
      BY <2>1, <2>2, <2>5, <3>1, ThreadMoves DEF ThreadReturns, Goto, Alive, StorePC, FilePC
    <3>3. ~(SubmitBegin(t) \/ Place(t) \/ PrepareWav(t))
      BY <2>1, <2>5 DEF SubmitBegin, Scheduled, Place, SubmitLocked, PrepareWav, Alive, FilePC
    <3> QED
      BY <2>1, <2>5, <3>2, <3>3, TmpMoves
  <2> QED
    BY <1>3, <2>3, <2>4, <2>5 DEF PurgeSpares
<1> QED
  BY <1>1, <1>2, <1>3, LoopInPurge

----------------------------------------------------------------------------
(* The first life of the process.                                          *)

\* How the process gets from one phase of its life to the next.
LEMMA ProcMoves ==
  ASSUME RetryInv, [Next]_vars
  PROVE  \/ proc' = proc
         \/ Start /\ proc = "down" /\ proc' = "restoring"
         \/ Serve /\ proc = "restoring" /\ proc' = "up"
         \/ Stop /\ proc = "up" /\ proc' \in {"stopping", "stopped"}
         \/ StopClose /\ proc = "stopping" /\ proc' = "stopped"
         \/ Exit \/ Crash
<1>1. ASSUME NEW u \in Tasks,
             \/ DeleteTmp(u) \/ RestoreInterrupted(u) \/ RestoreBump(u) \/ RestoreSettle(u)
             \/ RestoreCleanTmp(u) \/ RestoreMissing(u) \/ RestoreEnqueue(u) \/ Delete(u)
      PROVE  proc' = proc
  BY <1>1 DEF DeleteTmp, RestoreInterrupted, RestoreBump, RestoreSettle, RestoreCleanTmp,
     RestoreMissing, RestoreEnqueue, ContinueAt, Delete
<1>2. CASE \/ PurgeQueued \/ PurgeFinished \/ PurgeTmp \/ PurgeFails \/ Purge
           \/ RestoreNextList \/ StopClean
  BY <1>2 DEF Purge, PurgeQueued, PurgeFinished, PurgeTmp, PurgeFails, RestoreNextList,
     ContinueAt, StopClean
<1>3. CASE Start \/ Serve \/ Stop \/ StopClose
  BY <1>3 DEF Start, Serve, Stop, Scheduled, StopClose, InSegment, RetryInv,
     SegmentsInPhase, RestorePC
<1> QED
  BY <1>1, <1>2, <1>3, LoopMoves DEF SegmentStep, ProcessStep

\* Deaths are counted, and only another token makes a transcript unreadable.
LEMMA DeathsMoves ==
  ASSUME TypeOK, [Next]_vars, deaths' = 0
  PROVE  /\ deaths = 0 /\ ~Exit /\ ~Crash
         /\ unreadable' \subseteq unreadable \/ ChangeToken
<1> USE FileTypes
<1>1. ~(Exit \/ Crash)
  BY DEF Exit, Crash, LoseMemory
<1>2. CASE UNCHANGED vars
  BY <1>1, <1>2 DEF vars, storeVars, runnerVars, otherVars
<1>3. ASSUME NEW u \in Tasks,
             \/ Post(u) \/ AnswerStep(u) \/ JobStep(u) \/ JobFails(u) \/ SubmitFails(u)
             \/ ThreadReturns(u) \/ Delete(u) \/ DeleteTmp(u) \/ Expire(u) \/ LoseUpload(u)
      PROVE  deaths' = deaths /\ unreadable' \subseteq unreadable
  BY <1>3 DEF Post, AnswerStep, WriteUpload, SubmitReject, SubmitBegin, Place, SubmitEnd,
     create, JobStep, JobCancelled, JobWaits, JobDropped, JobRuns, JobFinishes, JobFails,
     SubmitFails, ThreadReturns, Delete, DeleteTmp, Expire, LoseUpload, DeleteRows,
     storeVars, runnerVars, otherVars
<1>4. ASSUME NEW u \in Tasks, ThreadStep(u) \/ StoreFails(u), UNCHANGED runnerVars
      PROVE  deaths' = deaths /\ unreadable' \subseteq unreadable
  BY <1>4 DEF ThreadStep, Get, MarkRunning, CheckUpload, PrepareWav, Infer, MarkError, Final,
     CleanupTmp, StoreGone, StoreFails, mark_running, mark_success, mark_error,
     storeVars, runnerVars, otherVars
<1>5. ASSUME NEW u \in Tasks,
             \/ RestoreInterrupted(u) \/ RestoreBump(u) \/ RestoreSettle(u)
             \/ RestoreCleanTmp(u) \/ RestoreMissing(u) \/ RestoreEnqueue(u)
      PROVE  deaths' = deaths /\ unreadable' \subseteq unreadable
  BY <1>5 DEF RestoreInterrupted, RestoreBump, RestoreSettle, RestoreCleanTmp,
     RestoreMissing, RestoreEnqueue, ContinueAt, mark_error, bump_attempts, reset_to_queued,
     storeVars, otherVars
<1>6. CASE \/ Dispatch \/ Purge \/ PurgeQueued \/ PurgeFinished \/ PurgeTmp \/ PurgeFails
           \/ TtlFails \/ RestoreNextList \/ StopClean \/ Start \/ Serve \/ StopClose \/ Stop
  <2>1. deaths' = deaths /\ unreadable' \subseteq unreadable
    BY <1>6 DEF Dispatch, Purge, PurgeQueued, PurgeFinished, PurgeTmp, PurgeFails, TtlFails,
       delete_by_statuses, DeleteRows, RestoreNextList, ContinueAt, StopClean, Start, OpenStore,
       Serve, StopClose, close, Stop, storeVars, otherVars
  <2> QED
    BY <1>1, <2>1
<1>7. CASE ChangeToken
  BY <1>1, <1>7 DEF ChangeToken, runnerVars, otherVars
<1> QED
  BY <1>1, <1>2, <1>3, <1>4, <1>5, <1>6, <1>7
     DEF Next, WorkerStep, SegmentStep, ProcessStep, StoreFault

\* The first process finds neither rows nor files, until it serves.
LEMMA FirstLifeEmpty ==
  ASSUME TypeOK, RetryInv, RowInv, LimitReserved, FirstLife, [Next]_vars, deaths' = 0
  PROVE  /\ unreadable' = {}
         /\ proc' \in {"down", "restoring"} => \A t \in Tasks : ~HasRow(t)' /\ tmp'[t] = "none"
<1> USE FileTypes
<1>1. /\ deaths = 0 /\ ~Exit /\ ~Crash /\ unreadable = {}
      /\ unreadable' = {} \/ ChangeToken
  BY DeathsMoves DEF FirstLife
<1>2. ChangeToken => unreadable' = {}
  BY <1>1 DEF ChangeToken, SealsBroken, list_tasks, FirstLife, HasRow
<1>3. ASSUME proc' \in {"down", "restoring"}, NEW t \in Tasks
      PROVE  ~HasRow(t)' /\ tmp'[t] = "none"
  <2>1. proc \in {"down", "restoring"}
    BY <1>1, <1>3, ProcMoves
  <2>2. ~HasRow(t) /\ tmp[t] = "none" /\ thread[t] = "none"
    BY <1>1, <2>1 DEF FirstLife, RetryInv, SegmentsInPhase
  <2>3. ~(SubmitEnd(t) \/ SubmitFails(t) \/ SubmitBegin(t) \/ Place(t))
    BY <2>1 DEF SubmitEnd, SubmitFails, SubmitBegin, Place, Scheduled, LimitReserved, InFlight
  <2>4. ~PrepareWav(t)
    BY <2>2 DEF PrepareWav
  <2>5. ~HasRow(t)'
    BY <2>2, <2>3, RowMoves DEF HasRow, Finished
  <2> QED
    BY <2>2, <2>3, <2>4, <2>5, TmpMoves
<1> QED
  BY <1>1, <1>2, <1>3

\* The segment under way will remove the directory of t.
BeingDeleted(t) ==
  \/ loop.at = "deleteTmp" /\ t = loop.cur
  \/ loop.at \in {"purgeFinished", "purgeTmp"}

\* A deletion that has begun goes on to the files, when every transcript can be read and
\* the store does not fail.
LEMMA DeletionGoesOn ==
  ASSUME TypeOK, RowInv, [Next]_vars, NEW t \in Tasks \ abandoned', BeingDeleted(t),
         unreadable = {}, tmp[t] # "none", tmp'[t] # "none", ~HasRow(t), ~Exit, ~Crash
  PROVE  BeingDeleted(t)' \/ (PurgeTmp /\ t \in loop.todo /\ thread' = thread)
<1> USE FileTypes DEF BeingDeleted
<1>1. CASE UNCHANGED <<loop, proc>>
  BY <1>1
<1>2. ASSUME NEW u \in Tasks, DeleteTmp(u)
      PROVE  FALSE
  BY <1>2 DEF DeleteTmp, InSegment, cleanup_tmp
<1>3. CASE PurgeFinished
  BY <1>3 DEF PurgeFinished, Readable, At
<1>4. CASE PurgeTmp
  BY <1>4 DEF PurgeTmp, cleanup_tmp_except, threadVars
<1>5. ~PurgeFails
  BY DEF PurgeFails
<1>6. ASSUME NEW u \in Tasks,
             \/ RestoreInterrupted(u) \/ RestoreBump(u) \/ RestoreSettle(u)
             \/ RestoreCleanTmp(u) \/ RestoreMissing(u) \/ RestoreEnqueue(u) \/ Delete(u)
      PROVE  FALSE
  BY <1>6 DEF RestoreInterrupted, RestoreBump, RestoreSettle, RestoreCleanTmp, RestoreMissing,
     RestoreEnqueue, Restoring, InSegment, Delete, Scheduled, Idle, At
<1>7. ASSUME Purge \/ PurgeQueued \/ RestoreNextList \/ Serve \/ StopClean \/ StopClose \/ Stop
      PROVE  FALSE
  BY <1>7 DEF Purge, PurgeQueued, RestoreNextList, Serve, StopClean, StopClose, Stop,
     InSegment, Scheduled, Idle, At
<1>8. ~Start
  BY DEF Start, RowInv, StorePhases, PurgePC
<1> QED
  BY <1>1, <1>2, <1>3, <1>4, <1>5, <1>6, <1>7, <1>8, LoopMoves DEF SegmentStep, ProcessStep

\* Somebody removes the directory of a task that has ended, or whose row was deleted
\* before its thread came to it.
LEMMA FirstLifeUp ==
  ASSUME TypeOK, RetryInv, RowInv, LimitReserved, ThreadsAccepted, ThreadKnows, PurgeSpares,
         FirstLife, [Next]_vars, deaths' = 0, proc' = "up",
         NEW t \in Tasks \ abandoned', tmp'[t] # "none"
  PROVE  /\ rows'[t].status \in Finished => Alive(t)'
         /\ ~HasRow(t)' /\ thread'[t] \in {"get", "mark"} => BeingDeleted(t)'
<1> USE FileTypes
<1>1. deaths = 0 /\ ~Exit /\ ~Crash /\ unreadable = {}
  BY DeathsMoves DEF FirstLife
<1>2. proc = "up" /\ storeOpen /\ ~Stop
  <2>1. proc # "restoring"
    <3> SUFFICES ASSUME proc = "restoring"
                 PROVE  FALSE
      OBVIOUS
    <3>1. Serve /\ tmp[t] = "none"
      BY <1>1, ProcMoves DEF FirstLife
    <3> QED
      BY <3>1 DEF Serve, fileVars
  <2> QED
    BY <1>1, <2>1, ProcMoves DEF RowInv, StorePhases, Stop
<1>3. t \notin abandoned
  BY <1>1, AbandonedGrows
<1>4. tmp[t] # "none" \/ SubmitBegin(t) \/ Place(t) \/ PrepareWav(t)
  BY TmpMoves
<1>5. SubmitBegin(t) \/ Place(t) => ~HasRow(t) /\ thread[t] = "none" /\ UNCHANGED <<rows, thread>>
  BY DEF SubmitBegin, Place, RetryInv, RunsCounted, Accepted, ThreadsAccepted, storeVars, threadVars
<1>6. PrepareWav(t) => rows[t].status = "running" /\ rows' = rows /\ Alive(t)'
  BY DEF PrepareWav, RowInv, WorkingIsRunning, Working, storeVars, Goto, Alive, StorePC
<1>7. ASSUME rows'[t].status \in Finished, tmp[t] # "none"
      PROVE  Alive(t)'
  <2>1. CASE rows[t].status \in Finished
    <3>1. Alive(t)
      BY <1>1, <1>2, <1>3, <1>7, <2>1 DEF FirstLife
    <3>2. ~(Get(t) /\ ~HasRow(t)) /\ ~(Final(t) /\ ~TmpIsSpent(t))
      BY <2>1 DEF HasRow, TmpIsSpent, Finished
    <3>3. ~MarkRunning(t)
      BY <2>1 DEF MarkRunning, AtStore, ThreadKnows, Finished
    <3>4. ~CleanupTmp(t)
      BY DEF CleanupTmp, cleanup_tmp
    <3> QED
      BY <1>2, <3>1, <3>2, <3>3, <3>4, ThreadEnds
  <2>2. CASE rows[t].status \notin Finished
    <3>1. Infer(t) \/ MarkError(t)
      <4>1. ~(RestoreInterrupted(t) \/ RestoreSettle(t) \/ RestoreMissing(t))
        BY <1>2 DEF RestoreInterrupted, RestoreSettle, RestoreMissing, Restoring, InSegment,
           RetryInv, SegmentsInPhase, RestorePC
      <4> QED
        BY <1>7, <2>2, <4>1, RowMoves DEF Finished
    <3> QED
      BY <3>1 DEF Infer, MarkError, Goto, Alive, StorePC
  <2> QED
    BY <2>1, <2>2
<1>8. ASSUME ~HasRow(t)', thread'[t] \in {"get", "mark"}, tmp[t] # "none"
      PROVE  BeingDeleted(t)'
  <2>1. ~JobRuns(t)
    BY <1>8 DEF JobRuns, NotWanted, storeVars, HasRow
  <2>2. thread[t] \in {"get", "mark"}
    BY <1>8, <2>1, ThreadBegun
  <2>3. rows[t].status \in {"queued", "none"}
    BY <2>2 DEF ThreadKnows
  <2>4. CASE HasRow(t)
    <3>1. Delete(t) \/ Expire(t) \/ PurgeQueued \/ PurgeFinished
      BY <1>8, <2>4, RowMoves DEF HasRow, Finished
    <3>2. ~Expire(t)
      BY <2>3 DEF Expire, Expirable, Finished
    <3> QED
      BY <1>1, <3>1, <3>2
         DEF Delete, PurgeQueued, PurgeFinished, Readable, At, BeingDeleted
  <2>5. CASE ~HasRow(t)
    <3>1. BeingDeleted(t)
      BY <1>1, <1>2, <1>3, <1>8, <2>2, <2>5 DEF FirstLife, BeingDeleted
    <3>2. ~(PurgeTmp /\ t \in loop.todo)
      BY <1>3, <1>8, <2>2 DEF PurgeTmp, InSegment, PurgePC, PurgeSpares, Alive, StorePC
    <3> QED
      BY <1>1, <1>8, <2>5, <3>1, <3>2, DeletionGoesOn
  <2> QED
    BY <2>4, <2>5
<1> QED
  BY <1>4, <1>5, <1>6, <1>7, <1>8 DEF HasRow, Finished

\* Before the first death, what a thread or a deletion will remove is known.
LEMMA FirstLifeStep ==
  ASSUME TypeOK, RetryInv, RowInv, LimitReserved, ThreadsAccepted, ThreadKnows, PurgeSpares,
         FirstLife, [Next]_vars
  PROVE  FirstLife'
  BY FirstLifeEmpty, FirstLifeUp DEF FirstLife, BeingDeleted

----------------------------------------------------------------------------
(* No directory is left without someone to remove it.                      *)

\* A request that has made a directory comes to its end.
LEMMA AnsweredKept ==
  ASSUME TypeOK, RetryInv, [Next]_vars, NEW t \in Tasks \ abandoned', ~Stop, ~Exit, ~Crash,
         req[t] \in {"placing", "placed", "failed"}
  PROVE  req'[t] \in {"placing", "placed", "failed"} \/ HasRow(t)'
<1> USE FileTypes
<1>1. CASE req' = req
  BY <1>1
<1>2. ASSUME NEW u \in Tasks,
             Post(u) \/ WriteUpload(u) \/ SubmitReject(u) \/ SubmitBegin(u) \/ Place(u)
      PROVE  req'[t] \in {"placing", "placed", "failed"}
  BY <1>2 DEF Post, WriteUpload, SubmitReject, SubmitBegin, Place, Become
<1>3. ASSUME NEW u \in Tasks, u # t, SubmitEnd(u) \/ SubmitFails(u)
      PROVE  req'[t] = req[t]
  BY <1>3 DEF SubmitEnd, SubmitFails, Become
<1>4. ASSUME SubmitEnd(t) \/ SubmitFails(t)
      PROVE  req'[t] = "failed" \/ HasRow(t)'
  BY <1>4 DEF SubmitEnd, SubmitFails, Become, create, SetRow, HasRow
<1> QED
  BY <1>1, <1>2, <1>3, <1>4, RequestMoves DEF AnswerStep, RetryInv

\* The request of t may still come back to its directory.
Requested(t) == req[t] \in {"placing", "placed", "failed"}

\* Whoever was to remove the directory still is, or has handed it on, or has done it.
LEMMA CareStep ==
  ASSUME TypeOK, RetryInv, RowInv, LimitReserved, ThreadKnows, PurgeSpares, FirstLife,
         NoOrphans, [Next]_vars, deaths' = 0, proc' = "up",
         NEW t \in Tasks \ abandoned', tmp'[t] # "none"
  PROVE  HasRow(t)' \/ Alive(t)' \/ Requested(t)' \/ BeingDeleted(t)'
<1> USE FileTypes
<1>1. deaths = 0 /\ ~Exit /\ ~Crash /\ unreadable = {}
  BY DeathsMoves DEF FirstLife
<1>2. proc = "up" /\ storeOpen /\ ~Stop
  <2>1. ~(Serve /\ proc = "restoring")
    BY <1>1 DEF FirstLife, Serve, fileVars
  <2> QED
    BY <1>1, <2>1, ProcMoves DEF RowInv, StorePhases, Stop
<1>3. t \notin abandoned
  BY <1>1, AbandonedGrows
<1>4. CASE tmp[t] = "none"
  <2>1. SubmitBegin(t) \/ Place(t) => Requested(t)'
    BY DEF SubmitBegin, Place, Become, Requested
  <2>2. PrepareWav(t) => Alive(t)'
    BY DEF PrepareWav, Goto, Alive, StorePC
  <2> QED
    BY <1>4, <2>1, <2>2, TmpMoves
<1>5. CASE tmp[t] # "none" /\ HasRow(t)
  <2>1. SUFFICES ASSUME ~HasRow(t)'
                 PROVE  Alive(t)' \/ BeingDeleted(t)'
    OBVIOUS
  <2>2. Delete(t) \/ Expire(t) \/ PurgeQueued \/ PurgeFinished
    BY <1>5, <2>1, RowMoves DEF HasRow, Finished
  <2>3. Expire(t) => Alive(t) /\ thread' = thread
    BY <1>1, <1>2, <1>3, <1>5 DEF Expire, Expirable, FirstLife, threadVars
  <2> QED
    BY <1>1, <2>2, <2>3 DEF Delete, PurgeQueued, PurgeFinished, Readable, At, BeingDeleted, Alive
<1>6. CASE tmp[t] # "none" /\ ~HasRow(t) /\ BeingDeleted(t)
  <2>1. PurgeTmp /\ t \in loop.todo => Alive(t)
    BY <1>3, <1>6 DEF PurgeTmp, InSegment, PurgePC, PurgeSpares
  <2> QED
    BY <1>1, <1>6, <2>1, DeletionGoesOn DEF Alive
<1>7. CASE tmp[t] # "none" /\ ~HasRow(t) /\ ~BeingDeleted(t) /\ Alive(t)
  <2>1. ~(Get(t) \/ MarkRunning(t))
    BY <1>1, <1>2, <1>3, <1>7 DEF FirstLife, Get, MarkRunning, AtStore, BeingDeleted
  <2>2. ~(Final(t) /\ ~TmpIsSpent(t))
    BY <1>7 DEF HasRow, TmpIsSpent
  <2>3. ~CleanupTmp(t)
    BY DEF CleanupTmp, cleanup_tmp
  <2> QED
    BY <1>2, <1>7, <2>1, <2>2, <2>3, ThreadEnds
<1>8. CASE tmp[t] # "none" /\ Requested(t)
  BY <1>1, <1>2, <1>8, AnsweredKept DEF Requested
<1> QED
  BY <1>1, <1>2, <1>3, <1>4, <1>5, <1>6, <1>7, <1>8 DEF NoOrphans, Requested, BeingDeleted

\* So none is left behind in the life of a process.
LEMMA NoOrphansStep ==
  ASSUME TypeOK, RetryInv, RowInv, LimitReserved, ThreadKnows, PurgeSpares, FirstLife,
         NoOrphans, [Next]_vars
  PROVE  NoOrphans'
  BY CareStep DEF NoOrphans, Requested, BeingDeleted

\* Only a purge takes the upload away from a running row.
LEMMA RunningKeptStep ==
  ASSUME TypeOK, RetryInv, RowInv, ThreadsAccepted, SegmentKnows, ThreadKnows, UploadKept,
         "purge" \notin Ops, RunningHasUpload, [Next]_vars
  PROVE  RunningHasUpload'
<1> USE FileTypes
<1> SUFFICES ASSUME NEW t \in Tasks, proc' \in {"up", "stopping", "stopped"},
                    rows'[t].status = "running"
             PROVE  UploadExists(t)'
  BY DEF RunningHasUpload
<1>1. rows[t].status = "running" \/ MarkRunning(t)
  BY RowMoves DEF Finished
<1>2. proc \in {"up", "stopping", "stopped"}
  <2>1. ~(Exit \/ Crash)
    BY DEF Exit, Crash, LoseMemory
  <2>2. ASSUME Serve, proc = "restoring"
        PROVE  FALSE
    <3>1. rows' = rows /\ loop.todo = {} /\ loop.at = "restoreEnqueue"
      BY <2>2 DEF Serve, InSegment, storeVars
    <3>2. ~MarkRunning(t)
      BY <2>2 DEF MarkRunning, AtStore, RetryInv, SegmentsInPhase
    <3> QED
      BY <1>1, <2>2, <3>1, <3>2 DEF RowInv, RestoreClears
  <2> QED
    BY <2>1, <2>2, ProcMoves
<1>3. UploadExists(t)
  <2>1. MarkRunning(t) => UploadExists(t)
    <3> SUFFICES ASSUME MarkRunning(t)
                 PROVE  UploadExists(t)
      OBVIOUS
    <3>1. rows[t].status = "queued"
      BY <1>1 DEF MarkRunning, CanMarkRunning, storeVars, AtStore, ThreadKnows
    <3> QED
      BY <1>2, <3>1 DEF UploadKept, UploadSeen
  <2> QED
    BY <1>1, <1>2, <2>1 DEF RunningHasUpload
<1>4. MarkRunning(t) => UploadExists(t)'
  BY <1>3 DEF MarkRunning, fileVars, UploadExists
<1>5. rows[t].status = "running" => ~Removes(t)
  BY <1>2, RemovalKnows DEF LoseUpload, Finished
<1> QED
  BY <1>1, <1>3, <1>4, <1>5, UploadStays

----------------------------------------------------------------------------
(* The inductive invariant, complete, and what follows from it.            *)

\* Every step keeps the files in order, given the rows and the queue.
LEMMA FileStep ==
  ASSUME TypeOK, RetryInv, SlotInv, RowInv, QueueInv, FileInv, [Next]_vars
  PROVE  FileInv'
<1> USE DEF FileInv
<1>1. LimitReserved
  BY DEF QueueInv
<1>2. ThreadsAccepted' /\ PendingQueued' /\ ThreadKnows'
  BY ThreadsAcceptedStep, PendingStep, ThreadKnowsStep
<1>3. SegmentKnows' /\ UploadKept' /\ PurgeSpares'
  BY <1>1, SegmentKnowsStep, UploadKeptStep, PurgeSparesStep
<1>4. FirstLife' /\ NoOrphans'
  BY <1>1, FirstLifeStep, NoOrphansStep
<1>5. "purge" \notin Ops => RunningHasUpload'
  BY RunningKeptStep
<1> QED
  BY <1>2, <1>3, <1>4, <1>5

\* No file is there in the beginning.
LEMMA FileInit ==
  ASSUME Init
  PROVE  FileInv
<1> USE RunnerAssumption
    DEF Init, TaskStoreInit, UploadFilesInit, PipelineThreadInit, NoRow, HasRow
<1>1. ThreadsAccepted /\ ThreadKnows
  BY DEF ThreadsAccepted, ThreadKnows
<1>2. SegmentKnows /\ PendingQueued
  BY DEF SegmentKnows, PendingQueued, Idle, At, PurgePC, Elements
<1>3. UploadKept /\ PurgeSpares
  BY DEF UploadKept, PurgeSpares, Idle, At, PurgePC
<1>4. FirstLife /\ NoOrphans /\ RunningHasUpload
  BY DEF FirstLife, NoOrphans, RunningHasUpload
<1> QED
  BY <1>1, <1>2, <1>3, <1>4 DEF FileInv

\* Every part of the inductive invariant holds in every state, for any number of tasks,
\* slots, deaths and failing calls, and whatever clients do.
THEOREM InductiveInvariant == Spec => []IInv
<1>1. Init => FileInv
  BY FileInit
<1>2. TypeOK /\ RetryInv /\ SlotInv /\ RowInv /\ QueueInv /\ FileInv /\ [Next]_vars
        => FileInv'
  BY FileStep
<1> QED
  BY <1>1, <1>2, QueueInvariant, PTL DEF Spec, IInv

\* tmp/<task_id> always has someone to remove it, in the life of a process that has not
\* died before: the handover goes from the request to the row, to the thread or to the
\* segment that deletes, and no step of one drops it before another holds it.
THEOREM OrphansNever == Spec => []NoOrphans
<1>1. IInv => NoOrphans
  BY DEF IInv, FileInv
<1> QED
  BY <1>1, InductiveInvariant, PTL

\* A queued row has its upload, in every state between submit and mark_running and over
\* any number of restarts, unless somebody takes the files away from outside.
THEOREM QueuedUploads ==
  ASSUME "lose" \notin Ops
  PROVE  Spec => []QueuedHasUpload
<1>1. IInv => QueuedHasUpload
  BY DEF IInv, FileInv, UploadKept, QueuedHasUpload
<1> QED
  BY <1>1, InductiveInvariant, PTL

\* Without purge the upload of a running row stays too, so the next start runs it again;
\* with purge it may go with its thread dead (see run PurgeRunning).
THEOREM RunningUploads ==
  ASSUME "purge" \notin Ops
  PROVE  Spec => []RunningHasUpload
<1>1. IInv => RunningHasUpload
  BY DEF IInv, FileInv
<1> QED
  BY <1>1, InductiveInvariant, PTL

\* A purge that gets to the files leaves no directory without a row or a thread behind:
\* the tasks it spares were running when it began, and their threads clean up themselves.
THEOREM PurgeComplete == Spec => PurgeLeavesNoOrphan
<1>1. IInv /\ [Next]_vars
        => [PurgeTmp => \A t \in Tasks : ~HasRow(t) /\ ~Alive(t)
                          => tmp'[t] = "none" \/ t \in loop.todo \cap abandoned]_vars
  <2> SUFFICES ASSUME IInv, PurgeTmp, NEW t \in Tasks, ~Alive(t)
               PROVE  tmp'[t] = "none" \/ t \in loop.todo \cap abandoned
    OBVIOUS
  <2>1. tmp' = [u \in Tasks |-> IF u \in loop.todo THEN tmp[u] ELSE "none"]
    BY DEF PurgeTmp, cleanup_tmp_except
  <2>2. t \in loop.todo \ abandoned => tmp[t] = "none"
    BY DEF IInv, FileInv, PurgeSpares, PurgeTmp, InSegment, PurgePC
  <2> QED
    BY <2>1, <2>2
<1> QED
  BY <1>1, InductiveInvariant, PTL DEF Spec, PurgeLeavesNoOrphan

----------------------------------------------------------------------------
(* The runner with the threads it really has is the runner in which every  *)
(* call has a thread of its own, with fewer of its behaviours; so what is  *)
(* proved of TaskRunner holds for an executor of any size.                 *)

\* What the line for a thread does to a step is to forbid it, or to put it off.
LEMMA PooledMoves ==
  ASSUME [PooledNext]_pooledVars
  PROVE  [Next]_vars
<1> USE DEF Next
<1>1. ASSUME NEW t \in Tasks,
             \/ PooledPost(t) \/ PooledWriteUpload(t) \/ PooledSubmitBegin(t)
             \/ PooledPlace(t) \/ PooledJobRuns(t)
      PROVE  Next
  BY <1>1 DEF PooledPost, PooledWriteUpload, PooledSubmitBegin, PooledPlace, PooledJobRuns,
     AnswerStep, JobStep
<1>2. ASSUME NEW t \in Tasks, PooledThreadStep(t)
      PROVE  Next
  BY <1>2 DEF PooledThreadStep, WorkerStep, StoreFault
<1>3. ASSUME PooledStop \/ PooledEnd
      PROVE  Next
  BY <1>3 DEF PooledStop, PooledEnd, ProcessStep
<1>4. ASSUME LoopStep
      PROVE  Next
  BY <1>4 DEF LoopStep, AnswerStep, JobStep, WorkerStep, ProcessStep, StoreFault
<1>5. ASSUME UNCHANGED pooledVars
      PROVE  UNCHANGED vars
  BY <1>5 DEF pooledVars
<1> QED
  BY <1>1, <1>2, <1>3, <1>4, <1>5 DEF PooledNext

\* Whatever the number of threads of the executor, and whichever calls wait in line for
\* one, the program behaves as the runner that has enough of them.
THEOREM PooledImplementsRunner == PooledSpec => Spec
<1>1. PooledInit => Init
  BY DEF PooledInit
<1>2. [PooledNext]_pooledVars => [Next]_vars
  BY PooledMoves
<1> QED
  BY <1>1, <1>2, PTL DEF PooledSpec, Spec

\* With any executor, a task that runs keeps its upload, unless the rows are purged.
THEOREM PooledUploads ==
  ASSUME "purge" \notin Ops
  PROVE  PooledSpec => []RunningHasUpload
<1>1. Spec => []RunningHasUpload
  BY RunningUploads
<1> QED
  BY <1>1, PooledImplementsRunner, PTL

\* With any executor, rows, slots, coroutines and files fit together, and the promise to
\* clients is kept.
THEOREM PooledInvariant == PooledSpec => [](IInv /\ NoOrphans) /\ ImplementsLifecycle
  BY PooledImplementsRunner, InductiveInvariant, OrphansNever, RunnerImplementsLifecycle, PTL
=============================================================================
