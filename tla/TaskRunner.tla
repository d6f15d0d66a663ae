----------------------------- MODULE TaskRunner -----------------------------
(***************************************************************************)
(* The task runner (src/app/queueing.py) with the requests that reach it   *)
(* (src/app/main.py), its pipeline threads, its store and its files, over  *)
(* deaths and restarts of the process.                                     *)
(*                                                                         *)
(* Two kinds of concurrency meet here.  Coroutines share the event loop: a *)
(* segment between two awaits is not interleaved with other coroutines.    *)
(* Threads run at any time: a segment that does several things to the      *)
(* store or the files is interleaved with them.  `loop' is the segment     *)
(* under way: every coroutine waits until loop.at = "idle", no thread      *)
(* does.                                                                   *)
(***************************************************************************)
EXTENDS PipelineThread, Sequences

CONSTANTS Slots,              \* the worker slots, WORKERS of them
          WORKER_QUEUE_SIZE,
          TASK_MAX_RESTARTS,
          MaxDeaths,          \* bound: deaths and graceful stops of the process
          MaxFaults,          \* bound: tasks that a failing store hits in one process
          Ops,                \* bound: the optional operations of a run
          NoTask, NoSlot

ASSUME RunnerAssumption ==
  /\ IsFiniteSet(Slots)
  /\ WORKER_QUEUE_SIZE \in Nat
  /\ TASK_MAX_RESTARTS \in Nat
  /\ MaxDeaths \in Nat
  /\ MaxFaults \in Nat
  /\ Ops \subseteq {"purge", "delete", "expire", "stop", "crash", "lose",
                   "fault", "rotate"}
  /\ NoTask \notin Tasks
  /\ NoSlot \notin Slots

VARIABLES proc,       \* the life of the process
          loop,       \* the segment of the event loop under way
          req,        \* where the POST /transcribe that leads to the task is
          queue,      \* _queue
          job,        \* where the coroutine _run_one of the task is
          ready,      \* the coroutines _run_one that are due to run, in order
          waiters,    \* the coroutines suspended in _free_slots.get(), in order
          freeSlots,  \* _free_slots
          slot,       \* the slot passed to run_pipeline
          cancelled,  \* _cancelled
          ttlLoop,    \* _ttl_loop is running
          deaths      \* how often the process has ended

requestVars == <<req, scratch>>
schedVars == <<queue, job, ready, waiters, freeSlots, slot>>
otherVars == <<cancelled, ttlLoop, deaths>>
runnerVars == <<proc, loop, req, schedVars, otherVars>>
vars == <<storeVars, fileVars, threadVars, runnerVars>>

Proc == {"down", "restoring", "up", "stopping", "stopped"}
LoopPC == {"idle", "deleteTmp", "purgeQueued", "purgeFinished", "purgeTmp", "stopClean",
           "stopClose", "restoreRunning", "restoreBumped", "restoreRunningTmp",
           "restoreQueued", "restoreQueuedTmp", "restoreEnqueue"}
ReqPC == {"none", "writing", "written", "placing", "placed", "accepted", "failed"}
JobPC == {"none", "start", "waiting", "woken", "inThread", "finish"}

\* The segment is at pc; todo and cur are its local variables.
At(pc, todo, cur) == [at |-> pc, todo |-> todo, cur |-> cur]
Idle == At("idle", {}, NoTask)

LoopState == [at : LoopPC, todo : SUBSET Tasks, cur : Tasks \cup {NoTask}]

RunnerTypeOK ==
  /\ proc \in Proc
  /\ loop \in LoopState
  /\ req \in [Tasks -> ReqPC]
  /\ queue \in Seq(Tasks) /\ ready \in Seq(Tasks) /\ waiters \in Seq(Tasks)
  /\ job \in [Tasks -> JobPC]
  /\ freeSlots \subseteq Slots
  /\ slot \in [Tasks -> Slots \cup {NoSlot}]
  /\ cancelled \subseteq Tasks
  /\ ttlLoop \in BOOLEAN
  /\ deaths \in Nat

\* The types of all the variables.
TypeOK == TaskStoreTypeOK /\ UploadFilesTypeOK /\ PipelineThreadTypeOK /\ RunnerTypeOK

Init ==
  /\ TaskStoreInit /\ UploadFilesInit /\ PipelineThreadInit
  /\ proc = "down" /\ loop = Idle
  /\ req = [t \in Tasks |-> "none"]
  /\ queue = <<>> /\ ready = <<>> /\ waiters = <<>>
  /\ job = [t \in Tasks |-> "none"]
  /\ freeSlots = Slots
  /\ slot = [t \in Tasks |-> NoSlot]
  /\ cancelled = {}
  /\ ttlLoop = FALSE
  /\ deaths = 0

\* A coroutine other than the one of the segment under way gets to run.
Scheduled == proc = "up" /\ loop = Idle

InSegment(pc) == loop.at = pc

\* A call of the store may raise.
MayFail == "fault" \in Ops /\ Cardinality(abandoned) < MaxFaults

Become(f, t, value) == [f EXCEPT ![t] = value]

----------------------------------------------------------------------------
(* POST /transcribe: the gate, the upload to a scratch file, submit().     *)

InFlight(t) == req[t] \in {"writing", "written", "placing", "placed"}

\* _submit_lock is held over the thread that places the upload.
SubmitLocked == \E t \in Tasks : req[t] \in {"placing", "placed"}

QueueFull == count_queued >= WORKER_QUEUE_SIZE

\* Faulty variant: submit relies on the check the gate made before the upload.
SubmitTrustsGate == FALSE

\* submit counts again, under the lock.
SubmitSeesFullQueue == QueueFull

\* gate_transcribe_upload lets the request in and the write of the body begins.
Post(t) ==
  /\ Scheduled
  /\ req[t] = "none"
  /\ ~QueueFull
  /\ req' = Become(req, t, "writing")
  /\ scratch' = scratch \cup {t}
  /\ UNCHANGED <<storeVars, tmp, threadVars, proc, loop, schedVars, otherVars>>

\* write_upload_limited ends: all of it, or PayloadTooLarge and the file unlinked.
WriteUpload(t) ==
  /\ Scheduled
  /\ req[t] = "writing"
  /\ \/ req' = Become(req, t, "written") /\ UNCHANGED scratch
     \/ req' = Become(req, t, "none") /\ scratch' = scratch \ {t}
  /\ UNCHANGED <<storeVars, tmp, threadVars, proc, loop, schedVars, otherVars>>

\* submit holds the lock and finds the queue full: 503, the scratch file goes.
SubmitReject(t) ==
  /\ Scheduled
  /\ req[t] = "written"
  /\ ~SubmitLocked
  /\ SubmitSeesFullQueue
  /\ req' = Become(req, t, "none")
  /\ scratch' = scratch \ {t}
  /\ UNCHANGED <<storeVars, tmp, threadVars, proc, loop, schedVars, otherVars>>

SubmitBegin(t) ==
  /\ Scheduled
  /\ req[t] = "written"
  /\ ~SubmitLocked
  /\ ~SubmitSeesFullQueue
  /\ create_tmp(t)
  /\ req' = Become(req, t, "placing")
  /\ UNCHANGED <<storeVars, threadVars, proc, loop, schedVars, otherVars>>

\* The thread that renames the scratch file; without one replace() raises, the
\* request fails with 500 and tmp/<task_id> stays behind.
Place(t) ==
  /\ req[t] = "placing"
  /\ IF t \in scratch
       THEN place_upload(t) /\ req' = Become(req, t, "placed")
       ELSE UNCHANGED fileVars /\ req' = Become(req, t, "failed")
  /\ UNCHANGED <<storeVars, threadVars, proc, loop, schedVars, otherVars>>

SubmitEnd(t) ==
  /\ Scheduled
  /\ req[t] = "placed"
  /\ create(t)
  /\ queue' = Append(queue, t)
  /\ req' = Become(req, t, "accepted")
  /\ UNCHANGED <<fileVars, threadVars, proc, loop, job, ready, waiters, freeSlots, slot, otherVars>>

\* The store fails in submit: there is no row and the upload stays behind; or there is
\* one, create cannot read it back, and the id never reaches _queue.
SubmitFails(t) ==
  /\ Scheduled /\ MayFail
  /\ req[t] = "placed"
  /\ \/ /\ req' = Become(req, t, "failed")
        /\ UNCHANGED <<storeVars, abandoned>>
     \/ /\ create(t)
        /\ req' = Become(req, t, "accepted")
        /\ abandoned' = abandoned \cup {t}
  /\ UNCHANGED <<fileVars, thread, starts, proc, loop, schedVars, otherVars>>

----------------------------------------------------------------------------
(* _dispatch_loop and _run_one.                                            *)

\* get() does not suspend while the queue has entries, so the loop drains it.
Dispatch ==
  /\ Scheduled
  /\ queue # <<>>
  /\ ready' = ready \o queue
  /\ job' = [t \in Tasks |-> IF \E i \in DOMAIN queue : queue[i] = t THEN "start" ELSE job[t]]
  /\ queue' = <<>>
  /\ UNCHANGED <<storeVars, fileVars, threadVars, proc, loop, req, waiters, freeSlots, slot, otherVars>>

\* Faulty variant: a way out of _run_one without the put_nowait of the finally.
PutSlotForgotten(s, rest, jobs) ==
  /\ UNCHANGED <<freeSlots, waiters>>
  /\ ready' = rest
  /\ job' = jobs

\* Faulty variant: put_nowait without waking a getter.
PutSlotSilently(s, rest, jobs) ==
  /\ freeSlots' = freeSlots \cup {s}
  /\ UNCHANGED waiters
  /\ ready' = rest
  /\ job' = jobs

\* _free_slots.put_nowait(s): the first suspended getter becomes due; `rest' and
\* `jobs' are ready and job without the coroutine that gives the slot back.
PutSlot(s, rest, jobs) ==
  /\ freeSlots' = freeSlots \cup {s}
  /\ IF waiters = <<>>
       THEN ready' = rest /\ job' = jobs /\ UNCHANGED waiters
       ELSE /\ ready' = Append(rest, Head(waiters))
            /\ job' = [jobs EXCEPT ![Head(waiters)] = "woken"]
            /\ waiters' = Tail(waiters)

\* The coroutine due next is that of t, and it is at pc.
Due(t, pc) == Scheduled /\ ready # <<>> /\ t = Head(ready) /\ job[t] \in pc

\* _run_one returns before it asks for a slot.
JobCancelled(t) ==
  /\ Due(t, {"start"})
  /\ t \in cancelled
  /\ ready' = Tail(ready)
  /\ job' = Become(job, t, "none")
  /\ UNCHANGED <<storeVars, fileVars, threadVars, proc, loop, req, queue, waiters,
                 freeSlots, slot, otherVars>>

AsksForSlot(t) ==
  \/ Due(t, {"start"}) /\ t \notin cancelled
  \/ Due(t, {"woken"})

\* get() finds no slot: a getter at the end, also if it was woken and overtaken.
JobWaits(t) ==
  /\ AsksForSlot(t)
  /\ freeSlots = {}
  /\ ready' = Tail(ready)
  /\ waiters' = Append(waiters, t)
  /\ job' = Become(job, t, "waiting")
  /\ UNCHANGED <<storeVars, fileVars, threadVars, proc, loop, req, queue, freeSlots, slot, otherVars>>

\* With the slot in hand: cancelled, or the row is gone.
NotWanted(t) == t \in cancelled \/ ~HasRow(t)

\* The slot goes through get_nowait and straight back through the finally.
JobDropped(t) ==
  /\ AsksForSlot(t)
  /\ NotWanted(t)
  /\ \E s \in freeSlots : PutSlot(s, Tail(ready), Become(job, t, "none"))
  /\ UNCHANGED <<storeVars, fileVars, threadVars, proc, loop, req, queue, slot, otherVars>>

\* With the slot in hand the look at the row fails: the exception ends the coroutine,
\* the finally gives the slot back, the row stays queued without anyone to run it.
JobFails(t) ==
  /\ AsksForSlot(t) /\ MayFail
  /\ t \notin cancelled
  /\ \E s \in freeSlots : PutSlot(s, Tail(ready), Become(job, t, "none"))
  /\ abandoned' = abandoned \cup {t}
  /\ UNCHANGED <<storeVars, fileVars, thread, starts, proc, loop, req, queue, slot, otherVars>>

\* Faulty variant: the slot handed to the thread stays in the pool.
TakeSlotShared(s) == UNCHANGED freeSlots

TakeSlot(s) == freeSlots' = freeSlots \ {s}

JobRuns(t) ==
  /\ AsksForSlot(t)
  /\ ~NotWanted(t)
  /\ \E s \in freeSlots : TakeSlot(s) /\ slot' = Become(slot, t, s)
  /\ ready' = Tail(ready)
  /\ job' = Become(job, t, "inThread")
  /\ Goto(t, "get")
  /\ UNCHANGED <<storeVars, fileVars, historyVars, proc, loop, req, queue, waiters, otherVars>>

\* The future of the thread resolves; a coroutine that still awaits it is due.
ThreadReturns(t) ==
  /\ thread[t] = "returned"
  /\ Goto(t, "none")
  /\ IF job[t] = "inThread"
       THEN ready' = Append(ready, t) /\ job' = Become(job, t, "finish") /\ UNCHANGED slot
       ELSE slot' = Become(slot, t, NoSlot) /\ UNCHANGED <<ready, job>>
  /\ UNCHANGED <<storeVars, fileVars, historyVars, proc, loop, req, queue, waiters, freeSlots, otherVars>>

JobFinishes(t) ==
  /\ Due(t, {"finish"})
  /\ PutSlot(slot[t], Tail(ready), Become(job, t, "none"))
  /\ slot' = Become(slot, t, NoSlot)
  /\ UNCHANGED <<storeVars, fileVars, threadVars, proc, loop, req, queue, otherVars>>

----------------------------------------------------------------------------
(* DELETE /tasks/{id}, DELETE /tasks and the TTL.                          *)

\* One segment: the row first, then the directory.
Delete(t) ==
  /\ Scheduled /\ "delete" \in Ops
  /\ Deletable(t)
  /\ DeleteRows({t})
  /\ cancelled' = IF rows[t].status = "queued" THEN cancelled \cup {t} ELSE cancelled
  /\ loop' = At("deleteTmp", {}, t)
  /\ UNCHANGED <<fileVars, threadVars, proc, req, schedVars, ttlLoop, deaths>>

DeleteTmp(t) ==
  /\ InSegment("deleteTmp") /\ t = loop.cur
  /\ cleanup_tmp(t)
  /\ loop' = Idle
  /\ UNCHANGED <<storeVars, threadVars, proc, req, schedVars, otherVars>>

\* Faulty variant: purge does not take _submit_lock.
PurgeMayStartAnyTime == TRUE

PurgeMayStart == ~SubmitLocked

\* purge: under the lock, one segment; keep_ids is loop.todo.
Purge ==
  /\ Scheduled /\ "purge" \in Ops
  /\ PurgeMayStart
  /\ loop' = At("purgeQueued", list_tasks({"running"}), NoTask)
  /\ UNCHANGED <<storeVars, fileVars, threadVars, proc, req, schedVars, otherVars>>

PurgeQueued ==
  /\ InSegment("purgeQueued")
  /\ delete_by_statuses({"queued"})
  /\ cancelled' = cancelled \cup list_tasks({"queued"})
  /\ loop' = At("purgeFinished", loop.todo, NoTask)
  /\ UNCHANGED <<fileVars, threadVars, proc, req, schedVars, ttlLoop, deaths>>

\* The rows are gone when the transcripts of those that were deleted are decoded: if one
\* is sealed under another token, the purge ends here with 500.
PurgeFinished ==
  /\ InSegment("purgeFinished")
  /\ delete_by_statuses(Finished)
  /\ loop' = IF Readable(list_tasks(Finished)) THEN At("purgeTmp", loop.todo, NoTask) ELSE Idle
  /\ UNCHANGED <<fileVars, threadVars, proc, req, schedVars, otherVars>>

PurgeTmp ==
  /\ InSegment("purgeTmp")
  /\ cleanup_tmp_except(loop.todo)
  /\ cleanup_upload_scratch
  /\ loop' = Idle
  /\ UNCHANGED <<storeVars, threadVars, proc, req, schedVars, otherVars>>

\* One of the two deletions raises: the lock is released, and the directories of the rows
\* that are gone already stay.
PurgeFails ==
  /\ InSegment("purgeQueued") \/ InSegment("purgeFinished")
  /\ MayFail
  /\ loop' = Idle
  /\ abandoned' = abandoned \cup {t \in Tasks : ~HasRow(t) /\ tmp[t] # "none"}
  /\ UNCHANGED <<storeVars, fileVars, thread, starts, proc, req, schedVars, otherVars>>

\* _ttl_loop: rows whose finished_at is old enough, here one at a time.
Expire(t) ==
  /\ Scheduled /\ "expire" \in Ops
  /\ ttlLoop
  /\ Expirable(t)
  /\ DeleteRows({t})
  /\ UNCHANGED <<fileVars, threadVars, runnerVars>>

\* purge_expired raises: nothing catches it, and the loop is over for this process.
TtlFails ==
  /\ Scheduled /\ "expire" \in Ops /\ MayFail
  /\ ttlLoop
  /\ ttlLoop' = FALSE
  /\ UNCHANGED <<storeVars, fileVars, threadVars, proc, loop, req, schedVars, cancelled, deaths>>

----------------------------------------------------------------------------
(* start() and _restore_unfinished.                                        *)

\* Faulty variant: only the queued rows are looked at.
InterruptedRowsIgnored == {}

InterruptedRows == list_tasks({"running"})

\* TaskRunner.__init__ opens the store; the restore reads the running rows.
Start ==
  /\ proc = "down"
  /\ OpenStore
  /\ proc' = "restoring"
  /\ loop' = At("restoreRunning", InterruptedRows, NoTask)
  /\ UNCHANGED <<fileVars, threadVars, req, schedVars, otherVars>>

Restoring(pc, t) == InSegment(pc) /\ t \in loop.todo

ContinueAt(pc, todo, cur) ==
  /\ loop' = At(pc, todo, cur)
  /\ UNCHANGED <<threadVars, proc, req, schedVars, otherVars>>

RestoreInterrupted(t) ==
  /\ Restoring("restoreRunning", t)
  /\ ~UploadExists(t)
  /\ mark_error(t, "interrupted")
  /\ ContinueAt("restoreRunningTmp", loop.todo \ {t}, t)
  /\ UNCHANGED fileVars

RestoreBump(t) ==
  /\ Restoring("restoreRunning", t)
  /\ UploadExists(t)
  /\ bump_attempts(t)
  /\ ContinueAt("restoreBumped", loop.todo \ {t}, t)
  /\ UNCHANGED fileVars

\* Faulty variant: an off-by-one in the comparison with the limit.
MayRunOnceMore(t) == rows[t].attempts <= TASK_MAX_RESTARTS + 1

MayRunAgain(t) == rows[t].attempts <= TASK_MAX_RESTARTS

\* bump_attempts has returned the new count: a second commit settles the row.
RestoreSettle(t) ==
  /\ InSegment("restoreBumped") /\ t = loop.cur
  /\ IF MayRunAgain(t)
       THEN reset_to_queued(t) /\ ContinueAt("restoreRunning", loop.todo, NoTask)
       ELSE mark_error(t, "process_killed") /\ ContinueAt("restoreRunningTmp", loop.todo, t)
  /\ UNCHANGED fileVars

RestoreCleanTmp(t) ==
  /\ t = loop.cur
  /\ \/ InSegment("restoreRunningTmp") /\ ContinueAt("restoreRunning", loop.todo, NoTask)
     \/ InSegment("restoreQueuedTmp") /\ ContinueAt("restoreQueued", loop.todo, NoTask)
  /\ cleanup_tmp(t)
  /\ UNCHANGED storeVars

RestoreMissing(t) ==
  /\ Restoring("restoreQueued", t)
  /\ IF UploadExists(t)
       THEN UNCHANGED storeVars /\ ContinueAt("restoreQueued", loop.todo \ {t}, NoTask)
       ELSE /\ mark_error(t, "missing_upload")
            /\ ContinueAt("restoreQueuedTmp", loop.todo \ {t}, t)
  /\ UNCHANGED fileVars

\* Faulty variant: the list of the queued rows is older than the reset of the others.
RowsNeverRun == {t \in list_tasks({"queued"}) : rows[t].attempts = 0}

RowsToEnqueue == list_tasks({"queued"})

\* The loops over the running and over the queued rows are through.
RestoreNextList ==
  /\ loop.todo = {}
  /\ \/ InSegment("restoreRunning")
        /\ ContinueAt("restoreQueued", list_tasks({"queued"}), NoTask)
     \/ InSegment("restoreQueued")
        /\ ContinueAt("restoreEnqueue", RowsToEnqueue, NoTask)
  /\ UNCHANGED <<storeVars, fileVars>>

\* WORKER_QUEUE_SIZE is not applied here.
RestoreEnqueue(t) ==
  /\ InSegment("restoreEnqueue")
  /\ t \in OldestOf(loop.todo)
  /\ queue' = Append(queue, t)
  /\ loop' = At("restoreEnqueue", loop.todo \ {t}, NoTask)
  /\ UNCHANGED <<storeVars, fileVars, threadVars, proc, req, job, ready, waiters, freeSlots,
                 slot, otherVars>>

\* The dispatcher and the TTL loop are created and the API is ready.
Serve ==
  /\ InSegment("restoreEnqueue") /\ loop.todo = {}
  /\ proc' = "up"
  /\ loop' = Idle
  /\ ttlLoop' = TRUE
  /\ UNCHANGED <<storeVars, fileVars, threadVars, req, schedVars, cancelled, deaths>>

----------------------------------------------------------------------------
(* stop() and the end of the process.                                      *)

\* Coroutines cancelled, slots back in the pool; the threads go on.
AbandonJobs ==
  /\ queue' = <<>> /\ ready' = <<>> /\ waiters' = <<>>
  /\ job' = [t \in Tasks |-> "none"]
  /\ freeSlots' = Slots

\* Faulty variant: stop() removes the directory of every row.
RowsOfAnyStatus == list_tasks(TaskStatus)

RowsToClean == list_tasks(Finished)

\* A call that no thread has picked up yet is withdrawn with the coroutine that awaits it.
NotPickedUp == {t \in Tasks : thread[t] = "get"}

\* uvicorn runs the lifespan's shutdown once no request is in flight.  The rows that are
\* finished when stop() lists them are loop.todo; a transcript sealed under another token
\* makes the list raise, and the store is never closed.
Stop ==
  /\ Scheduled /\ "stop" \in Ops /\ deaths < MaxDeaths
  /\ \A t \in Tasks : ~InFlight(t)
  /\ AbandonJobs
  /\ \E Withdrawn \in SUBSET NotPickedUp :
       /\ thread' = [t \in Tasks |-> IF t \in Withdrawn THEN "none" ELSE thread[t]]
       /\ slot' = [t \in Tasks |-> IF t \in Withdrawn THEN NoSlot ELSE slot[t]]
  /\ IF Readable(list_tasks(TaskStatus))
       THEN proc' = "stopping" /\ loop' = At("stopClean", RowsToClean, NoTask)
       ELSE proc' = "stopped" /\ loop' = Idle
  /\ ttlLoop' = FALSE
  /\ UNCHANGED <<storeVars, fileVars, historyVars, req, cancelled, deaths>>

StopClean ==
  /\ InSegment("stopClean")
  /\ tmp' = [t \in Tasks |-> IF t \in loop.todo THEN "none" ELSE tmp[t]]
  /\ loop' = At("stopClose", {}, NoTask)
  /\ UNCHANGED <<storeVars, scratch, threadVars, proc, req, schedVars, otherVars>>

StopClose ==
  /\ InSegment("stopClose")
  /\ close
  /\ proc' = "stopped"
  /\ loop' = Idle
  /\ UNCHANGED <<fileVars, threadVars, req, schedVars, otherVars>>

\* What does not survive the process.
LoseMemory ==
  /\ AbandonJobs
  /\ proc' = "down"
  /\ loop' = Idle
  /\ close
  /\ thread' = [t \in Tasks |-> "none"]
  /\ slot' = [t \in Tasks |-> NoSlot]
  /\ req' = [t \in Tasks |-> IF InFlight(t) THEN "failed" ELSE req[t]]
  /\ abandoned' = {}
  /\ cancelled' = {}
  /\ ttlLoop' = FALSE
  /\ deaths' = deaths + 1
  /\ UNCHANGED <<fileVars, starts>>

\* The loop is closed: asyncio waits for the threads of its executor.
Exit ==
  /\ proc = "stopped"
  /\ \A t \in Tasks : thread[t] = "none"
  /\ LoseMemory

\* SIGKILL, the OOM killer, a native fault, power.
Crash ==
  /\ proc # "down" /\ "crash" \in Ops /\ deaths < MaxDeaths
  /\ LoseMemory

\* Outside the program: DATA_DIR loses a task's directory while it is down.
LoseUpload(t) ==
  /\ proc = "down" /\ "lose" \in Ops
  /\ UploadExists(t)
  /\ cleanup_tmp(t)
  /\ UNCHANGED <<storeVars, threadVars, runnerVars>>

\* Outside the program: .env gets another API_TOKEN while the process is down.
ChangeToken ==
  /\ proc = "down" /\ "rotate" \in Ops
  /\ SealsBroken
  /\ UNCHANGED <<fileVars, threadVars, runnerVars>>

----------------------------------------------------------------------------

\* A request that was let in, on its way to an answer.
AnswerStep(t) ==
  WriteUpload(t) \/ SubmitReject(t) \/ SubmitBegin(t) \/ Place(t) \/ SubmitEnd(t)

JobStep(t) ==
  JobCancelled(t) \/ JobWaits(t) \/ JobDropped(t) \/ JobRuns(t) \/ JobFinishes(t)

\* The rest of a segment that has begun.
SegmentStep ==
  \/ \E t \in Tasks : \/ DeleteTmp(t) \/ RestoreInterrupted(t) \/ RestoreBump(t)
                      \/ RestoreSettle(t) \/ RestoreCleanTmp(t) \/ RestoreMissing(t)
                      \/ RestoreEnqueue(t)
  \/ PurgeQueued \/ PurgeFinished \/ PurgeTmp \/ RestoreNextList \/ Serve
  \/ StopClean \/ StopClose

\* A thread of the executor goes on, or its result reaches the event loop.
WorkerStep(t) ==
  \/ ThreadStep(t) /\ UNCHANGED runnerVars
  \/ ThreadReturns(t)

ProcessStep == Start \/ Stop \/ Exit \/ Crash

\* A call of the store raises.  In start() it ends the process, as Crash does; elsewhere
\* a failed call that is not listed here changes nothing but the answer to its request.
StoreFault ==
  \/ \E t \in Tasks : \/ SubmitFails(t) \/ JobFails(t)
                      \/ MayFail /\ StoreFails(t) /\ UNCHANGED runnerVars
  \/ PurgeFails \/ TtlFails

Next ==
  \/ \E t \in Tasks : \/ Post(t) \/ AnswerStep(t) \/ JobStep(t) \/ WorkerStep(t)
                      \/ Delete(t) \/ Expire(t) \/ LoseUpload(t)
  \/ Dispatch \/ Purge \/ SegmentStep \/ ProcessStep \/ StoreFault \/ ChangeToken

Spec == Init /\ [][Next]_vars
=============================================================================
