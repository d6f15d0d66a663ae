------------------------ MODULE TaskRunnerInductive ------------------------
(***************************************************************************)
(* The inductive invariant behind the theorems of the proof modules.  The  *)
(* properties of TaskRunnerProps are not inductive: that a slot is handed  *)
(* out once, for example, also rests on a coroutine standing in _queue and *)
(* in _free_slots.get() at most once.                                      *)
(***************************************************************************)
EXTENDS TaskRunnerProps

RestorePC == {"restoreRunning", "restoreBumped", "restoreRunningTmp", "restoreQueued",
              "restoreQueuedTmp", "restoreEnqueue"}

\* No thread of an earlier process is left when a new one restores; the segments of the
\* restore and of stop() run in their phase of the process.
SegmentsInPhase ==
  /\ proc \in {"down", "restoring"} => \A t \in Tasks : thread[t] = "none"
  /\ loop.at \in RestorePC => proc = "restoring"
  /\ loop.at \in {"stopClean", "stopClose"} => proc = "stopping"

\* The rows the restore has still to treat are as it listed them.
RestoreListed ==
  \A t \in loop.todo :
    /\ loop.at \in RestorePC => HasRow(t)
    /\ loop.at \in {"restoreRunning", "restoreBumped", "restoreRunningTmp"} =>
         rows[t].status = "running" /\ t # loop.cur

\* How the runs of a task relate to the deaths its row counts.
RunsCounted ==
  \A t \in Tasks :
    /\ starts[t] <= TASK_MAX_RESTARTS + 1
    /\ ~Accepted(t) => starts[t] = 0 /\ ~HasRow(t)
    /\ rows[t].status = "queued" =>
         starts[t] <= rows[t].attempts /\ rows[t].attempts <= TASK_MAX_RESTARTS
    /\ rows[t].status = "running" => starts[t] <= rows[t].attempts + 1
    /\ loop.at = "restoreBumped" /\ t = loop.cur => starts[t] <= rows[t].attempts

RetryInv == SegmentsInPhase /\ RestoreListed /\ RunsCounted

----------------------------------------------------------------------------

\* A coroutine that waits for its thread, or for its turn after it, holds a slot.
JobHasSlot ==
  \A t \in Tasks : /\ job[t] \in {"inThread", "finish"} => slot[t] \in Slots
                   /\ job[t] = "finish" => thread[t] = "none"

\* Outside of serving there are no coroutines.
JobsOnlyUp == proc # "up" => \A t \in Tasks : job[t] = "none"

\* A task is in _queue before it has a coroutine; a suspended one is in the line of
\* getters, and once.
QueuePlaces ==
  /\ \A t \in Tasks : ~Accepted(t) => job[t] = "none"
  /\ \A i \in DOMAIN queue : job[queue[i]] = "none" /\ Accepted(queue[i])
  /\ \A i \in DOMAIN waiters : job[waiters[i]] = "waiting"
  /\ \A i, j \in DOMAIN waiters : waiters[i] = waiters[j] => i = j

\* Live threads belong to coroutines that await them, while the runner serves.
ThreadsAwaited ==
  proc = "up" => \A t \in Tasks : thread[t] # "none" => job[t] = "inThread"

Holds(t) == job[t] \in {"inThread", "finish"}

SlotsDivided ==
  /\ \A t \in Tasks : Holds(t) => slot[t] \notin freeSlots
  /\ \A t, u \in Tasks : Holds(t) /\ Holds(u) /\ t # u => slot[t] # slot[u]

SlotInv == JobHasSlot /\ JobsOnlyUp /\ QueuePlaces /\ ThreadsAwaited /\ SlotsDivided
             /\ SlotExclusive

----------------------------------------------------------------------------

PurgePC == {"purgeQueued", "purgeFinished", "purgeTmp"}
QueuedListPC == {"restoreQueued", "restoreQueuedTmp", "restoreEnqueue"}

\* The store is open from TaskRunner.__init__ to close(); restoring is a segment from end
\* to end, and a deletion that has begun belongs to a process that serves.
StorePhases ==
  /\ proc \in {"restoring", "up", "stopping"} => storeOpen
  /\ proc = "restoring" => loop.at \in RestorePC
  /\ loop.at \in PurgePC \cup {"deleteTmp"} => proc = "up"

\* The restore leaves no row running: one that still is, is listed or being settled.
RestoreClears ==
  /\ loop.at = "restoreBumped" => \A t \in Tasks : t = loop.cur => rows[t].status = "running"
  /\ proc = "restoring" =>
       \A t \in Tasks : rows[t].status = "running" =>
         t \in loop.todo \/ (loop.at = "restoreBumped" /\ t = loop.cur)
  /\ loop.at \in QueuedListPC => \A t \in loop.todo : rows[t].status = "queued"

\* Also after close(), when the threads of a stopped process go on.
WorkingIsRunning == \A t \in Tasks : Working(t) => rows[t].status = "running"

RowInv == StorePhases /\ RestoreClears /\ WorkingIsRunning /\ RunningIsOwned

----------------------------------------------------------------------------

\* A coroutine that is due stands in ready, a suspended one in the line of getters.
CoroutinesListed ==
  \A t \in Tasks : /\ job[t] = "waiting" => t \in Elements(waiters)
                   /\ job[t] \in {"start", "woken", "finish"} => t \in Elements(ready)

\* A task that is asked not to run has no row any more, and never gets one again.
CancelledIsGone == \A t \in cancelled : Accepted(t) /\ ~HasRow(t)

\* A queued row has someone on the way to mark_running; when the restore hands over to
\* the dispatcher, it has been enqueued.
QueuedReached ==
  \A t \in Tasks : rows[t].status = "queued" =>
    /\ proc = "up" /\ t \notin abandoned =>
         \/ t \in Elements(queue)
         \/ job[t] \in {"start", "waiting", "woken"}
         \/ thread[t] \in {"get", "mark"}
    /\ loop.at = "restoreEnqueue" => t \in Elements(queue) \/ t \in loop.todo

\* No slot is lost in any phase of the process.
SlotsKept == freeSlots \cup SlotsInUse = Slots

\* _submit_lock: one request at a time has counted the queue and not yet entered it.
LimitReserved ==
  /\ \A t \in Tasks : InFlight(t) => proc = "up"
  /\ \A t, u \in Tasks : req[t] \in {"placing", "placed"} /\ req[u] \in {"placing", "placed"}
                           => t = u
  /\ SubmitLocked => count_queued < WORKER_QUEUE_SIZE

QueueInv == CoroutinesListed /\ CancelledIsGone /\ QueuedReached /\ SlotsKept
              /\ NoLostWakeup /\ LimitReserved

----------------------------------------------------------------------------

\* Only accepted tasks have threads.
ThreadsAccepted == \A t \in Tasks : thread[t] # "none" => Accepted(t)

\* What the segments under way know of the rows and of the files.
SegmentKnows ==
  /\ loop.at \in PurgePC => ~SubmitLocked /\ "purge" \in Ops
  /\ loop.at \in {"purgeFinished", "purgeTmp"} => \A t \in Tasks : rows[t].status # "queued"
  /\ loop.at = "stopClean" => \A t \in loop.todo : rows[t].status \in Finished
  /\ \A t \in Tasks : t = loop.cur =>
       /\ loop.at = "deleteTmp" => Accepted(t) /\ ~HasRow(t)
       /\ loop.at = "restoreBumped" => UploadExists(t)
       /\ loop.at \in {"restoreRunningTmp", "restoreQueuedTmp"} => rows[t].status \in Finished

\* A task in _queue, or in a coroutine that has not started its thread, has not been run
\* since its row was queued.
PendingQueued ==
  /\ proc # "up" /\ loop.at # "restoreEnqueue" => queue = <<>>
  /\ \A t \in Tasks : t \in Elements(queue) \/ job[t] \in {"start", "waiting", "woken"}
                       => rows[t].status \in {"queued", "none"}

\* What a thread may find when it comes to its row, before its work and after it.
ThreadKnows ==
  \A t \in Tasks :
    /\ thread[t] \in {"get", "mark"} => rows[t].status \in {"queued", "none"}
    /\ thread[t] = "cleanup" => rows[t].status \in Finished \cup {"none"}
    /\ thread[t] = "final" /\ t \notin abandoned => rows[t].status \in Finished \cup {"none"}

\* The restore has looked for the upload of the queued task t, or the runner serves.
UploadSeen(t) ==
  \/ proc \in {"up", "stopping", "stopped"}
  \/ loop.at = "restoreEnqueue"
  \/ loop.at \in {"restoreQueued", "restoreQueuedTmp"} /\ t \notin loop.todo

UploadKept ==
  \A t \in Tasks :
    /\ req[t] = "placed" => UploadExists(t)
    /\ rows[t].status = "queued" /\ ("lose" \notin Ops \/ UploadSeen(t)) => UploadExists(t)

\* A task that was running when a purge began is cleaned by its thread or not at all.
PurgeSpares ==
  loop.at \in PurgePC => \A t \in loop.todo \ abandoned :
    \/ Alive(t) /\ thread[t] \notin {"get", "mark"}
    \/ ~Alive(t) /\ tmp[t] = "none"

\* The first process, which found no rows and no files: who removes the directory of a
\* finished task, and of one whose row was deleted before its thread came to it.
FirstLife ==
  deaths = 0 =>
    /\ unreadable = {}
    /\ proc \in {"down", "restoring"} => \A t \in Tasks : ~HasRow(t) /\ tmp[t] = "none"
    /\ proc = "up" => \A t \in Tasks \ abandoned : tmp[t] # "none" =>
         /\ rows[t].status \in Finished => Alive(t)
         /\ ~HasRow(t) /\ thread[t] \in {"get", "mark"} =>
              \/ loop.at = "deleteTmp" /\ t = loop.cur
              \/ loop.at \in {"purgeFinished", "purgeTmp"}

FileInv == ThreadsAccepted /\ SegmentKnows /\ PendingQueued /\ ThreadKnows /\ UploadKept
             /\ PurgeSpares /\ FirstLife /\ NoOrphans /\ ("purge" \notin Ops => RunningHasUpload)

IInv == TypeOK /\ RetryInv /\ SlotInv /\ RowInv /\ QueueInv /\ FileInv
=============================================================================
