-------------------------- MODULE TaskRunnerProps --------------------------
(***************************************************************************)
(* What the task runner must get right: the invariants, the action         *)
(* properties and the abstract specification it implements.  Liveness is   *)
(* in PooledRunner, where the threads are as few as they really are.       *)
(***************************************************************************)
EXTENDS TaskRunner

Elements(s) == {s[i] : i \in DOMAIN s}

----------------------------------------------------------------------------
(* Safety.                                                                 *)

\* A task is started at most 1 + TASK_MAX_RESTARTS times, however often the process
\* dies and wherever it dies (_restore_unfinished counts the deaths in the row).
RetryBound == \A t \in Tasks : starts[t] <= TASK_MAX_RESTARTS + 1

\* Two threads of the executor never work with one slot, that is with one engine
\* replica: _free_slots hands each slot to one _run_one, and gets it back only when
\* its thread is through (or the runner stops and hands none out any more).
SlotExclusive ==
  \A t, u \in Tasks : Alive(t) /\ Alive(u) /\ t # u => slot[t] # slot[u]

SlotsInUse == {slot[t] : t \in {u \in Tasks : job[u] \in {"inThread", "finish"}}}

\* Every way out of _run_one gives its slot back exactly once: while the runner
\* serves, the slots are divided between the pool and the coroutines that hold one.
NoSlotLeak ==
  proc = "up" => freeSlots \cup SlotsInUse = Slots /\ freeSlots \cap SlotsInUse = {}

\* A coroutine never sleeps in _free_slots.get() beside a free slot that no woken
\* coroutine is on its way to take, even when a newcomer overtakes a woken one.
NoLostWakeup ==
  proc = "up" /\ waiters # <<>>
    => Cardinality(freeSlots) <= Cardinality({t \in Tasks : job[t] = "woken"})

\* A queued row is never stranded: while the runner serves, its id is in _queue or a
\* coroutine that will not drop it is on the way to mark_running.  Only a call of the
\* store that fails for this very task may strand it, until the next start.
QueuedIsReachable ==
  \A t \in Tasks \ abandoned : proc = "up" /\ rows[t].status = "queued" =>
    /\ t \notin cancelled
    /\ \/ t \in Elements(queue) \/ t \in Elements(waiters) \/ t \in Elements(ready)
       \/ thread[t] \in {"get", "mark"}

\* A row is running while a thread works on it, so the unguarded UPDATEs of
\* mark_success and mark_error always hit the run they belong to; and no row stays
\* running without anyone to finish it, unless both UPDATEs have failed for it.
\* (Until close(): then threads lose the store.)
RunningIsOwned ==
  \A t \in Tasks : proc \in {"up", "stopping"} =>
    /\ Working(t) => rows[t].status = "running"
    /\ rows[t].status = "running" => Working(t) \/ t \in abandoned

\* The upload of a queued task is on disk at every moment, so a restart can run it:
\* submit places it before the row exists, nothing removes it before the row is gone.
QueuedHasUpload == \A t \in Tasks : rows[t].status = "queued" => UploadExists(t)

\* The upload of a running row stays until the row is finished, also when its thread is
\* gone, so that a restart finds it and can run the task again.
\* (README.md:281: purge leaves running rows "and their tmp".)
RunningHasUpload ==
  \A t \in Tasks : proc \in {"up", "stopping", "stopped"} /\ rows[t].status = "running"
                    => UploadExists(t)

\* No directory tmp/<task_id> is left without someone to remove it: its row, its request,
\* its thread (which looks for its row at the end and finds None), a deletion or a purge
\* under way.  Only a request that failed after create_tmp and a failing store leave one;
\* what a death leaves is for the next purge.
NoOrphans ==
  proc = "up" /\ deaths = 0 =>
    \A t \in Tasks \ abandoned : tmp[t] # "none" =>
      \/ HasRow(t) \/ Alive(t) \/ req[t] \in {"placing", "placed", "failed"}
      \/ loop.at = "deleteTmp" /\ t = loop.cur
      \/ loop.at \in {"purgeFinished", "purgeTmp"}

\* The scratch file of a request is there until the request has placed it.
\* (audio.py:153: cleanup_upload_scratch removes leftovers.)
LiveScratchKept ==
  \A t \in Tasks : req[t] \in {"written", "placing"} => t \in scratch

\* Once the runner has stopped and its threads are through, no finished task has tmp
\* left.  (README.md:143: "Finished tmp is still cleaned".)
StopCleansFinished ==
  proc = "stopped" /\ (\A t \in Tasks : ~Alive(t))
    => \A t \in Tasks : rows[t].status \in Finished => tmp[t] = "none"

\* process_killed means that every run the limit allows was used up.  (README.md:141.)
KilledAfterAllRuns ==
  \A t \in Tasks : rows[t].error = "process_killed" => starts[t] = TASK_MAX_RESTARTS + 1

----------------------------------------------------------------------------
(* Action properties.                                                      *)

Accepted(t) == req[t] = "accepted"

\* submit never takes the queue beyond WORKER_QUEUE_SIZE, although it lets other
\* requests in while its thread places the upload (only a restore may exceed it).
AcceptedWithinLimit ==
  [][\A t \in Tasks : ~Accepted(t) /\ Accepted(t)' => count_queued' <= WORKER_QUEUE_SIZE]_vars

\* A purge that gets to the files leaves no directory of a task that has neither row nor
\* thread: whatever a death in submit or in a deletion, a failed request, or an earlier
\* purge that broke off over an unreadable transcript has left.  (README.md:281: "Also
\* removes orphan dirs".)  It misses a task that was running when it began only if the
\* look at the row, by which the thread decides what to remove, failed.
PurgeLeavesNoOrphan ==
  [][PurgeTmp => \A t \in Tasks : ~HasRow(t) /\ ~Alive(t)
                                  => tmp'[t] = "none" \/ t \in loop.todo \cap abandoned]_vars

----------------------------------------------------------------------------
(* The abstract specification.                                             *)

ClientStatus(t) ==
  CASE HasRow(t)                    -> rows[t].status
    [] ~HasRow(t) /\ Accepted(t)    -> "deleted"
    [] OTHER                        -> "absent"

Lifecycle == INSTANCE TaskLifecycle WITH status <- [t \in Tasks |-> ClientStatus(t)],
                                         runs <- starts

\* The runner with its threads, segments, deaths and restarts implements the promise
\* made to clients: one acceptance, bounded runs, no way back from an end, removal
\* only of what is not running, no return after removal.
ImplementsLifecycle == Lifecycle!LifecycleSpec
=============================================================================
