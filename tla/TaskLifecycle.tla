--------------------------- MODULE TaskLifecycle ---------------------------
(***************************************************************************)
(* What a client is promised about a task (README.md of the repository,    *)
(* sections on restart, DELETE and purge), without the runner, its slots,  *)
(* threads, segments or deaths: a task is accepted once, runs at most      *)
(* 1 + TASK_MAX_RESTARTS times, ends in success or error, is removed only  *)
(* while it is not running, and never comes back.  Module TaskRunner       *)
(* implements this one.                                                    *)
(***************************************************************************)
EXTENDS Naturals, TaskIds

CONSTANT TASK_MAX_RESTARTS

VARIABLES status,     \* what GET /tasks/{id} would answer
          runs        \* how often the task was started

lifecycleVars == <<status, runs>>

Ended == {"success", "error"}
Status == {"absent", "queued", "running", "deleted"} \cup Ended

LifecycleTypeOK ==
  /\ status \in [Tasks -> Status]
  /\ runs \in [Tasks -> 0 .. TASK_MAX_RESTARTS + 1]

LifecycleInit ==
  /\ status = [t \in Tasks |-> "absent"]
  /\ runs = [t \in Tasks |-> 0]

Move(t, from, to) ==
  /\ status[t] = from
  /\ status' = [status EXCEPT ![t] = to]

Accept(t) == Move(t, "absent", "queued") /\ UNCHANGED runs

Run(t) ==
  /\ Move(t, "queued", "running")
  /\ runs[t] <= TASK_MAX_RESTARTS
  /\ runs' = [runs EXCEPT ![t] = @ + 1]

\* After a death of the process: from scratch, if a run is left.
RunAgainLater(t) ==
  /\ Move(t, "running", "queued")
  /\ runs[t] <= TASK_MAX_RESTARTS
  /\ UNCHANGED runs

Succeed(t) == Move(t, "running", "success") /\ UNCHANGED runs

Fail(t) ==
  /\ \/ Move(t, "running", "error")
     \/ Move(t, "queued", "error")
  /\ UNCHANGED runs

\* DELETE /tasks/{id}, DELETE /tasks, the TTL.
Remove(S) ==
  /\ \A t \in S : status[t] \in {"queued"} \cup Ended
  /\ status' = [t \in Tasks |-> IF t \in S THEN "deleted" ELSE status[t]]
  /\ UNCHANGED runs

LifecycleNext ==
  \/ \E t \in Tasks : \/ Accept(t) \/ Run(t) \/ RunAgainLater(t) \/ Succeed(t) \/ Fail(t)
  \/ \E S \in SUBSET Tasks : Remove(S)

LifecycleSpec == LifecycleInit /\ [][LifecycleNext]_lifecycleVars
=============================================================================
