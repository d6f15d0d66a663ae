---------------------------- MODULE MCTaskRunner ----------------------------
(* The instances of the task runner that TLC checks.                       *)
EXTENDS TaskRunnerInductive, TLC

\* Tasks and slots are interchangeable: no definition names one of them.
Symmetry == Permutations(Tasks) \cup Permutations(Slots)
----------------------------------------------------------------------------
(* A restart that finds queued rows, as tests/test_api_tasks.py sets it up *)
(* in test_restore_fifo_order_and_queue_limit_not_applied: every task but  *)
(* the last was accepted, in the given order, and none has run.            *)

NTasks == Cardinality(Tasks)

RestoredInit ==
  \E order \in {f \in [Tasks -> 1 .. NTasks] : \A t, u \in Tasks : f[t] = f[u] => t = u} :
    LET Restored == {t \in Tasks : order[t] < NTasks} IN
    /\ rows = [t \in Tasks |->
                IF t \in Restored
                  THEN [NoRow EXCEPT !.status = "queued", !.timestamp = order[t]]
                  ELSE NoRow]
    /\ clock = NTasks /\ storeOpen = FALSE /\ unreadable = {}
    /\ tmp = [t \in Tasks |-> IF t \in Restored THEN "upload" ELSE "none"]
    /\ req = [t \in Tasks |-> IF t \in Restored THEN "accepted" ELSE "none"]
    /\ scratch = {} /\ PipelineThreadInit
    /\ proc = "down" /\ loop = Idle
    /\ queue = <<>> /\ ready = <<>> /\ waiters = <<>>
    /\ job = [t \in Tasks |-> "none"]
    /\ freeSlots = Slots /\ slot = [t \in Tasks |-> NoSlot]
    /\ cancelled = {} /\ ttlLoop = FALSE /\ deaths = 0

RestoredSpec == RestoredInit /\ [][Next]_vars

\* The tasks that were there before the restart.
RestoredFirst(t) == rows[t].timestamp < NTasks

\* With one worker, restored tasks start in the order of their timestamps.
\* (tests/test_api_tasks.py:621: first.started_at <= second.started_at.)
RestoredStartInOrder ==
  [][\A t, u \in Tasks :
       /\ rows[t].status = "queued" /\ rows'[t].status = "running"
       /\ rows[u].status = "queued"
       /\ RestoredFirst(t) /\ RestoredFirst(u)
       => rows[t].timestamp <= rows[u].timestamp]_vars
=============================================================================
