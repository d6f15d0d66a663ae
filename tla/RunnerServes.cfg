\* Every request in any order while the process lives and its store may fail, three tasks
\* that contend for one slot.
SPECIFICATION Spec
CONSTANTS
  Tasks = {t1, t2, t3}
  Slots = {s1}
  WORKER_QUEUE_SIZE = 2
  TASK_MAX_RESTARTS = 1
  MaxDeaths = 0
  MaxFaults = 1
  Ops = {"purge", "delete", "expire", "fault"}
  NoTask = NoTask
  NoSlot = NoSlot
SYMMETRY Symmetry
\* With every task accepted and finished there may be nothing left to do.
CHECK_DEADLOCK FALSE
INVARIANTS NoSlotLeak NoLostWakeup QueuedHasUpload NoOrphans
PROPERTIES ImplementsLifecycle AcceptedWithinLimit
