\* DELETE /tasks beside a request that has not placed its upload yet.
SPECIFICATION Spec
CONSTANTS
  Tasks = {t1}
  Slots = {s1}
  WORKER_QUEUE_SIZE = 2
  TASK_MAX_RESTARTS = 1
  MaxDeaths = 0
  MaxFaults = 1
  Ops = {"purge"}
  NoTask = NoTask
  NoSlot = NoSlot
CHECK_DEADLOCK FALSE
INVARIANTS LiveScratchKept
