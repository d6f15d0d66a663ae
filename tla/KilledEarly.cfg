\* Deaths of the process, one of them during the restore.
SPECIFICATION Spec
CONSTANTS
  Tasks = {t1}
  Slots = {s1}
  WORKER_QUEUE_SIZE = 2
  TASK_MAX_RESTARTS = 1
  MaxDeaths = 2
  MaxFaults = 1
  Ops = {"crash"}
  NoTask = NoTask
  NoSlot = NoSlot
CHECK_DEADLOCK FALSE
INVARIANTS KilledAfterAllRuns
