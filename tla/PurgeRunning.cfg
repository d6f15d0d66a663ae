\* DELETE /tasks beside a thread that is about to mark its task running.
SPECIFICATION Spec
CONSTANTS
  Tasks = {t1}
  Slots = {s1}
  WORKER_QUEUE_SIZE = 2
  TASK_MAX_RESTARTS = 1
  MaxDeaths = 0
  MaxFaults = 1
  Ops = {"purge"}
  NoTask = NoTask
  NoSlot = NoSlot
CHECK_DEADLOCK FALSE
INVARIANTS RunningHasUpload
