\* A graceful stop beside a thread that finishes its task.
SPECIFICATION Spec
CONSTANTS
  Tasks = {t1}
  Slots = {s1}
  WORKER_QUEUE_SIZE = 2
  TASK_MAX_RESTARTS = 1
  MaxDeaths = 1
  MaxFaults = 1
  Ops = {"stop"}
  NoTask = NoTask
  NoSlot = NoSlot
CHECK_DEADLOCK FALSE
INVARIANTS StopCleansFinished
