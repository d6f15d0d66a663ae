\* Three restored tasks and a new one, one worker.
SPECIFICATION RestoredSpec
CONSTANTS
  Tasks = {t1, t2, t3, t4}
  Slots = {s1}
  WORKER_QUEUE_SIZE = 4
  TASK_MAX_RESTARTS = 1
  MaxDeaths = 0
  MaxFaults = 1
  Ops = {}
  NoTask = NoTask
  NoSlot = NoSlot
SYMMETRY Symmetry
CHECK_DEADLOCK FALSE
PROPERTIES RestoredStartInOrder
