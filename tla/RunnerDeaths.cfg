\* Deaths, graceful stops and restarts at every point, uploads that vanish and a token that
\* changes while down, a failing store, purges.
SPECIFICATION Spec
CONSTANTS
  Tasks = {t1, t2}
  Slots = {s1, s2}
  WORKER_QUEUE_SIZE = 2
  TASK_MAX_RESTARTS = 1
  MaxDeaths = 2
  MaxFaults = 1
  Ops = {"crash", "stop", "lose", "rotate", "fault", "purge"}
  NoTask = NoTask
  NoSlot = NoSlot
SYMMETRY Symmetry
\* Nothing has to happen once the process is down for the last time.
CHECK_DEADLOCK FALSE
INVARIANTS TypeOK IInv RetryBound SlotExclusive RunningIsOwned QueuedIsReachable
PROPERTIES ImplementsLifecycle PurgeLeavesNoOrphan
