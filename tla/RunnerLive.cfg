\* Liveness under the fairness of the scheduler, with fewer threads than slots; no symmetry.
SPECIFICATION PooledFairSpec
CONSTANTS
  Tasks = {t1, t2}
  Slots = {s1, s2}
  WORKER_QUEUE_SIZE = 1
  TASK_MAX_RESTARTS = 1
  MaxDeaths = 1
  MaxFaults = 1
  PoolSize = 1
  Ops = {"stop", "crash", "fault", "expire"}
  NoTask = NoTask
  NoSlot = NoSlot
\* As in RunnerServes.
CHECK_DEADLOCK FALSE
INVARIANTS RunningHasUpload
PROPERTIES Settles RequestsAnswered FinishedIsCleaned HistoryExpires
