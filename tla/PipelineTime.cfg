\* Both timeouts on and off, every mix of engines and tone layers.
SPECIFICATION MetricsSpec
CONSTANTS
  FfmpegTimeouts = {0, 1, 2}
  TaskTimeouts = {0, 2}
  MaxTime = 3
  NoLimit = NoLimit
  NotTaken = NotTaken
\* A run that has ended does nothing more.
CHECK_DEADLOCK FALSE
INVARIANTS MetricsTypeOK MetricsInv OneStageOverruns SuccessInTime CodeNamesLimit UnlimitedOnlyIfLate
           ToneAnswered CountedAsItHappened
