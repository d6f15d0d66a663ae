\* One limit for a task and none for ffmpeg, every mix of tone layers.
SPECIFICATION MetricsSpec
CONSTANTS
  FfmpegTimeouts = {0}
  TaskTimeouts = {3}
  MaxTime = 2
  NoLimit = NoLimit
  NotTaken = NotTaken
CHECK_DEADLOCK FALSE
INVARIANT ToneCountedAsNotSkipped
