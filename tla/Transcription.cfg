\* Recordings of up to three windows with a death and a changed setting in between, every
\* answer of the engines on a small time line.
SPECIFICATION Spec
CONSTANTS
  Labels = {A, B}
  Unknown = Unknown
  MaxDuration = 3
  ChunkSettings = {1, 2}
  Stride = 2
  MaxWords = 2
  MaxSegments = 2
  MaxDeaths = 1
  NoFile = NoFile
  NoLine = NoLine
\* The function returns or raises.
CHECK_DEADLOCK FALSE
SYMMETRY Symmetry
INVARIANTS TranscriptionInv HearsEverythingOnce WordsInTheirWindow ChunksRemoved
           SpeakerWasSpeaking NamedByAppearance CutWhereItChanges LinesFollowInTime
