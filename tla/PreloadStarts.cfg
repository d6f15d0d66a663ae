\* Deaths and failures at every constructor, with and without weights on disk.
SPECIFICATION FairSpec
CONSTANTS
  Order <- MCOrder
  AsrFamilies = {"whisper", "parakeet"}
  DiarizationFamilies = {"nemo"}
  ToneFamilies = {"tone_text"}
  WORKERS = 2
  EnvReaders = {"whisper", "nemo"}
  ForeignFolder = {"whisper"}
  MaxFaults = 2
\* A process that serves has nothing left to load.
CHECK_DEADLOCK FALSE
INVARIANTS PreloadInv ServesOnlyComplete OfflineIsTemporary HubOnlyWhenNeeded
PROPERTIES EventuallyServes
