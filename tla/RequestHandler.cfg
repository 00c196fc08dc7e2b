SPECIFICATION FairSpec
CONSTANTS
  MaxBurst = 2
  MaxIds = 3
  MaxFrames = 3
  BatchSizes <- Batches
CHECK_DEADLOCK FALSE
INVARIANTS QuietWhilePaused FrameNumbersKept SettingsReachHal
PROPERTIES RequestsProgress
