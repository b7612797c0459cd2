SPECIFICATION FairSpec
CONSTANTS
  Versions = {a, b}
  WithLogs = {b}
  BackfillBatchSize = 1
  BackupPollerBlockDelay = 1
  KeepFinalizedBlocksDepth = 1
  FinalityDepth = 0
  MaxHeight = 3
  MaxFaults = 1
  MaxIncomplete = 1
  MaxReorgs = 1
  MaxDeepReorgs = 0
  MaxCrashes = 0
  MaxReplays = 0
  RegisteredFirst = {TRUE}
PROPERTY CatchesUp BackupRepairs
