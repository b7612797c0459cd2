SPECIFICATION FairSpec
CONSTANTS
  Versions = {a, b}
  WithLogs = {b}
  BackfillBatchSize = 2
  BackupPollerBlockDelay = 0
  KeepFinalizedBlocksDepth = 4
  FinalityDepth = 1
  MaxHeight = 3
  MaxFaults = 0
  MaxIncomplete = 0
  MaxReorgs = 1
  MaxDeepReorgs = 0
  MaxCrashes = 0
  MaxReplays = 1
  RegisteredFirst = {TRUE}
PROPERTY CatchesUp
