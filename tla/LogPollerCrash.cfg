SPECIFICATION Spec
CONSTANTS
  Versions = {a, b}
  WithLogs = {b}
  BackfillBatchSize = 2
  BackupPollerBlockDelay = 0
  KeepFinalizedBlocksDepth = 4
  FinalityDepth = 1
  MaxHeight = 3
  MaxFaults = 0
  MaxIncomplete = 0
  MaxReorgs = 1
  MaxDeepReorgs = 0
  MaxCrashes = 1
  MaxReplays = 0
  RegisteredFirst = {TRUE}
INVARIANT Canonical
