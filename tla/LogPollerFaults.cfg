SPECIFICATION Spec
CONSTANTS
  Versions = {a, b}
  WithLogs = {b}
  BackfillBatchSize = 1
  BackupPollerBlockDelay = 2
  KeepFinalizedBlocksDepth = 1
  FinalityDepth = 1
  MaxHeight = 3
  MaxFaults = 1
  MaxIncomplete = 0
  MaxReorgs = 1
  MaxDeepReorgs = 0
  MaxCrashes = 1
  MaxReplays = 1
  RegisteredFirst = {TRUE,FALSE}
INVARIANTS TypeOK SavedBlocksAreAChain Complete ReplayCovers
