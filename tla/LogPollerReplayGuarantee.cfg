SPECIFICATION Spec
CONSTANTS
  Versions = {a, b}
  WithLogs = {b}
  BackfillBatchSize = 2
  BackupPollerBlockDelay = 0
  KeepFinalizedBlocksDepth = 4
  FinalityDepth = 1
  MaxHeight = 3
  MaxFaults = 1
  MaxIncomplete = 0
  MaxReorgs = 0
  MaxDeepReorgs = 0
  MaxCrashes = 0
  MaxReplays = 1
  RegisteredFirst = {FALSE}
INVARIANT ReplayGuarantee
