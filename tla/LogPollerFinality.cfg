SPECIFICATION Spec
CONSTANTS
  Versions = {a, b}
  WithLogs = {b}
  BackfillBatchSize = 2
  BackupPollerBlockDelay = 0
  KeepFinalizedBlocksDepth = 1
  FinalityDepth = 1
  MaxHeight = 4
  MaxFaults = 0
  MaxIncomplete = 0
  MaxReorgs = 2
  MaxDeepReorgs = 1
  MaxCrashes = 0
  MaxReplays = 0
  RegisteredFirst = {TRUE}
INVARIANTS NoFalseAlarm
PROPERTIES FinalizedBlocksAreKept ImplementsLogView
