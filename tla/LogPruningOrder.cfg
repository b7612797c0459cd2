SPECIFICATION PruningSpec
CONSTANTS
  narrow = narrow
  wide = wide
  Filters <- TwoFilters
  Kinds = {"a", "b"}
  Matches <- TheirKinds
  Retention <- TheirRetention
  MaxLogsKept <- OneLogEach
  LogPrunePageSize = 0
  PruneKeepDepth = 1
  PruneFinalityDepth = 0
  LastBlock = 3
  LastLog = 3
  MaxTurns = 3
PROPERTIES OldestGoFirst
CHECK_DEADLOCK FALSE
