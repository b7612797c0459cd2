SPECIFICATION StoresSpec
CONSTANTS
  a0 = a0
  a1 = a1
  a2 = a2
  b1 = b1
  x1 = x1
  s = s
  NoHead = NoHead
  Header <- SixHeads
  Number <- TheirNumber
  ParentHash <- TheirParent
  FinalizedHead <- FinalHeads
  HistoryDepth = 1
  MaxLostInserts = 1
  MaxRestarts = 1
  narrow = narrow
  wide = wide
  Filters <- TwoFilters
  Kinds = {"a", "b"}
  Matches <- TheirKinds
  Retention <- TheirRetention
  MaxLogsKept <- OneLogEach
  LogPrunePageSize = 2
  PruneKeepDepth = 1
  PruneFinalityDepth = 0
  LastBlock = 3
  LastLog = 3
  MaxTurns = 3
  u1 = u1
  u2 = u2
  u3 = u3
  k1 = k1
  k2 = k2
  k3 = k3
  Users <- ThreeUsers
  ServiceTypes = {"V1", "V2"}
  TypeOf <- TheirType
  Addresses <- ThreeAddresses
  Whitelist <- TheirList
  BlockNumber = {0, 1, 2, 3, 4}
  NoRow = NoRow
  Market = {0, 1, 4, 9, 14, 37, 60}
  NoPrice = NoPrice
  BumpPercent = 20
  BumpMin = 1
  TipCapDefault = 3
  FeeCapDefault = 8
  PriceMax = 50
  FeeCapBufferBlocks = 2
  KeyPriceMax = 40
  Writers = {w1, w2, w3}
INVARIANTS StoresTypeOK
INVARIANTS CacheIsRight FinalityIsRight RestartLosesNothing
INVARIANTS OneServiceType NobodyIsPassedOver
INVARIANTS LCAIsRight
INVARIANTS FeesAreValid
INVARIANTS VerdictsAreRight
PROPERTIES PrunedIsUnwanted BumpsAreReplacements
CHECK_DEADLOCK FALSE
