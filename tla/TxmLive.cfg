SPECIFICATION FairSpec
CONSTANTS
  MaxInFlightTransactions = 1
  MaxInFlightSubset = 1
  MaxAllowedAttempts = 2
  MaxQueuedTransactions = 2
  PruneSubset = 2
  RetryBlockThreshold = 0
  StuckTxBlockThreshold = 0
  MaxRequests = 2
  MaxIds = 3
  MaxNonce = 1
  MaxForeign = 0
  MaxFaults = 1
  MaxDrops = 1
  MaxReorgs = 1
  MaxAbandons = 1
  MaxTroubles = 1
  NoTx = NoTx
  Foreign = Foreign
PROPERTIES EveryTransactionResolves
