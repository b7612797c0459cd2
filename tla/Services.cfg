SPECIFICATION ServicesSpec
CONSTANTS
  Callers = {c1, c2}
  MaxOutages = 1
  MaxTimeouts = 1
  Subscribers = {s1, s2}
  MaxResults = 3
  Clients = {p1, p2, p3}
  AsyncClients = {p3}
  NoClient = NoClient
INVARIANTS ServicesTypeOK
INVARIANTS QuietAfterStop NonceBeforeRounds
INVARIANTS NothingIsLost
INVARIANTS AnswersGoToTheirClient
PROPERTIES CloseCompletes TriggerSuffices
PROPERTIES QuietAfterUnsubscribe SubscriptionEnds
PROPERTIES NobodyIsLeftWaiting
CHECK_DEADLOCK FALSE
