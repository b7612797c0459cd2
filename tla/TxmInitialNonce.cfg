SPECIFICATION FairSpec
CONSTANTS
  Callers = {c1, c2, c3}
  MaxOutages = 1
  MaxTimeouts = 1
PROPERTY NonceIsFound
CHECK_DEADLOCK FALSE
