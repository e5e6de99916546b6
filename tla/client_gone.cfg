SPECIFICATION SessionsSpec
CONSTANTS
  Clients = {p, o}
  Persistent = {p}
  Seqs = {0, 1, 9}
  NumRequests = 2
  TopSeq = 9
  MaxRequests = 2
  MaxLives = 0
PROPERTY ServesOn
CHECK_DEADLOCK FALSE
