SPECIFICATION PredecessorsSpec
CONSTANTS
  Members = {1, 2, 3}
  Failing = {3}
  Commands = {c1, c2}
  Keys = {x}
  Items = {i1, i2}
  MaxIds = 3
  Handlers = {1, 2}
  NumHandled = 3
  Proposed = {v1, v2}
  MaxCrnd = 2
  Roles = {"proposer", "coordinator", "follower"}
  Visitors = {1, 2, 3}
  Wishes = {k1, k2}
  MaxWaiting = 2
INVARIANTS SuccessIsLearned OneWinnerPerNumber SuccessIsHeld LearnedByMajority
PROPERTIES OneValuePerRound AskedIsAnswered
CHECK_DEADLOCK FALSE
