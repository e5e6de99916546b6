SPECIFICATION SettledSpec
CONSTANTS
  Proposers = {2}
  Acceptors = {a1, a2, a3}
  Learners = {l1, l2}
  Commands = {v1, v2}
  NoOp = NoOp
  None = None
  MaxSlot = 2
  MaxBallot = 5
  AcceptorsSendLearns = TRUE
  LearnersSendExecuted = FALSE
  LearnersRetry = TRUE
  BatchSize = 1
  MessageBatchSize = 1
  MayChangeRole = {}
  MayRestart = {}
  Backlog = {v1, v2}
SYMMETRY Symmetry
INVARIANT HistoriesAgree
