SPECIFICATION SettledSpec
CONSTANTS
  Proposers = {1, 2}
  Acceptors = {a1, a2, a3}
  Learners = {l1, l2}
  Commands = {v1, v2}
  NoOp = NoOp
  None = None
  MaxSlot = 1
  MaxBallot = 7
  AcceptorsSendLearns = TRUE
  LearnersSendExecuted = FALSE
  LearnersRetry = FALSE
  BatchSize = 1
  MessageBatchSize = 1
  MayChangeRole = {1}
  MayRestart = {}
  Backlog = {v1}
SYMMETRY Symmetry
INVARIANTS PromiseBinds BallotsDiffer HistoriesAgree
PROPERTY ImplementsLog
