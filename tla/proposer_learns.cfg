SPECIFICATION LossySpec
CONSTANTS
  Proposers = {2}
  Acceptors = {a1, a2}
  Learners = {l1}
  Commands = {v1, v2}
  NoOp = NoOp
  None = None
  MaxSlot = 2
  MaxBallot = 5
  AcceptorsSendLearns = FALSE
  LearnersSendExecuted = TRUE
  LearnersRetry = TRUE
  BatchSize = 1
  MessageBatchSize = 1
  MayChangeRole = {}
  MayRestart = {}
  Backlog = {v1, v2}
INVARIANTS ChosenStatusIsChosen OwnResult
PROPERTY GapCloses
