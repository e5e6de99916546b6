SPECIFICATION Spec
CONSTANTS
  Proposers = {2}
  Acceptors = {a1, a2}
  Learners = {l1}
  Commands = {v1}
  NoOp = NoOp
  None = None
  MaxSlot = 1
  MaxBallot = 8
  AcceptorsSendLearns = TRUE
  LearnersSendExecuted = TRUE
  LearnersRetry = FALSE
  BatchSize = 1
  MessageBatchSize = 1
  MayChangeRole = {2}
  MayRestart = {2}
  Backlog = {}
SYMMETRY Symmetry
INVARIANTS PromisesNotAhead AduIsExecuted
