SPECIFICATION Spec
CONSTANTS
  Proposers = {1, 2, 3}
  Acceptors = {11, 12, 13}
  Learners = {21, 22, 23}
  Commands = {v1, v2}
  NoOp = NoOp
  None = None
  MaxSlot = 1
  MaxBallot = 5
  AcceptorsSendLearns = FALSE
  LearnersSendExecuted = FALSE
  LearnersRetry = FALSE
  BatchSize = 1
  MessageBatchSize = 1
  MayLead = {2}
  MayResign = {3}
  MaxUnderWay = 4
SYMMETRY Symmetry
INVARIANTS LearnsOnlyChosen NodesAgree
CHECK_DEADLOCK FALSE
