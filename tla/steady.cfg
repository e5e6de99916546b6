SPECIFICATION Spec
CONSTANTS
  Proposers = {2}
  Acceptors = {a1, a2}
  Learners = {l1}
  Commands = {v1, v2}
  NoOp = NoOp
  None = None
  MaxSlot = 2
  MaxBallot = 6
  AcceptorsSendLearns = TRUE
  LearnersSendExecuted = TRUE
  LearnersRetry = TRUE
  BatchSize = 1
  MessageBatchSize = 1
  MayChangeRole = {}
  MayRestart = {}
  Backlog = {}
SYMMETRY Symmetry
INVARIANTS TypeOK LearnedIsChosen ProposedAfterPhase1 ExecutedOnce
