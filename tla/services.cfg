SPECIFICATION ServicesSpec
CONSTANTS
  Nodes = {1, 2, 3}
  Candidates = {2, 3}
  MayCrash = {2, 3}
  MaxRestarts = 1
  Values = {v1}
  None = None
  Empty = Empty
  MaxSlot = 3
  MaxBallot = 2
  Interval = 2
  Offset = 1
  MaxSnapshots = 1
  LoadSnapshots = 1
  MaxRecords = 2
  MaxFiles = 2
  Clients = {p, o}
  Persistent = {p}
  Seqs = {0, 1, 9}
  NumRequests = 2
  TopSeq = 9
  MaxRequests = 2
  MaxLives = 1
INVARIANTS LeaderIsHighestAlive FlagFollowsDetector AduIsLearned AnswersWereAsked AnswerOnItsWay
PROPERTIES EventuallyOneLeader ClientsFinish PromiseSurvives RecentSurvives CheckpointSurvives RecentLearnedSurvives
CHECK_DEADLOCK FALSE
