SPECIFICATION RequestSpec
CONSTANTS
  Chunks <- MCChunks
  Settings <- MCSettings
  SubQueries = {"q1", "q2"}
  TopK = 2
  CandidateK = 2
  RerankerK = 3
  MaxAttempts = 2
  Unread = Unread
  Failed = Failed
INVARIANTS
  FusionRespectsBranches
  NothingFoundIsLost
PROPERTY
  EveryRequestEnds
CHECK_DEADLOCK FALSE
