SPECIFICATION ScoringSpec
CONSTANTS
  e1 = e1
  e2 = e2
  e3 = e3
  e4 = e4
  e5 = e5
  d1 = d1
  d2 = d2
  Events <- MCEvents
  ActionKinds <- MCActionKinds
  MaxUnresolved = 2
  MaxActions = 4
  None = None
  Overlaps = {5, 40, 55, 80}
  MaxChunks = 3
  TopK = 2
  MaxClaims = 3
  NoVerdict = NoVerdict
  Vocabulary <- MCVocabulary
  Fillers = {0, 5, 9}
  Joins = {"none", "substring", "affect", "and", "ands"}
  NoRoute = NoRoute
  Files <- MCFiles
  Sizings <- MCSizings
  NoTitle = NoTitle
  Unprocessed = Unprocessed
  Requests <- MCRequests
  Answers <- MCAnswers
  Budget = 60
  NotAsked = NotAsked
  Searches <- MCSearches
  Outputs <- MCOutputs
  Foreign = Foreign
  Limit = 3
  ChannelTopK = 2
  MaxHypotheses = 2
  Datasets <- MCDatasets
  Documents = {d1, d2}
  Rankings <- MCRankings
  EvalTopK = 3
  TopKValues = {1, 3, 5, 10}
  NoDocument = NoDocument
INVARIANTS
  OneBranchIsEnough
  EvaluatedIsApprovable
  WeakGroundingElevates
  VerdictIgnoresOrder
  HighlyGroundedIsLowRisk
  PassagesCoverFile
  CitationsAreSources
  ReportMatchesRows
  RegressionIsSeen
PROPERTIES
  OnlySupportRaises
CHECK_DEADLOCK FALSE
