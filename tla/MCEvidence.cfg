SPECIFICATION Spec
CONSTANTS
  Events <- MCEvents
  Keys = {"k"}
  NoKey = "none"
  Clients = {c1, c2}
  Batches <- MCBatches
  BatchSize = 1
  FetchCap = 2
  NearestK = 2
  MaxFaults = 1
  MaxBackfills = 1
SYMMETRY Symmetry
INVARIANTS
  AnswersMatchRows
  RaceIsNoFailure
  BackfillCovers
CHECK_DEADLOCK FALSE
