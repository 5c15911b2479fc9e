CONSTANTS
  Calls = {t1, t2}
  Queries = {q}
  MaxSize = 1
  None = None
  Existing = e
  MaxHistory = 1
SPECIFICATION Spec
INVARIANTS
  NobodyWaitsInVain
  OutcomeMatchesStore
  PromptHasNewestHistory
PROPERTY EveryTurnEnds
CHECK_DEADLOCK FALSE
