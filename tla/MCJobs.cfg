SPECIFICATION FairSpec
CONSTANTS
  Incidents = {i1}
  Keys = {k1, Blank}
  Blank = Blank
  Clients = {c1, c2}
  Workers = {w1}
  MaxAttempts = 2
  ClaimBatch = 1
  SlowExecution = TRUE
  MaxJobs = 2
  MaxCrashes = 1
  None = None
INVARIANTS
  ExecutorOwnsJob
  CancelIsFinal
PROPERTIES
  LostRaceHasEnded
  ImplementsLifecycle
  EveryJobSettles
