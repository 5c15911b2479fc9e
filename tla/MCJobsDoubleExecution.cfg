SPECIFICATION Spec
CONSTANTS
  Incidents = {i1}
  Keys = {}
  Blank = Blank
  Clients = {c1}
  Workers = {w1, w2}
  MaxAttempts = 2
  ClaimBatch = 1
  SlowExecution = FALSE
  MaxJobs = 2
  MaxCrashes = 1
  None = None
INVARIANTS
  NoDoubleExecution
SYMMETRY Interchangeable
