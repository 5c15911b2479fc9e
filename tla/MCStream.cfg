SPECIFICATION FairSpec
CONSTANTS
  Jobs = {1, 2}
  MaxAttempts = 1
  MaxReconnect = 1
  Disturbances = {"silent_end", "refresh", "overlap", "switch", "rerender"}
  MaxMark = 1
  MaxWire = 1
  MaxGets = 2
  MaxBreaks = 2
  MaxMet = 1
  None = None
INVARIANTS
  NeverStranded
  StreamIsOfSelected
PROPERTIES
  EndIsShown
