SPECIFICATION ViewSpec
CONSTANTS
  Emails = {u1, u2}
  Requests = {r1, r2}
  MaxTokens = 3
  MaxTurns = 2
  Earlier = e
  KnowledgeBases = {k1, k2}
  Documents = {d1}
  Views <- MCViews
  None = None
INVARIANTS
  OneLinePerLogin
  ReuseIsContained
  TurnIsShownOnce
PROPERTIES
  PanelCatchesUp
CHECK_DEADLOCK FALSE
