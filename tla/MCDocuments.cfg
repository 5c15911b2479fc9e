CONSTANTS
  Documents = {d1}
  Contents = {x}
  Clients = {c1, c2}
  Parts = {1, 2}
  MaxIngestions = 2
  SetByHand = {"ARCHIVED"}
  None = None
SPECIFICATION Spec
SYMMETRY Symmetry
INVARIANTS
  ProcessingIsOwned
  SearchableAsStated
  FilesMatchRows
CHECK_DEADLOCK FALSE
