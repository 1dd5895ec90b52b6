CONSTANTS
  None = None
  Objects = {x, y}
  Iters = {i}
  Keys = {1, 2}
  Kinds = {"map"}
  Shares = TRUE
  MaxSize = 2
SPECIFICATION Spec
CHECK_DEADLOCK FALSE
INVARIANTS
  NeverStale
