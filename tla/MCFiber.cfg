CONSTANTS
  Fibers = {f1, f2, f3, f4, f5}
  Resumables = {r1, r2, r3}
  Main = Main
  None = None
  CacheSize = 2
  MaxYields = 2
SPECIFICATION Spec
SYMMETRY Symmetry
CHECK_DEADLOCK FALSE
INVARIANTS
  Accounting Control StackIntegrity Ownership OwnOutcome
PROPERTIES DoneIsFinal
