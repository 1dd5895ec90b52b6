CONSTANTS
  Null = Null
  Missing = Missing
  Iters = {x, y}
  Sizes = {1, 2}
  MaxOffset = 3
  MaxChunks = 3
  MaxChains = 2
  CutsGaps = FALSE
  None = None
  Objects = {x, y}
  Cursors = {c1}
  Keys = {1, 2}
  Kinds = {"vector", "set", "map"}
  MaxSize = 2
  Alphabet = {1, 2}
  MaxInput = 4
  Vals = {x, y}
  Strongs = {s1}
  Weaks = {w1}
  Self = Self
  Cells = {1, 2}
  Contents = {1, 2}
  Ptrs = {p1, p2, p3}
  Managed = {m1, m2}
  MaxRaw = 1
  Nil = Nil
  Units = {u1, u2}
  Root = u1
  Parents = {x, y}
  MaxChanges = 1
SPECIFICATION SpecTypes
SYMMETRY Symmetry
CHECK_DEADLOCK FALSE
INVARIANTS
  WellFormed ReadsAreRight AccessIsSafe ResultsAreRight
PROPERTIES
  ImplementsByteStream IteratorsSurvive
