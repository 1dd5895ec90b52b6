CONSTANTS
  SeqBound = 16
  Values = {v1}
  Unset = Unset
  Segments <- UpTo4
  Calls <- NoCallers
  Appends = {}
  GapRanges <- NoPairs
  SkipTargets = {}
  SkipsBack = FALSE
  TrimTargets = {}
  AutoTrims = {}
  Initials = {}
  Units <- NoPairs
  Block = 1
  MaxUnits = 1
  MaxCalls = 4
SPECIFICATION GivenSpec
CHECK_DEADLOCK FALSE
INVARIANTS
  NothingLost
