CONSTANTS
  SeqBound = 16
  Values = {v1, v2}
  Unset = Unset
  Segments <- AllSegments
  Calls <- CallsOfEach
  Appends = {1}
  GapRanges <- SomeGaps
  SkipTargets = {2, 3, 5}
  SkipsBack = TRUE
  TrimTargets = {1, 3}
  AutoTrims = {TRUE, FALSE}
  Initials = {14}
  Units <- Mixed
  Block = 2
  MaxUnits = 2
  MaxCalls = 6
SPECIFICATION CallersSpec
CHECK_DEADLOCK FALSE
INVARIANTS
  BufferStaysExact AllAccounted WellFormed UnitsAgree
PROPERTIES
  HandsOverInOrder SkippedDataIsReported UndeliveredIsNew
