CONSTANTS
  A = A  B = B  Junk = Junk  Gap = Gap  Eod = Eod  None = None
  elem = elem  word = word  block = block  opt = opt  one = one  empties = empties
  two = two  list = list  counted = counted  trying = trying  sized = sized
  two_ = two_  list_ = list_  counted_ = counted_  trying_ = trying_  sized_ = sized_
  Tokens = {A, B}
  Regexps = {B}
  Roots = {two, list, empties, counted, trying, sized, two_, list_, counted_, trying_, sized_}
  Fields <- Units
  Sized <- SizeOf
  SyncAt <- NoUnits
  SyncAfter <- EndOf
  RandomAccess = {two_, list_, counted_, trying_, sized_}
  Outcomes <- Orderly
  MaxLength = 4
SPECIFICATION FairSpec
CHECK_DEADLOCK FALSE
INVARIANTS
  NoUnconfirmedSuccess Progressing
PROPERTIES
  NeverMovesBack FinallyRuns ParseEnds
