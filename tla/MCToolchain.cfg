CONSTANTS
  None = None  Partial = Partial  Absent = Absent
  Programs <- MCPrograms
  Projects <- MCProjects
  MaxRounds = 6
  r = r  w = w  l1 = l1  l2 = l2  i = i  A = A  B = B  C = C
  a = a  b = b  c = c  Epsilon = eps
  Terminals <- MCTerminals
  Nonterminals <- MCNonterminals
  Literal <- MCLiteral
  Grammars <- MCGrammars
  Procs <- MCProcs
  Codes <- MCCodes
  Files <- MCFiles
  FileName <- MCFileName
  Directory <- MCDirectory
  Parallelism = 2
  Unstarted = {"code1"}
  Rejected = {"user1"}
  PollFails = {"p2"}
  Registry <- MCRegistry
  Jobs <- MCJobs
SPECIFICATION SpecPart
CHECK_DEADLOCK FALSE
INVARIANTS
  GrammarIsExact OptimizedIsConsistent KeepsWhatRuns
  UnitsCompiled BuildIsSound CoercionIsSound
PROPERTIES
  ToolchainEnds
