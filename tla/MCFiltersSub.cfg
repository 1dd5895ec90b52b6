SPECIFICATION SpecChain
CONSTANTS
    N = 1
    MaxInput = 2
    MaxForward = 1
    lead = lead  final = final  Mark = Mark  Null = Null
CHECK_DEADLOCK FALSE
INVARIANTS
    SubUnitsGetFilteredInput
