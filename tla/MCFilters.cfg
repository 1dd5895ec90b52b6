SPECIFICATION FairSpecParts
CONSTANTS
    N = 3
    MaxInput = 2
    MaxForward = 1
    lead = lead  final = final  Mark = Mark  Null = Null
CHECK_DEADLOCK FALSE
INVARIANTS
    ChainIsSafe
    NothingIsLost
    FieldsMeanTheirInput
PROPERTIES
    UnitEnds
    CallsReturn
