SPECIFICATION SpecParts
CONSTANTS
    FlowId = {a, b, c}
    ConnId = {x, y}
    Parser = {p, q}
    WithContext = {p}
    Unknown = unknown
    None = None
    MaxNodes = 5
    Library <- Libraries
    ModulesOf <- LibraryModules
    ScopeOf <- Scopes
    Reads <- Globals
    Registers <- Registrations
    Declares <- Units
    Queries <- Types
    NoParser = "-"
CHECK_DEADLOCK FALSE
SYMMETRY Symmetry
INVARIANTS
    MapsIntact
    ResumeIsSafe
    EveryStreamFinished
    ParsersAreFound
