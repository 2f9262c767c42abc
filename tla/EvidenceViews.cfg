SPECIFICATION Spec
CONSTANTS
    Schema = 3
    Symbols <- MCSymbols
    GraphNodes <- MCNodes
    NodeOrder <- MCNodeOrder
    Relationships <- MCRelationships
    Cycles <- MCCycles
    SymbolPageSize = 2
    NodePageSize = 2
    SourceLines = 3
    None = None
    Nothing = Nothing
    MaxCalls = 2
    MaxClicks = 4
    Texts = {"", "x"}
    Filters = {"", "class"}
    SortFields = {"id"}
    GraphTexts = {"", " "}
    Modes = {"modules", "packages", "inheritance"}
    EdgeFilters = {"", "inherits"}
    Trim <- MCTrim
    Snapshots <- MCSnapshots
    Opened = "s2"
    FactsOf <- MCFactsOf
    Sections = {"files", "symbols"}
    ChangePages <- MCChangePages
INVARIANTS
    SettledViewsAnswerTheToolbar
    ExcerptsAreTheScannedSource
PROPERTIES
    OfferedNodesCanBeFocused
    ViewsSettle
CHECK_DEADLOCK FALSE
