SPECIFICATION Spec
CONSTANTS
    Parts = {"fabric", "expression", "route", "rtl", "structured", "fsm", "integer",
             "types", "names", "layout"}
    MaxConnections = 3
    MaxSources = 5
    MaxDestinations = 3
    Laws = {l}
    Widths = {1, 2}
    MaxChildren = 1
    MaxCalls = 6
    Limit = 4
    MachineLimit = 7
    LimbBits = 2
    Radix = 3
    MaximumBits = 9
    FirstPrecision = 4
    MaxDigits = 3
    MaxIntegers = 3
    MaxProduct = 14
    MaxOperands = 3
    MaxNodes = 4
    Unaries = {"-", "!"}
    Binaries = {"+", "-", "*", "**", "<<", "==", "&"}
    MaxGeneratedBits = 40
    ParameterValues = {1, 2, 3, 4, 6}
    MaxCompared = 24
    WidthMax = 65535
    MaxRequests = 2
    MaxNames = 4
    MaxItems = 3
    MaxFirstItems = 2
    Blocks <- GivenBlocks
    RouteSignals <- GraphSignals
    RouteKind <- GraphKind
    RouteWidth <- GraphWidth
    RouteSigned <- GraphSigned
    RouteModules <- GivenModules
    LoweredPipelines <- GivenPipelines
    LoweredMachines <- GivenMachines
    Spellings <- NameSpellings
    NameRequests <- AskedNames
    SourceFiles <- GivenFiles
INVARIANTS LawfulTopology ReadsBack LawfulRoute TypesAreCanonical RangesAreOwned
           LoweredAsDeclared EveryStateHasACode IntegersAreExact ResultTypesAreExact
           ConversionsKeepValues BitsAreAccountedFor EmittedAsWritten SettlesInDeclared
PROPERTIES NamesAreFresh
CHECK_DEADLOCK FALSE
