SPECIFICATION MCSpec
CONSTANTS
    Signals <- AllSignals
    Kind <- KindOf
    Inputs = {"a"}
    Domains = {"clk", "aux"}
    NoDomain = "none"
    Statements <- Assignments
    Tests <- IfTests
    LeftoverMemos <- Leftover
    MaxProcesses = 2
    MaxTransfers = 2
    MaxConditions = 2
    MaxPending = 2
    Conditions = {1, 2, 3}
    MaxPredicates = 1
INVARIANT LoweredComposes
CHECK_DEADLOCK FALSE
