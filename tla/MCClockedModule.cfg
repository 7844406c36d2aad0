SPECIFICATION MCSpec
CONSTANTS
    Signals <- AllSignals
    Kind <- KindOf
    Inputs = {"a"}
    Domains = {"clk", "aux"}
    NoDomain = "none"
    Statements <- Assignments
    Tests <- IfTests
    LeftoverMemos <- Leftover
    MaxProcesses = 2
    MaxTransfers = 3
    MaxConditions = 2
    MaxPending = 2
    Conditions = {1, 2, 3}
    MaxPredicates = 4
INVARIANTS OwnershipExclusive OneClockDomain NeverFeedsItself FireIsOwn Canonical ExclusionExact
CHECK_DEADLOCK FALSE
