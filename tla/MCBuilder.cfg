CONSTANTS
    MaxCalls = 2
    MaxSystems = 4
    MaxDepth = 3
    MaxRuns = 2
    MayPanic = TRUE
SPECIFICATION MCSpec
INVARIANTS
    WellFormed
    OrderExact
    SingleTypeOK
    RunsInKeyOrder
    RunIsComplete
    GatesClosedBetweenRuns
PROPERTY BuilderImplements RunsDeclaredOrder
CHECK_DEADLOCK FALSE
