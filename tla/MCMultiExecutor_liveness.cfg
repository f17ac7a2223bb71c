CONSTANTS
    Systems <- FanSystems
    root <- FanRoot
    dependents <- FanDependents
    associates <- FanAssociates
    dependency_count <- FanCount
    NumThreads = 2
    Usize = 8
    OverflowChecks = FALSE
    Panics = {}
    MaxRuns = 2
SPECIFICATION Spec
INVARIANTS IInv
PROPERTIES SyncTerminatesUnlessAsleep ShutdownTerminates
CHECK_DEADLOCK FALSE
