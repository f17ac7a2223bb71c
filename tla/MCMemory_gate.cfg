CONSTANTS
    Systems <- JoinSystems
    root <- JoinRoot
    dependents <- JoinDependents
    associates <- JoinAssociates
    dependency_count <- JoinCount
    NumThreads = 2
    Usize = 8
    OverflowChecks = FALSE
    Panics = {}
    MaxRuns = 1
SPECIFICATION MemorySpec
INVARIANTS DependenciesVisible
CHECK_DEADLOCK FALSE
