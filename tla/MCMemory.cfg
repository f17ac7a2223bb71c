CONSTANTS
    Systems <- JoinSystems
    root <- JoinRoot
    dependents <- JoinDependents
    associates <- JoinAssociates
    dependency_count <- JoinCount
    NumThreads = 2
    Usize = 8
    OverflowChecks = FALSE
    Panics = {}
    MaxRuns = 2
SPECIFICATION MemorySpec
INVARIANTS TypeOK MainSees RunsVisible LastVisible
CHECK_DEADLOCK FALSE
