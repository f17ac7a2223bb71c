CONSTANTS
    Systems <- JoinSystems
    root <- JoinRoot
    dependents <- JoinDependents
    associates <- JoinAssociates
    dependency_count <- JoinCount
    NumThreads = 2
    Usize = 8
    OverflowChecks = TRUE
    Panics = {}
    MaxRuns = 1
SPECIFICATION Safety
INVARIANTS WorkersSurvive
CHECK_DEADLOCK FALSE
