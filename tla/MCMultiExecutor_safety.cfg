CONSTANTS
    Systems <- ForkSystems
    root <- ForkRoot
    dependents <- ForkDependents
    associates <- ForkAssociates
    dependency_count <- ForkCount
    NumThreads = 2
    Usize = 8
    OverflowChecks = FALSE
    Panics = {4}
    MaxRuns = 2
SPECIFICATION Safety
INVARIANTS Conservation CounterOK SyncSound ShutdownAllOrNothing
PROPERTIES RunsInOrder
CHECK_DEADLOCK FALSE
