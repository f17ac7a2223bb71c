CONSTANTS
    Labels = {Compute, Render}
    ThreadCounts = {0, 1}
    Systems = 2
    MaxGroups = 2
    MaxRuns = 2
    Usize = 8
SPECIFICATION WorkgroupsSpec
INVARIANTS WorkgroupsTypeOK SyncCoversAttached ShutdownCoversAttached
PROPERTIES SyncEndsUnlessStuck ShutdownEnds
CHECK_DEADLOCK FALSE
