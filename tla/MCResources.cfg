CONSTANTS
    Systems <- MCSystems
    After <- MCAfter
    Types <- MCTypes
    Args <- MCArgs
    MaxBoxes = 5
    MaxRuns = 2
SPECIFICATION ResourcesSpec
INVARIANTS ResourcesTypeOK ArgumentsLive Exclusive
CHECK_DEADLOCK FALSE
