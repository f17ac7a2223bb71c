CONSTANTS
    Plans <- MCPlans
    MaxCalls = 1
    MaxLeaves = 2
    MaxDepth = 1
SPECIFICATION BuilderSpec
INVARIANTS SingleRoot
CHECK_DEADLOCK FALSE
