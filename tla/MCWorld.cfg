SPECIFICATION WorldSpec
CONSTANTS
    Capacity = 1
    Generations = 2
    MaxEntities = 3
    MaxReuses = 3
    Types <- ComponentTypes
    Health = Health
    Velocity = Velocity
    MaxCalls = 2
INVARIANTS
    WorldTypeOK
    PointersInverse
    PartitionSound
    StaleRefused
    RowsAligned
    ArchetypesDistinct
PROPERTY EntityStep
CHECK_DEADLOCK FALSE
