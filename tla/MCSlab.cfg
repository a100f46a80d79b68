SPECIFICATION Spec
CONSTANTS
    Frames = {1, 2, 3, 4}
    bufctl_count_max = 2
    FlagSets <- AllFlags
    GrowCounts = {1, 2}
    MaxSlabs = 3
INVARIANTS
    TypeOK
    BufferExclusive
    BufctlCountExact
    BuffersBacked
    AllocEnds
PROPERTIES
    AllocStrandsNothing
    ShrinkSafe
CHECK_DEADLOCK FALSE
