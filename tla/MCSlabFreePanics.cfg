SPECIFICATION Spec
CONSTANTS
    Frames = {1, 2, 3, 4}
    bufctl_count_max = 2
    FlagSets <- HeapFlags
    GrowCounts = {1, 2}
    MaxSlabs = 3
INVARIANT FreeFindsSlab
CHECK_DEADLOCK FALSE
