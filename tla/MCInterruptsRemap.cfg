SPECIFICATION Spec
CONSTANTS
    Lines = {0, 12}
    EntryMasks <- AllMasked
    Traps = {}
    MaskLines = {}
    HonoursMode = TRUE
INVARIANT RemapProgramsBoth
CHECK_DEADLOCK FALSE
