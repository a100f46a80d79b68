SPECIFICATION Spec
CONSTANTS
    PAGE_SIZE = 4
    WORD = 65536
    MaxNullFrees = 1
    MemMaps <- AllMaps
    Holders = {h1, h2}
    Counts = {1, 3, 5}
SYMMETRY Symmetry
INVARIANTS
    FrameZeroReserved
    UsedCountIsHeldPages
