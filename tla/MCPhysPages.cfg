SPECIFICATION Spec
CONSTANTS
    PAGE_SIZE = 4
    WORD = 65536
    MaxNullFrees = 2
    MemMaps <- CoveredMaps
    Holders = {h1, h2, h3, h4}
    Counts = {1}
INVARIANTS
    TypeOK
    FreeFramesAreSafe
    HoldersExclusive
    UsedCountTracksBitmap
PROPERTIES
    ZeroFillSafe
    RefinesFrameAllocator
