SPECIFICATION Spec
CONSTANTS
    N = 2
    Frames = {1, 2, 3, 4, 5, 6, 7, 8, 9, 10, 11, 12, 13, 14}
    InitRanges <- KernelRanges
    Requests <- MixedRequests
INVARIANTS
    TypeOK
    TablesAreTree
    TlbCoherent
PROPERTIES
    StepsAreExact
    NoTableLost
