SPECIFICATION Spec
CONSTANTS
    Frames = {1, 2, 3, 4, 5, 6, 7}
    PAGE = 44
    Sizes <- SmallSizes
    MaxLive = 4
    Requests = {1, 3, 7, 9}
INVARIANTS
    TypeOK
    FreelistSound
PROPERTY BlocksPrivate
CHECK_DEADLOCK FALSE
