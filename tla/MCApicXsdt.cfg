SPECIFICATION Spec
CONSTANTS
    Firmwares <- LateMadt
    BYTE_MAX = 255
    ISA_IRQS = 4
    LapicId = 3
INVARIANT ListedSdtIsFound
CHECK_DEADLOCK FALSE
