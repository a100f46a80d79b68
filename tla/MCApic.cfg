SPECIFICATION Spec
CONSTANTS
    Firmwares <- AllFirmwares
    BYTE_MAX = 255
    ISA_IRQS = 4
    LapicId = 3
INVARIANTS
    TypeOK
    MadtCollected
    ArraysFit
    
    
CHECK_DEADLOCK FALSE
