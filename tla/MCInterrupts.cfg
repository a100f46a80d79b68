SPECIFICATION Spec
CONSTANTS
    Lines = {0, 3, 12}
    EntryMasks <- SomeMasks
    Traps = {14, 40, 128, 200, 255}
    MaskLines = {0, 3, 10}
    HonoursMode = FALSE
INVARIANTS
    TypeOK
    SegmentsUsable
    IrqVectorsInRange
    Acknowledged
    PicSilent
PROPERTY TimerServed
