SPECIFICATION Spec
CONSTANTS
    Boots <- SomeBoots
    Size <- Sizes
    BUF = 6
    MaxIrqs = 4
INVARIANTS
    ReportsWhole
    LinesIntact
PROPERTY OutputEnds
CHECK_DEADLOCK FALSE
