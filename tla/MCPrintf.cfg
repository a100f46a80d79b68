SPECIFICATION PrintfSpec
CONSTANTS
    Calls <- AllCalls
    NTOA = 6
    Bits <- Widths
    SIZE_MAX = 1000
    OUT = 14
INVARIANTS
    Delivered
    ArgumentsMatch
    IntegersAsInC
CHECK_DEADLOCK FALSE
