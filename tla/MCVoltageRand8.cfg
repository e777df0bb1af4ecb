\* Slopes of up to 15 over 19 levels: a walk from end to end takes one step
\* or many, and a slope of zero meets either end.
CONSTANTS
    MV_MIN = 0
    MV_MAX = 18
    MV_SPIKE = 18
    Rand8 <- MCRand8
    BYTE = 16
    MULT = 27
    STATE_BYTES = 3
    SEED <- MCSeed
    CARRY = 4
SPECIFICATION VoltageRand8Spec
INVARIANT RandTypeOK
PROPERTY MultiplyWithCarry
PROPERTY ImplementsVoltage
