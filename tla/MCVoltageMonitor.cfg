\* Ten levels: slopes 3 and 5 overshoot an end and are clamped, slope 1
\* lands on it, slope 0 stays.  MV_SPIKE = MV_MAX as in the code.
CONSTANTS
    MV_MIN = 0
    MV_MAX = 9
    MV_SPIKE = 9
    Rand8 <- MCRand8
SPECIFICATION VoltageSpec
INVARIANT VoltageTypeOK
INVARIANT FreezesOnlyBelowSpike
PROPERTY SpikesRecur
