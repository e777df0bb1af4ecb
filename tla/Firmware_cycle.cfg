\* One stall of Comms is enough.
CONSTANTS
    WheelSpeed <- MCWheelSpeed
    COMMS_QUEUE_LENGTH = 2
    SEQNUM_MOD = 2
    MV_MIN = 0
    MV_MAX = 3
    MV_SPIKE = 3
    Rand8 <- MCRand8
SPECIFICATION Spec
PROPERTY MeasurementSentWithinCycle
CHECK_DEADLOCK FALSE
