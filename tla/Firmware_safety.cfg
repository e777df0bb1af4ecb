\* Three slots: a stall can leave measurements and voltage messages of both
\* kinds queued in every order; slope 2 from level 0 meets the spike level 3
\* by clamping.  Sequence numbers matter to MCComms only.
CONSTANTS
    WheelSpeed <- MCWheelSpeed
    COMMS_QUEUE_LENGTH = 3
    SEQNUM_MOD = 2
    MV_MIN = 0
    MV_MAX = 3
    MV_SPIKE = 3
    Rand8 <- MCRand8
SPECIFICATION Spec
INVARIANT TypeOK
INVARIANT CleanUnlessRequested
PROPERTY MeasurementsGetOut
PROPERTY ProducersNeverWait
PROPERTY MicroControlCycle
CHECK_DEADLOCK FALSE
