\* Two slots in the peripheral's queue, two samples waiting for the callback and
\* one message on the connection: samples are skipped, messages dropped, and a
\* contact finds samples on both sides of the callback.  Samples 0..2 are told
\* apart.
CONSTANTS
    Speed <- MCSpeed
    SPEED_MAX = 2
    REG_MOD = 8
    MSG_Q_MAX = 2
    TCP_MAX = 1
    TOPIC_MAX = 2
    SEQ_MAX = 3
SPECIFICATION ImuSpec
INVARIANT ReadingIsOneSample
PROPERTY SamplesInOrder
PROPERTY BumpMarksContact
PROPERTY ImplementsSensor
PROPERTY ContactDetectedIfFramed
