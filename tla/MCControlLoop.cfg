\* Two datagrams in flight at once, lost, reordered or delivered any number of
\* times; the third step of the duty is clamped.
CONSTANTS
    WheelSpeed <- MCWheelSpeed
    COMMS_QUEUE_LENGTH = 2
    SEQNUM_MOD = 3
    DUTY_MAX = 5
    DUTY_STEP = 2
    TWIST_MOD = 2
    RCVBUF = 2
    NET_MAX = 2
    SENT_MAX = 2
SPECIFICATION LoopSpec
INVARIANT VelocityEarned
PROPERTY ActsIffNotSpiked
CHECK_DEADLOCK FALSE
