\* Three slots let two spikes and a measurement, or a spike between two
\* measurements, wait at once; four sequence numbers wrap within a run.
CONSTANTS
    WheelSpeed <- MCWheelSpeed
    COMMS_QUEUE_LENGTH = 3
    SEQNUM_MOD = 4
SPECIFICATION CommsSpec
INVARIANT CommsTypeOK
INVARIANT CorruptIffSpiked
INVARIANT SpikesInOrder
PROPERTY ImplementsSensorLink
CHECK_DEADLOCK FALSE
