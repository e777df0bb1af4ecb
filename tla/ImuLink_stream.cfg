\* One slot: the queue is full between two polls.  Two messages fit on the
\* connection, so one recv() may return both.
CONSTANTS
    Speed <- MCOneSpeed
    SPEED_MAX = 2
    REG_MOD = 8
    MSG_Q_MAX = 1
    TCP_MAX = 2
    TOPIC_MAX = 1
    SEQ_MAX = 0
SPECIFICATION ImuSpec
PROPERTY ContactDetected
