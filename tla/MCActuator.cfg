\* DUTY_MAX is not a multiple of DUTY_STEP, so the last step is clamped; the
\* Twist counter wraps; two datagrams can wait.
CONSTANTS
    DUTY_MAX = 5
    DUTY_STEP = 2
    TWIST_MOD = 4
    RCVBUF = 2
    Datagram <- MCDatagram
SPECIFICATION TraceSpec
INVARIANT ActuatorTypeOK
INVARIANT TwistMatchesPwm
INVARIANT AtMostOneLateActuation
INVARIANT LinuxControlCycle
PROPERTY VelocityStepsUp
PROPERTY SignalStopsRobot
CHECK_DEADLOCK FALSE
