\* Two starts and two resets: a nonce can be reported and the firmware reset
\* before, between and after its trace and its zeroing.  The buffer holds what
\* main() traces.
CONSTANTS
    STARTS_MAX = 2
    RESETS_MAX = 2
    TRACE_MAX = 3
SPECIFICATION StartupSpec
INVARIANT NonceReportedOnce
INVARIANT SpikesAreRequested
INVARIANT StartedWhole
INVARIANT LogsHaveChannels
PROPERTY NonceArrives
CHECK_DEADLOCK FALSE
