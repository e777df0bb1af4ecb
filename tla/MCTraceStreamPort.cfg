\* Two slots and four events: the buffer overflows before and after a client
\* connects, and a send may take a part of it.
CONSTANTS
    c1 = c1
    c2 = c2
    Client <- MCClient
    BUFFER_SIZE = 2
    EVENTS_MAX = 4
SPECIFICATION PortSpec
INVARIANT StreamComplete
PROPERTY FirstClientGetsEvents
CHECK_DEADLOCK FALSE
