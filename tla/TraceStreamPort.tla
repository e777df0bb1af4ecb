-------------------------- MODULE TraceStreamPort --------------------------
(***************************************************************************)
(* The trace stream port (freertos/src/trcStreamPort.c): the recorder's    *)
(* control task moves trace events from the recorder's internal buffer to  *)
(* a TCP client.  Both entry points, trace_io_read and trace_io_write,     *)
(* open the server socket and accept the client on the way; neither ever   *)
(* gives the client's socket up.  A failed configASSERT stops all tasks.   *)
(*                                                                         *)
(* An event stands for a run of bytes the stack takes or leaves as one.    *)
(***************************************************************************)
EXTENDS Integers, Sequences

CONSTANTS
    Client,          \* programs that may connect to port 8888
    BUFFER_SIZE,     \* events the recorder's internal buffer holds
    EVENTS_MAX       \* bound on the events recorded

ASSUME BufferAssumption == BUFFER_SIZE \in Nat \ {0}
ASSUME EventsAssumption == EVENTS_MAX \in Nat

VARIABLES
    trc_net_up,        \* FreeRTOS_IsNetworkUp()
    g_server_socket,   \* TRUE once it is not FREERTOS_INVALID_SOCKET
    g_client_socket,   \* the client it belongs to, {} for FREERTOS_INVALID_SOCKET
    backlog,           \* connected, not accepted
    hung_up,           \* clients whose end of the connection is closed
    trc_buffer,        \* recorded and not yet written
    port_state,        \* "ended" by xTraceStreamPortOnTraceEnd, or "asserted"
    h_recorded,        \* number of events recorded
    h_kept,            \* history: the events the buffer had room for
    h_stream           \* history: what the stack took for each client

portVars == <<trc_net_up, g_server_socket, g_client_socket, backlog, hung_up,
              trc_buffer, port_state, h_recorded, h_kept, h_stream>>

SERVER_BACKLOG == 1

PortInit ==
    /\ trc_net_up = FALSE
    /\ g_server_socket = FALSE
    /\ g_client_socket = {}
    /\ backlog = {}
    /\ hung_up = {}
    /\ trc_buffer = <<>>
    /\ port_state = "open"
    /\ h_recorded = 0
    /\ h_kept = <<>>
    /\ h_stream = [c \in Client |-> <<>>]

-----------------------------------------------------------------------------
(* The environment: the recorder, the network, the clients.                 *)

PortNetworkChanges ==
    /\ trc_net_up' = ~trc_net_up
    /\ UNCHANGED <<g_server_socket, g_client_socket, backlog, hung_up, trc_buffer,
                   port_state, h_recorded, h_kept, h_stream>>

\* xTraceInternalEventBufferPush: an event that finds the buffer full is skipped.
Record ==
    /\ port_state # "asserted"
    /\ h_recorded < EVENTS_MAX
    /\ h_recorded' = h_recorded + 1
    /\ IF Len(trc_buffer) < BUFFER_SIZE
       THEN /\ trc_buffer' = Append(trc_buffer, h_recorded')
            /\ h_kept' = Append(h_kept, h_recorded')
       ELSE UNCHANGED <<trc_buffer, h_kept>>
    /\ UNCHANGED <<trc_net_up, g_server_socket, g_client_socket, backlog, hung_up,
                   port_state, h_stream>>

\* The stack counts accepted connections against the backlog until their
\* socket is closed.
Connects(c) ==
    /\ g_server_socket /\ trc_net_up /\ port_state = "open"
    /\ c \notin backlog \cup g_client_socket \cup hung_up
    /\ backlog \cup g_client_socket = {}
    /\ backlog' = {c}
    /\ UNCHANGED <<trc_net_up, g_server_socket, g_client_socket, hung_up,
                   trc_buffer, port_state, h_recorded, h_kept, h_stream>>

\* What hangs up before it is accepted may still be handed out.
HangsUp(c) ==
    /\ c \in backlog \cup g_client_socket
    /\ c \notin hung_up
    /\ hung_up' = hung_up \cup {c}
    /\ backlog' \in {backlog, backlog \ {c}}
    /\ UNCHANGED <<trc_net_up, g_server_socket, g_client_socket, trc_buffer,
                   port_state, h_recorded, h_kept, h_stream>>

-----------------------------------------------------------------------------
(* The port, called by the recorder's control task.                         *)

\* Mutant: the client is looked for only when the server has just been opened.
Accepted_AtOnce ==
    IF trc_net_up /\ ~g_server_socket /\ g_client_socket = {}
    THEN backlog ELSE g_client_socket

\* init_client_socket: a client that has connected is accepted, unless there
\* was one before; FreeRTOS_accept gives up when there is none.
Accepted ==
    IF trc_net_up /\ g_client_socket = {} THEN backlog ELSE g_client_socket

\* What both entry points begin with.
OpenSockets ==
    /\ g_server_socket' = (g_server_socket \/ trc_net_up)
    /\ g_client_socket' = Accepted
    /\ backlog' = backlog \ Accepted

\* The assertions on the way: FreeRTOS_socket, FreeRTOS_bind or FreeRTOS_listen
\* fails for the server, or FreeRTOS_setsockopt for the client just accepted.
OpenAsserts ==
    /\ port_state = "open"
    /\ trc_net_up
    /\ ~g_server_socket \/ (g_client_socket = {} /\ backlog # {})
    /\ port_state' = "asserted"
    /\ UNCHANGED <<trc_net_up, g_server_socket, g_client_socket, backlog, hung_up,
                   trc_buffer, h_recorded, h_kept, h_stream>>

\* What it reads are commands to the recorder.
trace_io_read ==
    /\ port_state = "open"
    /\ OpenSockets
    /\ UNCHANGED <<trc_net_up, hung_up, trc_buffer, port_state, h_recorded,
                   h_kept, h_stream>>

\* FreeRTOS_send may take a part, nothing, or fail; with no socket it fails.
SendResults(socket) ==
    IF socket = {} THEN {-1} ELSE {-1} \cup 0..Len(trc_buffer)

\* Mutant: after an error everything counts as written.
BytesWritten_All(ret) == IF ret < 0 THEN Len(trc_buffer) ELSE ret

\* *bytes_written; without a server socket nothing is sent.
BytesWritten(ret) == IF ret < 0 THEN 0 ELSE ret

\* The recorder ignores the result and drops from its buffer what was written.
Transfer(ret) ==
    /\ h_stream' = [c \in Client |->
           IF c \in g_client_socket' /\ ret > 0
           THEN h_stream[c] \o SubSeq(trc_buffer, 1, ret)
           ELSE h_stream[c]]
    /\ trc_buffer' =
           SubSeq(trc_buffer, BytesWritten(ret) + 1, Len(trc_buffer))

trace_io_write ==
    /\ port_state = "open"
    /\ trc_buffer # <<>>
    /\ OpenSockets
    /\ IF g_server_socket'
       THEN \E ret \in SendResults(g_client_socket') : Transfer(ret)
       ELSE UNCHANGED <<h_stream, trc_buffer>>
    /\ UNCHANGED <<trc_net_up, hung_up, port_state, h_recorded, h_kept>>

\* Both sockets are closed and both variables keep their values.
xTraceStreamPortOnTraceEnd ==
    /\ port_state = "open"
    /\ port_state' = "ended"
    /\ UNCHANGED <<trc_net_up, g_server_socket, g_client_socket, backlog, hung_up,
                   trc_buffer, h_recorded, h_kept, h_stream>>

ControlTask == trace_io_read \/ trace_io_write

PortNext ==
    \/ PortNetworkChanges
    \/ Record
    \/ \E c \in Client : Connects(c) \/ HangsUp(c)
    \/ ControlTask
    \/ OpenAsserts
    \/ xTraceStreamPortOnTraceEnd

\* The control task runs every TRC_CFG_CTRL_TASK_DELAY ticks, and a client
\* that stays reads what it is sent, so that the stack takes more in the end.
ClientTakes == trace_io_write /\ trc_buffer' # trc_buffer

PortSpec ==
    /\ PortInit
    /\ [][PortNext]_portVars
    /\ WF_portVars(trace_io_read)
    /\ WF_portVars(ClientTakes)

-----------------------------------------------------------------------------
PortTypeOK ==
    /\ trc_net_up \in BOOLEAN
    /\ g_server_socket \in BOOLEAN
    /\ g_client_socket \subseteq Client
    /\ backlog \subseteq Client
    /\ \A c, d \in g_client_socket \cup backlog : c = d
    /\ hung_up \subseteq Client
    /\ Len(trc_buffer) <= BUFFER_SIZE
    /\ port_state \in {"open", "ended", "asserted"}
    /\ h_recorded \in 0..EVENTS_MAX
    /\ h_stream \in [Client -> Seq(1..EVENTS_MAX)]

\* Every event the recorder kept, from boot on, is either still in its buffer
\* or was written, once and in order, to the one client that was ever
\* accepted: failed and partial sends lose nothing and repeat nothing.
StreamComplete ==
    /\ g_client_socket = {} => trc_buffer = h_kept
    /\ \A c \in g_client_socket : h_stream[c] \o trc_buffer = h_kept
    /\ \A c \in Client \ g_client_socket : h_stream[c] = <<>>

\* The first client is served: once the network stays up, a client that has
\* connected and does not hang up gets every event that was waiting for it,
\* unless the trace is ended or an assertion on the sockets fails.
Waiting(e) == \E i \in 1..Len(trc_buffer) : trc_buffer[i] = e

FirstClientGetsEvents ==
    <>[]trc_net_up =>
        \A e \in 1..EVENTS_MAX :
            (/\ Waiting(e)
             /\ hung_up = {}
             /\ backlog \cup g_client_socket # {})
            ~> (~Waiting(e) \/ hung_up # {} \/ port_state # "open")
=============================================================================
