------------------------------- MODULE Comms -------------------------------
(***************************************************************************)
(* The Comms task of the sensor firmware (freertos/src/comms.c): a bounded *)
(* FreeRTOS queue fed by other tasks, and a task that turns each wheel     *)
(* speed message into one UDP datagram.  A voltage message that reports a  *)
(* spike makes the task corrupt one header field of the next datagram.     *)
(*                                                                         *)
(* Here any task may post at any time; Firmware.tla adds the real          *)
(* producers and the scheduler.  vAssertCalled() disables interrupts and   *)
(* spins, so a failed configASSERT stops every task: "asserted".           *)
(*                                                                         *)
(* Variables named h_... are history: no guard reads them.                 *)
(***************************************************************************)
EXTENDS Integers, Sequences, WireProtocol

CONSTANTS
    WheelSpeed,          \* the speeds the sensor reports (int32, 1/1000 rad/s)
    COMMS_QUEUE_LENGTH,  \* slots of the queue: 8 in the code
    SEQNUM_MOD           \* wire_msg.seqnum is a uint32_t: 2^32 in the code

ASSUME WheelSpeedAssumption == WheelSpeed \subseteq Int
ASSUME QueueLengthAssumption == COMMS_QUEUE_LENGTH \in Nat \ {0}
ASSUME SeqnumModAssumption == SEQNUM_MOD \in Nat \ {0}

VARIABLES
    g_comms_queue,   \* the queue, oldest message first
    comms_pc,        \* where the task is
    wire_msg,        \* the task's datagram buffer, reused for every message
    mutator_state,   \* which field the next corruption hits
    voltage_spiked,  \* 1: the next datagram is to be corrupted
    net_up,          \* FreeRTOS_IsNetworkUp()
    h_spike,         \* a spike was queued since the last queued measurement
    h_hit            \* the measurement in wire_msg was queued after a spike

commsVars == <<g_comms_queue, comms_pc, wire_msg, mutator_state,
               voltage_spiked, net_up, h_spike, h_hit>>

-----------------------------------------------------------------------------
wire_msg_s ==
    [magic0 : 0..255, magic1 : 0..255, type : 0..255,
     seqnum : 0..(SEQNUM_MOD - 1), wheel_speed : WheelSpeed \cup {0}]

ZeroWireMsg ==
    [magic0 |-> 0, magic1 |-> 0, type |-> 0, seqnum |-> 0, wheel_speed |-> 0]

\* ~ on a uint8_t
Complement(byte) == 255 - byte

\* comms_msg_s without the millivolts, which nobody reads; after_spike is history.
comms_msg_s ==
    [type : {"MSG_TYPE_WHEEL_SPEED", "MSG_TYPE_VOLTAGE"},
     wheel_speed : WheelSpeed \cup {0}, voltage_spike : {0, 1},
     after_spike : BOOLEAN]

SensorMsg(speed) ==
    [type |-> "MSG_TYPE_WHEEL_SPEED", wheel_speed |-> speed,
     voltage_spike |-> 0, after_spike |-> h_spike]

VoltageMsg(spike) ==
    [type |-> "MSG_TYPE_VOLTAGE", wheel_speed |-> 0,
     voltage_spike |-> spike, after_spike |-> FALSE]

IsMeasurement(msg) == msg.type = "MSG_TYPE_WHEEL_SPEED"
IsSpike(msg) == msg.type = "MSG_TYPE_VOLTAGE" /\ msg.voltage_spike # 0

CommsInit ==
    /\ g_comms_queue = <<>>
    /\ comms_pc = "netwait"
    /\ wire_msg = ZeroWireMsg
    /\ mutator_state = 0
    /\ voltage_spiked = 0
    /\ net_up = FALSE
    /\ h_spike = FALSE
    /\ h_hit = FALSE

-----------------------------------------------------------------------------
(* The producers' side: xQueueSend with no waiting, so a full queue drops.  *)

\* Mutant: one slot too many.
QueueFull_OffByOne == Len(g_comms_queue) > COMMS_QUEUE_LENGTH

QueueFull == Len(g_comms_queue) >= COMMS_QUEUE_LENGTH

commsTaskVars == <<comms_pc, wire_msg, mutator_state, voltage_spiked, net_up, h_hit>>

\* Mutant: waits for a free slot, as with a timeout of portMAX_DELAY.
comms_send_sensor_data_Waits(speed) ==
    /\ ~QueueFull
    /\ g_comms_queue' = Append(g_comms_queue, SensorMsg(speed))
    /\ h_spike' = FALSE
    /\ UNCHANGED commsTaskVars

comms_send_sensor_data(speed) ==
    /\ IF QueueFull
       THEN UNCHANGED <<g_comms_queue, h_spike>>
       ELSE /\ g_comms_queue' = Append(g_comms_queue, SensorMsg(speed))
            /\ h_spike' = FALSE
    /\ UNCHANGED commsTaskVars

\* Mutant: xQueueSendToFront.
comms_send_voltage_data_ToFront(spike) ==
    /\ ~QueueFull
    /\ g_comms_queue' = <<VoltageMsg(spike)>> \o g_comms_queue
    /\ h_spike' = (h_spike \/ spike # 0)
    /\ UNCHANGED commsTaskVars

comms_send_voltage_data(spike) ==
    /\ IF QueueFull
       THEN UNCHANGED <<g_comms_queue, h_spike>>
       ELSE /\ g_comms_queue' = Append(g_comms_queue, VoltageMsg(spike))
            /\ h_spike' = (h_spike \/ spike # 0)
    /\ UNCHANGED commsTaskVars

-----------------------------------------------------------------------------
(* The task.                                                                *)

\* The 10 ms poll sees the network up; FreeRTOS_socket may fail its assertion.
CommsNetworkReady ==
    /\ comms_pc = "netwait"
    /\ net_up
    /\ comms_pc' \in {"recv", "asserted"}
    /\ UNCHANGED <<g_comms_queue, wire_msg, mutator_state, voltage_spiked,
                   net_up, h_spike, h_hit>>

\* Mutant: xQueuePeek.
comms_recv_Peeks ==
    /\ comms_pc = "recv"
    /\ g_comms_queue # <<>>
    /\ UNCHANGED g_comms_queue

\* xQueueReceive: blocks while the queue is empty, for portMAX_DELAY.
comms_recv ==
    /\ comms_pc = "recv"
    /\ g_comms_queue # <<>>
    /\ g_comms_queue' = Tail(g_comms_queue)

\* INCLUDE_vTaskSuspend is 0, so portMAX_DELAY is a number of ticks like any
\* other: when it runs out, the assertion on was_recvd fails.
CommsRecvTimesOut ==
    /\ comms_pc = "recv"
    /\ g_comms_queue = <<>>
    /\ comms_pc' = "asserted"
    /\ UNCHANGED <<g_comms_queue, wire_msg, mutator_state, voltage_spiked,
                   net_up, h_spike, h_hit>>

CommsVoltage ==
    /\ comms_recv
    /\ Head(g_comms_queue).type = "MSG_TYPE_VOLTAGE"
    /\ IF Head(g_comms_queue).voltage_spike # 0
       THEN /\ voltage_spiked' = 1
            /\ mutator_state' = (mutator_state + 1) % 3
       ELSE UNCHANGED <<voltage_spiked, mutator_state>>
    /\ UNCHANGED <<comms_pc, wire_msg, net_up, h_spike, h_hit>>

\* Mutant: the header is written once, not for every datagram.
WireMsg_HeaderKept(speed) ==
    [(IF wire_msg.seqnum = 0
      THEN [wire_msg EXCEPT !.magic0 = WIRE_MAGIC0, !.magic1 = WIRE_MAGIC1,
                            !.type = WIRE_TYPE_WHEEL_SPEED]
      ELSE wire_msg)
     EXCEPT !.seqnum = (@ + 1) % SEQNUM_MOD, !.wheel_speed = speed]

\* Mutant: the number stays.
WireMsg_NumberKept(speed) ==
    [magic0 |-> WIRE_MAGIC0, magic1 |-> WIRE_MAGIC1,
     type |-> WIRE_TYPE_WHEEL_SPEED,
     seqnum |-> wire_msg.seqnum,
     wheel_speed |-> speed]

\* The datagram for one measurement, before any corruption.
WireMsg(speed) ==
    [magic0 |-> WIRE_MAGIC0, magic1 |-> WIRE_MAGIC1,
     type |-> WIRE_TYPE_WHEEL_SPEED,
     seqnum |-> (wire_msg.seqnum + 1) % SEQNUM_MOD,
     wheel_speed |-> speed]

Mutated(msg) ==
    CASE mutator_state = 0 -> [msg EXCEPT !.magic0 = Complement(msg.magic0)]
      [] mutator_state = 1 -> [msg EXCEPT !.magic1 = Complement(msg.magic1)]
      [] mutator_state = 2 -> [msg EXCEPT !.type = WIRE_TYPE_WHEEL_SPEED + 1]

\* Builds the datagram and traces comms_tx; FreeRTOS_sendto comes next.
CommsWheelSpeed ==
    /\ comms_recv
    /\ Head(g_comms_queue).type = "MSG_TYPE_WHEEL_SPEED"
    /\ LET msg == WireMsg(Head(g_comms_queue).wheel_speed)
       IN  wire_msg' = IF voltage_spiked # 0 THEN Mutated(msg) ELSE msg
    /\ voltage_spiked' = 0
    /\ comms_pc' = "sendto"
    /\ h_hit' = Head(g_comms_queue).after_spike
    /\ UNCHANGED <<mutator_state, net_up, h_spike>>

\* Mutant: waits for a network buffer for ever.
CommsSendtoReturns_NoTimeout ==
    /\ comms_pc = "sendto"
    /\ comms_pc' = "recv"
    /\ UNCHANGED <<g_comms_queue, wire_msg, mutator_state, voltage_spiked,
                   net_up, h_spike, h_hit>>

\* FreeRTOS_sendto returns at once, or after it waited for a network buffer.
\* Its status is only logged.
CommsSendtoReturns ==
    /\ comms_pc \in {"sendto", "blocked"}
    /\ comms_pc' = "recv"
    /\ UNCHANGED <<g_comms_queue, wire_msg, mutator_state, voltage_spiked,
                   net_up, h_spike, h_hit>>

CommsSendtoBlocks ==
    /\ comms_pc = "sendto"
    /\ comms_pc' = "blocked"
    /\ UNCHANGED <<g_comms_queue, wire_msg, mutator_state, voltage_spiked,
                   net_up, h_spike, h_hit>>

CommsTask ==
    \/ CommsNetworkReady
    \/ CommsRecvTimesOut
    \/ CommsVoltage
    \/ CommsWheelSpeed
    \/ CommsSendtoReturns
    \/ CommsSendtoBlocks

\* eNetworkUp and eNetworkDown, raised by the IP task.
NetworkEvent ==
    /\ net_up' = ~net_up
    /\ UNCHANGED <<g_comms_queue, comms_pc, wire_msg, mutator_state,
                   voltage_spiked, h_spike, h_hit>>

CommsNext ==
    /\ comms_pc # "asserted"
    /\ \/ \E speed \in WheelSpeed : comms_send_sensor_data(speed)
       \/ \E spike \in {0, 1} : comms_send_voltage_data(spike)
       \/ CommsTask
       \/ NetworkEvent

CommsSpec == CommsInit /\ [][CommsNext]_commsVars

-----------------------------------------------------------------------------
CommsTypeOK ==
    /\ g_comms_queue \in Seq(comms_msg_s)
    /\ Len(g_comms_queue) <= COMMS_QUEUE_LENGTH
    /\ comms_pc \in {"netwait", "recv", "sendto", "blocked", "asserted"}
    /\ wire_msg \in wire_msg_s
    /\ mutator_state \in 0..2
    /\ voltage_spiked \in {0, 1}
    /\ net_up \in BOOLEAN
    /\ h_spike \in BOOLEAN
    /\ h_hit \in BOOLEAN

\* "Mutate the next comms message" (comms.c): whatever the tasks post and
\* however long the queue, a datagram is corrupted exactly when a spike was
\* queued between the measurement before it and its own, and then in exactly
\* one field.  A spike is neither lost in the queue nor moved to another
\* measurement, and two spikes do not corrupt two datagrams.
CorruptIffSpiked ==
    comms_pc \in {"sendto", "blocked"} =>
        IF h_hit
        THEN \E f \in {"magic0", "magic1", "type"} : BadFields(wire_msg) = {f}
        ELSE Intact(wire_msg)

\* A spike waits in front of position i of the queue, or is already noted in
\* the flag, with no measurement between it and i.
SpikePending(queue, flag, i) ==
    \/ \E j \in 1..(i - 1) :
          /\ IsSpike(queue[j])
          /\ \A k \in (j + 1)..(i - 1) : ~IsMeasurement(queue[k])
    \/ /\ flag = 1
       /\ \A k \in 1..(i - 1) : ~IsMeasurement(queue[k])

\* The reason for CorruptIffSpiked: at every position of the queue the flag
\* voltage_spiked and the spikes queued before it agree with the history.
SpikesInOrder ==
    /\ \A i \in 1..Len(g_comms_queue) :
          IsMeasurement(g_comms_queue[i]) =>
              (g_comms_queue[i].after_spike
                  <=> SpikePending(g_comms_queue, voltage_spiked, i))
    /\ h_spike <=> SpikePending(g_comms_queue, voltage_spiked,
                                Len(g_comms_queue) + 1)

CommsIInv == CommsTypeOK /\ SpikesInOrder /\ CorruptIffSpiked

-----------------------------------------------------------------------------
(* What the task promises: SensorLink, through this mapping.                *)

LinkItem(msg) == [wheel_speed |-> msg.wheel_speed, hit |-> msg.after_spike]

\* FirstItems(queue)[n] are the measurements among the first n messages.
FirstItems(queue) ==
    LET first[n \in 0..Len(queue)] ==
            IF n = 0 THEN <<>>
            ELSE IF IsMeasurement(queue[n])
                 THEN Append(first[n - 1], LinkItem(queue[n]))
                 ELSE first[n - 1]
    IN  first

LinkItems == FirstItems(g_comms_queue)[Len(g_comms_queue)]

Link == INSTANCE SensorLink WITH
            Speed <- WheelSpeed,
            CAPACITY <- COMMS_QUEUE_LENGTH,
            NUMBERS <- SEQNUM_MOD,
            buf <- LinkItems,
            spike <- h_spike,
            out <- [number |-> wire_msg.seqnum,
                    wheel_speed |-> wire_msg.wheel_speed,
                    intact |-> Intact(wire_msg)]

\* Every behaviour of the queue, the two flags and the task is a behaviour of
\* an ordered link that loses measurements only where they enter, delivers
\* each at most once, numbers its deliveries consecutively and spoils just
\* the first measurement after a spike.
ImplementsSensorLink == Link!Spec
=============================================================================
