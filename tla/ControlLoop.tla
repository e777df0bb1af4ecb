---------------------------- MODULE ControlLoop ----------------------------
(***************************************************************************)
(* From the queue of the Comms task to the Twists of the actuator program: *)
(* the two programs and the UDP broadcast between them, which loses and    *)
(* reorders and repeats datagrams.                                         *)
(*                                                                         *)
(* The producers post anything at any time, which Firmware.tla narrows.    *)
(***************************************************************************)
EXTENDS Comms, Actuator, FiniteSets

CONSTANTS
    NET_MAX,     \* bound: datagrams in flight
    SENT_MAX     \* bound: datagrams built, so that no sequence number repeats

ASSUME LoopAssumption ==
    /\ NET_MAX \in Nat
    /\ SENT_MAX \in Nat
    /\ SENT_MAX < SEQNUM_MOD

VARIABLES
    net,          \* datagrams in flight
    h_acted,      \* sequence numbers that the actuator program acted upon
    h_duplicated  \* the network has delivered a datagram that it kept

loopVars == <<commsVars, actuatorVars, net, h_acted, h_duplicated>>

\* The datagram on the wire, with its history: a spike came before its
\* measurement.  FreeRTOS_sendto is given all of it, so none is short.
Datagram ==
    [magic0 |-> wire_msg.magic0, magic1 |-> wire_msg.magic1,
     type |-> wire_msg.type, seqnum |-> wire_msg.seqnum, hit |-> h_hit,
     whole |-> TRUE]

LoopInit ==
    /\ CommsInit
    /\ ActuatorInit
    /\ net = {}
    /\ h_acted = {}
    /\ h_duplicated = FALSE

-----------------------------------------------------------------------------
(* The firmware; a failed assertion stops all of it.                        *)

Firmware ==
    /\ comms_pc # "asserted"
    /\ \/ \E speed \in WheelSpeed : comms_send_sensor_data(speed)
       \/ \E spike \in {0, 1} : comms_send_voltage_data(spike)
       \/ CommsNetworkReady
       \/ CommsRecvTimesOut
       \/ CommsVoltage
       \/ wire_msg.seqnum < SENT_MAX /\ CommsWheelSpeed
       \/ CommsSendtoBlocks
       \/ NetworkEvent
    /\ UNCHANGED <<actuatorVars, net, h_acted, h_duplicated>>

\* FreeRTOS_sendto returns: the datagram is on the wire, or the call failed.
Sends ==
    /\ CommsSendtoReturns
    /\ net' \in {net} \cup
                (IF Cardinality(net) < NET_MAX THEN {net \cup {Datagram}} ELSE {})
    /\ UNCHANGED <<actuatorVars, h_acted, h_duplicated>>

-----------------------------------------------------------------------------
(* The network.                                                             *)

Delivers(datagram) ==
    /\ DatagramArrives(datagram)
    /\ \/ net' = net \ {datagram} /\ UNCHANGED h_duplicated
       \/ h_duplicated' = TRUE /\ UNCHANGED net
    /\ UNCHANGED <<commsVars, h_acted>>

Loses(datagram) ==
    /\ net' = net \ {datagram}
    /\ UNCHANGED <<commsVars, actuatorVars, h_acted, h_duplicated>>

-----------------------------------------------------------------------------
(* The actuator program.                                                    *)

Acts ==
    /\ Receive
    /\ h_acted' = IF h_verdict' = "VALID"
                  THEN h_acted \cup {Head(rcvbuf).seqnum}
                  ELSE h_acted
    /\ UNCHANGED <<commsVars, net, h_duplicated>>

ProgramElse ==
    /\ \/ sigint_register
       \/ BindSocket
       \/ StartActuator
       \/ LoopTop
       \/ Select
       \/ Stop
       \/ CallFails
       \/ Signal
    /\ UNCHANGED <<commsVars, net, h_acted, h_duplicated>>

LoopNext ==
    \/ Firmware
    \/ Sends
    \/ \E datagram \in net : Delivers(datagram) \/ Loses(datagram)
    \/ Acts
    \/ ProgramElse

LoopSpec == LoopInit /\ [][LoopNext]_loopVars

-----------------------------------------------------------------------------
Wire == [magic0 : 0..255, magic1 : 0..255, type : 0..255,
         seqnum : 0..(SEQNUM_MOD - 1), hit : BOOLEAN, whole : {TRUE}]

LoopTypeOK ==
    /\ CommsTypeOK
    /\ ActuatorTypeOK
    /\ net \subseteq Wire
    /\ rcvbuf \in Seq(Wire)
    /\ h_acted \subseteq 0..SENT_MAX
    /\ h_duplicated \in BOOLEAN

\* "Corrupt messages are ignored" (specs/system.speqtr), from one program to
\* the other: the actuator program acts on a datagram exactly when no voltage
\* spike was queued between its measurement and the one before it, in whatever
\* order datagrams arrive and whenever the signal comes.
ActsIffNotSpiked ==
    [][Acts => (h_verdict' = "VALID" <=> ~Head(rcvbuf).hit)]_loopVars

\* The robot is never faster than the measurements acted upon allow: each adds
\* one step once.  The actuator program does not look at sequence numbers, so
\* this holds only until the network repeats a datagram.
VelocityEarned ==
    ~h_duplicated => twist.velocity <= DUTY_STEP * Cardinality(h_acted)

\* Why: until then a number is in flight, or waits to be received, or was acted
\* upon, in one place only, and none is newer than the last datagram built.
InOnePlace ==
    ~h_duplicated =>
        /\ \A datagram \in net : datagram.seqnum <= wire_msg.seqnum
        /\ \A datagram, other \in net :
              datagram.seqnum = other.seqnum => datagram = other
        /\ \A i \in 1..Len(rcvbuf) :
              /\ rcvbuf[i].seqnum <= wire_msg.seqnum
              /\ rcvbuf[i].seqnum \notin h_acted
              /\ \A datagram \in net : datagram.seqnum # rcvbuf[i].seqnum
              /\ \A j \in 1..Len(rcvbuf) : rcvbuf[j].seqnum = rcvbuf[i].seqnum => i = j
        /\ \A datagram \in net : datagram.seqnum \notin h_acted
        /\ \A n \in h_acted : n <= wire_msg.seqnum
        /\ comms_pc \in {"sendto", "blocked"} =>
              /\ wire_msg.seqnum \notin h_acted
              /\ \A datagram \in net : datagram.seqnum # wire_msg.seqnum
              /\ \A i \in 1..Len(rcvbuf) : rcvbuf[i].seqnum # wire_msg.seqnum
=============================================================================
