---------------------------- MODULE ActuatorTrace ----------------------------
(***************************************************************************)
(* What LTTng records of the actuator program (linux/include/tp.h), which  *)
(* is all that specs/system.speqtr can speak of.  h_cycle holds the events *)
(* of the current control cycle: from a received_msg, or the start, to the *)
(* next received_msg.                                                      *)
(***************************************************************************)
EXTENDS ActuatorProgram, FiniteSets

VARIABLE h_cycle

traceVars == <<actuatorVars, h_cycle>>

-----------------------------------------------------------------------------
(* The tracepoints.  The number and the speed a datagram carries are traced *)
(* with it and left out here.                                               *)

\* Mutant: BAD_TYPE comes first.
invalid_msg_kind_TypeFirst == [BAD_TYPE |-> 0, BAD_MAGIC0 |-> 1, BAD_MAGIC1 |-> 2]

\* What the program passes, and what the trace shows for it.
invalid_msg_kind == [BAD_MAGIC0 |-> 0, BAD_MAGIC1 |-> 1, BAD_TYPE |-> 2]

invalid_msg_reason ==
    [reason \in 0..2 |-> <<"BAD_MAGIC0", "BAD_MAGIC1", "BAD_TYPE">>[reason + 1]]

startup == [event |-> "startup"]
init == [event |-> "init"]
deinit == [event |-> "deinit"]
received_msg(msg) ==
    [event |-> "received_msg", magic0 |-> msg.magic0, magic1 |-> msg.magic1,
     type |-> msg.type]
invalid_msg(reason) == [event |-> "invalid_msg", label |-> invalid_msg_reason[reason]]
target_velocity(velocity) == [event |-> "target_velocity", velocity |-> velocity]
set_pwm(pwm) == [event |-> "set_pwm", seqnum |-> pwm.seqnum, duty |-> pwm.duty]

TraceInit == ActuatorInit /\ h_cycle = <<>>

-----------------------------------------------------------------------------
(* The actions of Actuator with their tracepoints.                          *)

TracesStartup == sigint_register /\ h_cycle' = <<startup>>

TracesStart ==
    StartActuator /\ h_cycle' = h_cycle \o <<init, set_pwm(h_pwm')>>

Answer ==
    IF h_verdict' = "VALID"
    THEN <<target_velocity(duty'), set_pwm(h_pwm')>>
    ELSE <<invalid_msg(invalid_msg_kind[h_verdict'])>>

TracesReceive ==
    Receive /\ h_cycle' = <<received_msg(Head(rcvbuf))>> \o Answer

TracesStop == Stop /\ h_cycle' = h_cycle \o <<target_velocity(0), deinit>>

Untraced ==
    /\ BindSocket \/ LoopTop \/ Select \/ ReceiveShort
    /\ UNCHANGED h_cycle

TracedProgram ==
    TracesStartup \/ TracesStart \/ TracesReceive \/ TracesStop \/ Untraced

World ==
    /\ CallFails \/ Signal \/ \E msg \in Datagram : DatagramArrives(msg)
    /\ UNCHANGED h_cycle

TraceNext == TracedProgram \/ World

\* That of ActuatorSpec, with the events.
TraceSpec ==
    /\ TraceInit
    /\ [][TraceNext]_traceVars
    /\ WF_traceVars(TracedProgram)

-----------------------------------------------------------------------------
Field == [BAD_MAGIC0 |-> "magic0", BAD_MAGIC1 |-> "magic1", BAD_TYPE |-> "type"]

Shown(kind) ==
    {h_cycle[k] : k \in {j \in 1..Len(h_cycle) : h_cycle[j].event = kind}}

\* WALLBOT-2, 3.2 and 3.3 of specs/system.speqtr, with what their statements
\* about events leave open.  A cycle that begins with an intact datagram shows
\* no reason, and a plan followed by the set_pwm that carries it out and that
\* the simulator was told under the same number; any other shows no set_pwm,
\* and one reason, whose label in the trace, after the program's enumeration
\* and the tracer's, is that of a header field that is wrong in it.
LinuxControlCycle ==
    h_cycle # <<>> /\ h_cycle[1].event = "received_msg" =>
        IF Intact(h_cycle[1])
        THEN /\ Shown("invalid_msg") = {}
             /\ h_cycle[2] = target_velocity(h_cycle[3].duty)
             /\ h_cycle[3] \in Shown("set_pwm")
             /\ h_cycle[3].seqnum = h_pwm.seqnum
             /\ \/ h_cycle[3] = set_pwm([seqnum |-> twist.seqnum,
                                         duty   |-> twist.velocity])
                \/ deinit \in Shown("deinit")
        ELSE /\ Shown("set_pwm") = {}
             /\ h_cycle[2] \in Shown("invalid_msg")
             /\ Cardinality(Shown("invalid_msg")) = 1
             /\ Field[h_cycle[2].label] \in BadFields(h_cycle[1])
=============================================================================
