-------------------------- MODULE ControlLoopProofs --------------------------
(***************************************************************************)
(* Proofs about the two programs and the network between them, for every   *)
(* number of datagrams in flight, every queue and every duty step: what    *)
(* the Comms task spoils the actuator program ignores, and the robot is    *)
(* never faster than the measurements it acted upon.                       *)
(***************************************************************************)
EXTENDS ControlLoop, CommsProofs, FiniteSetTheorems

\* On the wire and in the socket the header still tells which datagram a spike
\* came before.
HeadersTellHits ==
    /\ \A datagram \in net : Intact(datagram) <=> ~datagram.hit
    /\ \A i \in 1..Len(rcvbuf) : Intact(rcvbuf[i]) <=> ~rcvbuf[i].hit

\* The bound on the model is one on all numbers, repeated ones included.
Numbered ==
    /\ wire_msg.seqnum <= SENT_MAX
    /\ \A datagram \in net : datagram.seqnum <= SENT_MAX
    /\ \A i \in 1..Len(rcvbuf) : rcvbuf[i].seqnum <= SENT_MAX

\* The duty, like the velocity, is earned.
DutyEarned == ~h_duplicated => duty <= DUTY_STEP * Cardinality(h_acted)

\* The inductive invariant.  InOnePlace makes the number of each datagram that
\* is acted upon a new one, so that h_acted grows with the duty.
LoopIInv ==
    /\ CommsIInv
    /\ LoopTypeOK
    /\ Numbered
    /\ HeadersTellHits
    /\ InOnePlace
    /\ DutyEarned
    /\ VelocityEarned

-----------------------------------------------------------------------------
(* The Comms task in the loop is the Comms task.                            *)

\* Every step of the loop is a step of the Comms module or leaves it alone.
LEMMA LoopStepIsCommsStep == [LoopNext]_loopVars => [CommsNext]_commsVars
<1> SUFFICES ASSUME [LoopNext]_loopVars PROVE [CommsNext]_commsVars
  OBVIOUS
<1>1. CASE Firmware
  BY <1>1 DEF Firmware, CommsNext, CommsTask
<1>2. CASE Sends
  <2>1. CommsSendtoReturns /\ comms_pc # "asserted"
    BY <1>2 DEF Sends, CommsSendtoReturns
  <2> QED
    BY <2>1 DEF CommsNext, CommsTask
<1>3. CASE UNCHANGED commsVars
  BY <1>3
<1> QED
  BY <1>1, <1>2, <1>3 DEF LoopNext, Delivers, Loses, Acts, ProgramElse, loopVars

\* What is proved of the Comms task alone holds of it in the control loop.
THEOREM LoopRefinesComms == LoopSpec => CommsInit /\ [][CommsNext]_commsVars
  BY LoopStepIsCommsStep, PTL DEF LoopSpec, LoopInit

\* The number of the datagram grows by one with each one built; the bound on
\* the model keeps it from wrapping.
LEMMA SeqnumStep ==
    ASSUME CommsTypeOK, LoopTypeOK, wire_msg.seqnum <= SENT_MAX, Firmware
    PROVE  /\ wire_msg'.seqnum \in 0..SENT_MAX
           /\ \/ /\ UNCHANGED wire_msg
                 /\ comms_pc' \in {"sendto", "blocked"} =>
                        comms_pc \in {"sendto", "blocked"}
              \/ wire_msg'.seqnum = wire_msg.seqnum + 1
<1>1. wire_msg.seqnum \in 0..SENT_MAX
  BY LoopAssumption, SeqnumModAssumption DEF CommsTypeOK, wire_msg_s
<1>2. CASE wire_msg.seqnum < SENT_MAX /\ CommsWheelSpeed
  <2> DEFINE msg == WireMsg(Head(g_comms_queue).wheel_speed)
  <2>1. (wire_msg.seqnum + 1) % SEQNUM_MOD = wire_msg.seqnum + 1
    BY <1>1, <1>2, LoopAssumption, SeqnumModAssumption
  <2>2. msg.seqnum = wire_msg.seqnum + 1
    BY <2>1 DEF WireMsg
  <2>3. Mutated(msg).seqnum = msg.seqnum
    <3>1. mutator_state \in 0..2
      BY DEF CommsTypeOK
    <3>2. CASE mutator_state = 0
      BY <3>2 DEF Mutated, WireMsg
    <3>3. CASE mutator_state = 1
      BY <3>3 DEF Mutated, WireMsg
    <3>4. CASE mutator_state = 2
      BY <3>4 DEF Mutated, WireMsg
    <3> QED
      BY <3>1, <3>2, <3>3, <3>4
  <2>4. wire_msg' = msg \/ wire_msg' = Mutated(msg)
    BY <1>2 DEF CommsWheelSpeed
  <2>5. wire_msg'.seqnum = wire_msg.seqnum + 1
    BY <2>2, <2>3, <2>4
  <2> QED
    BY <1>1, <1>2, <2>5, LoopAssumption
<1>3. CASE ~CommsWheelSpeed
  <2>1. /\ UNCHANGED wire_msg
        /\ comms_pc' \in {"sendto", "blocked"} => comms_pc \in {"sendto", "blocked"}
    BY <1>3
    DEF Firmware, comms_send_sensor_data, comms_send_voltage_data, commsTaskVars,
        CommsNetworkReady, CommsRecvTimesOut, CommsVoltage, CommsSendtoBlocks,
        NetworkEvent
  <2> QED
    BY <1>1, <2>1
<1>4. CASE CommsWheelSpeed /\ ~(wire_msg.seqnum < SENT_MAX)
  <2>1. comms_pc = "recv" /\ comms_pc' = "sendto" /\ g_comms_queue # <<>>
        /\ g_comms_queue' = Tail(g_comms_queue)
        /\ Head(g_comms_queue).type = "MSG_TYPE_WHEEL_SPEED"
    BY <1>4 DEF CommsWheelSpeed, comms_recv
  <2> QED
    BY <1>4, <2>1
    DEF Firmware, comms_send_sensor_data, comms_send_voltage_data, commsTaskVars,
        CommsNetworkReady, CommsRecvTimesOut, CommsVoltage, CommsSendtoBlocks,
        NetworkEvent
<1> QED
  BY <1>2, <1>3, <1>4

\* The datagram handed to FreeRTOS_sendto is one, and its header tells a hit.
LEMMA DatagramOnWire ==
    ASSUME CommsIInv, comms_pc \in {"sendto", "blocked"}
    PROVE  /\ Datagram \in Wire
           /\ Datagram.seqnum = wire_msg.seqnum
           /\ Intact(Datagram) <=> ~Datagram.hit
<1>1. wire_msg \in wire_msg_s /\ h_hit \in BOOLEAN
  BY DEF CommsIInv, CommsTypeOK
<1>2. Datagram \in Wire
  BY <1>1 DEF Datagram, Wire, wire_msg_s
<1>3. BadFields(Datagram) = BadFields(wire_msg)
  BY DEF Datagram, BadFields
<1>4. Intact(wire_msg) <=> ~h_hit
  BY <1>1 DEF CommsIInv, CorruptIffSpiked, Intact
<1>5. Datagram.hit = h_hit /\ Datagram.seqnum = wire_msg.seqnum
  BY DEF Datagram
<1> QED
  BY <1>2, <1>3, <1>4, <1>5 DEF Intact

-----------------------------------------------------------------------------
(* The actuator program in the loop.                                        *)

\* The program handles as valid what has an intact header.
LEMMA ValidIffIntact ==
    ASSUME NEW msg
    PROVE  Verdict(msg) = "VALID" <=> Intact(msg)
<1>1. ASSUME Intact(msg)
      PROVE  Verdict(msg) = "VALID"
  <2>1. /\ msg.magic0 = WIRE_MAGIC0
        /\ msg.magic1 = WIRE_MAGIC1
        /\ msg.type = WIRE_TYPE_WHEEL_SPEED
    BY <1>1 DEF Intact, BadFields
  <2> QED
    BY <2>1 DEF Verdict
<1>2. ASSUME Verdict(msg) = "VALID"
      PROVE  Intact(msg)
  <2>1. /\ ~(msg.magic0 # WIRE_MAGIC0)
        /\ ~(msg.magic0 = WIRE_MAGIC0 /\ msg.magic1 # WIRE_MAGIC1)
        /\ ~(/\ msg.magic0 = WIRE_MAGIC0
             /\ msg.magic1 = WIRE_MAGIC1
             /\ msg.type # WIRE_TYPE_WHEEL_SPEED)
    BY <1>2 DEF Verdict
  <2> QED
    BY <2>1 DEF Intact, BadFields
<1> QED
  BY <1>1, <1>2

\* One more step of the duty, clamped; the uint16_t does not wrap.
LEMMA DutyGrows ==
    ASSUME NEW d \in 0..DUTY_MAX
    PROVE  LET next == clamped_duty((d + DUTY_STEP) % UINT16)
           IN  next \in 0..DUTY_MAX /\ next <= d + DUTY_STEP
<1>1. UINT16 \in Nat \ {0}
  BY DEF UINT16
<1>2. d + DUTY_STEP \in 0..(UINT16 - 1)
  BY <1>1, DutyAssumption
<1>3. \A m \in Nat \ {0} : \A n \in 0..(m - 1) : n % m = n
  OBVIOUS
<1>4. (d + DUTY_STEP) % UINT16 = d + DUTY_STEP
  BY <1>1, <1>2, <1>3
<1> QED
  BY <1>4, DutyAssumption DEF clamped_duty

\* The steps of the actuator program keep its types, and let the velocity and
\* the duty grow only in Receive.
LEMMA ProgramTypes ==
    ASSUME LoopTypeOK, Receive \/ ProgramElse
    PROVE  /\ ActuatorTypeOK'
           /\ rcvbuf' \in Seq(Wire)
<1>1. ActuatorTypeOK /\ rcvbuf \in Seq(Wire)
  BY DEF LoopTypeOK
<1>2. Len(rcvbuf) \in Nat /\ Len(rcvbuf) <= RCVBUF
  BY <1>1 DEF ActuatorTypeOK
<1>3. 0 \in 0..DUTY_MAX
  BY DutyAssumption
<1>4. (twist_seqnum + 1) % TWIST_MOD \in 0..(TWIST_MOD - 1)
  BY <1>1, TwistModAssumption DEF ActuatorTypeOK
<1>5. ASSUME NEW v \in 0..DUTY_MAX, actuator_set_vel(v)
      PROVE  /\ twist' \in [seqnum : 0..(TWIST_MOD - 1), velocity : 0..DUTY_MAX]
             /\ twist_seqnum' \in 0..(TWIST_MOD - 1)
             /\ h_late' \in Nat
  BY <1>1, <1>4, <1>5 DEF actuator_set_vel, ActuatorTypeOK
<1>6. CASE Receive
  <2>1. rcvbuf' \in Seq(Wire) /\ Len(rcvbuf') <= RCVBUF
    BY <1>1, <1>2, <1>6, TailPositions, RcvbufAssumption DEF Receive
  <2>2. h_verdict' \in {"NONE", "VALID", "BAD_MAGIC0", "BAD_MAGIC1", "BAD_TYPE"}
    BY <1>6 DEF Receive, Verdict
  <2>3. actuator_pc' = "loop" /\ UNCHANGED g_exit_signaled
    BY <1>6 DEF Receive
  <2>4. CASE Verdict(Head(rcvbuf)) = "VALID"
    <3>1. duty' \in 0..DUTY_MAX /\ TraceSetPwm(duty') /\ actuator_set_vel(duty')
      BY <1>1, <1>6, <2>4, DutyGrows DEF Receive, ActuatorTypeOK
    <3>2. h_pwm' \in [seqnum : 0..(TWIST_MOD - 1), duty : 0..DUTY_MAX]
      BY <1>1, <3>1 DEF TraceSetPwm, ActuatorTypeOK
    <3> QED
      BY <1>1, <1>5, <2>1, <2>2, <2>3, <3>1, <3>2 DEF ActuatorTypeOK
  <2>5. CASE UNCHANGED <<duty, twist_seqnum, twist, h_pwm, h_late>>
    BY <1>1, <2>1, <2>2, <2>3, <2>5 DEF ActuatorTypeOK
  <2> QED
    BY <1>6, <2>4, <2>5 DEF Receive
<1>7. CASE StartActuator
  <2>1. h_pwm' \in [seqnum : 0..(TWIST_MOD - 1), duty : 0..DUTY_MAX]
    BY <1>1, <1>3, <1>7 DEF StartActuator, TraceSetPwm, ActuatorTypeOK
  <2> QED
    BY <1>1, <1>3, <1>5, <1>7, <2>1 DEF StartActuator, ActuatorTypeOK
<1>8. CASE Stop
  BY <1>1, <1>3, <1>5, <1>8 DEF Stop, ActuatorTypeOK
<1>9. CASE Signal
  BY <1>1, <1>9 DEF Signal, ActuatorTypeOK
<1>10. CASE sigint_register \/ BindSocket \/ LoopTop \/ Select \/ CallFails
  <2>1. /\ actuator_pc' \in {"registered", "bound", "loop", "select", "recv",
                            "stopping", "aborted"}
        /\ UNCHANGED <<g_exit_signaled, duty, twist_seqnum, rcvbuf, twist, h_pwm,
                       h_verdict, h_late>>
    BY <1>10 DEF sigint_register, BindSocket, LoopTop, Select, CallFails
  <2> QED
    BY <1>1, <2>1 DEF ActuatorTypeOK
<1> QED
  BY <1>6, <1>7, <1>8, <1>9, <1>10 DEF ProgramElse

-----------------------------------------------------------------------------
(* The inductive invariant.                                                 *)

\* Acting upon a new number earns one more step.
LEMMA OneMoreStep ==
    ASSUME NEW S, IsFiniteSet(S), NEW n, n \notin S,
           NEW d \in Nat, d <= DUTY_STEP * Cardinality(S),
           NEW e \in Nat, e <= d + DUTY_STEP
    PROVE  e <= DUTY_STEP * Cardinality(S \cup {n})
<1>1. Cardinality(S) \in Nat /\ Cardinality(S \cup {n}) = Cardinality(S) + 1
  BY FS_AddElement, FS_CardinalityType
<1>2. \A c \in Nat : DUTY_STEP * (c + 1) = DUTY_STEP * c + DUTY_STEP
                     /\ DUTY_STEP * c \in Nat
  BY DutyAssumption
<1> QED
  BY <1>1, <1>2, DutyAssumption

\* There are finitely many numbers, and what they earn is a number.
LEMMA ActedFinite ==
    ASSUME LoopTypeOK
    PROVE  /\ IsFiniteSet(h_acted)
           /\ Cardinality(h_acted) \in Nat
           /\ DUTY_STEP * Cardinality(h_acted) \in Nat
<1>1. IsFiniteSet(0..SENT_MAX)
  BY FS_Interval, LoopAssumption
<1>2. IsFiniteSet(h_acted) /\ Cardinality(h_acted) \in Nat
  BY <1>1, FS_Subset, FS_CardinalityType DEF LoopTypeOK
<1> QED
  BY <1>2, DutyAssumption

\* Nothing is sent, in flight or acted upon initially.
LEMMA LoopInvInit == LoopInit => LoopIInv
<1> SUFFICES ASSUME LoopInit PROVE LoopIInv
  OBVIOUS
<1>1. CommsIInv
  BY CommsIInvInit DEF LoopInit
<1>2. /\ rcvbuf = <<>> /\ rcvbuf \in Seq(Wire) /\ Len(rcvbuf) = 0
      /\ net = {} /\ h_acted = {} /\ h_duplicated = FALSE
      /\ duty = 0 /\ twist = NoTwist
      /\ wire_msg.seqnum = 0
      /\ comms_pc = "netwait"
  BY DEF LoopInit, ActuatorInit, CommsInit, ZeroWireMsg
<1>3. ActuatorTypeOK
  <2>1. 0 \in 0..DUTY_MAX /\ 0 \in 0..(TWIST_MOD - 1) /\ 1 \in 0..(TWIST_MOD - 1)
    BY DutyAssumption, TwistModAssumption
  <2>2. /\ twist \in [seqnum : 0..(TWIST_MOD - 1), velocity : 0..DUTY_MAX]
        /\ h_pwm \in [seqnum : 0..(TWIST_MOD - 1), duty : 0..DUTY_MAX]
        /\ Len(rcvbuf) <= RCVBUF
    BY <1>2, <2>1, RcvbufAssumption DEF LoopInit, ActuatorInit, NoTwist
  <2> QED
    BY <2>1, <2>2 DEF LoopInit, ActuatorInit, ActuatorTypeOK
<1>4. LoopTypeOK
  BY <1>1, <1>2, <1>3 DEF CommsIInv, LoopTypeOK
<1>5. Numbered
  BY <1>2, LoopAssumption DEF Numbered
<1>6. HeadersTellHits /\ InOnePlace
  BY <1>2 DEF HeadersTellHits, InOnePlace
<1>7. DutyEarned /\ VelocityEarned
  <2>1. 0 <= DUTY_STEP * Cardinality(h_acted)
    BY <1>4, ActedFinite
  <2> QED
    BY <1>2, <2>1 DEF DutyEarned, VelocityEarned, NoTwist
<1> QED
  BY <1>1, <1>4, <1>5, <1>6, <1>7 DEF LoopIInv

\* The firmware's steps.
LEMMA FirmwareStep ==
    ASSUME LoopIInv, CommsIInv', Firmware
    PROVE  LoopIInv'
<1>1. UNCHANGED <<actuatorVars, net, h_acted, h_duplicated>>
  BY DEF Firmware
<1>2. CommsTypeOK /\ LoopTypeOK /\ wire_msg.seqnum <= SENT_MAX
  BY DEF LoopIInv, CommsIInv, Numbered
<1>3. /\ wire_msg'.seqnum \in 0..SENT_MAX
      /\ \/ /\ UNCHANGED wire_msg
            /\ comms_pc' \in {"sendto", "blocked"} => comms_pc \in {"sendto", "blocked"}
         \/ wire_msg'.seqnum = wire_msg.seqnum + 1
  BY <1>2, SeqnumStep
<1>4. LoopTypeOK'
  BY <1>1 DEF LoopIInv, LoopTypeOK, ActuatorTypeOK, actuatorVars, CommsIInv
<1>5. HeadersTellHits' /\ DutyEarned' /\ VelocityEarned'
  BY <1>1 DEF LoopIInv, HeadersTellHits, DutyEarned, VelocityEarned, actuatorVars
<1>6. InOnePlace'
  <2> SUFFICES ASSUME ~h_duplicated PROVE InOnePlace'
    BY <1>1 DEF InOnePlace
  <2>1. CASE /\ UNCHANGED wire_msg
             /\ comms_pc' \in {"sendto", "blocked"} => comms_pc \in {"sendto", "blocked"}
    BY <1>1, <2>1 DEF LoopIInv, InOnePlace, actuatorVars
  <2>2. CASE wire_msg'.seqnum = wire_msg.seqnum + 1
    <3>1. /\ UNCHANGED <<net, rcvbuf, h_acted>>
          /\ InOnePlace
          /\ net \subseteq Wire
          /\ \A i \in 1..Len(rcvbuf) : rcvbuf[i] \in Wire
          /\ h_acted \subseteq 0..SENT_MAX
          /\ wire_msg.seqnum \in Int
      <4>1. rcvbuf \in Seq(Wire)
        BY <1>2 DEF LoopTypeOK
      <4> QED
        BY <1>1, <1>2, <4>1 DEF LoopIInv, LoopTypeOK, CommsTypeOK, wire_msg_s, actuatorVars
    <3>2. \A datagram \in Wire : datagram.seqnum \in Int
      BY DEF Wire
    <3> QED
      BY <2>2, <3>1, <3>2 DEF InOnePlace
  <2> QED
    BY <1>3, <2>1, <2>2
<1>7. Numbered'
  BY <1>1, <1>3 DEF LoopIInv, Numbered, actuatorVars
<1> QED
  BY <1>4, <1>5, <1>6, <1>7 DEF LoopIInv

\* The datagram leaves the task, with a number that is nowhere else.
LEMMA SendsStep ==
    ASSUME LoopIInv, CommsIInv', Sends
    PROVE  LoopIInv'
<1>1. /\ comms_pc \in {"sendto", "blocked"} /\ comms_pc' = "recv"
      /\ UNCHANGED <<wire_msg, h_acted, h_duplicated>>
      /\ UNCHANGED actuatorVars
      /\ net' = net \/ net' = net \cup {Datagram}
  BY DEF Sends, CommsSendtoReturns
<1>2. UNCHANGED <<rcvbuf, duty, twist>> /\ ActuatorTypeOK'
  BY <1>1 DEF LoopIInv, LoopTypeOK, ActuatorTypeOK, actuatorVars
<1>3. /\ Datagram \in Wire
      /\ Datagram.seqnum = wire_msg.seqnum
      /\ Intact(Datagram) <=> ~Datagram.hit
  BY <1>1, DatagramOnWire DEF LoopIInv
<1>4. LoopTypeOK'
  BY <1>1, <1>2, <1>3 DEF LoopIInv, LoopTypeOK, CommsIInv
<1>5. HeadersTellHits' /\ DutyEarned' /\ VelocityEarned'
  BY <1>1, <1>2, <1>3 DEF LoopIInv, HeadersTellHits, DutyEarned, VelocityEarned
<1>6. wire_msg.seqnum \in Int
  BY DEF LoopIInv, CommsIInv, CommsTypeOK, wire_msg_s
<1>7. InOnePlace'
  <2> SUFFICES ASSUME ~h_duplicated PROVE InOnePlace'
    BY <1>1 DEF InOnePlace
  <2> USE <1>1, <1>2, <1>3, <1>6 DEF LoopIInv, InOnePlace
  <2>1. /\ \A datagram \in net' : datagram.seqnum <= wire_msg'.seqnum
        /\ \A datagram \in net' : datagram.seqnum \notin h_acted'
        /\ \A n \in h_acted' : n <= wire_msg'.seqnum
    OBVIOUS
  <2>2. \A datagram, other \in net' : datagram.seqnum = other.seqnum => datagram = other
    OBVIOUS
  <2>3. \A i \in 1..Len(rcvbuf') :
           /\ rcvbuf'[i].seqnum <= wire_msg'.seqnum
           /\ rcvbuf'[i].seqnum \notin h_acted'
           /\ \A datagram \in net' : datagram.seqnum # rcvbuf'[i].seqnum
           /\ \A j \in 1..Len(rcvbuf') : rcvbuf'[j].seqnum = rcvbuf'[i].seqnum => i = j
    OBVIOUS
  <2> QED
    BY <2>1, <2>2, <2>3
<1>8. Numbered'
  BY <1>1, <1>2, <1>3 DEF LoopIInv, Numbered
<1> QED
  BY <1>4, <1>5, <1>7, <1>8 DEF LoopIInv

\* The network delivers a datagram, or finds the socket's buffer full, and
\* forgets it or keeps it.
LEMMA DeliversStep ==
    ASSUME LoopIInv, CommsIInv', NEW d \in net, Delivers(d)
    PROVE  LoopIInv'
<1>1. /\ \/ rcvbuf' = Append(rcvbuf, d) /\ Len(rcvbuf) < RCVBUF
         \/ rcvbuf' = rcvbuf
      /\ UNCHANGED <<actuator_pc, g_exit_signaled, duty, twist_seqnum, twist, h_pwm,
                     h_verdict, h_late, wire_msg, comms_pc, h_acted>>
      /\ \/ net' = net \ {d} /\ UNCHANGED h_duplicated
         \/ net' = net /\ h_duplicated'
  BY DEF Delivers, DatagramArrives, commsVars
<1>2. /\ rcvbuf \in Seq(Wire) /\ net \subseteq Wire /\ d \in Wire
      /\ Len(rcvbuf) \in Nat /\ Len(rcvbuf) <= RCVBUF
  BY DEF LoopIInv, LoopTypeOK, ActuatorTypeOK
<1>3. /\ rcvbuf' \in Seq(Wire)
      /\ Len(rcvbuf') \in Nat /\ Len(rcvbuf') <= RCVBUF
      /\ \A i \in 1..Len(rcvbuf') :
            \/ i \in 1..Len(rcvbuf) /\ rcvbuf'[i] = rcvbuf[i]
            \/ i = Len(rcvbuf) + 1 /\ rcvbuf'[i] = d
  <2>1. CASE rcvbuf' = rcvbuf
    BY <1>2, <2>1
  <2>2. CASE rcvbuf' = Append(rcvbuf, d) /\ Len(rcvbuf) < RCVBUF
    <3>1. /\ rcvbuf' \in Seq(Wire)
          /\ Len(rcvbuf') = Len(rcvbuf) + 1
          /\ \A i \in 1..Len(rcvbuf) : rcvbuf'[i] = rcvbuf[i]
          /\ rcvbuf'[Len(rcvbuf) + 1] = d
      BY <1>2, <2>2, AppendPositions
    <3> QED
      BY <1>2, <2>2, <3>1, RcvbufAssumption
  <2> QED
    BY <1>1, <2>1, <2>2
<1>4. LoopTypeOK'
  <2>1. ActuatorTypeOK'
    BY <1>1, <1>3 DEF LoopIInv, LoopTypeOK, ActuatorTypeOK
  <2>2. h_duplicated' \in BOOLEAN
    BY DEF Delivers, LoopIInv, LoopTypeOK
  <2> QED
    BY <1>1, <1>3, <2>1, <2>2 DEF LoopIInv, LoopTypeOK, CommsIInv
<1>5. HeadersTellHits'
  BY <1>1, <1>3 DEF LoopIInv, HeadersTellHits
<1>6. DutyEarned' /\ VelocityEarned'
  BY <1>1 DEF LoopIInv, DutyEarned, VelocityEarned
<1>7. InOnePlace'
  <2> SUFFICES ASSUME ~h_duplicated' PROVE InOnePlace'
    BY DEF InOnePlace
  <2>1. net' = net \ {d} /\ ~h_duplicated
    BY <1>1
  <2> USE <1>1, <1>3, <2>1 DEF LoopIInv, InOnePlace
  <2>2. /\ \A datagram \in net' : datagram.seqnum <= wire_msg'.seqnum
        /\ \A datagram \in net' : datagram.seqnum \notin h_acted'
        /\ \A n \in h_acted' : n <= wire_msg'.seqnum
        /\ \A datagram, other \in net' :
              datagram.seqnum = other.seqnum => datagram = other
    OBVIOUS
  <2>3. \A datagram \in net' : datagram.seqnum # d.seqnum
    OBVIOUS
  <2>4. \A i \in 1..Len(rcvbuf) : d.seqnum # rcvbuf[i].seqnum
    OBVIOUS
  <2>5. \A i \in 1..Len(rcvbuf') :
           /\ rcvbuf'[i].seqnum <= wire_msg'.seqnum
           /\ rcvbuf'[i].seqnum \notin h_acted'
           /\ \A datagram \in net' : datagram.seqnum # rcvbuf'[i].seqnum
    BY <2>3
  <2>6. \A i, j \in 1..Len(rcvbuf') : rcvbuf'[j].seqnum = rcvbuf'[i].seqnum => i = j
    BY <2>4
  <2>7. comms_pc' \in {"sendto", "blocked"} =>
           /\ wire_msg'.seqnum \notin h_acted'
           /\ \A datagram \in net' : datagram.seqnum # wire_msg'.seqnum
           /\ \A i \in 1..Len(rcvbuf') : rcvbuf'[i].seqnum # wire_msg'.seqnum
    OBVIOUS
  <2> QED
    BY <2>2, <2>5, <2>6, <2>7
<1>8. Numbered'
  BY <1>1, <1>3 DEF LoopIInv, Numbered
<1> QED
  BY <1>4, <1>5, <1>6, <1>7, <1>8 DEF LoopIInv

\* The network loses a datagram.
LEMMA LosesStep ==
    ASSUME LoopIInv, CommsIInv', NEW d \in net, Loses(d)
    PROVE  LoopIInv'
<1>1. /\ net' \subseteq net
      /\ UNCHANGED <<actuatorVars, wire_msg, comms_pc, h_acted, h_duplicated>>
  BY DEF Loses, commsVars
<1>2. UNCHANGED <<rcvbuf, duty, twist>> /\ ActuatorTypeOK'
  BY <1>1 DEF LoopIInv, LoopTypeOK, ActuatorTypeOK, actuatorVars
<1>3. LoopTypeOK'
  BY <1>1, <1>2 DEF LoopIInv, LoopTypeOK, CommsIInv
<1>4. HeadersTellHits' /\ DutyEarned' /\ VelocityEarned'
  BY <1>1, <1>2 DEF LoopIInv, HeadersTellHits, DutyEarned, VelocityEarned
<1>5. InOnePlace'
  BY <1>1, <1>2 DEF LoopIInv, InOnePlace
<1>6. Numbered'
  BY <1>1, <1>2 DEF LoopIInv, Numbered
<1> QED
  BY <1>3, <1>4, <1>5, <1>6 DEF LoopIInv

\* The program handles the oldest datagram of its socket.
LEMMA ActsStep ==
    ASSUME LoopIInv, CommsIInv', Acts
    PROVE  LoopIInv'
<1> DEFINE d == Head(rcvbuf)
<1>1. /\ Receive
      /\ rcvbuf # <<>> /\ rcvbuf' = Tail(rcvbuf)
      /\ UNCHANGED <<commsVars, net, h_duplicated>>
      /\ h_acted' = IF Verdict(d) = "VALID" THEN h_acted \cup {d.seqnum} ELSE h_acted
  BY DEF Acts, Receive
<1>2. LoopTypeOK /\ rcvbuf \in Seq(Wire)
  BY DEF LoopIInv, LoopTypeOK
<1>3. /\ rcvbuf' \in Seq(Wire)
      /\ Len(rcvbuf) \in Nat \ {0}
      /\ Len(rcvbuf') = Len(rcvbuf) - 1
      /\ d = rcvbuf[1] /\ d \in Wire
      /\ \A i \in 1..Len(rcvbuf') : i + 1 \in 1..Len(rcvbuf) /\ rcvbuf'[i] = rcvbuf[i + 1]
  BY <1>1, <1>2, TailPositions
<1> HIDE DEF d
<1>4. UNCHANGED <<wire_msg, comms_pc>>
  BY <1>1 DEF commsVars
<1>5. HeadersTellHits'
  BY <1>1, <1>3 DEF LoopIInv, HeadersTellHits
<1>6. ActuatorTypeOK /\ ActuatorTypeOK'
  BY <1>1, <1>2, ProgramTypes DEF LoopTypeOK
<1>7. InOnePlace'
  <2> SUFFICES ASSUME ~h_duplicated PROVE InOnePlace'
    BY <1>1 DEF InOnePlace
  <2> USE <1>1, <1>3, <1>4 DEF LoopIInv, InOnePlace
  <2>1. 1 \in 1..Len(rcvbuf)
    OBVIOUS
  <2>2. /\ d.seqnum <= wire_msg.seqnum
        /\ d.seqnum \notin h_acted
        /\ \A datagram \in net : datagram.seqnum # d.seqnum
        /\ \A j \in 1..Len(rcvbuf) : rcvbuf[j].seqnum = d.seqnum => j = 1
        /\ comms_pc \in {"sendto", "blocked"} => d.seqnum # wire_msg.seqnum
    BY <2>1
  <2>3. /\ h_acted' \subseteq h_acted \cup {d.seqnum}
        /\ \A n \in h_acted' : n <= wire_msg'.seqnum
        /\ \A datagram \in net' : datagram.seqnum \notin h_acted'
    BY <2>2
  <2>4. /\ \A datagram \in net' : datagram.seqnum <= wire_msg'.seqnum
        /\ \A datagram, other \in net' :
              datagram.seqnum = other.seqnum => datagram = other
    OBVIOUS
  <2>5. ASSUME NEW i \in 1..Len(rcvbuf')
        PROVE  /\ rcvbuf'[i].seqnum <= wire_msg'.seqnum
               /\ rcvbuf'[i].seqnum \notin h_acted'
               /\ \A datagram \in net' : datagram.seqnum # rcvbuf'[i].seqnum
    <3>1. i + 1 \in 1..Len(rcvbuf) /\ rcvbuf'[i] = rcvbuf[i + 1] /\ i + 1 # 1
      OBVIOUS
    <3> QED
      BY <2>2, <2>3, <3>1
  <2>6. ASSUME NEW i \in 1..Len(rcvbuf'), NEW j \in 1..Len(rcvbuf'),
               rcvbuf'[j].seqnum = rcvbuf'[i].seqnum
        PROVE  i = j
    <3>1. i + 1 \in 1..Len(rcvbuf) /\ j + 1 \in 1..Len(rcvbuf)
      OBVIOUS
    <3>2. i + 1 = j + 1
      BY <2>6, <3>1
    <3> QED
      BY <3>2
  <2>7. comms_pc' \in {"sendto", "blocked"} =>
           /\ wire_msg'.seqnum \notin h_acted'
           /\ \A datagram \in net' : datagram.seqnum # wire_msg'.seqnum
           /\ \A i \in 1..Len(rcvbuf') : rcvbuf'[i].seqnum # wire_msg'.seqnum
    BY <2>2, <2>3
  <2> QED
    BY <2>3, <2>4, <2>5, <2>6, <2>7
<1>8. LoopTypeOK'
  <2>1. h_acted' \subseteq 0..SENT_MAX
    <3>1. d.seqnum \in 0..(SEQNUM_MOD - 1)
      BY <1>3 DEF Wire
    <3>2. d.seqnum <= SENT_MAX
      BY <1>3 DEF LoopIInv, Numbered
    <3>3. d.seqnum \in 0..SENT_MAX
      BY <3>1, <3>2, LoopAssumption, SeqnumModAssumption
    <3> QED
      BY <1>1, <1>2, <3>3 DEF LoopTypeOK
  <2> QED
    BY <1>1, <1>3, <1>6, <2>1 DEF LoopIInv, LoopTypeOK, CommsIInv
<1>9. DutyEarned' /\ VelocityEarned'
  <2> SUFFICES ASSUME ~h_duplicated
               PROVE  /\ duty' <= DUTY_STEP * Cardinality(h_acted')
                      /\ twist'.velocity <= DUTY_STEP * Cardinality(h_acted')
    BY <1>1 DEF DutyEarned, VelocityEarned
  <2>1. /\ duty <= DUTY_STEP * Cardinality(h_acted)
        /\ twist.velocity <= DUTY_STEP * Cardinality(h_acted)
    BY DEF LoopIInv, DutyEarned, VelocityEarned
  <2>2. CASE Verdict(d) = "VALID"
    <3>1. /\ duty \in 0..DUTY_MAX
          /\ duty' = clamped_duty((duty + DUTY_STEP) % UINT16)
          /\ twist'.velocity = duty'
      BY <1>1, <1>6, <2>2 DEF Receive, actuator_set_vel, ActuatorTypeOK, d
    <3>2. duty' \in 0..DUTY_MAX /\ duty' <= duty + DUTY_STEP
      BY <3>1, DutyGrows
    <3>3. d.seqnum \notin h_acted
      <4>1. 1 \in 1..Len(rcvbuf)
        BY <1>3
      <4> QED
        BY <1>3, <4>1 DEF LoopIInv, InOnePlace
    <3>4. duty \in Nat /\ duty' \in Nat /\ IsFiniteSet(h_acted)
      BY <1>2, <3>1, <3>2, ActedFinite, DutyAssumption
    <3>5. duty' <= DUTY_STEP * Cardinality(h_acted \cup {d.seqnum})
      BY <2>1, <3>2, <3>3, <3>4, OneMoreStep
    <3> QED
      BY <1>1, <2>2, <3>1, <3>5
  <2>3. CASE Verdict(d) # "VALID"
    BY <1>1, <2>1, <2>3 DEF Receive, d
  <2> QED
    BY <2>2, <2>3
<1>10. Numbered'
  BY <1>1, <1>3, <1>4 DEF LoopIInv, Numbered
<1> QED
  BY <1>5, <1>7, <1>8, <1>9, <1>10 DEF LoopIInv

\* The rest of the program receives nothing and publishes at most a zero.
LEMMA ProgramElseStep ==
    ASSUME LoopIInv, CommsIInv', ProgramElse
    PROVE  LoopIInv'
<1>1. /\ UNCHANGED <<commsVars, net, h_acted, h_duplicated, rcvbuf>>
      /\ duty' = duty \/ duty' = 0
      /\ twist' = twist \/ twist'.velocity = 0
  BY DEF ProgramElse, sigint_register, BindSocket, StartActuator, LoopTop, Select,
         Stop, CallFails, Signal, actuator_set_vel
<1>2. UNCHANGED <<wire_msg, comms_pc>>
  BY <1>1 DEF commsVars
<1>3. LoopTypeOK'
  <2>1. ActuatorTypeOK'
    BY ProgramTypes DEF LoopIInv
  <2> QED
    BY <1>1, <2>1 DEF LoopIInv, LoopTypeOK, CommsIInv
<1>4. DutyEarned' /\ VelocityEarned'
  <2>1. 0 <= DUTY_STEP * Cardinality(h_acted)
    BY ActedFinite DEF LoopIInv
  <2> QED
    BY <1>1, <2>1 DEF LoopIInv, DutyEarned, VelocityEarned
<1>5. HeadersTellHits' /\ InOnePlace' /\ Numbered'
  BY <1>1, <1>2 DEF LoopIInv, HeadersTellHits, InOnePlace, Numbered
<1> QED
  BY <1>3, <1>4, <1>5 DEF LoopIInv

\* The inductive invariant is preserved by every step.
LEMMA LoopInvStep == LoopIInv /\ [LoopNext]_loopVars => LoopIInv'
<1> SUFFICES ASSUME LoopIInv, [LoopNext]_loopVars PROVE LoopIInv'
  OBVIOUS
<1>1. CommsIInv'
  BY LoopStepIsCommsStep, CommsIInvStep DEF LoopIInv
<1>2. CASE UNCHANGED loopVars
  <2>1. /\ UNCHANGED <<commsVars, actuatorVars, net, h_acted, h_duplicated>>
        /\ UNCHANGED <<wire_msg, comms_pc, rcvbuf, duty, twist>>
    BY <1>2 DEF loopVars, commsVars, actuatorVars
  <2>2. ActuatorTypeOK'
    BY <2>1 DEF LoopIInv, LoopTypeOK, ActuatorTypeOK, actuatorVars
  <2>3. LoopTypeOK'
    BY <1>1, <2>1, <2>2 DEF LoopIInv, LoopTypeOK, CommsIInv
  <2> QED
    BY <1>1, <2>1, <2>3
    DEF LoopIInv, Numbered, HeadersTellHits, InOnePlace, DutyEarned, VelocityEarned
<1>3. CASE \E datagram \in net : Delivers(datagram) \/ Loses(datagram)
  BY <1>1, <1>3, DeliversStep, LosesStep
<1> QED
  BY <1>1, <1>2, <1>3, FirmwareStep, SendsStep, ActsStep, ProgramElseStep DEF LoopNext

\* Every reachable state satisfies the inductive invariant.
LEMMA LoopInvariance == LoopSpec => []LoopIInv
  BY LoopInvInit, LoopInvStep, PTL DEF LoopSpec

\* Both programs, the network and the histories stay within their types.
THEOREM LoopTypeCorrect == LoopSpec => []LoopTypeOK
<1>1. LoopIInv => LoopTypeOK
  BY DEF LoopIInv
<1> QED
  BY <1>1, LoopInvariance, PTL

\* Until the network repeats a datagram, the robot is never faster than the
\* measurements that the actuator program acted upon allow.
THEOREM LoopVelocityEarned == LoopSpec => []VelocityEarned
<1>1. LoopIInv => VelocityEarned
  BY DEF LoopIInv
<1> QED
  BY <1>1, LoopInvariance, PTL

\* Why: until then every number is in one place.
THEOREM LoopNumbersInOnePlace == LoopSpec => []InOnePlace
<1>1. LoopIInv => InOnePlace
  BY DEF LoopIInv
<1> QED
  BY <1>1, LoopInvariance, PTL

\* What the firmware spoils after a voltage spike, and only that, is ignored
\* at the other end of a network that loses, reorders and repeats datagrams.
THEOREM LoopActsIffNotSpiked == LoopSpec => ActsIffNotSpiked
<1>1. ASSUME LoopIInv, Acts
      PROVE  h_verdict' = "VALID" <=> ~Head(rcvbuf).hit
  <2>1. /\ rcvbuf \in Seq(Wire) /\ rcvbuf # <<>>
        /\ h_verdict' = Verdict(Head(rcvbuf))
    BY <1>1 DEF Acts, Receive, LoopIInv, LoopTypeOK
  <2>2. Head(rcvbuf) = rcvbuf[1] /\ 1 \in 1..Len(rcvbuf)
    BY <2>1
  <2>3. Intact(Head(rcvbuf)) <=> ~Head(rcvbuf).hit
    BY <1>1, <2>2 DEF LoopIInv, HeadersTellHits
  <2> QED
    BY <2>1, <2>3, ValidIffIntact
<1>2. LoopIInv /\ [LoopNext]_loopVars =>
        [Acts => (h_verdict' = "VALID" <=> ~Head(rcvbuf).hit)]_loopVars
  BY <1>1
<1> QED
  BY <1>2, LoopInvariance, PTL DEF LoopSpec, ActsIffNotSpiked

-----------------------------------------------------------------------------
(* The actuator program in the loop is the actuator program: the network    *)
(* brings it some of the datagrams that ActuatorProgram lets arrive.        *)

\* The tracepoints play no part here.
Alone == INSTANCE ActuatorProofs WITH Datagram <- Wire, h_cycle <- <<>>

\* What the network carries is what ActuatorProgram assumes of a datagram.
LEMMA WireIsDatagram ==
    \A msg \in Wire :
        /\ {msg.magic0, msg.magic1, msg.type} \subseteq 0..255
        /\ msg.whole \in BOOLEAN
  BY DEF Wire

\* The program's actions are the same here and there.
LEMMA SameActions ==
    /\ ActuatorInit <=> Alone!ActuatorInit
    /\ Receive \/ ProgramElse => Alone!Program \/ Alone!CallFails \/ Alone!Signal
    /\ \A msg : DatagramArrives(msg) <=> Alone!DatagramArrives(msg)
<1>1. ActuatorInit <=> Alone!ActuatorInit
  BY DEF ActuatorInit, Alone!ActuatorInit, NoTwist, Alone!NoTwist
<1>2. ASSUME Receive PROVE Alone!Receive
  BY <1>2
  DEF Receive, Alone!Receive, Verdict, Alone!Verdict, clamped_duty,
      Alone!clamped_duty, TraceSetPwm, Alone!TraceSetPwm, actuator_set_vel,
      Alone!actuator_set_vel, UINT16, Alone!UINT16, WIRE_MAGIC0,
      Alone!WIRE_MAGIC0, WIRE_MAGIC1, Alone!WIRE_MAGIC1,
      WIRE_TYPE_WHEEL_SPEED, Alone!WIRE_TYPE_WHEEL_SPEED
<1>3. ASSUME StartActuator \/ Stop PROVE Alone!StartActuator \/ Alone!Stop
  BY <1>3
  DEF StartActuator, Stop, Alone!StartActuator, Alone!Stop, TraceSetPwm,
      Alone!TraceSetPwm, actuator_set_vel, Alone!actuator_set_vel
<1>4. ASSUME \/ sigint_register \/ BindSocket \/ LoopTop \/ Select
             \/ CallFails \/ Signal
      PROVE  \/ Alone!sigint_register \/ Alone!BindSocket \/ Alone!LoopTop
             \/ Alone!Select \/ Alone!CallFails \/ Alone!Signal
  BY <1>4
  DEF sigint_register, BindSocket, LoopTop, Select, CallFails, Signal,
      Alone!sigint_register, Alone!BindSocket, Alone!LoopTop, Alone!Select,
      Alone!CallFails, Alone!Signal
<1>5. \A msg : DatagramArrives(msg) <=> Alone!DatagramArrives(msg)
  BY DEF DatagramArrives, Alone!DatagramArrives, Bound, Alone!Bound
<1> QED
  BY <1>1, <1>2, <1>3, <1>4, <1>5 DEF ProgramElse, Alone!Program

\* Every step of the loop is a step of the program, a datagram from the wire
\* that reaches it, or leaves it alone.
LEMMA LoopStepIsActuatorStep ==
    LoopTypeOK /\ [LoopNext]_loopVars => [Alone!ActuatorNext]_actuatorVars
<1> SUFFICES ASSUME LoopTypeOK, [LoopNext]_loopVars
             PROVE  [Alone!ActuatorNext]_actuatorVars
  OBVIOUS
<1>1. CASE Acts \/ ProgramElse
  <2>1. Receive \/ ProgramElse
    BY <1>1 DEF Acts
  <2> QED
    BY <2>1, SameActions DEF Alone!ActuatorNext
<1>2. CASE \E datagram \in net : Delivers(datagram)
  <2>1. PICK datagram \in net : Delivers(datagram)
    BY <1>2
  <2>2. datagram \in Wire /\ Alone!DatagramArrives(datagram)
    BY <2>1, SameActions DEF Delivers, LoopTypeOK
  <2> QED
    BY <2>2 DEF Alone!ActuatorNext
<1>3. CASE Firmware \/ Sends \/ \E datagram \in net : Loses(datagram)
  BY <1>3 DEF Firmware, Sends, Loses
<1>4. CASE UNCHANGED loopVars
  BY <1>4 DEF loopVars
<1> QED
  BY <1>1, <1>2, <1>3, <1>4 DEF LoopNext

\* What is proved of the actuator program alone holds of it in the loop.
THEOREM LoopRefinesActuator ==
    LoopSpec => ActuatorInit /\ [][Alone!ActuatorNext]_actuatorVars
<1>1. LoopIInv => LoopTypeOK
  BY DEF LoopIInv
<1> QED
  BY <1>1, LoopStepIsActuatorStep, LoopInvariance, PTL DEF LoopSpec, LoopInit

\* The invariant of ActuatorProofs in the loop.
LEMMA AloneInvariance == LoopSpec => []Alone!ActuatorIInv
<1>1. /\ DUTY_MAX \in Nat
      /\ DUTY_STEP \in Nat \ {0}
      /\ DUTY_MAX + DUTY_STEP < Alone!UINT16
  BY DutyAssumption DEF UINT16, Alone!UINT16
<1>2. ActuatorInit => Alone!ActuatorIInv
  <2>1. Alone!ActuatorInit => Alone!ActuatorIInv
    BY <1>1, WireIsDatagram, RcvbufAssumption, TwistModAssumption,
       Alone!ActuatorInvInit
  <2> QED
    BY <2>1, SameActions
<1>3. Alone!ActuatorIInv /\ [Alone!ActuatorNext]_actuatorVars => Alone!ActuatorIInv'
  BY <1>1, WireIsDatagram, RcvbufAssumption, TwistModAssumption,
     Alone!ActuatorInvStep
  DEF actuatorVars, Alone!actuatorVars
<1> QED
  BY <1>2, <1>3, LoopRefinesActuator, PTL

\* From one end to the other: however the network loses, reorders and repeats
\* what the firmware sends, each Twist is the one that was traced, and at most
\* one of them follows a signal.
THEOREM LoopActuates == LoopSpec => [](TwistMatchesPwm /\ AtMostOneLateActuation)
<1>1. Alone!ActuatorIInv => TwistMatchesPwm /\ AtMostOneLateActuation
  BY DEF Alone!ActuatorIInv, TwistMatchesPwm, Alone!TwistMatchesPwm,
         AtMostOneLateActuation, Alone!AtMostOneLateActuation
<1> QED
  BY <1>1, AloneInvariance, PTL

\* And it is moved one step at a time, by a datagram with a correct header, one
\* that no spike came before (LoopActsIffNotSpiked), until the program stops it.
THEOREM LoopSteps == LoopSpec => VelocityStepsUp
<1>1. ASSUME Alone!ActuatorIInv, [Alone!ActuatorNext]_actuatorVars,
             twist'.velocity # twist.velocity
      PROVE  \/ /\ rcvbuf # <<>>
                /\ Intact(Head(rcvbuf))
                /\ rcvbuf' = Tail(rcvbuf)
                /\ twist.velocity < twist'.velocity
                /\ twist'.velocity <= twist.velocity + DUTY_STEP
             \/ /\ actuator_pc' = "done"
                /\ twist'.velocity = 0
  <2>1. /\ DUTY_MAX \in Nat
        /\ DUTY_STEP \in Nat \ {0}
        /\ DUTY_MAX + DUTY_STEP < Alone!UINT16
    BY DutyAssumption DEF UINT16, Alone!UINT16
  <2>2. \/ /\ rcvbuf # <<>>
           /\ Alone!Intact(Head(rcvbuf))
           /\ rcvbuf' = Tail(rcvbuf)
           /\ twist.velocity < twist'.velocity
           /\ twist'.velocity <= twist.velocity + DUTY_STEP
        \/ /\ actuator_pc' = "done"
           /\ twist'.velocity = 0
    BY <1>1, <2>1, WireIsDatagram, RcvbufAssumption, TwistModAssumption,
       Alone!VelocityStep
    DEF actuatorVars, Alone!actuatorVars
  <2>3. Intact(Head(rcvbuf)) <=> Alone!Intact(Head(rcvbuf))
    BY DEF Intact, Alone!Intact, BadFields, Alone!BadFields, WIRE_MAGIC0,
           Alone!WIRE_MAGIC0, WIRE_MAGIC1, Alone!WIRE_MAGIC1,
           WIRE_TYPE_WHEEL_SPEED, Alone!WIRE_TYPE_WHEEL_SPEED
  <2> QED
    BY <2>2, <2>3
<1>2. Alone!ActuatorIInv /\ [Alone!ActuatorNext]_actuatorVars =>
        [twist'.velocity # twist.velocity =>
           \/ /\ rcvbuf # <<>>
              /\ Intact(Head(rcvbuf))
              /\ rcvbuf' = Tail(rcvbuf)
              /\ twist.velocity < twist'.velocity
              /\ twist'.velocity <= twist.velocity + DUTY_STEP
           \/ /\ actuator_pc' = "done"
              /\ twist'.velocity = 0]_actuatorVars
  BY <1>1
<1> QED
  BY <1>2, AloneInvariance, LoopRefinesActuator, PTL DEF VelocityStepsUp
=============================================================================
