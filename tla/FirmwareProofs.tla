--------------------------- MODULE FirmwareProofs ---------------------------
(***************************************************************************)
(* Proofs about Firmware, for every set of speeds, queue length, voltage   *)
(* range and generator.  Every step of the firmware is a step of Comms or  *)
(* leaves it alone, so the invariant of CommsProofs carries over; the rest *)
(* is about the voltage walk and the priorities.                           *)
(***************************************************************************)
EXTENDS Firmware, CommsProofs

\* A producer that runs has not been preempted by Comms.
LEMMA ProducerRuns ==
    ASSUME ~Preempted("Sensor") \/ ~Preempted("VoltageMonitor")
    PROVE  /\ comms_pc # "sendto"
           /\ ~(comms_pc = "recv" /\ g_comms_queue # <<>>)
<1>1. /\ Prio("Comms") = 3
      /\ Prio("Sensor") = 2
      /\ Prio("VoltageMonitor") = 2
  BY DEF Prio, COMMS_PRIO, SENSOR_PRIO, VOLTAGE_MONITOR_PRIO
<1>2. ~Ready("Comms")
  BY <1>1 DEF Preempted, Task
<1>3. Ready("Comms") = \/ comms_pc = "sendto"
                       \/ comms_pc = "recv" /\ g_comms_queue # <<>>
  BY DEF Ready
<1> QED
  BY <1>2, <1>3

\* A post of the Sensor or the VoltageMonitor is a post of Comms.
LEMMA FirmwareComms ==
    ASSUME TypeOK, [Next]_vars
    PROVE  [CommsNext]_commsVars
<1> USE DEF Running
<1>1. CASE TickWakesSensor \/ TickWakesVoltageMonitor \/ NoMeasurement
  BY <1>1 DEF TickWakesSensor, TickWakesVoltageMonitor, NoMeasurement
<1>2. CASE \E speed \in WheelSpeed : Measure(speed)
  BY <1>2 DEF Measure
<1>3. CASE PostMeasurement
  <2>1. wheel_speed \in WheelSpeed
    BY <1>3 DEF PostMeasurement, SensorPosts, TypeOK, SensorTypeOK
  <2> QED
    BY <1>3, <2>1 DEF PostMeasurement, CommsNext
<1>4. CASE \E draw \in Rand8 : PostVoltage(draw)
  <2>1. VoltageSpike \in {0, 1}
    BY DEF VoltageSpike
  <2> QED
    BY <1>4, <2>1 DEF PostVoltage, CommsNext
<1>5. CASE Transmit \/ CommsElse \/ NetworkChanges
  BY <1>5 DEF Transmit, CommsElse, NetworkChanges, CommsNext, CommsTask
<1>6. CASE UNCHANGED vars
  BY <1>6 DEF vars
<1> QED
  BY <1>1, <1>2, <1>3, <1>4, <1>5, <1>6 DEF Next

\* The voltage stays within its range and the slope is a drawn byte or its
\* negation, whatever the generator returns.
LEMMA VoltageTypeStep ==
    ASSUME VoltageTypeOK, NEW draw \in Rand8, VoltageUpdates(draw)
    PROVE  VoltageTypeOK'
<1>1. /\ millivolts \in MV_MIN..MV_MAX
      /\ draw \in Nat
      /\ mv_delta \in Int
  BY Rand8Assumption DEF VoltageTypeOK
<1>2. Moved \in Int
  BY <1>1, MillivoltsAssumption DEF Moved
<1>3. mv_delta' \in Rand8 \cup {-d : d \in Rand8}
  BY DEF VoltageUpdates, Slope, VoltageTypeOK
<1>4. millivolts' \in MV_MIN..MV_MAX
  BY <1>2, MillivoltsAssumption DEF VoltageUpdates, Held, Bounded
<1>5. /\ voltage_pc' \in {"delay", "run"}
      /\ g_do_voltage_spike' \in {0, 1}
  BY DEF VoltageUpdates, VoltageTypeOK
<1> QED
  BY <1>3, <1>4, <1>5 DEF VoltageTypeOK

\* With spikes off the walk never reaches the spike level.
LEMMA BelowSpike ==
    ASSUME VoltageTypeOK, NEW draw \in Rand8, VoltageUpdates(draw),
           g_do_voltage_spike = 0
    PROVE  millivolts' < MV_SPIKE
<1>1. millivolts \in Int /\ mv_delta \in Int
  BY MillivoltsAssumption, Rand8Assumption DEF VoltageTypeOK
<1>2. Moved \in Int
  BY <1>1 DEF Moved
<1> QED
  BY <1>2, MillivoltsAssumption DEF VoltageUpdates, Held, Bounded

\* The type invariant is preserved by every step.
LEMMA TypeStep == TypeOK /\ [Next]_vars => TypeOK'
<1> SUFFICES ASSUME TypeOK, [Next]_vars
             PROVE  TypeOK'
  OBVIOUS
<1>1. CommsTypeOK'
  BY FirmwareComms, CommsTypeStep DEF TypeOK
<1>2. VoltageTypeOK'
  <2>1. CASE VoltageWakes
    <3>1. voltage_pc' \in {"delay", "run"}
      BY <2>1 DEF VoltageWakes
    <3> QED
      BY <2>1, <3>1 DEF VoltageWakes, TypeOK, VoltageTypeOK
  <2>2. CASE \E draw \in Rand8 : VoltageUpdates(draw)
    BY <2>2, VoltageTypeStep DEF TypeOK
  <2>3. CASE UNCHANGED voltageVars
    BY <2>3 DEF voltageVars, TypeOK, VoltageTypeOK
  <2> QED
    BY <2>1, <2>2, <2>3
    DEF Next, vars, TickWakesSensor, TickWakesVoltageMonitor, Measure,
        NoMeasurement, PostMeasurement, PostVoltage, Transmit, CommsElse,
        NetworkChanges
<1>3. SensorTypeOK(WheelSpeed)'
  <2>1. CASE SensorWakes \/ SensorHasNoMeasurement \/ SensorPosts
    BY <2>1 DEF SensorWakes, SensorHasNoMeasurement, SensorPosts, TypeOK, SensorTypeOK
  <2>2. CASE \E speed \in WheelSpeed : SensorMeasures(speed)
    BY <2>2 DEF SensorMeasures, TypeOK, SensorTypeOK
  <2>3. CASE UNCHANGED sensorVars
    BY <2>3 DEF sensorVars, TypeOK, SensorTypeOK
  <2> QED
    BY <2>1, <2>2, <2>3
    DEF Next, vars, TickWakesSensor, TickWakesVoltageMonitor, Measure,
        NoMeasurement, PostMeasurement, PostVoltage, Transmit, CommsElse,
        NetworkChanges
<1>4. h_unsent' \in BOOLEAN
  BY DEF Next, vars, historyVars, TypeOK, NoteStall, TickWakesSensor,
         TickWakesVoltageMonitor, Measure, NoMeasurement, PostMeasurement,
         PostVoltage, Transmit, CommsElse, NetworkChanges
<1>5. h_stalled' \in BOOLEAN
  <2>1. \/ h_stalled' = h_stalled
        \/ h_stalled' = Stalled
        \/ h_stalled' = (h_stalled \/ Stalled')
    BY DEF Next, vars, historyVars, NoteStall, TickWakesSensor,
           TickWakesVoltageMonitor, Measure, NoMeasurement, PostMeasurement,
           PostVoltage, Transmit, CommsElse, NetworkChanges
  <2>2. Stalled \in BOOLEAN /\ h_stalled \in BOOLEAN
    BY DEF Stalled, TypeOK
  <2>3. (h_stalled \/ Stalled') \in BOOLEAN
    OBVIOUS
  <2> QED
    BY <2>1, <2>2, <2>3
<1> QED
  BY <1>1, <1>2, <1>3, <1>4, <1>5 DEF TypeOK

\* The type invariant holds initially.
LEMMA TypeInit == Init => TypeOK
<1> SUFFICES ASSUME Init PROVE TypeOK
  OBVIOUS
<1>1. CommsTypeOK
  BY CommsTypeInit DEF Init
<1>2. VoltageTypeOK
  <2>1. MV_MIN \in MV_MIN..MV_MAX
    BY MillivoltsAssumption
  <2> QED
    BY <2>1 DEF Init, VoltageInit, VoltageTypeOK
<1>3. SensorTypeOK(WheelSpeed)
  BY DEF Init, SensorInit, SensorTypeOK
<1>4. h_unsent \in BOOLEAN /\ h_stalled \in BOOLEAN
  BY DEF Init
<1> QED
  BY <1>1, <1>2, <1>3, <1>4 DEF TypeOK

\* Type correctness of the three tasks together.
THEOREM TypeCorrect == Spec => []TypeOK
  BY TypeInit, TypeStep, PTL DEF Spec

\* The real producers, under the real scheduler, are among the producers that
\* Comms allows: what holds of Comms alone holds in the firmware.
THEOREM FirmwareImplementsComms == Spec => CommsSpec
<1>1. Init => CommsInit
  BY DEF Init
<1>2. TypeOK /\ [Next]_vars => [CommsNext]_commsVars
  BY FirmwareComms
<1> QED
  BY <1>1, <1>2, TypeCorrect, PTL DEF Spec, CommsSpec

-----------------------------------------------------------------------------
(* The inductive invariant.                                                 *)

IInv ==
    /\ TypeOK
    /\ SpikesInOrder
    /\ CorruptIffSpiked
    /\ NoSpikeUnlessRequested
    /\ UnsentIsQueued

\* With spikes off, no step posts a spike, and none appears from what is queued.
LEMMA NoSpikeStep ==
    ASSUME IInv, [Next]_vars
    PROVE  NoSpikeUnlessRequested'
<1> SUFFICES ASSUME g_do_voltage_spike' = 0
             PROVE  NoSpikeUnlessRequested'
  BY DEF NoSpikeUnlessRequested
<1> DEFINE q == g_comms_queue
           Clean(m) == ~IsSpike(m) /\ m.after_spike = FALSE
<1>1. g_do_voltage_spike = 0
  BY DEF Next, vars, voltageVars, TickWakesSensor, TickWakesVoltageMonitor,
         Measure, NoMeasurement, PostMeasurement, PostVoltage, Transmit,
         CommsElse, NetworkChanges, VoltageWakes, VoltageUpdates
<1>2. /\ millivolts < MV_SPIKE
      /\ voltage_spiked = 0
      /\ h_spike = FALSE
      /\ h_hit = FALSE
      /\ \A i \in 1..Len(q) : Clean(q[i])
  BY <1>1 DEF IInv, NoSpikeUnlessRequested
<1>3. q \in Seq(comms_msg_s) /\ VoltageTypeOK
  BY DEF IInv, TypeOK, CommsTypeOK
<1>4. millivolts' < MV_SPIKE
  <2>1. CASE \E draw \in Rand8 : VoltageUpdates(draw)
    BY <1>1, <1>3, <2>1, BelowSpike
  <2>2. CASE UNCHANGED millivolts
    BY <1>2, <2>2
  <2> QED
    BY <2>1, <2>2
    DEF Next, vars, voltageVars, TickWakesSensor, TickWakesVoltageMonitor,
        Measure, NoMeasurement, PostMeasurement, PostVoltage, Transmit,
        CommsElse, NetworkChanges, VoltageWakes
<1>5. ASSUME NEW m \in comms_msg_s, Clean(m), q' = Append(q, m)
      PROVE  \A i \in 1..Len(q') : Clean(q'[i])
  BY <1>2, <1>3, <1>5, AppendPositions
<1>6. CASE PostMeasurement
  <2>1. UNCHANGED <<voltage_spiked, h_hit>> /\ h_spike' = FALSE
    BY <1>2, <1>6 DEF PostMeasurement, comms_send_sensor_data, commsTaskVars
  <2>2. CASE QueueFull
    BY <1>2, <1>4, <1>6, <2>1, <2>2
    DEF PostMeasurement, comms_send_sensor_data, NoSpikeUnlessRequested
  <2>3. CASE ~QueueFull
    <3>1. wheel_speed \in WheelSpeed
      BY <1>6 DEF PostMeasurement, SensorPosts, IInv, TypeOK, SensorTypeOK
    <3>2. SensorMsg(wheel_speed) \in comms_msg_s
      BY <3>1, MessageTypes DEF IInv, TypeOK
    <3>3. Clean(SensorMsg(wheel_speed))
      BY <1>2 DEF SensorMsg, IsSpike
    <3>4. q' = Append(q, SensorMsg(wheel_speed))
      BY <1>6, <2>3 DEF PostMeasurement, comms_send_sensor_data
    <3> QED
      BY <1>2, <1>4, <1>5, <2>1, <3>2, <3>3, <3>4 DEF NoSpikeUnlessRequested
  <2> QED
    BY <2>2, <2>3
<1>7. CASE \E draw \in Rand8 : PostVoltage(draw)
  <2>1. VoltageSpike = 0
    BY <1>2, <1>3, MillivoltsAssumption DEF VoltageSpike, VoltageTypeOK
  <2>2. comms_send_voltage_data(0)
    BY <1>7, <2>1 DEF PostVoltage
  <2>3. UNCHANGED <<voltage_spiked, h_hit>> /\ h_spike' = FALSE
    BY <1>2, <2>2 DEF comms_send_voltage_data, commsTaskVars
  <2>4. CASE QueueFull
    BY <1>2, <1>4, <2>2, <2>3, <2>4
    DEF comms_send_voltage_data, NoSpikeUnlessRequested
  <2>5. CASE ~QueueFull
    <3>1. VoltageMsg(0) \in comms_msg_s
      BY MessageTypes DEF IInv, TypeOK
    <3>2. Clean(VoltageMsg(0))
      BY DEF VoltageMsg, IsSpike
    <3>3. q' = Append(q, VoltageMsg(0))
      BY <2>2, <2>5 DEF comms_send_voltage_data
    <3> QED
      BY <1>2, <1>4, <1>5, <2>3, <3>1, <3>2, <3>3 DEF NoSpikeUnlessRequested
  <2> QED
    BY <2>4, <2>5
<1>8. CASE CommsVoltage \/ CommsWheelSpeed
  <2>1. q # <<>> /\ q' = Tail(q) /\ h_spike' = h_spike
    BY <1>8 DEF CommsVoltage, CommsWheelSpeed, comms_recv
  <2>2. /\ Len(q) \in Nat \ {0}
        /\ Len(q') = Len(q) - 1
        /\ Head(q) = q[1]
        /\ \A i \in 1..(Len(q) - 1) : q'[i] = q[i + 1]
    BY <1>3, <2>1, TailPositions
  <2>3. \A i \in 1..Len(q') : Clean(q'[i])
    <3>1. \A i \in 1..Len(q') : i + 1 \in 1..Len(q) /\ q'[i] = q[i + 1]
      BY <2>2
    <3> QED
      BY <1>2, <3>1
  <2>4. Clean(Head(q))
    BY <1>2, <2>2
  <2>5. voltage_spiked' = 0 /\ h_hit' = FALSE
    BY <1>2, <1>8, <2>4 DEF CommsVoltage, CommsWheelSpeed, IsSpike
  <2> QED
    BY <1>2, <1>4, <2>1, <2>3, <2>5 DEF NoSpikeUnlessRequested
<1>9. CASE UNCHANGED <<g_comms_queue, voltage_spiked, h_spike, h_hit>>
  BY <1>2, <1>4, <1>9 DEF NoSpikeUnlessRequested
<1> QED
  BY <1>6, <1>7, <1>8, <1>9
  DEF Next, vars, commsVars, TickWakesSensor, TickWakesVoltageMonitor, Measure,
      NoMeasurement, Transmit, CommsElse, NetworkChanges, CommsNetworkReady,
      CommsSendtoReturns, CommsSendtoBlocks, NetworkEvent

\* A measurement that is traced and posted while Comms is at its queue stays
\* there until Comms takes a measurement out.
LEMMA UnsentStep ==
    ASSUME IInv, [Next]_vars
    PROVE  UnsentIsQueued'
<1> DEFINE q == g_comms_queue
           InQueue == \E i \in 1..Len(q) : IsMeasurement(q[i])
<1> SUFFICES ASSUME h_unsent', ~h_stalled'
             PROVE  /\ ~Stalled'
                    /\ sensor_pc' = "send" \/ comms_pc' = "asserted" \/ InQueue'
  BY DEF UnsentIsQueued
<1>1. /\ TypeOK
      /\ q \in Seq(comms_msg_s)
      /\ h_unsent /\ ~h_stalled =>
            /\ ~Stalled
            /\ sensor_pc = "send" \/ comms_pc = "asserted" \/ InQueue
  BY DEF IInv, TypeOK, CommsTypeOK, UnsentIsQueued
<1>2. CASE UNCHANGED vars
  BY <1>1, <1>2 DEF vars, commsVars, sensorVars, historyVars, Stalled
<1>3. CASE \E speed \in WheelSpeed : Measure(speed)
  BY <1>3 DEF Measure, SensorMeasures, Stalled, commsVars
<1>4. CASE Transmit
  BY <1>4 DEF Transmit
<1>5. ASSUME NoteStall
      PROVE  /\ ~Stalled' /\ ~Stalled
             /\ sensor_pc = "send" \/ comms_pc = "asserted" \/ InQueue
  BY <1>1, <1>5 DEF NoteStall
<1>6. ASSUME NEW m \in comms_msg_s, q' = Append(q, m), IsMeasurement(m) \/ InQueue
      PROVE  InQueue'
  <2>1. /\ Len(q) \in Nat
        /\ Len(q') = Len(q) + 1
        /\ \A i \in 1..Len(q) : q'[i] = q[i]
        /\ q'[Len(q) + 1] = m
    BY <1>1, <1>6, AppendPositions
  <2>2. CASE IsMeasurement(m)
    <3>1. Len(q) + 1 \in 1..Len(q')
      BY <2>1
    <3> QED
      BY <2>1, <2>2, <3>1
  <2>3. CASE InQueue
    <3>1. \A i \in 1..Len(q) : i \in 1..Len(q')
      BY <2>1
    <3> QED
      BY <2>1, <2>3, <3>1
  <2> QED
    BY <1>6, <2>2, <2>3
<1>7. CASE TickWakesSensor \/ NoMeasurement
  <2>1. sensor_pc # "send" /\ NoteStall /\ UNCHANGED commsVars
    BY <1>7 DEF TickWakesSensor, NoMeasurement, SensorWakes, SensorHasNoMeasurement
  <2> QED
    BY <1>5, <2>1 DEF commsVars
<1>8. CASE TickWakesVoltageMonitor
  BY <1>5, <1>8 DEF TickWakesVoltageMonitor, commsVars, sensorVars
<1>9. CASE PostMeasurement
  <2>1. ~Stalled /\ ~Stalled'
    BY <1>5, <1>9 DEF PostMeasurement
  <2>2. q = <<>>
    <3>1. comms_pc = "recv"
      BY <1>1, <1>9, <2>1, ProducerRuns
      DEF PostMeasurement, Running, Stalled, TypeOK, CommsTypeOK
    <3> QED
      BY <1>9, <3>1, ProducerRuns DEF PostMeasurement
  <2>3. ~QueueFull
    BY <2>2, QueueLengthAssumption DEF QueueFull
  <2>4. q' = Append(q, SensorMsg(wheel_speed))
    BY <1>9, <2>3 DEF PostMeasurement, comms_send_sensor_data
  <2>5. SensorMsg(wheel_speed) \in comms_msg_s
    <3>1. wheel_speed \in WheelSpeed
      BY <1>1, <1>9 DEF PostMeasurement, SensorPosts, TypeOK, SensorTypeOK
    <3> QED
      BY <1>1, <3>1, MessageTypes DEF TypeOK
  <2>6. IsMeasurement(SensorMsg(wheel_speed))
    BY DEF SensorMsg, IsMeasurement
  <2> QED
    BY <1>6, <2>1, <2>4, <2>5, <2>6
<1>10. CASE \E draw \in Rand8 : PostVoltage(draw)
  <2>1. PICK draw \in Rand8 : PostVoltage(draw)
    BY <1>10
  <2>2. /\ ~Stalled'
        /\ sensor_pc = "send" \/ comms_pc = "asserted" \/ InQueue
    BY <1>5, <2>1 DEF PostVoltage
  <2>3. sensor_pc' = sensor_pc /\ comms_pc' = comms_pc
    BY <2>1 DEF PostVoltage, sensorVars, comms_send_voltage_data, commsTaskVars
  <2>4. CASE InQueue
    <3>1. CASE q' = q
      BY <2>2, <2>4, <3>1
    <3>2. CASE q' = Append(q, VoltageMsg(VoltageSpike))
      <4>1. VoltageSpike \in {0, 1}
        BY DEF VoltageSpike
      <4>2. VoltageMsg(VoltageSpike) \in comms_msg_s
        BY <1>1, <4>1, MessageTypes DEF TypeOK
      <4> QED
        BY <1>6, <2>2, <2>4, <3>2, <4>2
    <3> QED
      BY <2>1, <3>1, <3>2 DEF PostVoltage, comms_send_voltage_data
  <2> QED
    BY <2>2, <2>3, <2>4
<1>11. CASE CommsElse /\ CommsVoltage
  <2>1. /\ ~Stalled'
        /\ sensor_pc = "send" \/ comms_pc = "asserted" \/ InQueue
    BY <1>5, <1>11 DEF CommsElse
  <2>2. sensor_pc' = sensor_pc /\ comms_pc' = comms_pc
    BY <1>11 DEF CommsElse, CommsVoltage, sensorVars
  <2>3. CASE InQueue
    <3>1. q # <<>> /\ q' = Tail(q) /\ ~IsMeasurement(Head(q))
      BY <1>11 DEF CommsVoltage, comms_recv, IsMeasurement
    <3>2. /\ Len(q) \in Nat \ {0}
          /\ Len(q') = Len(q) - 1
          /\ Head(q) = q[1]
          /\ \A i \in 1..(Len(q) - 1) : q'[i] = q[i + 1]
      BY <1>1, <3>1, TailPositions
    <3>3. PICK i \in 1..Len(q) : IsMeasurement(q[i])
      BY <2>3
    <3>4. i # 1
      BY <3>1, <3>2, <3>3
    <3>5. i - 1 \in 1..Len(q') /\ q'[i - 1] = q[i]
      BY <3>2, <3>4
    <3> QED
      BY <2>1, <3>3, <3>5
  <2> QED
    BY <2>1, <2>2, <2>3
<1>12. CASE CommsElse /\ ~CommsVoltage
  <2>1. /\ ~Stalled' /\ ~Stalled
        /\ sensor_pc = "send" \/ comms_pc = "asserted" \/ InQueue
    BY <1>5, <1>12 DEF CommsElse
  <2>2. comms_pc # "netwait" /\ comms_pc # "asserted"
    BY <1>12, <2>1 DEF CommsElse, Running, Stalled
  <2>3. UNCHANGED <<g_comms_queue, sensor_pc>>
    BY <1>12, <2>2 DEF CommsElse, CommsNetworkReady, CommsSendtoReturns,
                       CommsSendtoBlocks, sensorVars
  <2> QED
    BY <2>1, <2>2, <2>3
<1>13. CASE NetworkChanges
  BY <1>5, <1>13 DEF NetworkChanges, NetworkEvent, sensorVars
<1> QED
  BY <1>2, <1>3, <1>4, <1>7, <1>8, <1>9, <1>10, <1>11, <1>12, <1>13 DEF Next

\* The inductive invariant holds initially.
LEMMA IInvInit == Init => IInv
<1> SUFFICES ASSUME Init PROVE IInv
  OBVIOUS
<1>1. CommsIInv
  BY CommsIInvInit DEF Init
<1>2. NoSpikeUnlessRequested
  <2>1. /\ millivolts < MV_SPIKE
        /\ voltage_spiked = 0
        /\ Len(g_comms_queue) = 0
    BY MillivoltsAssumption DEF Init, CommsInit, VoltageInit
  <2>2. h_spike = FALSE /\ h_hit = FALSE
    BY DEF Init, CommsInit
  <2> QED
    BY <2>1, <2>2 DEF NoSpikeUnlessRequested
<1>3. UnsentIsQueued
  BY DEF Init, UnsentIsQueued
<1> QED
  BY <1>1, <1>2, <1>3, TypeInit DEF IInv, CommsIInv

\* The inductive invariant is preserved by every step.
LEMMA IInvStep == IInv /\ [Next]_vars => IInv'
<1> SUFFICES ASSUME IInv, [Next]_vars
             PROVE  IInv'
  OBVIOUS
<1>1. CommsIInv'
  <2>1. CommsIInv /\ TypeOK
    BY DEF IInv, CommsIInv, TypeOK
  <2> QED
    BY <2>1, FirmwareComms, CommsIInvStep
<1>2. TypeOK'
  BY TypeStep DEF IInv
<1> QED
  BY <1>1, <1>2, NoSpikeStep, UnsentStep DEF IInv, CommsIInv

\* Every reachable state of the firmware satisfies the inductive invariant.
LEMMA Invariance == Spec => []IInv
  BY IInvInit, IInvStep, PTL DEF Spec

\* The datagrams of the whole firmware are spoiled only as requested: with
\* g_do_voltage_spike unset, every one is intact.
THEOREM Clean == Spec => []CleanUnlessRequested
<1>1. IInv => CleanUnlessRequested
  BY DEF IInv, NoSpikeUnlessRequested, CorruptIffSpiked, CleanUnlessRequested
<1> QED
  BY <1>1, Invariance, PTL

\* With the real producers and priorities too, a datagram is spoiled exactly
\* when a spike was queued before its measurement.
THEOREM Corruption == Spec => []CorruptIffSpiked
<1>1. IInv => CorruptIffSpiked
  BY DEF IInv
<1> QED
  BY <1>1, Invariance, PTL

\* A measurement that meets an unsent one finds that Comms was held up: Comms
\* would otherwise have been ready, and the Sensor preempted.
LEMMA MeasureAfterUnsent ==
    ASSUME IInv, NEW speed \in WheelSpeed, Measure(speed), h_unsent
    PROVE  h_stalled
<1> SUFFICES ASSUME ~h_stalled
             PROVE  FALSE
  BY DEF IInv, TypeOK
<1>1. /\ ~Stalled
      /\ \/ sensor_pc = "send"
         \/ comms_pc = "asserted"
         \/ \E i \in 1..Len(g_comms_queue) : IsMeasurement(g_comms_queue[i])
  BY DEF IInv, UnsentIsQueued
<1>2. sensor_pc # "send" /\ comms_pc # "asserted"
  BY DEF Measure, SensorMeasures, Running
<1>3. g_comms_queue # <<>>
  <2>1. SUFFICES ASSUME g_comms_queue = <<>>
                 PROVE  FALSE
    OBVIOUS
  <2>2. Len(g_comms_queue) = 0
    BY <2>1
  <2> QED
    BY <1>1, <1>2, <2>2
<1>4. comms_pc \in {"recv", "sendto"}
  BY <1>1, <1>2 DEF Stalled, IInv, TypeOK, CommsTypeOK
<1> QED
  BY <1>3, <1>4, ProducerRuns DEF Measure

\* "Micro local control cycle", as far as the priorities keep it: with Comms
\* at its queue, no wheel_speed follows another without a comms_tx.
THEOREM ControlCycle == Spec => MicroControlCycle
<1>1. IInv /\ [Next]_vars =>
        [\A speed \in WheelSpeed : Measure(speed) => (h_unsent => h_stalled)]_vars
  BY MeasureAfterUnsent
<1> QED
  BY <1>1, Invariance, PTL DEF Spec, MicroControlCycle

-----------------------------------------------------------------------------
(* The tasks under the scheduler are the tasks of the component modules.    *)

\* The scheduler and the two other tasks leave to each producer the steps that
\* its own module gives it.
LEMMA TaskSteps ==
    ASSUME [Next]_vars
    PROVE  /\ [VoltageNext]_voltageVars
           /\ [SensorNext(WheelSpeed)]_sensorVars
<1>1. CASE TickWakesSensor \/ NoMeasurement \/ PostMeasurement
  BY <1>1
  DEF TickWakesSensor, NoMeasurement, PostMeasurement, SensorNext
<1>2. CASE \E speed \in WheelSpeed : Measure(speed)
  BY <1>2 DEF Measure, SensorNext
<1>3. CASE TickWakesVoltageMonitor \/ \E draw \in Rand8 : PostVoltage(draw)
  BY <1>3 DEF TickWakesVoltageMonitor, PostVoltage, VoltageNext
<1>4. CASE Transmit \/ CommsElse \/ NetworkChanges
  BY <1>4 DEF Transmit, CommsElse, NetworkChanges
<1>5. CASE UNCHANGED vars
  BY <1>5 DEF vars
<1> QED
  BY <1>1, <1>2, <1>3, <1>4, <1>5 DEF Next

\* What VoltageProofs and ImuLinkProofs say of the steps of the VoltageMonitor
\* and the Sensor alone is said of them in the firmware too.
THEOREM FirmwareImplementsProducers ==
    Spec => /\ VoltageInit /\ [][VoltageNext]_voltageVars
            /\ SensorInit /\ [][SensorNext(WheelSpeed)]_sensorVars
<1>1. Init => VoltageInit /\ SensorInit
  BY DEF Init
<1>2. [Next]_vars => /\ [VoltageNext]_voltageVars
                    /\ [SensorNext(WheelSpeed)]_sensorVars
  BY TaskSteps
<1> QED
  BY <1>1, <1>2, PTL DEF Spec

\* The firmware is the link that SensorLink describes: the queue of Comms drops
\* measurements only where they enter, keeps their order, and a voltage spike
\* of the real VoltageMonitor spoils just the first one after it.
THEOREM FirmwareImplementsLink == Spec => ImplementsSensorLink
  BY FirmwareImplementsComms, CommsImplementsLink, PTL
=============================================================================
