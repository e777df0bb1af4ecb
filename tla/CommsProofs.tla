---------------------------- MODULE CommsProofs ----------------------------
(***************************************************************************)
(* Proofs about Comms, for every set of speeds, queue length and sequence  *)
(* number width, and whatever the producers post: its inductive invariant, *)
(* with it CorruptIffSpiked, and with both the refinement of SensorLink.   *)
(***************************************************************************)
EXTENDS Comms, WellFoundedInduction, TLAPS

\* What xQueueSend does to the queue's positions.
LEMMA AppendPositions ==
    ASSUME NEW S, NEW q \in Seq(S), NEW m \in S
    PROVE  /\ Append(q, m) \in Seq(S)
           /\ Len(Append(q, m)) = Len(q) + 1
           /\ \A i \in 1..Len(q) : Append(q, m)[i] = q[i]
           /\ Append(q, m)[Len(q) + 1] = m
  OBVIOUS

\* What xQueueReceive does to the queue's positions.
LEMMA TailPositions ==
    ASSUME NEW S, NEW q \in Seq(S), q # <<>>
    PROVE  /\ Tail(q) \in Seq(S)
           /\ Len(Tail(q)) = Len(q) - 1
           /\ Len(q) \in Nat \ {0}
           /\ Head(q) = q[1]
           /\ Head(q) \in S
           /\ \A i \in 1..(Len(q) - 1) : Tail(q)[i] = q[i + 1]
  OBVIOUS

\* The type invariant holds initially.
LEMMA CommsTypeInit == CommsInit => CommsTypeOK
<1> SUFFICES ASSUME CommsInit PROVE CommsTypeOK
  OBVIOUS
<1>1. g_comms_queue \in Seq(comms_msg_s) /\ Len(g_comms_queue) <= COMMS_QUEUE_LENGTH
  BY QueueLengthAssumption DEF CommsInit
<1>2. wire_msg \in wire_msg_s
  <2>1. 0 \in 0..(SEQNUM_MOD - 1)
    BY SeqnumModAssumption
  <2> QED
    BY <2>1 DEF CommsInit, wire_msg_s, ZeroWireMsg
<1>3. /\ comms_pc \in {"netwait", "recv", "sendto", "blocked", "asserted"}
      /\ mutator_state \in 0..2
      /\ voltage_spiked \in {0, 1}
  BY DEF CommsInit
<1>4. /\ net_up \in BOOLEAN
      /\ h_spike \in BOOLEAN
      /\ h_hit \in BOOLEAN
  BY DEF CommsInit
<1> QED
  BY <1>1, <1>2, <1>3, <1>4 DEF CommsTypeOK

\* The messages and datagrams the module builds are well formed.
LEMMA MessageTypes ==
    ASSUME CommsTypeOK
    PROVE  /\ \A speed \in WheelSpeed : SensorMsg(speed) \in comms_msg_s
           /\ \A spike \in {0, 1} : VoltageMsg(spike) \in comms_msg_s
           /\ \A speed \in WheelSpeed \cup {0} : WireMsg(speed) \in wire_msg_s
           /\ \A msg \in wire_msg_s : Mutated(msg) \in wire_msg_s
<1>1. \A speed \in WheelSpeed : SensorMsg(speed) \in comms_msg_s
  BY DEF CommsTypeOK, SensorMsg, comms_msg_s
<1>2. \A spike \in {0, 1} : VoltageMsg(spike) \in comms_msg_s
  BY DEF VoltageMsg, comms_msg_s
<1>3. ASSUME NEW speed \in WheelSpeed \cup {0}
      PROVE  WireMsg(speed) \in wire_msg_s
  <2>1. wire_msg.seqnum \in 0..(SEQNUM_MOD - 1)
    BY DEF CommsTypeOK, wire_msg_s
  <2>2. (wire_msg.seqnum + 1) % SEQNUM_MOD \in 0..(SEQNUM_MOD - 1)
    BY <2>1, SeqnumModAssumption
  <2> QED
    BY <2>2 DEF WireMsg, wire_msg_s, WIRE_MAGIC0, WIRE_MAGIC1, WIRE_TYPE_WHEEL_SPEED
<1>4. ASSUME NEW msg \in wire_msg_s
      PROVE  Mutated(msg) \in wire_msg_s
  <2>1. mutator_state \in 0..2
    BY DEF CommsTypeOK
  <2>2. /\ Complement(msg.magic0) \in 0..255
        /\ Complement(msg.magic1) \in 0..255
    BY DEF Complement, wire_msg_s
  <2>3. CASE mutator_state = 0
    BY <2>2, <2>3 DEF Mutated, wire_msg_s
  <2>4. CASE mutator_state = 1
    BY <2>2, <2>4 DEF Mutated, wire_msg_s
  <2>5. CASE mutator_state = 2
    BY <2>5 DEF Mutated, wire_msg_s, WIRE_TYPE_WHEEL_SPEED
  <2> QED
    BY <2>1, <2>3, <2>4, <2>5
<1> QED
  BY <1>1, <1>2, <1>3, <1>4

\* Type correctness is preserved by a post, accepted or dropped.
LEMMA PostTypes ==
    ASSUME CommsTypeOK,
           \/ \E speed \in WheelSpeed : comms_send_sensor_data(speed)
           \/ \E spike \in {0, 1} : comms_send_voltage_data(spike)
    PROVE  CommsTypeOK'
<1>1. CASE \E speed \in WheelSpeed : comms_send_sensor_data(speed)
  <2>1. PICK speed \in WheelSpeed : comms_send_sensor_data(speed)
    BY <1>1
  <2>2. SensorMsg(speed) \in comms_msg_s
    BY MessageTypes
  <2>3. /\ g_comms_queue' \in Seq(comms_msg_s)
        /\ Len(g_comms_queue') <= COMMS_QUEUE_LENGTH
    BY <2>1, <2>2, AppendPositions, QueueLengthAssumption
    DEF comms_send_sensor_data, QueueFull, CommsTypeOK
  <2>4. h_spike' \in BOOLEAN
    BY <2>1 DEF comms_send_sensor_data, CommsTypeOK
  <2> QED
    BY <2>1, <2>3, <2>4 DEF comms_send_sensor_data, commsTaskVars, CommsTypeOK
<1>2. CASE \E spike \in {0, 1} : comms_send_voltage_data(spike)
  <2>1. PICK spike \in {0, 1} : comms_send_voltage_data(spike)
    BY <1>2
  <2>2. VoltageMsg(spike) \in comms_msg_s
    BY MessageTypes
  <2>3. /\ g_comms_queue' \in Seq(comms_msg_s)
        /\ Len(g_comms_queue') <= COMMS_QUEUE_LENGTH
    BY <2>1, <2>2, AppendPositions, QueueLengthAssumption
    DEF comms_send_voltage_data, QueueFull, CommsTypeOK
  <2>4. h_spike' \in BOOLEAN
    BY <2>1 DEF comms_send_voltage_data, CommsTypeOK
  <2> QED
    BY <2>1, <2>3, <2>4 DEF comms_send_voltage_data, commsTaskVars, CommsTypeOK
<1> QED
  BY <1>1, <1>2

\* Type correctness is preserved by every step of the task.
LEMMA CommsTaskTypes ==
    ASSUME CommsTypeOK, CommsTask
    PROVE  CommsTypeOK'
<1>1. ASSUME comms_recv
      PROVE  /\ g_comms_queue' \in Seq(comms_msg_s)
             /\ Len(g_comms_queue') <= COMMS_QUEUE_LENGTH
             /\ Head(g_comms_queue) \in comms_msg_s
  <2>1. Len(g_comms_queue') = Len(g_comms_queue) - 1 /\ Len(g_comms_queue) \in Nat
    BY <1>1, TailPositions DEF comms_recv, CommsTypeOK
  <2> QED
    BY <1>1, <2>1, TailPositions, QueueLengthAssumption DEF comms_recv, CommsTypeOK
<1>2. CASE CommsNetworkReady \/ CommsRecvTimesOut
  <2>1. comms_pc' \in {"netwait", "recv", "sendto", "blocked", "asserted"}
    BY <1>2 DEF CommsNetworkReady, CommsRecvTimesOut
  <2> QED
    BY <1>2, <2>1 DEF CommsNetworkReady, CommsRecvTimesOut, CommsTypeOK
<1>3. CASE CommsVoltage
  <2>1. mutator_state' \in 0..2 /\ voltage_spiked' \in {0, 1}
    BY <1>3 DEF CommsVoltage, CommsTypeOK
  <2> QED
    BY <1>1, <1>3, <2>1 DEF CommsVoltage, CommsTypeOK
<1>4. CASE CommsWheelSpeed
  <2> DEFINE msg == WireMsg(Head(g_comms_queue).wheel_speed)
  <2>1. comms_recv
    BY <1>4 DEF CommsWheelSpeed
  <2>2. Head(g_comms_queue).wheel_speed \in WheelSpeed \cup {0}
    BY <1>1, <2>1 DEF comms_msg_s
  <2>3. msg \in wire_msg_s
    BY <2>2, MessageTypes
  <2>4. wire_msg' \in wire_msg_s
    <3>1. wire_msg' = msg \/ wire_msg' = Mutated(msg)
      BY <1>4 DEF CommsWheelSpeed
    <3>2. Mutated(msg) \in wire_msg_s
      BY <2>3, MessageTypes
    <3> QED
      BY <2>3, <3>1, <3>2
  <2>5. h_hit' \in BOOLEAN
    BY <1>1, <1>4, <2>1 DEF CommsWheelSpeed, comms_msg_s
  <2>6. voltage_spiked' \in {0, 1} /\ comms_pc' = "sendto"
    BY <1>4 DEF CommsWheelSpeed
  <2> QED
    BY <1>1, <1>4, <2>1, <2>4, <2>5, <2>6 DEF CommsWheelSpeed, CommsTypeOK
<1>5. CASE CommsSendtoReturns \/ CommsSendtoBlocks
  <2>1. comms_pc' \in {"netwait", "recv", "sendto", "blocked", "asserted"}
    BY <1>5 DEF CommsSendtoReturns, CommsSendtoBlocks
  <2> QED
    BY <1>5, <2>1 DEF CommsSendtoReturns, CommsSendtoBlocks, CommsTypeOK
<1> QED
  BY <1>2, <1>3, <1>4, <1>5 DEF CommsTask

\* Type correctness is preserved by every step.
LEMMA CommsTypeStep == CommsTypeOK /\ [CommsNext]_commsVars => CommsTypeOK'
<1> SUFFICES ASSUME CommsTypeOK, [CommsNext]_commsVars
             PROVE  CommsTypeOK'
  OBVIOUS
<1>1. CASE NetworkEvent
  <2>1. net_up' \in BOOLEAN
    BY <1>1 DEF NetworkEvent
  <2> QED
    BY <1>1, <2>1 DEF NetworkEvent, CommsTypeOK
<1>2. CASE UNCHANGED commsVars
  BY <1>2 DEF commsVars, CommsTypeOK
<1> QED
  BY <1>1, <1>2, PostTypes, CommsTaskTypes DEF CommsNext

\* CommsTypeOK: the queue never exceeds its slots and every message and
\* datagram is well formed, for every producer and every constant.
THEOREM CommsTypeCorrect == CommsSpec => []CommsTypeOK
  BY CommsTypeInit, CommsTypeStep, PTL DEF CommsSpec

-----------------------------------------------------------------------------
(* SpikesInOrder.                                                           *)

\* Posting changes nothing for the positions already in the queue, and a
\* spike is pending behind the new message exactly if the message is one, or
\* is no measurement and a spike was pending before it.
LEMMA AppendPending ==
    ASSUME NEW q \in Seq(comms_msg_s), NEW m \in comms_msg_s, NEW flag
    PROVE  /\ \A i \in 1..(Len(q) + 1) :
                 SpikePending(Append(q, m), flag, i) <=> SpikePending(q, flag, i)
           /\ SpikePending(Append(q, m), flag, Len(q) + 2)
                 <=> \/ IsSpike(m)
                     \/ ~IsMeasurement(m) /\ SpikePending(q, flag, Len(q) + 1)
<1> DEFINE n == Len(q)
           p == Append(q, m)
<1>1. /\ n \in Nat
      /\ Len(p) = n + 1
      /\ \A i \in 1..n : p[i] = q[i]
      /\ p[n + 1] = m
  BY AppendPositions
<1> HIDE DEF n, p
<1>2. ASSUME NEW i \in 1..(n + 1)
      PROVE  SpikePending(p, flag, i) <=> SpikePending(q, flag, i)
  <2>1. \A k \in 1..(i - 1) : k \in 1..n /\ p[k] = q[k]
    BY <1>1
  <2>2. \A j \in 1..(i - 1) : \A k \in (j + 1)..(i - 1) : k \in 1..(i - 1)
    BY <1>1
  <2> QED
    BY <2>1, <2>2 DEF SpikePending, IsSpike, IsMeasurement
<1>3. ASSUME IsSpike(m)
      PROVE  SpikePending(p, flag, n + 2)
  <2>1. n + 1 \in 1..((n + 2) - 1) /\ ((n + 1) + 1)..((n + 2) - 1) = {}
    BY <1>1
  <2> QED
    BY <1>1, <1>3, <2>1 DEF SpikePending, IsSpike
<1>4. ASSUME ~IsMeasurement(m), SpikePending(q, flag, n + 1)
      PROVE  SpikePending(p, flag, n + 2)
  <2>1. SpikePending(p, flag, n + 1)
    BY <1>1, <1>2, <1>4
  <2>2. \A j \in 1..n : \A k \in (j + 1)..((n + 2) - 1) :
           k \in (j + 1)..((n + 1) - 1) \/ k = n + 1
    BY <1>1
  <2>3. \A k \in 1..((n + 2) - 1) : k \in 1..((n + 1) - 1) \/ k = n + 1
    BY <1>1
  <2>4. \A j \in 1..((n + 1) - 1) : j \in 1..n /\ j \in 1..((n + 2) - 1)
    BY <1>1
  <2>5. ~IsMeasurement(p[n + 1])
    BY <1>1, <1>4
  <2> QED
    BY <2>1, <2>2, <2>3, <2>4, <2>5 DEF SpikePending, IsMeasurement
<1>5. ASSUME SpikePending(p, flag, n + 2), ~IsSpike(m)
      PROVE  ~IsMeasurement(m) /\ SpikePending(q, flag, n + 1)
  <2>1. n + 1 \in 1..((n + 2) - 1)
    BY <1>1
  <2>2. \A j \in 1..((n + 2) - 1) : j = n + 1 \/ j \in 1..((n + 1) - 1)
    BY <1>1
  <2>3. \A j \in 1..((n + 1) - 1) :
           /\ n + 1 \in (j + 1)..((n + 2) - 1)
           /\ \A k \in (j + 1)..((n + 1) - 1) : k \in (j + 1)..((n + 2) - 1)
    BY <1>1
  <2>4. ~IsMeasurement(m) /\ SpikePending(p, flag, n + 1)
    BY <1>1, <1>5, <2>1, <2>2, <2>3 DEF SpikePending, IsMeasurement, IsSpike
  <2> QED
    BY <1>1, <1>2, <2>4
<1> QED
  BY <1>2, <1>3, <1>4, <1>5 DEF n, p

\* Receiving shifts every position by one, if the flag takes over what
\* the received message said.
LEMMA TailPending ==
    ASSUME NEW q \in Seq(comms_msg_s), q # <<>>, NEW flag, NEW next,
           next = 1 <=> \/ IsSpike(Head(q))
                        \/ flag = 1 /\ ~IsMeasurement(Head(q))
    PROVE  \A i \in 1..Len(q) :
               SpikePending(Tail(q), next, i) <=> SpikePending(q, flag, i + 1)
<1> DEFINE n == Len(q)
           p == Tail(q)
<1>1. /\ n \in Nat \ {0}
      /\ Head(q) = q[1]
      /\ \A k \in 1..(n - 1) : p[k] = q[k + 1]
  BY TailPositions
<1> HIDE DEF n, p
<1> SUFFICES ASSUME NEW i \in 1..n
             PROVE  SpikePending(p, next, i) <=> SpikePending(q, flag, i + 1)
  BY DEF n, p
<1>2. \A k \in 1..(i - 1) : k + 1 \in 2..i /\ p[k] = q[k + 1]
  BY <1>1
<1>3. \A k \in 2..i : k - 1 \in 1..(i - 1) /\ q[k] = p[k - 1]
  BY <1>1
<1>4. ~(IsSpike(q[1]) /\ IsMeasurement(q[1]))
  BY DEF IsSpike, IsMeasurement
<1>5. ASSUME SpikePending(p, next, i)
      PROVE  SpikePending(q, flag, i + 1)
  <2>1. CASE \E j \in 1..(i - 1) :
                /\ IsSpike(p[j])
                /\ \A k \in (j + 1)..(i - 1) : ~IsMeasurement(p[k])
    <3>1. PICK j \in 1..(i - 1) :
                /\ IsSpike(p[j])
                /\ \A k \in (j + 1)..(i - 1) : ~IsMeasurement(p[k])
      BY <2>1
    <3>2. j + 1 \in 1..((i + 1) - 1) /\ IsSpike(q[j + 1])
      BY <1>2, <3>1
    <3>3. ASSUME NEW k \in ((j + 1) + 1)..((i + 1) - 1)
          PROVE  ~IsMeasurement(q[k])
      <4>1. k - 1 \in (j + 1)..(i - 1) /\ k \in 2..i
        OBVIOUS
      <4> QED
        BY <1>3, <3>1, <4>1
    <3> QED
      BY <3>2, <3>3 DEF SpikePending
  <2>2. CASE /\ next = 1
             /\ \A k \in 1..(i - 1) : ~IsMeasurement(p[k])
    <3>1. \A k \in 2..i : ~IsMeasurement(q[k])
      BY <1>3, <2>2
    <3>2. CASE IsSpike(q[1])
      <4>1. 1 \in 1..((i + 1) - 1) /\ \A k \in (1 + 1)..((i + 1) - 1) : k \in 2..i
        BY <1>1
      <4> QED
        BY <3>1, <3>2, <4>1 DEF SpikePending
    <3>3. CASE flag = 1 /\ ~IsMeasurement(q[1])
      <4>1. \A k \in 1..((i + 1) - 1) : k = 1 \/ k \in 2..i
        BY <1>1
      <4> QED
        BY <3>1, <3>3, <4>1 DEF SpikePending
    <3> QED
      BY <1>1, <2>2, <3>2, <3>3
  <2> QED
    BY <1>5, <2>1, <2>2 DEF SpikePending
<1>6. ASSUME SpikePending(q, flag, i + 1)
      PROVE  SpikePending(p, next, i)
  <2>1. CASE \E j \in 1..((i + 1) - 1) :
                /\ IsSpike(q[j])
                /\ \A k \in (j + 1)..((i + 1) - 1) : ~IsMeasurement(q[k])
    <3>1. PICK j \in 1..((i + 1) - 1) :
                /\ IsSpike(q[j])
                /\ \A k \in (j + 1)..((i + 1) - 1) : ~IsMeasurement(q[k])
      BY <2>1
    <3>2. CASE j = 1
      <4>1. \A k \in 1..(i - 1) : k + 1 \in (j + 1)..((i + 1) - 1)
        BY <3>2
      <4>2. \A k \in 1..(i - 1) : ~IsMeasurement(p[k])
        BY <1>2, <3>1, <4>1
      <4>3. next = 1
        BY <1>1, <3>1, <3>2
      <4> QED
        BY <4>2, <4>3 DEF SpikePending
    <3>3. CASE j # 1
      <4>1. j \in 2..i /\ j - 1 \in 1..(i - 1)
        BY <3>3
      <4>2. IsSpike(p[j - 1])
        BY <1>3, <3>1, <4>1
      <4>3. ASSUME NEW k \in ((j - 1) + 1)..(i - 1)
            PROVE  ~IsMeasurement(p[k])
        <5>1. k \in 1..(i - 1) /\ k + 1 \in (j + 1)..((i + 1) - 1)
          BY <3>3
        <5> QED
          BY <1>2, <3>1, <5>1
      <4> QED
        BY <4>1, <4>2, <4>3 DEF SpikePending
    <3> QED
      BY <3>2, <3>3
  <2>2. CASE /\ flag = 1
             /\ \A k \in 1..((i + 1) - 1) : ~IsMeasurement(q[k])
    <3>1. 1 \in 1..((i + 1) - 1) /\ \A k \in 1..(i - 1) : k + 1 \in 1..((i + 1) - 1)
      BY <1>1
    <3>2. next = 1
      BY <1>1, <2>2, <3>1
    <3>3. \A k \in 1..(i - 1) : ~IsMeasurement(p[k])
      BY <1>2, <2>2, <3>1
    <3> QED
      BY <3>2, <3>3 DEF SpikePending
  <2> QED
    BY <1>6, <2>1, <2>2 DEF SpikePending
<1> QED
  BY <1>5, <1>6

\* SpikesInOrder survives a post, accepted or dropped.
LEMMA PostOrder ==
    ASSUME CommsTypeOK, SpikesInOrder,
           \/ \E speed \in WheelSpeed : comms_send_sensor_data(speed)
           \/ \E spike \in {0, 1} : comms_send_voltage_data(spike)
    PROVE  SpikesInOrder'
<1> DEFINE q == g_comms_queue
           v == voltage_spiked
<1>1. q \in Seq(comms_msg_s) /\ v' = v
  BY DEF CommsTypeOK, comms_send_sensor_data, comms_send_voltage_data, commsTaskVars
<1>2. CASE UNCHANGED <<g_comms_queue, h_spike>>
  BY <1>1, <1>2 DEF SpikesInOrder
<1>3. ASSUME NEW m \in comms_msg_s,
             q' = Append(q, m),
             IsMeasurement(m) => m.after_spike = h_spike,
             h_spike' <=> IsSpike(m) \/ (~IsMeasurement(m) /\ h_spike)
      PROVE  SpikesInOrder'
  <2>1. /\ Len(q) \in Nat
        /\ Len(q') = Len(q) + 1
        /\ \A i \in 1..Len(q) : q'[i] = q[i]
        /\ q'[Len(q) + 1] = m
    BY <1>1, <1>3, AppendPositions
  <2>2. /\ \A i \in 1..(Len(q) + 1) : SpikePending(q', v, i) <=> SpikePending(q, v, i)
        /\ SpikePending(q', v, Len(q) + 2)
              <=> IsSpike(m) \/ (~IsMeasurement(m) /\ SpikePending(q, v, Len(q) + 1))
    <3>1. /\ \A i \in 1..(Len(q) + 1) :
                SpikePending(Append(q, m), v, i) <=> SpikePending(q, v, i)
          /\ SpikePending(Append(q, m), v, Len(q) + 2)
                <=> IsSpike(m) \/ (~IsMeasurement(m) /\ SpikePending(q, v, Len(q) + 1))
      <4> HIDE DEF q, v
      <4> QED
        BY <1>1, AppendPending
    <3> QED
      BY <1>3, <3>1
  <2>3. h_spike <=> SpikePending(q, v, Len(q) + 1)
    BY DEF SpikesInOrder
  <2>4. h_spike' <=> SpikePending(q', v', Len(q') + 1)
    <3>1. Len(q') + 1 = Len(q) + 2
      BY <2>1
    <3> QED
      BY <1>1, <1>3, <2>2, <2>3, <3>1
  <2>5. ASSUME NEW i \in 1..Len(q'), IsMeasurement(q'[i])
        PROVE  q'[i].after_spike <=> SpikePending(q', v', i)
    <3>1. CASE i \in 1..Len(q)
      <4>1. q'[i] = q[i] /\ i \in 1..(Len(q) + 1)
        BY <2>1, <3>1
      <4>2. q[i].after_spike <=> SpikePending(q, v, i)
        BY <2>5, <3>1, <4>1 DEF SpikesInOrder
      <4> QED
        BY <1>1, <2>2, <4>1, <4>2
    <3>2. CASE i = Len(q) + 1
      <4>1. q'[i] = m /\ i \in 1..(Len(q) + 1)
        BY <2>1, <3>2
      <4>2. SpikePending(q', v, i) <=> h_spike
        BY <2>2, <2>3, <3>2, <4>1
      <4> QED
        BY <1>1, <1>3, <2>5, <4>1, <4>2
    <3> QED
      BY <2>1, <3>1, <3>2
  <2> QED
    BY <2>4, <2>5 DEF SpikesInOrder
<1>4. CASE \E speed \in WheelSpeed : comms_send_sensor_data(speed)
  <2>1. PICK speed \in WheelSpeed : comms_send_sensor_data(speed)
    BY <1>4
  <2>2. CASE QueueFull
    BY <1>2, <2>1, <2>2 DEF comms_send_sensor_data
  <2>3. CASE ~QueueFull
    <3>1. SensorMsg(speed) \in comms_msg_s
      BY MessageTypes
    <3>2. /\ IsMeasurement(SensorMsg(speed))
          /\ ~IsSpike(SensorMsg(speed))
          /\ SensorMsg(speed).after_spike = h_spike
      BY DEF SensorMsg, IsMeasurement, IsSpike
    <3>3. q' = Append(q, SensorMsg(speed)) /\ h_spike' = FALSE
      BY <2>1, <2>3 DEF comms_send_sensor_data
    <3> QED
      BY <1>3, <3>1, <3>2, <3>3
  <2> QED
    BY <2>2, <2>3
<1>5. CASE \E spike \in {0, 1} : comms_send_voltage_data(spike)
  <2>1. PICK spike \in {0, 1} : comms_send_voltage_data(spike)
    BY <1>5
  <2>2. CASE QueueFull
    BY <1>2, <2>1, <2>2 DEF comms_send_voltage_data
  <2>3. CASE ~QueueFull
    <3>1. VoltageMsg(spike) \in comms_msg_s
      BY MessageTypes
    <3>2. /\ ~IsMeasurement(VoltageMsg(spike))
          /\ IsSpike(VoltageMsg(spike)) <=> spike # 0
      BY DEF VoltageMsg, IsMeasurement, IsSpike
    <3>3. q' = Append(q, VoltageMsg(spike)) /\ h_spike' = (h_spike \/ spike # 0)
      BY <2>1, <2>3 DEF comms_send_voltage_data
    <3> QED
      BY <1>3, <3>1, <3>2, <3>3
  <2> QED
    BY <2>2, <2>3
<1> QED
  BY <1>4, <1>5

\* SpikesInOrder survives the receipt of a message.
LEMMA ReceiveOrder ==
    ASSUME CommsTypeOK, SpikesInOrder, CommsVoltage \/ CommsWheelSpeed
    PROVE  SpikesInOrder'
<1> DEFINE q == g_comms_queue
           v == voltage_spiked
<1>1. /\ q \in Seq(comms_msg_s)
      /\ q # <<>>
      /\ q' = Tail(q)
      /\ h_spike' = h_spike
  BY DEF CommsTypeOK, CommsVoltage, CommsWheelSpeed, comms_recv
<1>2. /\ Len(q) \in Nat \ {0}
      /\ Len(q') = Len(q) - 1
      /\ \A i \in 1..(Len(q) - 1) : q'[i] = q[i + 1]
  BY <1>1, TailPositions
<1>3. v' = 1 <=> IsSpike(Head(q)) \/ (v = 1 /\ ~IsMeasurement(Head(q)))
  BY DEF CommsVoltage, CommsWheelSpeed, IsSpike, IsMeasurement
<1>4. \A i \in 1..Len(q) : SpikePending(q', v', i) <=> SpikePending(q, v, i + 1)
  <2>1. \A i \in 1..Len(q) :
           SpikePending(Tail(q), v', i) <=> SpikePending(q, v, i + 1)
    <3> HIDE DEF q, v
    <3> QED
      BY <1>1, <1>3, TailPending
  <2> QED
    BY <1>1, <2>1
<1>5. h_spike' <=> SpikePending(q', v', Len(q') + 1)
  <2>1. Len(q') + 1 = Len(q) /\ Len(q) \in 1..Len(q)
    BY <1>2
  <2>2. h_spike <=> SpikePending(q, v, Len(q) + 1)
    BY DEF SpikesInOrder
  <2> QED
    BY <1>1, <1>4, <2>1, <2>2
<1>6. ASSUME NEW i \in 1..Len(q'), IsMeasurement(q'[i])
      PROVE  q'[i].after_spike <=> SpikePending(q', v', i)
  <2>1. i \in 1..Len(q) /\ i + 1 \in 1..Len(q) /\ q'[i] = q[i + 1]
    BY <1>2
  <2>2. q[i + 1].after_spike <=> SpikePending(q, v, i + 1)
    BY <1>6, <2>1 DEF SpikesInOrder
  <2> QED
    BY <1>4, <2>1, <2>2
<1> QED
  BY <1>5, <1>6 DEF SpikesInOrder

\* Complementing a byte changes it, so each corruption spoils its field only.
LEMMA MutatedBadFields ==
    ASSUME CommsTypeOK, NEW speed
    PROVE  /\ Intact(WireMsg(speed))
           /\ \E f \in {"magic0", "magic1", "type"} :
                 BadFields(Mutated(WireMsg(speed))) = {f}
<1> DEFINE m == WireMsg(speed)
<1> USE DEF WireMsg, WIRE_MAGIC0, WIRE_MAGIC1, WIRE_TYPE_WHEEL_SPEED, Complement
<1>1. Intact(m)
  BY DEF Intact, BadFields
<1>2. mutator_state \in 0..2
  BY DEF CommsTypeOK
<1>3. CASE mutator_state = 0
  <2>1. Mutated(m) = [m EXCEPT !.magic0 = 85]
    BY <1>3 DEF Mutated
  <2>2. /\ Mutated(m).magic0 # WIRE_MAGIC0
        /\ Mutated(m).magic1 = WIRE_MAGIC1
        /\ Mutated(m).type = WIRE_TYPE_WHEEL_SPEED
    BY <2>1
  <2>3. BadFields(Mutated(m)) = {"magic0"}
    BY <2>2 DEF BadFields
  <2> QED
    BY <1>1, <2>3
<1>4. CASE mutator_state = 1
  <2>1. Mutated(m) = [m EXCEPT !.magic1 = 68]
    BY <1>4 DEF Mutated
  <2>2. /\ Mutated(m).magic1 # WIRE_MAGIC1
        /\ Mutated(m).magic0 = WIRE_MAGIC0
        /\ Mutated(m).type = WIRE_TYPE_WHEEL_SPEED
    BY <2>1
  <2>3. BadFields(Mutated(m)) = {"magic1"}
    BY <2>2 DEF BadFields
  <2> QED
    BY <1>1, <2>3
<1>5. CASE mutator_state = 2
  <2>1. Mutated(m) = [m EXCEPT !.type = 241]
    BY <1>5 DEF Mutated
  <2>2. /\ Mutated(m).type # WIRE_TYPE_WHEEL_SPEED
        /\ Mutated(m).magic0 = WIRE_MAGIC0
        /\ Mutated(m).magic1 = WIRE_MAGIC1
    BY <2>1
  <2>3. BadFields(Mutated(m)) = {"type"}
    BY <2>2 DEF BadFields
  <2> QED
    BY <1>1, <2>3
<1> QED
  BY <1>1, <1>2, <1>3, <1>4, <1>5

\* The datagram the task builds is spoiled iff its measurement followed a spike.
LEMMA BuildCorrupts ==
    ASSUME CommsTypeOK, SpikesInOrder, CommsWheelSpeed
    PROVE  CorruptIffSpiked'
<1> DEFINE m == WireMsg(Head(g_comms_queue).wheel_speed)
<1>1. /\ Len(g_comms_queue) \in Nat \ {0}
      /\ Head(g_comms_queue) = g_comms_queue[1]
      /\ Head(g_comms_queue) \in comms_msg_s
  BY TailPositions DEF CommsTypeOK, CommsWheelSpeed, comms_recv
<1>2. SpikePending(g_comms_queue, voltage_spiked, 1) <=> voltage_spiked = 1
  BY DEF SpikePending
<1>3. IsMeasurement(g_comms_queue[1]) /\ 1 \in 1..Len(g_comms_queue)
  BY <1>1 DEF CommsWheelSpeed, IsMeasurement
<1>4. Head(g_comms_queue).after_spike <=> voltage_spiked = 1
  BY <1>1, <1>2, <1>3 DEF SpikesInOrder
<1>5. h_hit' <=> voltage_spiked # 0
  BY <1>4 DEF CommsWheelSpeed, CommsTypeOK
<1>6. wire_msg' = IF voltage_spiked # 0 THEN Mutated(m) ELSE m
  BY DEF CommsWheelSpeed
<1>7. /\ Intact(m)
      /\ \E f \in {"magic0", "magic1", "type"} : BadFields(Mutated(m)) = {f}
  BY MutatedBadFields
<1>8. CASE voltage_spiked # 0
  BY <1>5, <1>6, <1>7, <1>8 DEF CorruptIffSpiked
<1>9. CASE ~(voltage_spiked # 0)
  BY <1>5, <1>6, <1>7, <1>9 DEF CorruptIffSpiked
<1> QED
  BY <1>8, <1>9

\* The inductive invariant holds initially.
LEMMA CommsIInvInit == CommsInit => CommsIInv
<1> SUFFICES ASSUME CommsInit PROVE SpikesInOrder /\ CorruptIffSpiked
  BY CommsTypeInit DEF CommsIInv
<1>1. CorruptIffSpiked
  BY DEF CommsInit, CorruptIffSpiked
<1>2. g_comms_queue = <<>> /\ voltage_spiked = 0 /\ ~h_spike
  BY DEF CommsInit
<1>3. Len(g_comms_queue) = 0
  BY <1>2
<1>4. ~SpikePending(g_comms_queue, voltage_spiked, 1)
  BY <1>2 DEF SpikePending
<1>5. SpikesInOrder
  BY <1>2, <1>3, <1>4 DEF SpikesInOrder
<1> QED
  BY <1>1, <1>5

\* The inductive invariant is preserved by every step.
LEMMA CommsIInvStep == CommsIInv /\ [CommsNext]_commsVars => CommsIInv'
<1> SUFFICES ASSUME CommsIInv, [CommsNext]_commsVars
             PROVE  CommsIInv'
  OBVIOUS
<1>1. CommsTypeOK /\ SpikesInOrder /\ CorruptIffSpiked
  BY DEF CommsIInv
<1>2. CommsTypeOK'
  BY <1>1, CommsTypeStep
<1>3. CASE \/ \E speed \in WheelSpeed : comms_send_sensor_data(speed)
           \/ \E spike \in {0, 1} : comms_send_voltage_data(spike)
  <2>1. SpikesInOrder'
    BY <1>1, <1>3, PostOrder
  <2>2. UNCHANGED <<comms_pc, wire_msg, h_hit>>
    BY <1>3 DEF comms_send_sensor_data, comms_send_voltage_data, commsTaskVars
  <2>3. CorruptIffSpiked'
    BY <1>1, <2>2 DEF CorruptIffSpiked
  <2> QED
    BY <1>2, <2>1, <2>3 DEF CommsIInv
<1>4. CASE CommsVoltage
  <2>1. CorruptIffSpiked'
    BY <1>1, <1>4 DEF CommsVoltage, CorruptIffSpiked
  <2> QED
    BY <1>1, <1>2, <1>4, <2>1, ReceiveOrder DEF CommsIInv
<1>5. CASE CommsWheelSpeed
  BY <1>1, <1>2, <1>5, ReceiveOrder, BuildCorrupts DEF CommsIInv
<1>6. CASE \/ CommsNetworkReady \/ CommsRecvTimesOut
           \/ CommsSendtoReturns \/ CommsSendtoBlocks
           \/ NetworkEvent \/ UNCHANGED commsVars
  <2>1. /\ UNCHANGED <<g_comms_queue, voltage_spiked, h_spike, wire_msg, h_hit>>
        /\ comms_pc' \in {"sendto", "blocked"} => comms_pc \in {"sendto", "blocked"}
    BY <1>6 DEF CommsNetworkReady, CommsRecvTimesOut, CommsSendtoReturns,
                CommsSendtoBlocks, NetworkEvent, commsVars
  <2>2. SpikesInOrder' /\ CorruptIffSpiked'
    BY <1>1, <2>1 DEF SpikesInOrder, CorruptIffSpiked
  <2> QED
    BY <1>2, <2>2 DEF CommsIInv
<1> QED
  BY <1>3, <1>4, <1>5, <1>6 DEF CommsNext, CommsTask

\* Every reachable state satisfies the inductive invariant.
LEMMA CommsInvariance == CommsSpec => []CommsIInv
  BY CommsIInvInit, CommsIInvStep, PTL DEF CommsSpec

\* "Mutate the next comms message": CorruptIffSpiked, for every queue length,
\* every interleaving of producers, every drop and every stall.
THEOREM CommsCorruption == CommsSpec => []CorruptIffSpiked
<1>1. CommsIInv => CorruptIffSpiked
  BY DEF CommsIInv
<1> QED
  BY <1>1, CommsInvariance, PTL

\* No spike is lost in the queue or moves to another measurement: at every
\* position the queue and the flag agree with the order of the posts.
THEOREM CommsSpikes == CommsSpec => []SpikesInOrder
<1>1. CommsIInv => SpikesInOrder
  BY DEF CommsIInv
<1> QED
  BY <1>1, CommsInvariance, PTL

-----------------------------------------------------------------------------
(* The refinement of SensorLink.                                           *)

\* Induction, from the library's fact that every set of numbers has a least
\* one: T is the set of the numbers for which the claim holds.
LEMMA Induction ==
    ASSUME NEW T, 0 \in T, \A n \in Nat : n \in T => n + 1 \in T
    PROVE  Nat \subseteq T
<1> SUFFICES ASSUME Nat \ T # {} PROVE FALSE
  OBVIOUS
<1>1. PICK n \in Nat \ T : \A m \in Nat \ T : ~(<<m, n>> \in OpToRel(<, Nat))
  BY Zenon, NatLessThanWellFounded, WFMin
<1>2. \A m \in Nat \ T : ~(m < n)
  BY <1>1, Zenon DEF OpToRel
<1>3. n # 0
  OBVIOUS
<1>4. n - 1 \in Nat /\ n - 1 < n
  BY <1>3
<1>5. n - 1 \in T
  BY <1>2, <1>4
<1>6. (n - 1) + 1 \in T
  BY <1>4, <1>5
<1> QED
  BY <1>6

\* What the recursion in FirstItems makes of f.
NextItems(q, f, n) ==
    IF n = 0 THEN <<>>
    ELSE IF IsMeasurement(q[n])
         THEN Append(f[n - 1], LinkItem(q[n]))
         ELSE f[n - 1]

\* The recursion has a solution, by induction on its length,
LEMMA FirstItemsExist ==
    ASSUME NEW q, NEW l \in Nat
    PROVE  \E f : f = [n \in 0..l |-> NextItems(q, f, n)]
<1> DEFINE T == {k \in Nat : \E f : f = [n \in 0..k |-> NextItems(q, f, n)]}
<1>1. 0 \in T
  <2> DEFINE f == [n \in 0..0 |-> <<>>]
  <2>1. f = [n \in 0..0 |-> NextItems(q, f, n)]
    BY DEF NextItems
  <2> QED
    BY <2>1
<1>2. ASSUME NEW k \in Nat, k \in T PROVE k + 1 \in T
  <2>1. PICK f : f = [n \in 0..k |-> NextItems(q, f, n)]
    BY <1>2
  <2> DEFINE g == [n \in 0..(k + 1) |-> IF n = k + 1 THEN NextItems(q, f, n) ELSE f[n]]
  <2>2. ASSUME NEW n \in 0..(k + 1) PROVE g[n] = NextItems(q, g, n)
    <3>1. n # 0 => n - 1 \in 0..k /\ n - 1 \in 0..(k + 1) /\ n - 1 # k + 1
      OBVIOUS
    <3>2. n # 0 => g[n - 1] = f[n - 1]
      BY <3>1
    <3>3. NextItems(q, g, n) = NextItems(q, f, n)
      BY <3>2 DEF NextItems
    <3>4. n # k + 1 => n \in 0..k
      OBVIOUS
    <3>5. n # k + 1 => f[n] = NextItems(q, f, n)
      BY <2>1, <3>4
    <3>6. g[n] = IF n = k + 1 THEN NextItems(q, f, n) ELSE f[n]
      OBVIOUS
    <3> QED
      BY <3>3, <3>5, <3>6
  <2>3. g = [n \in 0..(k + 1) |-> g[n]]
    OBVIOUS
  <2> HIDE DEF g
  <2>4. g = [n \in 0..(k + 1) |-> NextItems(q, g, n)]
    BY <2>2, <2>3
  <2> QED
    BY <2>4
<1> HIDE DEF T
<1>3. Nat \subseteq T
  BY <1>1, <1>2, Induction
<1>4. l \in T
  BY <1>3
<1> QED
  BY <1>4 DEF T

\* and FirstItems is one.
LEMMA FirstItemsDef ==
    ASSUME NEW q \in Seq(comms_msg_s)
    PROVE  FirstItems(q) = [n \in 0..Len(q) |-> NextItems(q, FirstItems(q), n)]
<1> DEFINE P(f) == f = [n \in 0..Len(q) |-> NextItems(q, f, n)]
<1>1. \E f : P(f)
  <2>1. Len(q) \in Nat
    OBVIOUS
  <2> QED
    BY <2>1, FirstItemsExist
<1>2. FirstItems(q) = CHOOSE f : P(f)
  BY DEF FirstItems, NextItems
<1> HIDE DEF P
<1>3. P(FirstItems(q))
  BY <1>1, <1>2
<1> QED
  BY <1>3 DEF P

\* The recursion, position by position.
LEMMA FirstItemsStep ==
    ASSUME NEW q \in Seq(comms_msg_s)
    PROVE  /\ FirstItems(q)[0] = <<>>
           /\ \A n \in 0..(Len(q) - 1) :
                 FirstItems(q)[n + 1] =
                     IF IsMeasurement(q[n + 1])
                     THEN Append(FirstItems(q)[n], LinkItem(q[n + 1]))
                     ELSE FirstItems(q)[n]
<1>1. FirstItems(q) = [n \in 0..Len(q) |-> NextItems(q, FirstItems(q), n)]
  BY FirstItemsDef
<1>2. Len(q) \in Nat
  OBVIOUS
<1>3. FirstItems(q)[0] = NextItems(q, FirstItems(q), 0)
  BY <1>1, <1>2
<1>4. ASSUME NEW n \in 0..(Len(q) - 1)
      PROVE  FirstItems(q)[n + 1] = NextItems(q, FirstItems(q), n + 1)
  <2>1. n + 1 \in 0..Len(q)
    BY <1>2
  <2> QED
    BY <1>1, <2>1
<1>5. \A n \in 0..(Len(q) - 1) : (n + 1) # 0 /\ (n + 1) - 1 = n
  BY <1>2
<1> QED
  BY <1>3, <1>4, <1>5 DEF NextItems

\* What the link carries.
Item == [wheel_speed : WheelSpeed \cup {0}, hit : BOOLEAN]

\* n messages hold at most n measurements.
LEMMA FirstItemsType ==
    ASSUME NEW q \in Seq(comms_msg_s)
    PROVE  \A n \in 0..Len(q) : /\ FirstItems(q)[n] \in Seq(Item)
                                /\ Len(FirstItems(q)[n]) <= n
<1> DEFINE Ok(n) == FirstItems(q)[n] \in Seq(Item) /\ Len(FirstItems(q)[n]) <= n
<1> DEFINE T == {n \in Nat : n <= Len(q) => Ok(n)}
<1>1. Len(q) \in Nat
  OBVIOUS
<1>2. 0 \in T
  <2>1. FirstItems(q)[0] = <<>>
    BY FirstItemsStep
  <2>2. Ok(0)
    BY <2>1
  <2> QED
    BY <2>2
<1>3. ASSUME NEW n \in Nat, n \in T PROVE n + 1 \in T
  <2> SUFFICES ASSUME n + 1 <= Len(q) PROVE Ok(n + 1)
    OBVIOUS
  <2>1. n \in 0..(Len(q) - 1) /\ n + 1 \in 1..Len(q) /\ n <= Len(q)
    BY <1>1
  <2>2. Ok(n)
    BY <1>3, <2>1
  <2>3. LinkItem(q[n + 1]) \in Item
    <3>1. q[n + 1] \in comms_msg_s
      BY <2>1
    <3> QED
      BY <3>1 DEF LinkItem, Item, comms_msg_s
  <2>4. FirstItems(q)[n + 1] = IF IsMeasurement(q[n + 1])
                               THEN Append(FirstItems(q)[n], LinkItem(q[n + 1]))
                               ELSE FirstItems(q)[n]
    BY <2>1, FirstItemsStep
  <2>5. Len(Append(FirstItems(q)[n], LinkItem(q[n + 1]))) = Len(FirstItems(q)[n]) + 1
    BY <2>2, <2>3
  <2> QED
    BY <2>2, <2>3, <2>4, <2>5
<1> HIDE DEF T, Ok
<1>4. Nat \subseteq T
  BY <1>2, <1>3, Induction
<1> QED
  BY <1>1, <1>4 DEF T, Ok

\* xQueueSend of a measurement appends its item; of a voltage, nothing.
LEMMA FirstItemsAppend ==
    ASSUME NEW q \in Seq(comms_msg_s), NEW m \in comms_msg_s
    PROVE  FirstItems(Append(q, m))[Len(Append(q, m))] =
             IF IsMeasurement(m)
             THEN Append(FirstItems(q)[Len(q)], LinkItem(m))
             ELSE FirstItems(q)[Len(q)]
<1> DEFINE r == Append(q, m)
<1>1. /\ Len(q) \in Nat
      /\ r \in Seq(comms_msg_s) /\ Len(r) = Len(q) + 1
      /\ r[Len(q) + 1] = m
      /\ \A n \in 1..Len(q) : r[n] = q[n]
  OBVIOUS
<1> HIDE DEF r
<1> DEFINE T == {n \in Nat : n <= Len(q) => FirstItems(r)[n] = FirstItems(q)[n]}
<1>2. 0 \in T
  BY <1>1, FirstItemsStep
<1>3. ASSUME NEW n \in Nat, n \in T PROVE n + 1 \in T
  <2> SUFFICES ASSUME n + 1 <= Len(q) PROVE FirstItems(r)[n + 1] = FirstItems(q)[n + 1]
    OBVIOUS
  <2>1. n \in 0..(Len(q) - 1) /\ n \in 0..(Len(r) - 1) /\ n + 1 \in 1..Len(q) /\ n <= Len(q)
    BY <1>1
  <2>2. FirstItems(r)[n] = FirstItems(q)[n] /\ r[n + 1] = q[n + 1]
    BY <1>1, <1>3, <2>1
  <2>3. FirstItems(q)[n + 1] = IF IsMeasurement(q[n + 1])
                               THEN Append(FirstItems(q)[n], LinkItem(q[n + 1]))
                               ELSE FirstItems(q)[n]
    BY <2>1, FirstItemsStep
  <2>4. FirstItems(r)[n + 1] = IF IsMeasurement(r[n + 1])
                               THEN Append(FirstItems(r)[n], LinkItem(r[n + 1]))
                               ELSE FirstItems(r)[n]
    BY <1>1, <2>1, FirstItemsStep
  <2> QED
    BY <2>2, <2>3, <2>4
<1> HIDE DEF T
<1>4. Nat \subseteq T
  BY <1>2, <1>3, Induction
<1>5. FirstItems(r)[Len(q)] = FirstItems(q)[Len(q)]
  BY <1>1, <1>4 DEF T
<1>6. FirstItems(r)[Len(q) + 1] = IF IsMeasurement(r[Len(q) + 1])
                               THEN Append(FirstItems(r)[Len(q)], LinkItem(r[Len(q) + 1]))
                               ELSE FirstItems(r)[Len(q)]
  <2>1. Len(q) \in 0..(Len(r) - 1)
    BY <1>1
  <2> QED
    BY <1>1, <2>1, FirstItemsStep
<1> QED
  BY <1>1, <1>5, <1>6 DEF r

\* Tail and Append commute on a sequence that is not empty.
LEMMA AppendTail ==
    ASSUME NEW S, NEW s \in Seq(S), s # <<>>, NEW x \in S
    PROVE  /\ Append(s, x) # <<>>
           /\ Head(Append(s, x)) = Head(s)
           /\ Tail(Append(s, x)) = Append(Tail(s), x)
  OBVIOUS

\* xQueueReceive of a measurement takes the first item; of a voltage, nothing.
LEMMA FirstItemsTail ==
    ASSUME NEW q \in Seq(comms_msg_s), q # <<>>
    PROVE  LET items == FirstItems(q)[Len(q)]
               rest == FirstItems(Tail(q))[Len(Tail(q))]
           IN  IF IsMeasurement(Head(q))
               THEN items # <<>> /\ Head(items) = LinkItem(Head(q)) /\ Tail(items) = rest
               ELSE items = rest
<1> DEFINE r == Tail(q)
<1> DEFINE Rel(a, b) == IF IsMeasurement(q[1])
                        THEN a # <<>> /\ Head(a) = LinkItem(q[1]) /\ Tail(a) = b
                        ELSE a = b
<1>1. /\ Len(q) \in Nat \ {0} /\ Head(q) = q[1] /\ q[1] \in comms_msg_s
      /\ r \in Seq(comms_msg_s) /\ Len(r) = Len(q) - 1
      /\ \A n \in 1..Len(r) : r[n] = q[n + 1]
  OBVIOUS
<1> HIDE DEF r
<1> DEFINE T == {n \in Nat : n <= Len(r) => Rel(FirstItems(q)[n + 1], FirstItems(r)[n])}
<1>2. LinkItem(q[1]) \in Item
  BY <1>1 DEF LinkItem, Item, comms_msg_s
<1>3. 0 \in T
  <2>1. FirstItems(r)[0] = <<>> /\ FirstItems(q)[0] = <<>>
    BY <1>1, FirstItemsStep
  <2>2. 0 \in 0..(Len(q) - 1)
    BY <1>1
  <2>3. FirstItems(q)[0 + 1] = IF IsMeasurement(q[0 + 1])
                           THEN Append(FirstItems(q)[0], LinkItem(q[0 + 1]))
                           ELSE FirstItems(q)[0]
    BY <2>2, FirstItemsStep
  <2>4. 0 + 1 = 1
    OBVIOUS
  <2> HIDE DEF Rel
  <2>5. Rel(FirstItems(q)[0 + 1], FirstItems(r)[0])
    BY <1>2, <2>1, <2>3, <2>4 DEF Rel
  <2> QED
    BY <2>5
<1>4. ASSUME NEW n \in Nat, n \in T PROVE n + 1 \in T
  <2> HIDE DEF Rel
  <2> SUFFICES ASSUME n + 1 <= Len(r)
               PROVE  Rel(FirstItems(q)[(n + 1) + 1], FirstItems(r)[n + 1])
    OBVIOUS
  <2>1. /\ n \in 0..(Len(r) - 1) /\ n + 1 \in 0..(Len(q) - 1) /\ n + 1 \in 1..Len(r)
        /\ n <= Len(r) /\ n \in 0..Len(r) /\ n + 1 \in 0..Len(q)
        /\ (n + 1) + 1 \in 1..Len(q)
    BY <1>1
  <2>2. Rel(FirstItems(q)[n + 1], FirstItems(r)[n]) /\ r[n + 1] = q[(n + 1) + 1]
    BY <1>1, <1>4, <2>1
  <2>3. FirstItems(r)[n + 1] = IF IsMeasurement(r[n + 1])
                               THEN Append(FirstItems(r)[n], LinkItem(r[n + 1]))
                               ELSE FirstItems(r)[n]
    BY <1>1, <2>1, FirstItemsStep
  <2>4. FirstItems(q)[(n + 1) + 1] = IF IsMeasurement(q[(n + 1) + 1])
                               THEN Append(FirstItems(q)[n + 1], LinkItem(q[(n + 1) + 1]))
                               ELSE FirstItems(q)[n + 1]
    BY <2>1, FirstItemsStep
  <2>5. FirstItems(q)[n + 1] \in Seq(Item) /\ LinkItem(r[n + 1]) \in Item
    <3>1. FirstItems(q)[n + 1] \in Seq(Item)
      BY <2>1, FirstItemsType
    <3>2. r[n + 1] \in comms_msg_s
      BY <1>1, <2>1
    <3> QED
      BY <3>1, <3>2 DEF LinkItem, Item, comms_msg_s
  <2> DEFINE x == LinkItem(r[n + 1])
  <2> DEFINE a == FirstItems(q)[n + 1]
  <2> HIDE DEF x, a
  <2>6. a # <<>> => /\ Append(a, x) # <<>>
                    /\ Head(Append(a, x)) = Head(a)
                    /\ Tail(Append(a, x)) = Append(Tail(a), x)
    <3>1. a \in Seq(Item) /\ x \in Item
      BY <2>5 DEF a, x
    <3> QED
      BY <3>1, AppendTail
  <2>7. Rel(a, FirstItems(r)[n]) => Rel(Append(a, x), Append(FirstItems(r)[n], x))
    BY <2>6 DEF Rel
  <2> QED
    BY <2>2, <2>3, <2>4, <2>7 DEF a, x
<1> HIDE DEF T
<1>5. Nat \subseteq T
  BY <1>3, <1>4, Induction
<1>6. Rel(FirstItems(q)[Len(q)], FirstItems(r)[Len(r)])
  <2>1. Len(r) \in Nat /\ Len(r) + 1 = Len(q) /\ Len(r) \in T /\ Len(r) <= Len(r)
    BY <1>1, <1>5
  <2> HIDE DEF Rel
  <2>2. Rel(FirstItems(q)[Len(r) + 1], FirstItems(r)[Len(r)])
    BY <2>1 DEF T
  <2> QED
    BY <2>1, <2>2
<1> QED
  BY <1>1, <1>6 DEF r

\* A post enters, a reported spike spikes, a datagram built delivers, and
\* everything else is a stutter of the link.
LEMMA LinkStep == CommsIInv /\ CommsIInv' /\ [CommsNext]_commsVars
                    => [Link!Next]_(Link!linkVars)
<1> SUFFICES ASSUME CommsIInv, CommsIInv', [CommsNext]_commsVars
             PROVE  Link!Next \/ UNCHANGED Link!linkVars
  OBVIOUS
<1> DEFINE q == g_comms_queue
<1> DEFINE out == [number |-> wire_msg.seqnum, wheel_speed |-> wire_msg.wheel_speed,
                   intact |-> Intact(wire_msg)]
<1>1. q \in Seq(comms_msg_s)
  BY DEF CommsIInv, CommsTypeOK
<1>2. CASE UNCHANGED <<g_comms_queue, h_spike, wire_msg>>
  BY <1>2 DEF Link!linkVars, LinkItems, Intact, BadFields
<1>3. ASSUME NEW speed \in WheelSpeed, comms_send_sensor_data(speed), ~QueueFull
      PROVE  Link!Enter(speed)
  <2>1. /\ q' = Append(q, SensorMsg(speed)) /\ h_spike' = FALSE
        /\ UNCHANGED wire_msg
    BY <1>3 DEF comms_send_sensor_data, commsTaskVars
  <2>2. SensorMsg(speed) \in comms_msg_s
    BY MessageTypes DEF CommsIInv
  <2>3. /\ IsMeasurement(SensorMsg(speed))
        /\ LinkItem(SensorMsg(speed)) = [wheel_speed |-> speed, hit |-> h_spike]
    BY DEF IsMeasurement, SensorMsg, LinkItem
  <2>4. LinkItems' = Append(LinkItems, [wheel_speed |-> speed, hit |-> h_spike])
    BY <1>1, <2>1, <2>2, <2>3, FirstItemsAppend DEF LinkItems
  <2>5. Len(LinkItems) < COMMS_QUEUE_LENGTH
    <3>1. Len(q) \in Nat /\ Len(q) < COMMS_QUEUE_LENGTH
      BY <1>1, <1>3, QueueLengthAssumption DEF QueueFull
    <3>2. LinkItems \in Seq(Item) /\ Len(LinkItems) <= Len(q)
      BY <1>1, <3>1, FirstItemsType DEF LinkItems
    <3>3. Len(LinkItems) \in Nat
      BY <3>2
    <3> QED
      BY <3>1, <3>2, <3>3, QueueLengthAssumption
  <2> QED
    BY <2>1, <2>4, <2>5 DEF Link!Enter, Intact, BadFields
<1>4. ASSUME NEW spike \in {0, 1}, comms_send_voltage_data(spike), ~QueueFull
      PROVE  Link!Spike \/ UNCHANGED Link!linkVars
  <2>1. /\ q' = Append(q, VoltageMsg(spike)) /\ h_spike' = (h_spike \/ spike # 0)
        /\ UNCHANGED wire_msg
    BY <1>4 DEF comms_send_voltage_data, commsTaskVars
  <2>2. VoltageMsg(spike) \in comms_msg_s /\ ~IsMeasurement(VoltageMsg(spike))
    BY MessageTypes DEF CommsIInv, IsMeasurement, VoltageMsg
  <2>3. UNCHANGED LinkItems
    BY <1>1, <2>1, <2>2, FirstItemsAppend DEF LinkItems
  <2>4. h_spike \in BOOLEAN
    BY DEF CommsIInv, CommsTypeOK
  <2>5. CASE spike # 0
    BY <2>1, <2>3, <2>5 DEF Link!Spike, Intact, BadFields
  <2>6. CASE spike = 0
    <3>1. UNCHANGED h_spike
      BY <2>1, <2>4, <2>6
    <3> QED
      BY <2>1, <2>3, <3>1 DEF Link!linkVars, Intact, BadFields
  <2> QED
    BY <2>5, <2>6
<1>5. CASE CommsVoltage
  <2>1. /\ q # <<>> /\ q' = Tail(q) /\ ~IsMeasurement(Head(q))
        /\ UNCHANGED <<h_spike, wire_msg>>
    BY <1>5 DEF CommsVoltage, comms_recv, IsMeasurement
  <2>2. UNCHANGED LinkItems
    BY <1>1, <2>1, FirstItemsTail DEF LinkItems
  <2> QED
    BY <2>1, <2>2 DEF Link!linkVars, Intact, BadFields
<1>6. CASE CommsWheelSpeed
  <2>1. /\ q # <<>> /\ q' = Tail(q) /\ IsMeasurement(Head(q))
        /\ UNCHANGED h_spike /\ h_hit' = Head(q).after_spike
        /\ comms_pc' = "sendto"
    BY <1>6 DEF CommsWheelSpeed, comms_recv, IsMeasurement
  <2>2. /\ LinkItems # <<>> /\ LinkItems' = Tail(LinkItems)
        /\ Head(LinkItems) = LinkItem(Head(q))
    BY <1>1, <2>1, FirstItemsTail DEF LinkItems
  <2>3. Head(q) \in comms_msg_s
    BY <1>1, <2>1, TailPositions
  <2>4. Intact(wire_msg)' = ~Head(q).after_spike
    <3>1. h_hit' \in BOOLEAN
      BY DEF CommsIInv, CommsTypeOK
    <3>2. Intact(wire_msg)' <=> ~h_hit'
      BY <2>1, <3>1 DEF CommsIInv, CorruptIffSpiked, Intact
    <3>3. Intact(wire_msg)' \in BOOLEAN
      BY DEF Intact
    <3> QED
      BY <2>1, <3>1, <3>2, <3>3
  <2>5. /\ wire_msg'.seqnum = (wire_msg.seqnum + 1) % SEQNUM_MOD
        /\ wire_msg'.wheel_speed = Head(q).wheel_speed
    <3> DEFINE msg == WireMsg(Head(q).wheel_speed)
    <3>1. /\ msg.seqnum = (wire_msg.seqnum + 1) % SEQNUM_MOD
          /\ msg.wheel_speed = Head(q).wheel_speed
      BY DEF WireMsg
    <3>2. Mutated(msg).seqnum = msg.seqnum /\ Mutated(msg).wheel_speed = msg.wheel_speed
      <4>1. mutator_state \in 0..2
        BY DEF CommsIInv, CommsTypeOK
      <4>2. CASE mutator_state = 0
        BY <4>2 DEF Mutated, WireMsg
      <4>3. CASE mutator_state = 1
        BY <4>3 DEF Mutated, WireMsg
      <4>4. CASE mutator_state = 2
        BY <4>4 DEF Mutated, WireMsg
      <4> QED
        BY <4>1, <4>2, <4>3, <4>4
    <3>3. wire_msg' = msg \/ wire_msg' = Mutated(msg)
      BY <1>6 DEF CommsWheelSpeed
    <3> HIDE DEF msg
    <3> QED
      BY <3>1, <3>2, <3>3
  <2>6. Link!Deliver
    <3>1. /\ Head(LinkItems).wheel_speed = Head(q).wheel_speed
          /\ Head(LinkItems).hit = Head(q).after_spike
      BY <2>2 DEF LinkItem
    <3>2. out' = [number |-> (wire_msg.seqnum + 1) % SEQNUM_MOD,
                  wheel_speed |-> Head(LinkItems).wheel_speed,
                  intact |-> ~Head(LinkItems).hit]
      BY <2>4, <2>5, <3>1
    <3>3. out.number = wire_msg.seqnum
      OBVIOUS
    <3> QED
      BY <2>1, <2>2, <3>2, <3>3 DEF Link!Deliver
  <2> QED
    BY <2>6 DEF Link!Next
<1>7. CASE \/ CommsNetworkReady \/ CommsRecvTimesOut \/ CommsSendtoReturns
           \/ CommsSendtoBlocks \/ NetworkEvent
  BY <1>2, <1>7 DEF CommsNetworkReady, CommsRecvTimesOut, CommsSendtoReturns,
                    CommsSendtoBlocks, NetworkEvent
<1>8. ASSUME NEW speed \in WheelSpeed, comms_send_sensor_data(speed), QueueFull
      PROVE  UNCHANGED Link!linkVars
  BY <1>2, <1>8 DEF comms_send_sensor_data, commsTaskVars, Link!linkVars, LinkItems, Intact, BadFields
<1>9. ASSUME NEW spike \in {0, 1}, comms_send_voltage_data(spike), QueueFull
      PROVE  UNCHANGED Link!linkVars
  BY <1>2, <1>9 DEF comms_send_voltage_data, commsTaskVars, Link!linkVars, LinkItems, Intact, BadFields
<1> QED
  BY <1>2, <1>3, <1>4, <1>5, <1>6, <1>7, <1>8, <1>9
  DEF CommsNext, CommsTask, Link!Next, commsVars

\* The empty queue is the empty link.
LEMMA LinkInit == CommsInit => Link!Init
<1> SUFFICES ASSUME CommsInit PROVE Link!Init
  OBVIOUS
<1>1. g_comms_queue = <<>> /\ g_comms_queue \in Seq(comms_msg_s) /\ Len(g_comms_queue) = 0
  BY DEF CommsInit
<1>2. LinkItems = <<>>
  BY <1>1, FirstItemsStep DEF LinkItems
<1>3. ~Intact(wire_msg)
  BY DEF CommsInit, ZeroWireMsg, Intact, BadFields, WIRE_MAGIC0
<1>4. Intact(wire_msg) = FALSE
  BY <1>3 DEF Intact
<1> QED
  BY <1>2, <1>4 DEF CommsInit, ZeroWireMsg, Link!Init

\* The queue, the two flags and the task are the ordered link of SensorLink, for
\* every queue length: lost only at the entry, in order, each delivered once,
\* and only the first measurement after a spike spoiled.
THEOREM CommsImplementsLink == CommsSpec => ImplementsSensorLink
  BY LinkInit, LinkStep, CommsInvariance, PTL DEF CommsSpec, ImplementsSensorLink, Link!Spec
=============================================================================
