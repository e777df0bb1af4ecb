---------------------------- MODULE ImuLinkProofs ----------------------------
(***************************************************************************)
(* Proofs about the way of a sample from the simulator to the Sensor task, *)
(* for every number of slots in the transport, the connection and the      *)
(* peripheral's queue, every register width and every set of speeds:       *)
(* samples are measured in their order, a contact is seen with the first   *)
(* sample whose callback ran after it, and the task is the one             *)
(* Firmware.tla runs.                                                      *)
(***************************************************************************)
EXTENDS ImuLink, TLAPS

-----------------------------------------------------------------------------
(* The order of the samples on their way.                                   *)

\* Sample m is older than sample n, as far as their numbers tell.
Before(m, n) == m < n \/ n = SEQ_MAX

AllAfter(n, msgs) == \A i \in 1..Len(msgs) : Before(n, msgs[i].seqnum)

Ascending(msgs) ==
    \A i, j \in 1..Len(msgs) : i < j => Before(msgs[i].seqnum, msgs[j].seqnum)

\* The registers show a measurement that the task has not traced yet.
Fresh ==
    \/ sensor_pc \in {"seqnum", "speed"}
    \/ sensor_pc = "status" /\ "VALID" \in status

\* n is older than everything that is still to come.
Older(n) == Before(n, Unread) /\ AllAfter(n, g_msg_q) /\ AllAfter(n, tcp)

\* The samples that wait for the callback.
TopicOrder ==
    /\ Ascending(imu_topic)
    /\ \A i \in 1..Len(imu_topic) : Before(imu_topic[i].seqnum, seq)

\* Traced, shown, queued, on the connection, waiting, not yet sampled: in this
\* order.
SampleOrder ==
    /\ TopicOrder
    /\ Ascending(tcp)
    /\ Ascending(g_msg_q)
    /\ \A i \in 1..Len(tcp) : Before(tcp[i].seqnum, Unread)
    /\ \A i \in 1..Len(g_msg_q) : /\ AllAfter(g_msg_q[i].seqnum, tcp)
                                  /\ Before(g_msg_q[i].seqnum, Unread)
    /\ Older(h_last)
    /\ Fresh => Before(h_last, reg.seqnum) /\ Older(reg.seqnum)
    /\ "VALID" \in status => sensor_pc = "status"

-----------------------------------------------------------------------------
(* The mark of the contact.                                                 *)

\* There was a contact, and sample n is not older.
Contacted(n) == h_contact # -1 /\ h_contact <= n

Marked(msg) ==
    /\ msg.bump => h_contact # -1
    /\ msg.seqnum < SEQ_MAX => (msg.bump <=> Contacted(msg.seqnum))

\* A message is marked as its sample is; the sticky bit of the peripheral is
\* set only if nothing unmarked can follow.
ContactMarks ==
    /\ bump_detected <=> h_contact # -1
    /\ h_contact <= Unread
    /\ \A i \in 1..Len(tcp) : Marked(tcp[i])
    /\ \A i \in 1..Len(g_msg_q) : Marked(g_msg_q[i])
    /\ "BUMP" \in status =>
          /\ h_contact # -1
          /\ \A i \in 1..Len(tcp) : h_contact <= tcp[i].seqnum
          /\ \A i \in 1..Len(g_msg_q) : h_contact <= g_msg_q[i].seqnum
    /\ Fresh /\ reg.seqnum < SEQ_MAX =>
          /\ "BUMP" \in status <=> Contacted(reg.seqnum)
          /\ sensor_pc # "status" =>
                ("BUMP" \in sensor_status <=> Contacted(reg.seqnum))

\* The registers do not change between the two reads.
ReadingKept ==
    /\ sensor_pc = "speed" => sensor_seqnum = reg.seqnum
    /\ ReadingIsOneSample

\* The inductive invariant.
ImuIInv ==
    /\ ImuTypeOK
    /\ SampleOrder
    /\ ContactMarks
    /\ ReadingKept

-----------------------------------------------------------------------------
(* Sequences, position by position, and the register.                       *)

\* What write() and g_msg_q.put() do to the positions,
LEMMA AppendPositions ==
    ASSUME NEW S, NEW s \in Seq(S), NEW x \in S
    PROVE  /\ Append(s, x) \in Seq(S)
           /\ Len(Append(s, x)) = Len(s) + 1
           /\ \A i \in 1..Len(s) : Append(s, x)[i] = s[i]
           /\ Append(s, x)[Len(s) + 1] = x
  OBVIOUS

\* what taking the oldest message does,
LEMMA TailPositions ==
    ASSUME NEW S, NEW s \in Seq(S), s # <<>>
    PROVE  /\ Len(s) \in Nat \ {0}
           /\ Head(s) = s[1]
           /\ Head(s) \in S
           /\ Tail(s) \in Seq(S)
           /\ Len(Tail(s)) = Len(s) - 1
           /\ \A i \in 1..Len(Tail(s)) : Tail(s)[i] = s[i + 1]
  OBVIOUS

\* and what one recv() of n messages does.
LEMMA RestPositions ==
    ASSUME NEW S, NEW s \in Seq(S), NEW n \in 0..Len(s)
    PROVE  /\ SubSeq(s, n + 1, Len(s)) \in Seq(S)
           /\ Len(SubSeq(s, n + 1, Len(s))) = Len(s) - n
           /\ \A i \in 1..(Len(s) - n) : SubSeq(s, n + 1, Len(s))[i] = s[i + n]
  OBVIOUS

\* Between -m and m there is one residue or the other.
LEMMA Residue ==
    ASSUME NEW m \in Nat, NEW x \in Int, -m < x, x < m
    PROVE  (x % m) = IF x < 0 THEN x + m ELSE x
  OBVIOUS

\* A speed that is clamped, written to an unsigned register, read and cast
\* comes back as the clamped speed, because the register is wider than the
\* range of speeds.
LEMMA RegisterRoundTrip ==
    ASSUME NEW speed \in Int
    PROVE  /\ Int32(wheel_speed_to_reg_val(speed)) = Clamped(speed)
           /\ Clamped(speed) \in -SPEED_MAX..SPEED_MAX
<1>1. Clamped(speed) \in -SPEED_MAX..SPEED_MAX
  BY ImuAssumption DEF Clamped
<1>2. wheel_speed_to_reg_val(speed) = (Clamped(speed) % REG_MOD)
  BY ImuAssumption DEF wheel_speed_to_reg_val, Clamped
<1>3. (Clamped(speed) % REG_MOD) = IF Clamped(speed) < 0
                                   THEN Clamped(speed) + REG_MOD
                                   ELSE Clamped(speed)
  <2>1. Clamped(speed) \in Int /\ -REG_MOD < Clamped(speed) /\ Clamped(speed) < REG_MOD
    BY <1>1, ImuAssumption
  <2> QED
    BY <2>1, Residue, ImuAssumption
<1> QED
  BY <1>1, <1>2, <1>3, ImuAssumption DEF Int32

-----------------------------------------------------------------------------
(* The types.                                                               *)

\* The number of the oldest sample that waits.
LEMMA UnreadType ==
    ASSUME ImuTypeOK
    PROVE  /\ Unread \in 0..SEQ_MAX
           /\ imu_topic # <<>> => Head(imu_topic) \in Sample /\ Unread = imu_topic[1].seqnum
<1>1. CASE imu_topic = <<>>
  BY <1>1 DEF ImuTypeOK, Unread
<1>2. CASE imu_topic # <<>>
  <2>1. Head(imu_topic) \in Sample /\ Head(imu_topic) = imu_topic[1]
    BY <1>2, TailPositions DEF ImuTypeOK
  <2> QED
    BY <1>2, <2>1 DEF Unread, Sample
<1> QED
  BY <1>1, <1>2

LEMMA UnreadTypeNext == ASSUME ImuTypeOK' PROVE Unread' \in 0..SEQ_MAX
<1>1. CASE imu_topic' = <<>>
  BY <1>1 DEF ImuTypeOK, Unread
<1>2. CASE imu_topic' # <<>>
  <2>1. Head(imu_topic') \in Sample
    BY <1>2, TailPositions DEF ImuTypeOK
  <2> QED
    BY <1>2, <2>1 DEF Unread, Sample
<1> QED
  BY <1>1, <1>2

\* What the callback writes.
Written == [seqnum |-> Head(imu_topic).seqnum, bump |-> bump_detected,
            speed |-> Head(imu_topic).speed]

\* It is a message, of the oldest sample.
LEMMA WrittenIsMessage ==
    ASSUME ImuTypeOK, imu_topic # <<>>
    PROVE  /\ Written \in Message
           /\ Written.seqnum = Unread
           /\ Written.bump = bump_detected
<1>1. Head(imu_topic) \in Sample
  BY UnreadType
<1> QED
  BY <1>1 DEF Written, Unread, ImuTypeOK, Message, Sample

\* The number of the next sample does not fall.
LEMMA NextSeqType ==
    ASSUME ImuTypeOK
    PROVE  NextSeq \in 0..SEQ_MAX /\ seq <= NextSeq
  BY ImuAssumption DEF ImuTypeOK, NextSeq

\* The type invariant is inductive.
LEMMA TypeStep == ImuTypeOK /\ [ImuNext]_imuVars => ImuTypeOK'
<1> SUFFICES ASSUME ImuTypeOK, [ImuNext]_imuVars PROVE ImuTypeOK'
  OBVIOUS
<1> USE DEF ImuTypeOK, imuVars, hostVars, micVars, relayVars, linkVars, threadVars,
            wssVars, taskVars, localVars
<1>1. CASE Configure
  BY <1>1 DEF Configure
<1>2. CASE contact_msg_cb
  BY <1>2, UnreadType DEF contact_msg_cb
<1>3. ASSUME NEW speed \in Speed, ImuSample(speed) PROVE ImuTypeOK'
  <2>1. seq' \in 0..SEQ_MAX
    BY <1>3, NextSeqType DEF ImuSample
  <2>2. imu_topic' \in Seq(Sample) /\ Len(imu_topic') <= TOPIC_MAX
    <3> DEFINE sample == [seqnum |-> seq, speed |-> speed]
    <3>1. sample \in Sample
      BY DEF Sample
    <3>2. CASE imu_topic' = Append(imu_topic, sample) /\ Len(imu_topic) < TOPIC_MAX
      <4> HIDE DEF sample
      <4>1. /\ Append(imu_topic, sample) \in Seq(Sample)
            /\ Len(Append(imu_topic, sample)) = Len(imu_topic) + 1
        BY <3>1, AppendPositions
      <4> QED
        BY <3>2, <4>1, ImuAssumption
    <3>3. CASE imu_topic' = imu_topic
      BY <3>3
    <3> QED
      BY <1>3, <3>2, <3>3 DEF ImuSample
  <2> QED
    BY <1>3, <2>1, <2>2 DEF ImuSample
<1>17. ASSUME imu_topic # <<>>
       PROVE  Tail(imu_topic) \in Seq(Sample) /\ Len(Tail(imu_topic)) <= TOPIC_MAX
  BY <1>17, TailPositions, ImuAssumption
<1>18. CASE msg_cb
  <2>1. Written \in Message /\ tcp' = Append(tcp, Written) /\ Len(tcp) < TCP_MAX
    BY <1>18, WrittenIsMessage DEF msg_cb, Callback, Written
  <2>2. tcp' \in Seq(Message) /\ Len(tcp') = Len(tcp) + 1
    BY <2>1, AppendPositions
  <2>3. Len(tcp') <= TCP_MAX
    BY <2>1, <2>2, ImuAssumption
  <2> QED
    BY <1>17, <1>18, <2>2, <2>3 DEF msg_cb, Callback
<1>19. CASE ConnectFails \/ WriteFails
  BY <1>17, <1>19 DEF ConnectFails, WriteFails, Callback
<1>20. CASE Connect
  BY <1>20 DEF Connect, Callback
<1>4. CASE RelayDestroyed
  BY <1>4 DEF RelayDestroyed
<1>5. CASE AcceptClient
  BY <1>5 DEF AcceptClient
<1>6. CASE OnMessage
  <2>1. /\ Head(tcp) \in Message /\ Tail(tcp) \in Seq(Message)
        /\ Len(Tail(tcp)) <= TCP_MAX
    BY <1>6, TailPositions, ImuAssumption DEF OnMessage
  <2>2. g_msg_q' \in Seq(Message) /\ Len(g_msg_q') <= MSG_Q_MAX
    <3>1. CASE Len(g_msg_q) < MSG_Q_MAX /\ g_msg_q' = Append(g_msg_q, Head(tcp))
      <4>1. /\ Append(g_msg_q, Head(tcp)) \in Seq(Message)
            /\ Len(Append(g_msg_q, Head(tcp))) = Len(g_msg_q) + 1
        BY <2>1, AppendPositions
      <4> QED
        BY <3>1, <4>1, ImuAssumption
    <3>2. CASE g_msg_q' = g_msg_q
      BY <3>2
    <3> QED
      BY <1>6, <3>1, <3>2 DEF OnMessage
  <2> QED
    BY <1>6, <2>1, <2>2 DEF OnMessage
<1>7. CASE OnUnframed
  <2>1. PICK n \in 0..Len(tcp) : tcp' = SubSeq(tcp, n + 1, Len(tcp))
    BY <1>7 DEF OnUnframed
  <2>2. tcp' \in Seq(Message) /\ Len(tcp') = Len(tcp) - n
    BY <2>1, RestPositions
  <2>3. Len(tcp') <= TCP_MAX
    BY <2>2, ImuAssumption
  <2> QED
    BY <1>7, <2>2, <2>3 DEF OnUnframed
<1>8. CASE OnClose
  BY <1>8 DEF OnClose
<1>9. CASE wss_init
  BY <1>9 DEF wss_init
<1>10. CASE TickWakes
  BY <1>10 DEF TickWakes
<1>11. CASE RequestMeasurement
  <2>1. CASE g_msg_q = <<>>
    BY <1>11, <2>1 DEF RequestMeasurement
  <2>2. CASE g_msg_q # <<>>
    <3>1. /\ Head(g_msg_q) \in Message /\ Tail(g_msg_q) \in Seq(Message)
          /\ Len(Tail(g_msg_q)) <= MSG_Q_MAX
      BY <2>2, TailPositions, ImuAssumption
    <3>2. reg' \in [seqnum : 0..SEQ_MAX, speed : Speed \cup {0}]
      BY <1>11, <2>2, <3>1 DEF RequestMeasurement, Message
    <3>3. status' \subseteq {"VALID", "BUMP"}
      BY <1>11, <2>2 DEF RequestMeasurement, Shows
    <3> QED
      BY <1>11, <2>2, <3>1, <3>2, <3>3 DEF RequestMeasurement
  <2> QED
    BY <2>1, <2>2
<1>12. CASE ReadStatus
  BY <1>12 DEF ReadStatus
<1>13. CASE ReadSeqnum
  BY <1>13 DEF ReadSeqnum
<1>14. CASE ReadWheelSpeed
  <2>1. reg.speed \in Int
    <3>1. reg.speed \in Speed \cup {0}
      OBVIOUS
    <3>2. CASE reg.speed = 0
      BY <3>2
    <3>3. CASE reg.speed \in Speed
      BY <3>3, Zenon, ImuAssumption
    <3> QED
      BY <3>1, <3>2, <3>3
  <2>2. wheel_speed' \in -SPEED_MAX..SPEED_MAX
    BY <1>14, <2>1, RegisterRoundTrip DEF ReadWheelSpeed
  <2>3. h_bump' \in BOOLEAN
    BY <1>14 DEF ReadWheelSpeed
  <2> QED
    BY <1>14, <2>2, <2>3 DEF ReadWheelSpeed
<1>15. CASE Posts
  BY <1>15 DEF Posts
<1>16. CASE UNCHANGED imuVars
  BY <1>16
<1> QED
  BY <1>1, <1>2, <1>3, <1>4, <1>5, <1>6, <1>7, <1>8, <1>9, <1>10, <1>11, <1>12,
     <1>13, <1>14, <1>15, <1>16, <1>18, <1>19, <1>20
  DEF ImuNext, Receiver, SensorTask

-----------------------------------------------------------------------------
(* The order is inductive.                                                  *)

\* The steps of the Sensor task and of its peripheral that leave the samples
\* where they are.
LEMMA OrderOfTaskSteps ==
    ASSUME SampleOrder, ReadingKept,
           \/ wss_init \/ TickWakes \/ ReadStatus \/ ReadSeqnum
           \/ ReadWheelSpeed \/ Posts
    PROVE  SampleOrder'
<1>1. UNCHANGED <<tcp, g_msg_q, imu_topic, seq, reg>>
  BY DEF wss_init, TickWakes, ReadStatus, ReadSeqnum, ReadWheelSpeed, Posts,
         hostVars, relayVars, linkVars, wssVars
<1>7. Unread' = Unread
  BY <1>1 DEF Unread
<1>2. \A n : Older(n) => Older(n)'
  BY <1>1, <1>7 DEF Older, AllAfter, Before
<1>3. Older(h_last)'
  <2>1. CASE ReadWheelSpeed
    <3>1. sensor_pc = "speed" /\ h_last' = sensor_seqnum
      BY <2>1 DEF ReadWheelSpeed
    <3>2. Older(reg.seqnum) /\ sensor_seqnum = reg.seqnum
      BY <3>1 DEF SampleOrder, Fresh, ReadingKept
    <3> QED
      BY <3>1, <3>2, <1>1, <1>7 DEF Older, AllAfter, Before
  <2>2. CASE UNCHANGED h_last
    <3>1. Older(h_last)
      BY DEF SampleOrder
    <3> QED
      BY <2>2, <3>1, <1>1, <1>7 DEF Older, AllAfter, Before
  <2> QED
    BY <2>1, <2>2
    DEF wss_init, TickWakes, ReadStatus, ReadSeqnum, Posts, localVars
<1>4. Fresh' => Fresh /\ UNCHANGED h_last
  BY DEF Fresh, wss_init, TickWakes, ReadStatus, ReadSeqnum, ReadWheelSpeed, Posts,
         wssVars, localVars
<1>5. Fresh' => Before(h_last', reg'.seqnum) /\ Older(reg.seqnum)'
  BY <1>1, <1>4, <1>7 DEF SampleOrder, Older, AllAfter, Before
<1>6. "VALID" \in status' => sensor_pc' = "status"
  BY DEF SampleOrder, wss_init, TickWakes, ReadStatus, ReadSeqnum, ReadWheelSpeed,
         Posts, wssVars, localVars
<1> QED
  BY <1>1, <1>3, <1>5, <1>6, <1>7 DEF SampleOrder, TopicOrder, Ascending, AllAfter, Before

\* The registers take the oldest message of the queue.
LEMMA OrderOfRequest ==
    ASSUME ImuTypeOK, SampleOrder, RequestMeasurement
    PROVE  SampleOrder'
<1>1. /\ sensor_pc = "request" /\ sensor_pc' = "status"
      /\ UNCHANGED <<tcp, imu_topic, seq, h_last, Unread>>
  BY DEF RequestMeasurement, hostVars, relayVars, linkVars, localVars, Unread
<1>2. "VALID" \notin status
  BY <1>1 DEF SampleOrder
<1>3. CASE g_msg_q = <<>>
  <2>1. UNCHANGED <<g_msg_q, reg, status>> /\ ~Fresh'
    BY <1>1, <1>2, <1>3 DEF RequestMeasurement, Fresh
  <2> QED
    BY <1>1, <1>2, <2>1 DEF SampleOrder, TopicOrder, Older, Ascending, AllAfter, Before
<1>4. CASE g_msg_q # <<>>
  <2>1. /\ Len(g_msg_q) \in Nat \ {0}
        /\ Head(g_msg_q) = g_msg_q[1]
        /\ Len(Tail(g_msg_q)) = Len(g_msg_q) - 1
        /\ \A i \in 1..Len(Tail(g_msg_q)) : Tail(g_msg_q)[i] = g_msg_q[i + 1]
    BY <1>4, TailPositions DEF ImuTypeOK
  <2>2. g_msg_q' = Tail(g_msg_q) /\ reg'.seqnum = g_msg_q[1].seqnum
    BY <1>4, <2>1 DEF RequestMeasurement
  <2>3. Len(g_msg_q') = Len(g_msg_q) - 1
    BY <2>1, <2>2
  <2>4. \A i \in 1..Len(g_msg_q') : /\ g_msg_q'[i] = g_msg_q[i + 1]
                                    /\ i + 1 \in 1..Len(g_msg_q)
    BY <2>1, <2>2
  <2>5. 1 \in 1..Len(g_msg_q)
    BY <2>1
  <2>6. Ascending(g_msg_q) /\ Ascending(tcp)
    BY DEF SampleOrder
  <2>7. \A i \in 1..Len(g_msg_q) : AllAfter(g_msg_q[i].seqnum, tcp) /\ Before(g_msg_q[i].seqnum, Unread)
    BY DEF SampleOrder
  <2>8. Ascending(g_msg_q)'
    <3>1. ASSUME NEW i \in 1..Len(g_msg_q'), NEW j \in 1..Len(g_msg_q'), i < j
          PROVE  Before(g_msg_q[i + 1].seqnum, g_msg_q[j + 1].seqnum)
      BY <3>1, <2>4, <2>6 DEF Ascending
    <3> QED
      BY <3>1, <2>4 DEF Ascending, Before
  <2>9. \A i \in 1..Len(g_msg_q') : AllAfter(g_msg_q'[i].seqnum, tcp) /\ Before(g_msg_q'[i].seqnum, Unread)
    BY <2>4, <2>7
  <2>10. AllAfter(g_msg_q[1].seqnum, g_msg_q')
    <3>1. ASSUME NEW i \in 1..Len(g_msg_q')
          PROVE  Before(g_msg_q[1].seqnum, g_msg_q[i + 1].seqnum)
      BY <2>4, <2>5, <2>6 DEF Ascending
    <3> QED
      BY <3>1, <2>4 DEF AllAfter
  <2>11. Older(reg.seqnum)'
    <3>1. AllAfter(g_msg_q[1].seqnum, tcp) /\ Before(g_msg_q[1].seqnum, Unread)
      BY <2>5, <2>7
    <3> QED
      BY <3>1, <2>10, <1>1, <2>2 DEF Older, AllAfter, Before
  <2>12. Older(h_last)
    BY DEF SampleOrder
  <2>13. Before(h_last, g_msg_q[1].seqnum)
    BY <2>5, <2>12 DEF Older, AllAfter
  <2>14. AllAfter(h_last, g_msg_q')
    BY <2>4, <2>12 DEF Older, AllAfter
  <2>15. Older(h_last)'
    BY <1>1, <2>12, <2>14 DEF Older, AllAfter, Before
  <2>16. Fresh' => Before(h_last', reg'.seqnum) /\ Older(reg.seqnum)'
    BY <1>1, <2>2, <2>11, <2>13 DEF Before
  <2> QED
    BY <1>1, <2>6, <2>8, <2>9, <2>15, <2>16 DEF SampleOrder, TopicOrder, Ascending, AllAfter, Before
<1> QED
  BY <1>3, <1>4

\* Everywhere on the way the numbers are integers.
LEMMA NumberTypes ==
    ASSUME ImuTypeOK
    PROVE  /\ \A i \in 1..Len(tcp) : tcp[i].seqnum \in Int
           /\ \A i \in 1..Len(g_msg_q) : g_msg_q[i].seqnum \in Int
           /\ h_last \in Int /\ reg.seqnum \in Int
<1>1. \A msg \in Message : msg.seqnum \in Int
  BY ImuAssumption DEF Message
<1>2. \A i \in 1..Len(tcp) : tcp[i] \in Message
  BY DEF ImuTypeOK
<1>3. \A i \in 1..Len(g_msg_q) : g_msg_q[i] \in Message
  BY DEF ImuTypeOK
<1>4. h_last \in Int /\ reg.seqnum \in Int
  <2>1. h_last \in -1..SEQ_MAX /\ reg.seqnum \in 0..SEQ_MAX
    BY DEF ImuTypeOK
  <2> QED
    BY <2>1, ImuAssumption
<1> QED
  BY <1>1, <1>2, <1>3, <1>4

\* A sample that is published is newer than all that wait,
LEMMA TopicOfSample ==
    ASSUME ImuTypeOK, TopicOrder, NEW speed \in Speed, ImuSample(speed)
    PROVE  TopicOrder' /\ Unread' = Unread
<1> DEFINE sample == [seqnum |-> seq, speed |-> speed]
<1>1. /\ imu_topic \in Seq(Sample) /\ Len(imu_topic) \in Nat
      /\ sample \in Sample /\ sample.seqnum = seq
      /\ seq \in 0..SEQ_MAX /\ SEQ_MAX \in Nat /\ TOPIC_MAX \in Nat \ {0}
  BY ImuAssumption DEF ImuTypeOK, Sample
<1>2. /\ seq' = NextSeq
      /\ \/ imu_topic' = Append(imu_topic, sample)
         \/ imu_topic' = imu_topic /\ ~(Len(imu_topic) < TOPIC_MAX)
  BY DEF ImuSample
<1> HIDE DEF sample
<1>3. \A n \in Int : Before(n, seq) => Before(n, seq')
  <2>1. \/ seq' = seq + 1 /\ seq < SEQ_MAX
        \/ seq' = seq
    BY <1>2 DEF NextSeq
  <2> QED
    BY <1>1, <2>1 DEF Before
<1>4. \A i \in 1..Len(imu_topic) : imu_topic[i].seqnum \in Int
  <2>1. \A i \in 1..Len(imu_topic) : imu_topic[i] \in Sample
    BY <1>1
  <2>2. \A x \in Sample : x.seqnum \in Int
    BY <1>1 DEF Sample
  <2> QED
    BY <2>1, <2>2
<1>5. CASE imu_topic' = imu_topic /\ ~(Len(imu_topic) < TOPIC_MAX)
  <2>1. imu_topic # <<>>
    BY <1>1, <1>5
  <2>2. Unread' = Unread
    BY <1>5, <2>1 DEF Unread
  <2> QED
    BY <1>3, <1>4, <1>5, <2>2 DEF TopicOrder, Ascending, Before
<1>6. CASE imu_topic' = Append(imu_topic, sample)
  <2>1. /\ imu_topic' \in Seq(Sample)
        /\ Len(imu_topic') = Len(imu_topic) + 1
        /\ \A i \in 1..Len(imu_topic) : imu_topic'[i] = imu_topic[i]
        /\ imu_topic'[Len(imu_topic) + 1] = sample
    BY <1>1, <1>6, AppendPositions
  <2>2. Unread' = Unread
    <3>1. imu_topic' # <<>> /\ Head(imu_topic') = imu_topic'[1]
      BY <1>1, <2>1
    <3>2. CASE imu_topic = <<>>
      BY <1>1, <2>1, <3>1, <3>2 DEF Unread
    <3>3. CASE imu_topic # <<>>
      <4>1. Head(imu_topic) = imu_topic[1] /\ 1 \in 1..Len(imu_topic)
        BY <1>1, <3>3
      <4> QED
        BY <2>1, <3>1, <3>3, <4>1 DEF Unread
    <3> QED
      BY <3>2, <3>3
  <2>3. \A i \in 1..Len(imu_topic') :
           \/ i \in 1..Len(imu_topic) /\ imu_topic'[i] = imu_topic[i]
           \/ i = Len(imu_topic) + 1 /\ imu_topic'[i].seqnum = seq
    BY <1>1, <2>1
  <2>4. Before(seq, seq')
    BY <1>1, <1>2 DEF Before, NextSeq
  <2>5. \A i \in 1..Len(imu_topic') : Before(imu_topic'[i].seqnum, seq')
    BY <1>3, <1>4, <2>3, <2>4 DEF TopicOrder
  <2>6. ASSUME NEW i \in 1..Len(imu_topic'), NEW j \in 1..Len(imu_topic'), i < j
        PROVE  Before(imu_topic'[i].seqnum, imu_topic'[j].seqnum)
    <3>1. i \in 1..Len(imu_topic) /\ imu_topic'[i] = imu_topic[i]
      BY <1>1, <2>1, <2>3, <2>6
    <3>2. CASE j \in 1..Len(imu_topic) /\ imu_topic'[j] = imu_topic[j]
      BY <2>6, <3>1, <3>2 DEF TopicOrder, Ascending
    <3>3. CASE imu_topic'[j].seqnum = seq
      BY <3>1, <3>3 DEF TopicOrder
    <3> QED
      BY <2>3, <3>2, <3>3
  <2> QED
    BY <2>2, <2>5, <2>6 DEF TopicOrder, Ascending, Before
<1> QED
  BY <1>2, <1>5, <1>6

\* and the one the callback is done with is older than the others.
LEMMA TopicOfCallback ==
    ASSUME ImuTypeOK, TopicOrder, imu_topic # <<>>,
           imu_topic' = Tail(imu_topic), seq' = seq
    PROVE  TopicOrder' /\ Before(Unread, Unread')
<1>1. /\ Len(imu_topic) \in Nat \ {0}
      /\ Len(imu_topic') = Len(imu_topic) - 1
      /\ \A i \in 1..Len(imu_topic') : imu_topic'[i] = imu_topic[i + 1]
      /\ imu_topic' \in Seq(Sample)
  BY TailPositions DEF ImuTypeOK
<1>2. /\ \A i \in 1..Len(imu_topic') : i + 1 \in 1..Len(imu_topic) /\ 1 < i + 1
      /\ 1 \in 1..Len(imu_topic)
  BY <1>1
<1>3. Unread = imu_topic[1].seqnum
  BY UnreadType
<1>4. TopicOrder'
  <2>1. ASSUME NEW i \in 1..Len(imu_topic'), NEW j \in 1..Len(imu_topic'), i < j
        PROVE  Before(imu_topic'[i].seqnum, imu_topic'[j].seqnum)
    BY <1>1, <1>2, <2>1 DEF TopicOrder, Ascending
  <2>2. \A i \in 1..Len(imu_topic') : Before(imu_topic'[i].seqnum, seq')
    BY <1>1, <1>2 DEF TopicOrder
  <2> QED
    BY <2>1, <2>2 DEF TopicOrder, Ascending, Before
<1>5. CASE imu_topic' = <<>>
  <2>1. Unread' = seq
    BY <1>5 DEF Unread
  <2>2. Before(imu_topic[1].seqnum, seq)
    BY <1>2 DEF TopicOrder
  <2>3. Before(Unread, seq)
    BY <1>3, <2>2
  <2> QED
    BY <1>4, <2>1, <2>3
<1>6. CASE imu_topic' # <<>>
  <2>1. Head(imu_topic') = imu_topic'[1] /\ 1 \in 1..Len(imu_topic')
    BY <1>1, <1>6
  <2>2. Unread' = imu_topic[2].seqnum /\ 2 \in 1..Len(imu_topic)
    BY <1>1, <1>2, <1>6, <2>1 DEF Unread
  <2> QED
    BY <1>2, <1>3, <1>4, <2>2 DEF TopicOrder, Ascending
<1> QED
  BY <1>4, <1>5, <1>6

\* What is older than the oldest sample that waits stays so.
LEMMA UnreadMoves ==
    ASSUME ImuTypeOK, Unread' \in 0..SEQ_MAX,
           Unread' = Unread \/ Before(Unread, Unread')
    PROVE  /\ \A n \in Int : Before(n, Unread) => Before(n, Unread')
           /\ Unread <= Unread'
<1>1. Unread \in 0..SEQ_MAX /\ SEQ_MAX \in Nat
  BY UnreadType, ImuAssumption
<1> QED
  BY <1>1 DEF Before

\* The steps on the way to the connection.
LEMMA OrderOfTopic ==
    ASSUME ImuTypeOK, ImuTypeOK', SampleOrder, TopicOrder',
           Unread' = Unread \/ Before(Unread, Unread'),
           UNCHANGED <<tcp, g_msg_q, reg, status, sensor_pc, h_last>>
    PROVE  SampleOrder'
<1>1. Unread' \in 0..SEQ_MAX
  BY UnreadTypeNext
<1>2. \A n \in Int : Before(n, Unread) => Before(n, Unread')
  BY <1>1, UnreadMoves
<1>3. /\ \A i \in 1..Len(tcp) : tcp[i].seqnum \in Int
      /\ \A i \in 1..Len(g_msg_q) : g_msg_q[i].seqnum \in Int
      /\ h_last \in Int /\ reg.seqnum \in Int
  BY NumberTypes
<1>4. /\ \A i \in 1..Len(tcp) : Before(tcp[i].seqnum, Unread')
      /\ \A i \in 1..Len(g_msg_q) : Before(g_msg_q[i].seqnum, Unread')
  BY <1>2, <1>3 DEF SampleOrder
<1>5. \A n \in Int : Older(n) => Older(n)'
  BY <1>2 DEF Older, AllAfter, Before
<1>6. Older(h_last)'
  <2>1. Older(h_last) /\ h_last \in Int
    BY <1>3 DEF SampleOrder
  <2>2. Before(h_last, Unread')
    BY <1>2, <2>1 DEF Older
  <2> QED
    BY <2>1, <2>2 DEF Older, AllAfter, Before
<1>7. Fresh' => Before(h_last', reg'.seqnum) /\ Older(reg.seqnum)'
  <2>1. Fresh' => Before(h_last, reg.seqnum) /\ Older(reg.seqnum)
    BY DEF SampleOrder, Fresh
  <2>2. Fresh' => Before(reg.seqnum, Unread')
    BY <1>2, <1>3, <2>1 DEF Older
  <2> QED
    BY <2>1, <2>2 DEF Older, AllAfter, Before
<1> QED
  BY <1>4, <1>6, <1>7 DEF SampleOrder, Ascending, AllAfter, Before

\* What the callback writes is newer than all that was written before, and
\* older than all that waits.
LEMMA OrderOfMessage ==
    ASSUME ImuTypeOK, ImuTypeOK', SampleOrder, msg_cb
    PROVE  SampleOrder'
<1>1. /\ UNCHANGED <<g_msg_q, reg, status, sensor_pc, h_last, seq>>
      /\ imu_topic # <<>> /\ imu_topic' = Tail(imu_topic)
      /\ tcp' = Append(tcp, Written)
  BY DEF msg_cb, Callback, micVars, wssVars, taskVars, localVars, Written
<1>2. Written \in Message /\ Written.seqnum = Unread
  BY <1>1, WrittenIsMessage
<1>3. TopicOrder' /\ Before(Unread, Unread')
  BY <1>1, TopicOfCallback DEF SampleOrder
<1>4. tcp \in Seq(Message) /\ Len(tcp) \in Nat /\ Len(tcp') \in Nat
  <2>1. tcp \in Seq(Message)
    BY DEF ImuTypeOK
  <2> QED
    BY <2>1, <1>1, <1>2, AppendPositions
<1>5. \A i \in 1..Len(tcp') : \/ i \in 1..Len(tcp) /\ tcp'[i] = tcp[i]
                              \/ i = Len(tcp') /\ i = Len(tcp) + 1 /\ tcp'[i].seqnum = Unread
  <2>1. /\ Len(tcp') = Len(tcp) + 1
        /\ \A i \in 1..Len(tcp) : tcp'[i] = tcp[i]
        /\ tcp'[Len(tcp) + 1] = Written
    BY <1>1, <1>2, <1>4, AppendPositions
  <2> QED
    BY <1>2, <1>4, <2>1
<1>6. \A n \in Int : Before(n, Unread) => Before(n, Unread')
  <2>1. Unread' \in 0..SEQ_MAX
    BY UnreadTypeNext
  <2> QED
    BY <1>3, <2>1, UnreadMoves
<1>7. Before(Unread, Unread')
  BY <1>3
<1>8. \A n : Before(n, Unread) /\ AllAfter(n, tcp) => AllAfter(n, tcp')
  BY <1>5 DEF AllAfter
<1>9. /\ \A i \in 1..Len(tcp) : tcp[i].seqnum \in Int
      /\ \A i \in 1..Len(g_msg_q) : g_msg_q[i].seqnum \in Int
      /\ h_last \in Int /\ reg.seqnum \in Int
  BY NumberTypes
<1>10. \A i \in 1..Len(tcp') : Before(tcp'[i].seqnum, Unread')
  BY <1>5, <1>6, <1>7, <1>9 DEF SampleOrder
<1>11. Ascending(tcp)'
  <2>1. ASSUME NEW i \in 1..Len(tcp'), NEW j \in 1..Len(tcp'), i < j
        PROVE  Before(tcp'[i].seqnum, tcp'[j].seqnum)
    <3>1. i \in 1..Len(tcp) /\ tcp'[i] = tcp[i]
      BY <1>4, <1>5, <2>1
    <3>2. CASE j \in 1..Len(tcp) /\ tcp'[j] = tcp[j]
      BY <2>1, <3>1, <3>2 DEF SampleOrder, Ascending
    <3>3. CASE tcp'[j].seqnum = Unread
      BY <3>1, <3>3 DEF SampleOrder
    <3> QED
      BY <1>5, <3>2, <3>3
  <2> QED
    BY <2>1 DEF Ascending, Before
<1>12. \A i \in 1..Len(g_msg_q) : /\ AllAfter(g_msg_q[i].seqnum, tcp')
                                  /\ Before(g_msg_q[i].seqnum, Unread')
  BY <1>6, <1>8, <1>9 DEF SampleOrder
<1>13. \A n \in Int : Older(n) => /\ Before(n, Unread') /\ AllAfter(n, g_msg_q) /\ AllAfter(n, tcp')
  BY <1>6, <1>8 DEF Older
<1>14. Older(h_last)'
  <2>1. Older(h_last) /\ h_last \in Int
    BY <1>9 DEF SampleOrder
  <2>2. /\ Before(h_last, Unread') /\ AllAfter(h_last, g_msg_q)
        /\ AllAfter(h_last, tcp')
    BY <1>13, <2>1
  <2> QED
    BY <1>1, <2>2 DEF Older, AllAfter, Before
<1>15. Fresh' => Before(h_last', reg'.seqnum) /\ Older(reg.seqnum)'
  <2>1. Fresh' => Fresh
    BY <1>1 DEF Fresh
  <2>2. Fresh => Before(h_last, reg.seqnum) /\ Older(reg.seqnum)
    BY DEF SampleOrder
  <2>3. Older(reg.seqnum) => /\ Before(reg.seqnum, Unread')
                             /\ AllAfter(reg.seqnum, g_msg_q)
                             /\ AllAfter(reg.seqnum, tcp')
    BY <1>13, <1>9
  <2> QED
    BY <1>1, <2>1, <2>2, <2>3 DEF Older, AllAfter, Before
<1>16. \A i \in 1..Len(g_msg_q') : /\ AllAfter(g_msg_q[i].seqnum, tcp)'
                                   /\ Before(g_msg_q[i].seqnum, Unread)'
  BY <1>1, <1>12 DEF AllAfter, Before
<1>17. Ascending(g_msg_q)'
  BY <1>1 DEF SampleOrder, Ascending, Before
<1>18. "VALID" \in status' => sensor_pc' = "status"
  BY <1>1 DEF SampleOrder
<1>19. \A i \in 1..Len(tcp') : Before(tcp[i].seqnum, Unread)'
  BY <1>10 DEF Before
<1> QED
  BY <1>3, <1>11, <1>14, <1>15, <1>16, <1>17, <1>18, <1>19 DEF SampleOrder

\* The thread takes messages from the front of the connection: it queues the
\* first of them, or forgets them.
LEMMA OrderOfReceiver ==
    ASSUME ImuTypeOK, SampleOrder, OnMessage \/ OnUnframed
    PROVE  SampleOrder'
<1>1. UNCHANGED <<imu_topic, seq, Unread, reg, status, sensor_pc, h_last>>
  BY DEF OnMessage, OnUnframed, micVars, relayVars, wssVars, taskVars, localVars,
         Unread
<1>2. tcp \in Seq(Message) /\ g_msg_q \in Seq(Message)
  BY DEF ImuTypeOK
<1>3. \E k \in 0..Len(tcp) :
        /\ k = 0 => UNCHANGED g_msg_q
        /\ Len(tcp') = Len(tcp) - k
        /\ \A i \in 1..Len(tcp') : tcp'[i] = tcp[i + k]
  <2>1. CASE OnMessage
    <3>1. tcp # <<>> /\ tcp' = Tail(tcp)
      BY <2>1 DEF OnMessage
    <3>2. /\ Len(tcp) \in Nat \ {0} /\ Len(tcp') = Len(tcp) - 1
          /\ \A i \in 1..Len(tcp') : tcp'[i] = tcp[i + 1]
      BY <1>2, <3>1, TailPositions
    <3> QED
      BY <3>2
  <2>2. CASE OnUnframed
    <3>1. PICK n \in 0..Len(tcp) : tcp' = SubSeq(tcp, n + 1, Len(tcp))
      BY <2>2 DEF OnUnframed
    <3>2. UNCHANGED g_msg_q
      BY <2>2 DEF OnUnframed, micVars
    <3>3. /\ Len(tcp') = Len(tcp) - n
          /\ \A i \in 1..(Len(tcp) - n) : tcp'[i] = tcp[i + n]
      BY <1>2, <3>1, RestPositions
    <3> QED
      BY <3>2, <3>3
  <2> QED
    BY <2>1, <2>2
<1>4. PICK k \in 0..Len(tcp) : /\ k = 0 => UNCHANGED g_msg_q
                               /\ Len(tcp') = Len(tcp) - k
                               /\ \A i \in 1..Len(tcp') : tcp'[i] = tcp[i + k]
  BY <1>3
<1>5. Len(tcp) \in Nat /\ Len(g_msg_q) \in Nat /\ 1 \in 1..Len(tcp)
  BY <1>2 DEF OnMessage, OnUnframed
<1>6. \A i \in 1..Len(tcp') : i + k \in 1..Len(tcp) /\ tcp'[i] = tcp[i + k]
  BY <1>4, <1>5
<1>7. \A i \in 1..Len(g_msg_q') :
        \/ i \in 1..Len(g_msg_q) /\ g_msg_q'[i] = g_msg_q[i]
        \/ i = Len(g_msg_q') /\ i = Len(g_msg_q) + 1 /\ g_msg_q'[i] = tcp[1]
  <2>1. CASE g_msg_q' = g_msg_q
    BY <2>1
  <2>2. CASE OnMessage /\ g_msg_q' = Append(g_msg_q, Head(tcp))
    <3>1. Head(tcp) = tcp[1] /\ Head(tcp) \in Message
      BY <1>2, <2>2, TailPositions DEF OnMessage
    <3>2. /\ Len(g_msg_q') = Len(g_msg_q) + 1
          /\ \A i \in 1..Len(g_msg_q) : g_msg_q'[i] = g_msg_q[i]
          /\ g_msg_q'[Len(g_msg_q) + 1] = Head(tcp)
      BY <1>2, <2>2, <3>1, AppendPositions
    <3> QED
      BY <1>5, <3>1, <3>2
  <2> QED
    BY <2>1, <2>2 DEF OnMessage, OnUnframed, micVars
<1>8. Len(g_msg_q') \in Nat
  <2>1. CASE g_msg_q' = g_msg_q
    BY <1>5, <2>1
  <2>2. CASE OnMessage /\ g_msg_q' = Append(g_msg_q, Head(tcp))
    <3>1. Head(tcp) \in Message
      BY <1>2, <2>2, TailPositions DEF OnMessage
    <3> QED
      BY <1>2, <2>2, <3>1, AppendPositions
  <2> QED
    BY <2>1, <2>2 DEF OnMessage, OnUnframed, micVars
<1>9. \A n : AllAfter(n, tcp) => AllAfter(n, tcp') /\ Before(n, tcp[1].seqnum)
  BY <1>5, <1>6 DEF AllAfter
<1>10. \A n : AllAfter(n, g_msg_q) /\ AllAfter(n, tcp) => AllAfter(n, g_msg_q')
  BY <1>7, <1>9 DEF AllAfter
<1>11. k # 0 => AllAfter(tcp[1].seqnum, tcp') /\ Before(tcp[1].seqnum, Unread)
  <2>1. Ascending(tcp) /\ Before(tcp[1].seqnum, Unread)
    BY <1>5 DEF SampleOrder
  <2>2. k # 0 => \A i \in 1..Len(tcp') : Before(tcp[1].seqnum, tcp[i + k].seqnum)
    BY <1>4, <1>5, <1>6, <2>1 DEF Ascending
  <2> QED
    BY <1>6, <2>1, <2>2 DEF AllAfter
<1>12. Ascending(tcp')
  <2>1. ASSUME NEW i \in 1..Len(tcp'), NEW j \in 1..Len(tcp'), i < j
        PROVE  Before(tcp[i + k].seqnum, tcp[j + k].seqnum)
    BY <1>4, <1>6, <2>1 DEF SampleOrder, Ascending
  <2> QED
    BY <1>6, <2>1 DEF Ascending
<1>13. Ascending(g_msg_q')
  <2>1. ASSUME NEW i \in 1..Len(g_msg_q'), NEW j \in 1..Len(g_msg_q'), i < j
        PROVE  Before(g_msg_q'[i].seqnum, g_msg_q'[j].seqnum)
    <3>1. i \in 1..Len(g_msg_q) /\ g_msg_q'[i] = g_msg_q[i]
      BY <1>5, <1>7, <1>8, <2>1
    <3>2. CASE j \in 1..Len(g_msg_q) /\ g_msg_q'[j] = g_msg_q[j]
      BY <2>1, <3>1, <3>2 DEF SampleOrder, Ascending
    <3>3. CASE g_msg_q'[j] = tcp[1]
      BY <1>9, <3>1, <3>3 DEF SampleOrder
    <3> QED
      BY <1>7, <3>2, <3>3
  <2> QED
    BY <2>1 DEF Ascending
<1>14. \A i \in 1..Len(g_msg_q') : /\ AllAfter(g_msg_q'[i].seqnum, tcp')
                                   /\ Before(g_msg_q'[i].seqnum, Unread)
  <2>1. CASE k = 0
    BY <1>4, <1>9, <2>1 DEF SampleOrder
  <2>2. CASE k # 0
    BY <1>7, <1>9, <1>11, <2>2 DEF SampleOrder
  <2> QED
    BY <2>1, <2>2
<1>15. \A n : Older(n) => Before(n, Unread) /\ AllAfter(n, g_msg_q') /\ AllAfter(n, tcp')
  BY <1>9, <1>10 DEF Older
<1>16. \A i \in 1..Len(tcp') : Before(tcp'[i].seqnum, Unread)
  BY <1>6 DEF SampleOrder
<1> QED
  BY <1>1, <1>12, <1>13, <1>14, <1>15, <1>16
  DEF SampleOrder, TopicOrder, Older, Fresh, Ascending, AllAfter, Before

-----------------------------------------------------------------------------
(* The marks are inductive, because the order is.                           *)

\* The steps of the Sensor task and of its peripheral that take no message.
LEMMA MarksOfTaskSteps ==
    ASSUME ContactMarks,
           \/ wss_init \/ TickWakes \/ ReadStatus \/ ReadSeqnum
           \/ ReadWheelSpeed \/ Posts
    PROVE  ContactMarks'
<1>1. UNCHANGED <<bump_detected, h_contact, Unread, tcp, g_msg_q, reg>>
  BY DEF wss_init, TickWakes, ReadStatus, ReadSeqnum, ReadWheelSpeed, Posts,
         hostVars, relayVars, linkVars, wssVars, Unread
<1>2. "BUMP" \in status' <=> "BUMP" \in status
  BY DEF wss_init, TickWakes, ReadStatus, ReadSeqnum, ReadWheelSpeed, Posts, wssVars
<1>3. Fresh' => /\ Fresh
                /\ \/ UNCHANGED sensor_status /\ sensor_pc # "status"
                   \/ sensor_status' = status
  BY DEF Fresh, wss_init, TickWakes, ReadStatus, ReadSeqnum, ReadWheelSpeed, Posts,
         wssVars, localVars
<1> QED
  BY <1>1, <1>2, <1>3 DEF ContactMarks, Contacted, Marked

\* The numbers that the latch is compared with.
LEMMA ContactTypes ==
    ASSUME ImuTypeOK, ImuTypeOK'
    PROVE  Unread \in Int /\ Unread' \in Int /\ h_contact \in Int
<1>1. Unread \in 0..SEQ_MAX /\ Unread' \in 0..SEQ_MAX
  BY UnreadType, UnreadTypeNext
<1>2. h_contact \in -1..SEQ_MAX
  BY DEF ImuTypeOK
<1> QED
  BY <1>1, <1>2, ImuAssumption

\* The first contact is marked with the number of the oldest sample that waits,
\* which is newer than all that were written.
LEMMA MarksOfContact ==
    ASSUME ImuTypeOK, SampleOrder, ContactMarks, contact_msg_cb
    PROVE  ContactMarks'
<1>1. /\ UNCHANGED <<Unread, tcp, g_msg_q, reg, status, sensor_pc, sensor_status>>
      /\ bump_detected'
      /\ h_contact' = IF h_contact = -1 THEN Unread ELSE h_contact
  BY DEF contact_msg_cb, linkVars, micVars, wssVars, taskVars, localVars, Unread
<1>2. /\ Unread \in Int /\ Unread # -1 /\ SEQ_MAX \in Int
      /\ \A i \in 1..Len(tcp) : tcp[i].seqnum \in Int
      /\ \A i \in 1..Len(g_msg_q) : g_msg_q[i].seqnum \in Int
      /\ reg.seqnum \in Int
  <2>1. Unread \in 0..SEQ_MAX
    BY UnreadType
  <2> QED
    BY <2>1, NumberTypes, ImuAssumption
<1>3. CASE h_contact # -1
  BY <1>1, <1>3 DEF ContactMarks, Contacted, Marked, Fresh
<1>4. CASE h_contact = -1
  <2>1. h_contact' = Unread
    BY <1>1, <1>4
  <2>2. \A n \in Int : Before(n, Unread) /\ n < SEQ_MAX => ~(Unread <= n)
    BY <1>2 DEF Before
  <2>3. \A i \in 1..Len(tcp) : Marked(tcp[i]) /\ Before(tcp[i].seqnum, Unread)
    BY DEF ContactMarks, SampleOrder
  <2>4. \A i \in 1..Len(g_msg_q) : Marked(g_msg_q[i]) /\ Before(g_msg_q[i].seqnum, Unread)
    BY DEF ContactMarks, SampleOrder
  <2>5. Fresh => Before(reg.seqnum, Unread)
    BY DEF SampleOrder, Older
  <2>6. \A i \in 1..Len(tcp') : Marked(tcp[i])'
    BY <1>1, <1>2, <1>4, <2>1, <2>2, <2>3 DEF Marked, Contacted
  <2>7. \A i \in 1..Len(g_msg_q') : Marked(g_msg_q[i])'
    BY <1>1, <1>2, <1>4, <2>1, <2>2, <2>4 DEF Marked, Contacted
  <2>8. "BUMP" \notin status'
    BY <1>1, <1>4 DEF ContactMarks
  <2>9. Fresh' /\ reg'.seqnum < SEQ_MAX =>
          /\ Fresh /\ reg.seqnum < SEQ_MAX
          /\ ~Contacted(reg.seqnum) /\ ~Contacted(reg.seqnum)'
    BY <1>1, <1>2, <1>4, <2>1, <2>2, <2>5 DEF Fresh, Contacted
  <2>10. bump_detected' <=> h_contact' # -1
    BY <1>1, <1>2, <2>1
  <2>11. h_contact' <= Unread'
    BY <1>1, <1>2, <2>1
  <2>12. Fresh /\ reg.seqnum < SEQ_MAX /\ sensor_pc # "status" /\ ~Contacted(reg.seqnum)
            => "BUMP" \notin sensor_status
    BY DEF ContactMarks
  <2>13. Fresh' /\ reg'.seqnum < SEQ_MAX =>
          /\ "BUMP" \in status' <=> Contacted(reg.seqnum)'
          /\ sensor_pc' # "status" =>
                ("BUMP" \in sensor_status' <=> Contacted(reg.seqnum)')
    BY <1>1, <2>8, <2>9, <2>12
  <2> QED
    BY <2>6, <2>7, <2>8, <2>10, <2>11, <2>13 DEF ContactMarks
<1> QED
  BY <1>3, <1>4

\* While samples only wait or are skipped, no mark changes.
LEMMA MarksOfTopic ==
    ASSUME ImuTypeOK, ImuTypeOK', ContactMarks,
           Unread' = Unread \/ Before(Unread, Unread'),
           UNCHANGED <<bump_detected, h_contact, tcp, g_msg_q, reg, status,
                       sensor_pc, sensor_status>>
    PROVE  ContactMarks'
<1>1. Unread \in Int /\ Unread' \in Int /\ h_contact \in Int
  BY ContactTypes
<1>2. Unread <= Unread'
  BY UnreadTypeNext, UnreadMoves
<1>3. h_contact' <= Unread'
  BY <1>1, <1>2 DEF ContactMarks
<1> QED
  BY <1>3 DEF ContactMarks, Contacted, Marked, Fresh

\* A sample is marked as the latch is.
LEMMA MarksOfMessage ==
    ASSUME ImuTypeOK, ImuTypeOK', SampleOrder, ContactMarks, msg_cb
    PROVE  ContactMarks'
<1>1. /\ UNCHANGED <<bump_detected, h_contact, g_msg_q, reg, status, sensor_pc,
                     sensor_status, seq>>
      /\ imu_topic # <<>> /\ imu_topic' = Tail(imu_topic)
      /\ tcp' = Append(tcp, Written)
  BY DEF msg_cb, Callback, micVars, wssVars, taskVars, localVars, Written
<1>2. Written \in Message /\ Written.seqnum = Unread /\ Written.bump = bump_detected
  BY <1>1, WrittenIsMessage
<1>3. h_contact <= Unread /\ (bump_detected <=> h_contact # -1)
  BY DEF ContactMarks
<1>4. Marked(Written)
  BY <1>2, <1>3 DEF Marked, Contacted
<1>5. \A i \in 1..Len(tcp') : \/ i \in 1..Len(tcp) /\ tcp'[i] = tcp[i]
                              \/ tcp'[i] = Written
  <2>1. tcp \in Seq(Message)
    BY DEF ImuTypeOK
  <2>2. /\ Len(tcp') = Len(tcp) + 1
        /\ \A i \in 1..Len(tcp) : tcp'[i] = tcp[i]
        /\ tcp'[Len(tcp) + 1] = Written
    BY <1>1, <1>2, <2>1, AppendPositions
  <2> QED
    BY <2>1, <2>2
<1>6. h_contact' <= Unread'
  <2>1. Before(Unread, Unread')
    BY <1>1, TopicOfCallback DEF SampleOrder
  <2>2. Unread <= Unread'
    BY <2>1, UnreadTypeNext, UnreadMoves
  <2>3. Unread \in Int /\ Unread' \in Int /\ h_contact \in Int
    BY ContactTypes
  <2>4. h_contact' = h_contact
    BY <1>1
  <2> QED
    BY <1>3, <2>2, <2>3, <2>4
<1>7. \A i \in 1..Len(tcp') : Marked(tcp'[i])
  BY <1>4, <1>5 DEF ContactMarks
<1>8. \A i \in 1..Len(tcp') : Marked(tcp[i])'
  BY <1>1, <1>7 DEF Marked, Contacted
<1>9. "BUMP" \in status' => \A i \in 1..Len(tcp') : h_contact' <= tcp'[i].seqnum
  BY <1>1, <1>2, <1>3, <1>5 DEF ContactMarks
<1> QED
  BY <1>1, <1>6, <1>8, <1>9 DEF ContactMarks, Marked, Contacted, Fresh

\* The receive thread moves messages or drops them, and marks none.
LEMMA MarksOfReceiver ==
    ASSUME ImuTypeOK, ContactMarks, OnMessage \/ OnUnframed
    PROVE  ContactMarks'
<1>1. UNCHANGED <<bump_detected, h_contact, Unread, reg, status, sensor_pc, sensor_status>>
  BY DEF OnMessage, OnUnframed, micVars, relayVars, wssVars, taskVars, localVars,
         Unread
<1>2. tcp \in Seq(Message) /\ g_msg_q \in Seq(Message)
  BY DEF ImuTypeOK
<1>3. \A i \in 1..Len(tcp') : \E j \in 1..Len(tcp) : tcp'[i] = tcp[j]
  <2>1. CASE OnMessage
    <3>1. tcp # <<>> /\ tcp' = Tail(tcp)
      BY <2>1 DEF OnMessage
    <3>2. /\ Len(tcp) \in Nat \ {0} /\ Len(tcp') = Len(tcp) - 1
          /\ \A i \in 1..Len(tcp') : tcp'[i] = tcp[i + 1]
      BY <1>2, <3>1, TailPositions
    <3>3. \A i \in 1..Len(tcp') : i + 1 \in 1..Len(tcp)
      BY <3>2
    <3> QED
      BY <3>2, <3>3
  <2>2. CASE OnUnframed
    <3>1. PICK n \in 0..Len(tcp) : tcp' = SubSeq(tcp, n + 1, Len(tcp))
      BY <2>2 DEF OnUnframed
    <3>2. n \in 0..Len(tcp) /\ Len(tcp) \in Nat
      BY <1>2
    <3>3. /\ Len(tcp') = Len(tcp) - n
          /\ \A i \in 1..(Len(tcp) - n) : tcp'[i] = tcp[i + n]
      BY <1>2, <3>1, <3>2, RestPositions
    <3>4. \A i \in 1..Len(tcp') : i + n \in 1..Len(tcp)
      BY <3>2, <3>3
    <3> QED
      BY <3>3, <3>4
  <2> QED
    BY <2>1, <2>2
<1>4. \A i \in 1..Len(g_msg_q') :
        \/ \E j \in 1..Len(g_msg_q) : g_msg_q'[i] = g_msg_q[j]
        \/ \E j \in 1..Len(tcp) : g_msg_q'[i] = tcp[j]
  <2>1. CASE g_msg_q' = g_msg_q
    BY <2>1
  <2>2. CASE OnMessage /\ g_msg_q' = Append(g_msg_q, Head(tcp))
    <3>1. Head(tcp) = tcp[1] /\ Head(tcp) \in Message /\ Len(tcp) \in Nat \ {0}
      BY <1>2, <2>2, TailPositions DEF OnMessage
    <3>2. /\ Len(g_msg_q') = Len(g_msg_q) + 1
          /\ \A i \in 1..Len(g_msg_q) : g_msg_q'[i] = g_msg_q[i]
          /\ g_msg_q'[Len(g_msg_q) + 1] = Head(tcp)
      BY <1>2, <2>2, <3>1, AppendPositions
    <3>3. 1 \in 1..Len(tcp) /\ Len(g_msg_q) \in Nat
      BY <1>2, <3>1
    <3> QED
      BY <3>1, <3>2, <3>3
  <2> QED
    BY <2>1, <2>2 DEF OnMessage, OnUnframed, micVars
<1>5. /\ \A i \in 1..Len(tcp') : Marked(tcp'[i])
      /\ \A i \in 1..Len(g_msg_q') : Marked(g_msg_q'[i])
  BY <1>3, <1>4 DEF ContactMarks
<1>6. /\ \A i \in 1..Len(tcp') : Marked(tcp[i])'
      /\ \A i \in 1..Len(g_msg_q') : Marked(g_msg_q[i])'
  BY <1>1, <1>5 DEF Marked, Contacted
<1>7. "BUMP" \in status =>
          /\ \A i \in 1..Len(tcp') : h_contact <= tcp'[i].seqnum
          /\ \A i \in 1..Len(g_msg_q') : h_contact <= g_msg_q'[i].seqnum
  BY <1>3, <1>4 DEF ContactMarks
<1> QED
  BY <1>1, <1>6, <1>7 DEF ContactMarks, Contacted, Fresh

\* The sticky bit is set by a sample that is not older than the contact, and
\* everything behind that sample is newer still.
LEMMA MarksOfRequest ==
    ASSUME ImuTypeOK, SampleOrder, ContactMarks, RequestMeasurement
    PROVE  ContactMarks'
<1>1. /\ sensor_pc = "request" /\ sensor_pc' = "status"
      /\ UNCHANGED <<bump_detected, h_contact, Unread, tcp>>
  BY DEF RequestMeasurement, hostVars, relayVars, linkVars, Unread
<1>2. CASE g_msg_q = <<>>
  <2>1. UNCHANGED <<g_msg_q, reg, status>> /\ ~Fresh'
    BY <1>1, <1>2 DEF RequestMeasurement, SampleOrder, Fresh
  <2> QED
    BY <1>1, <2>1 DEF ContactMarks, Contacted, Marked
<1>3. CASE g_msg_q # <<>>
  <2> DEFINE msg == g_msg_q[1]
  <2>1. /\ Len(g_msg_q) \in Nat \ {0}
        /\ Head(g_msg_q) = msg
        /\ Head(g_msg_q) \in Message
        /\ Len(Tail(g_msg_q)) = Len(g_msg_q) - 1
        /\ \A i \in 1..Len(Tail(g_msg_q)) : Tail(g_msg_q)[i] = g_msg_q[i + 1]
    BY <1>3, TailPositions DEF ImuTypeOK
  <2>2. g_msg_q' = Tail(g_msg_q) /\ reg'.seqnum = msg.seqnum
        /\ status' = status \cup Shows(msg)
    BY <1>3, <2>1 DEF RequestMeasurement
  <2>3. \A i \in 1..Len(g_msg_q') : /\ g_msg_q'[i] = g_msg_q[i + 1]
                                    /\ i + 1 \in 1..Len(g_msg_q)
                                    /\ 1 < i + 1
    BY <2>1, <2>2
  <2>4. 1 \in 1..Len(g_msg_q)
    BY <2>1
  <2>5. msg.seqnum \in 0..SEQ_MAX /\ msg.bump \in BOOLEAN
    BY <2>1 DEF Message
  <2>6. h_contact \in Int /\ h_contact <= SEQ_MAX
    BY ImuAssumption DEF ImuTypeOK
  <2>7. /\ \A i \in 1..Len(tcp) : tcp[i].seqnum \in Int
        /\ \A i \in 1..Len(g_msg_q) : g_msg_q[i].seqnum \in Int
    BY NumberTypes
  <2>8. Marked(msg)
    BY <2>4 DEF ContactMarks
  <2>9. /\ \A i \in 1..Len(tcp) : Before(msg.seqnum, tcp[i].seqnum)
        /\ \A i \in 1..Len(g_msg_q') : Before(msg.seqnum, g_msg_q'[i].seqnum)
    <3>1. Ascending(g_msg_q) /\ AllAfter(msg.seqnum, tcp)
      BY <2>4 DEF SampleOrder
    <3>2. \A i \in 1..Len(g_msg_q') : Before(msg.seqnum, g_msg_q[i + 1].seqnum)
      BY <2>3, <2>4, <3>1 DEF Ascending
    <3> QED
      BY <2>3, <3>1, <3>2 DEF AllAfter
  <2>10. \A i \in 1..Len(g_msg_q') : g_msg_q'[i].seqnum \in Int /\ Marked(g_msg_q'[i])
    BY <2>3, <2>7 DEF ContactMarks
  <2>11. "BUMP" \in status' <=> "BUMP" \in status \/ msg.bump
    BY <2>2 DEF Shows
  <2>12. "BUMP" \in status => Contacted(msg.seqnum)
    BY <2>4 DEF ContactMarks, Contacted
  <2> HIDE DEF msg
  <2>13. msg.bump => /\ h_contact # -1
                     /\ \A n \in Int : Before(msg.seqnum, n) => h_contact <= n
    <3>1. CASE msg.seqnum < SEQ_MAX
      BY <2>5, <2>6, <2>8, <3>1, ImuAssumption DEF Marked, Contacted, Before
    <3>2. CASE msg.seqnum = SEQ_MAX
      BY <2>6, <2>8, <3>2, ImuAssumption DEF Marked, Before
    <3> QED
      BY <2>5, <3>1, <3>2, ImuAssumption
  <2>14. "BUMP" \in status' =>
            /\ h_contact # -1
            /\ \A i \in 1..Len(tcp) : h_contact <= tcp[i].seqnum
            /\ \A i \in 1..Len(g_msg_q') : h_contact <= g_msg_q'[i].seqnum
    <3>1. CASE msg.bump
      BY <2>7, <2>9, <2>10, <2>13, <3>1
    <3>2. CASE "BUMP" \in status
      BY <2>3, <3>2 DEF ContactMarks
    <3> QED
      BY <2>11, <3>1, <3>2
  <2>15. msg.seqnum < SEQ_MAX => ("BUMP" \in status' <=> Contacted(msg.seqnum))
    BY <2>8, <2>11, <2>12 DEF Marked
  <2>16. reg'.seqnum < SEQ_MAX => ("BUMP" \in status' <=> Contacted(reg.seqnum)')
    BY <1>1, <2>2, <2>15 DEF Contacted
  <2>17. \A i \in 1..Len(g_msg_q') : Marked(g_msg_q[i])'
    BY <1>1, <2>10 DEF Marked, Contacted
  <2>18. \A i \in 1..Len(tcp') : Marked(tcp[i])'
    BY <1>1 DEF ContactMarks, Marked, Contacted
  <2> QED
    BY <1>1, <2>14, <2>16, <2>17, <2>18 DEF ContactMarks
<1> QED
  BY <1>2, <1>3

-----------------------------------------------------------------------------
(* The invariant.                                                           *)

\* Between the reads nothing changes the registers, and the cast undoes the
\* clamped conversion.
LEMMA ReadingStep ==
    ASSUME ImuTypeOK, ReadingKept, [ImuNext]_imuVars
    PROVE  ReadingKept'
<1> USE DEF ReadingKept, ReadingIsOneSample
<1>1. CASE ReadSeqnum
  BY <1>1 DEF ReadSeqnum, wssVars
<1>2. CASE ReadWheelSpeed
  <2>1. reg.speed \in Int
    <3>1. reg.speed \in Speed \cup {0}
      BY DEF ImuTypeOK
    <3>2. CASE reg.speed = 0
      BY <3>2
    <3>3. CASE reg.speed \in Speed
      BY <3>3, Zenon, ImuAssumption
    <3> QED
      BY <3>1, <3>2, <3>3
  <2>2. wheel_speed' = Clamped(reg.speed)
    BY <1>2, <2>1, RegisterRoundTrip DEF ReadWheelSpeed
  <2>3. sensor_pc' = "send" /\ UNCHANGED <<reg, sensor_seqnum>>
    BY <1>2 DEF ReadWheelSpeed, wssVars
  <2>4. sensor_seqnum = reg.seqnum
    BY <1>2 DEF ReadWheelSpeed
  <2> QED
    BY <2>2, <2>3, <2>4 DEF Clamped
<1>3. CASE wss_init \/ TickWakes \/ RequestMeasurement \/ ReadStatus \/ Posts
  BY <1>3 DEF wss_init, TickWakes, RequestMeasurement, ReadStatus, Posts
<1>4. CASE UNCHANGED <<sensor_pc, reg, sensor_seqnum, wheel_speed>>
  BY <1>4 DEF Clamped
<1>5. CASE \/ Configure \/ contact_msg_cb \/ (\E speed \in Speed : ImuSample(speed))
           \/ Connect \/ ConnectFails \/ msg_cb \/ WriteFails
           \/ RelayDestroyed \/ Receiver
  BY <1>4, <1>5
  DEF Configure, contact_msg_cb, ImuSample, Connect, ConnectFails, msg_cb, WriteFails,
      RelayDestroyed, Receiver, AcceptClient, OnMessage, OnUnframed, OnClose, micVars, wssVars, taskVars, localVars
<1> QED
  BY <1>1, <1>2, <1>3, <1>4, <1>5
  DEF ImuNext, SensorTask, imuVars, micVars, wssVars, taskVars, localVars

\* The invariant holds while nothing was sampled,
LEMMA ImuInvariantInit == ImuInit => ImuIInv
<1> SUFFICES ASSUME ImuInit PROVE ImuIInv
  OBVIOUS
<1> USE ImuAssumption DEF ImuInit
<1>1. ImuTypeOK
  <2>1. tcp \in Seq(Message) /\ Len(tcp) <= TCP_MAX
    OBVIOUS
  <2>7. imu_topic \in Seq(Sample) /\ Len(imu_topic) <= TOPIC_MAX
    OBVIOUS
  <2>2. g_msg_q \in Seq(Message) /\ Len(g_msg_q) <= MSG_Q_MAX
    OBVIOUS
  <2>3. reg \in [seqnum : 0..SEQ_MAX, speed : Speed \cup {0}]
    OBVIOUS
  <2>4. h_last \in -1..SEQ_MAX /\ h_contact \in -1..SEQ_MAX
    OBVIOUS
  <2>5. wheel_speed \in -SPEED_MAX..SPEED_MAX
    OBVIOUS
  <2>6. seq \in 0..SEQ_MAX /\ sensor_seqnum \in 0..SEQ_MAX
    OBVIOUS
  <2> QED
    BY <2>1, <2>2, <2>3, <2>4, <2>5, <2>6, <2>7 DEF ImuTypeOK
<1>2. SampleOrder
  BY DEF SampleOrder, TopicOrder, Ascending, AllAfter, Older, Before, Fresh, Unread
<1>3. ContactMarks
  BY DEF ContactMarks, Fresh, Unread
<1>4. ReadingKept
  BY DEF ReadingKept, ReadingIsOneSample
<1> QED
  BY <1>1, <1>2, <1>3, <1>4 DEF ImuIInv

\* and every step of the plugin, a thread or the task preserves it.
LEMMA ImuInvariantStep == ImuIInv /\ [ImuNext]_imuVars => ImuIInv'
<1> SUFFICES ASSUME ImuIInv, [ImuNext]_imuVars PROVE ImuIInv'
  OBVIOUS
<1>1. ImuTypeOK /\ SampleOrder /\ ContactMarks /\ ReadingKept
  BY DEF ImuIInv
<1>2. ImuTypeOK' /\ ReadingKept'
  BY <1>1, TypeStep, ReadingStep
<1>3. SampleOrder' /\ ContactMarks'
  <2>1. CASE contact_msg_cb
    <3>1. UNCHANGED <<imu_topic, seq, Unread, tcp, g_msg_q, h_last, reg, status, sensor_pc>>
      BY <2>1
      DEF contact_msg_cb, linkVars, micVars, wssVars, taskVars, localVars, Unread
    <3>2. SampleOrder'
      BY <1>1, <3>1 DEF SampleOrder, TopicOrder, Ascending, AllAfter, Older, Before, Fresh
    <3> QED
      BY <1>1, <2>1, <3>2, MarksOfContact
  <2>2. CASE msg_cb
    BY <1>1, <1>2, <2>2, OrderOfMessage, MarksOfMessage
  <2>7. CASE (\E speed \in Speed : ImuSample(speed)) \/ ConnectFails \/ WriteFails
    <3>1. UNCHANGED <<tcp, g_msg_q, h_last, reg, status, sensor_pc, bump_detected,
                      h_contact, sensor_status>>
      BY <2>7
      DEF ImuSample, ConnectFails, WriteFails, linkVars, micVars, wssVars, taskVars,
          localVars
    <3>2. TopicOrder' /\ (Unread' = Unread \/ Before(Unread, Unread'))
      <4>1. TopicOrder
        BY <1>1 DEF SampleOrder
      <4>2. CASE \E speed \in Speed : ImuSample(speed)
        BY <1>1, <4>1, <4>2, TopicOfSample
      <4>3. CASE ConnectFails \/ WriteFails
        <5>1. imu_topic # <<>> /\ imu_topic' = Tail(imu_topic) /\ seq' = seq
          BY <4>3 DEF ConnectFails, WriteFails, Callback
        <5> QED
          BY <1>1, <4>1, <5>1, TopicOfCallback
      <4> QED
        BY <2>7, <4>2, <4>3
    <3> QED
      BY <1>1, <1>2, <3>1, <3>2, OrderOfTopic, MarksOfTopic
  <2>3. CASE OnMessage \/ OnUnframed
    BY <1>1, <2>3, OrderOfReceiver, MarksOfReceiver
  <2>4. CASE RequestMeasurement
    BY <1>1, <2>4, OrderOfRequest, MarksOfRequest
  <2>5. CASE \/ wss_init \/ TickWakes \/ ReadStatus \/ ReadSeqnum
             \/ ReadWheelSpeed \/ Posts
    BY <1>1, <2>5, OrderOfTaskSteps, MarksOfTaskSteps
  <2>6. CASE Configure \/ Connect \/ RelayDestroyed \/ AcceptClient \/ OnClose
             \/ UNCHANGED imuVars
    <3>1. UNCHANGED <<imu_topic, seq, Unread, tcp, g_msg_q, h_last, reg, status,
                      sensor_pc, bump_detected, h_contact, sensor_status>>
      BY <2>6
      DEF Configure, Connect, RelayDestroyed, AcceptClient, OnClose, imuVars, hostVars,
          relayVars, linkVars, micVars, wssVars, taskVars, localVars, Unread
    <3>2. SampleOrder'
      BY <1>1, <3>1 DEF SampleOrder, TopicOrder, Ascending, AllAfter, Older, Before, Fresh
    <3>3. ContactMarks'
      BY <1>1, <3>1 DEF ContactMarks, Contacted, Marked, Fresh
    <3> QED
      BY <3>2, <3>3
  <2> QED
    BY <2>1, <2>2, <2>3, <2>4, <2>5, <2>6, <2>7 DEF ImuNext, Receiver, SensorTask
<1> QED
  BY <1>2, <1>3 DEF ImuIInv

\* Every reachable state satisfies the inductive invariant.
LEMMA ImuInvariance == ImuSpec => []ImuIInv
  BY ImuInvariantInit, ImuInvariantStep, PTL DEF ImuSpec

\* The plugin, the connection, the peripheral and the task keep their types.
THEOREM ImuTypeCorrect == ImuSpec => []ImuTypeOK
<1>1. ImuIInv => ImuTypeOK
  BY DEF ImuIInv
<1> QED
  BY <1>1, ImuInvariance, PTL

\* ReadSeqnum and ReadWheelSpeed, two steps apart, read one sample, and the
\* speed survives wheel_speed_to_reg_val and the firmware's cast.
THEOREM OneSampleRead == ImuSpec => []ReadingIsOneSample
<1>1. ImuIInv => ReadingIsOneSample
  BY DEF ImuIInv, ReadingKept
<1> QED
  BY <1>1, ImuInvariance, PTL

\* Numbers are traced in ascending order, each once, whatever g_msg_q dropped.
THEOREM MeasuredInOrder == ImuSpec => SamplesInOrder
<1>1. ImuIInv /\ [ImuNext]_imuVars
        => [ReadWheelSpeed => (h_last < sensor_seqnum \/ sensor_seqnum = SEQ_MAX)]_imuVars
  <2> SUFFICES ASSUME ImuIInv, ReadWheelSpeed
               PROVE  h_last < sensor_seqnum \/ sensor_seqnum = SEQ_MAX
    OBVIOUS
  <2>1. sensor_pc = "speed"
    BY DEF ReadWheelSpeed
  <2>2. sensor_seqnum = reg.seqnum /\ Before(h_last, reg.seqnum)
    BY <2>1 DEF ImuIInv, ReadingKept, SampleOrder, Fresh
  <2> QED
    BY <2>2 DEF Before
<1> QED
  BY <1>1, ImuInvariance, PTL DEF ImuSpec, SamplesInOrder

\* bump_detected is traced with the first sample whose callback ran after the
\* contact and with every later one, and with no earlier one.
THEOREM ContactSeenInTime == ImuSpec => BumpMarksContact
<1>1. ImuIInv /\ [ImuNext]_imuVars
        => [ReadWheelSpeed /\ sensor_seqnum < SEQ_MAX =>
              ("BUMP" \in sensor_status
                  <=> h_contact # -1 /\ h_contact <= sensor_seqnum)]_imuVars
  <2> SUFFICES ASSUME ImuIInv, ReadWheelSpeed, sensor_seqnum < SEQ_MAX
               PROVE  "BUMP" \in sensor_status
                         <=> h_contact # -1 /\ h_contact <= sensor_seqnum
    OBVIOUS
  <2>1. sensor_pc = "speed"
    BY DEF ReadWheelSpeed
  <2>2. sensor_seqnum = reg.seqnum
    BY <2>1 DEF ImuIInv, ReadingKept
  <2>3. "BUMP" \in sensor_status <=> Contacted(reg.seqnum)
    BY <2>1, <2>2 DEF ImuIInv, ContactMarks, Fresh
  <2> QED
    BY <2>2, <2>3 DEF Contacted
<1> QED
  BY <1>1, ImuInvariance, PTL DEF ImuSpec, BumpMarksContact

-----------------------------------------------------------------------------
(* The task among its peers is the one of Firmware.tla.                     *)

\* The steps of the plugin and the threads are stutters of the task, and so are
\* the steps in which it has neither measured nor given up.
LEMMA SensorStep ==
    ImuTypeOK /\ [ImuNext]_imuVars
        => [Sensor!SensorNext(-SPEED_MAX..SPEED_MAX)]_(Sensor!sensorVars)
<1> SUFFICES ASSUME ImuTypeOK, [ImuNext]_imuVars
             PROVE  Sensor!SensorNext(-SPEED_MAX..SPEED_MAX) \/ UNCHANGED Sensor!sensorVars
  OBVIOUS
<1>1. CASE TickWakes
  BY <1>1
  DEF TickWakes, localVars, Sensor!SensorNext, Sensor!SensorWakes
<1>2. CASE ReadStatus
  BY <1>2
  DEF ReadStatus, Sensor!SensorNext, Sensor!SensorHasNoMeasurement, Sensor!sensorVars
<1>3. CASE ReadWheelSpeed
  <2>1. wheel_speed' \in -SPEED_MAX..SPEED_MAX
    BY TypeStep DEF ImuTypeOK
  <2>2. Sensor!SensorMeasures(wheel_speed')
    BY <1>3 DEF ReadWheelSpeed, Sensor!SensorMeasures
  <2> QED
    BY <2>1, <2>2 DEF Sensor!SensorNext
<1>4. CASE Posts
  BY <1>4 DEF Posts, localVars, Sensor!SensorNext, Sensor!SensorPosts
<1>5. CASE wss_init \/ RequestMeasurement \/ ReadSeqnum
  BY <1>5
  DEF wss_init, RequestMeasurement, ReadSeqnum, localVars, Sensor!sensorVars
<1>6. CASE UNCHANGED <<sensor_pc, wheel_speed>>
  BY <1>6 DEF Sensor!sensorVars
<1> QED
  BY <1>1, <1>2, <1>3, <1>4, <1>5, <1>6
  DEF ImuNext, SensorTask, Receiver, Configure, contact_msg_cb, ImuSample, Connect,
      ConnectFails, msg_cb, WriteFails, RelayDestroyed, AcceptClient, OnMessage, OnUnframed, OnClose, imuVars, micVars, wssVars,
      taskVars, localVars

\* The task that polls the registers is, seen from its queue, the Sensor task
\* that Firmware.tla schedules: it posts only what it measured, in range.
THEOREM SensorRefines == ImuSpec => ImplementsSensor
<1>1. ImuInit => Sensor!SensorInit
  BY DEF ImuInit, Sensor!SensorInit
<1> QED
  BY <1>1, SensorStep, ImuTypeCorrect, PTL DEF ImuSpec, ImplementsSensor
=============================================================================
