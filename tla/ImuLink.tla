------------------------------ MODULE ImuLink ------------------------------
(***************************************************************************)
(* How a wheel speed and a contact reach the firmware:                     *)
(*  - the simulator publishes IMU samples, which wait for the callback of  *)
(*    ImuRelay, a Gazebo plugin;                                           *)
(*  - the callback connects first, then writes one JSON message per sample *)
(*    to the TCP connection; another one latches the first contact;        *)
(*  - sensor_models/wss.py, the emulated peripheral, receives them in a    *)
(*    thread, queues them, and shows one at a time in its registers;       *)
(*  - the Sensor task requests a measurement and reads the registers one   *)
(*    by one.                                                              *)
(* TCP delivers bytes: one recv() may return part of a message or more     *)
(* than one; json.loads then raises and the thread ends.                   *)
(*                                                                         *)
(* SIM_TIME comes from the same message as SEQNUM, which stands for both.  *)
(* Speeds are in thousandths of rad/s.  h_... is history.                  *)
(***************************************************************************)
EXTENDS Integers, Sequences

CONSTANTS
    Speed,      \* angular velocities the simulator reports
    SPEED_MAX,  \* the peripheral clamps to +-50000
    REG_MOD,    \* registers are uint32_t: 2^32
    MSG_Q_MAX,  \* slots of g_msg_q: 32
    TCP_MAX,    \* messages the connection holds, one blocked in write() included
    TOPIC_MAX,  \* bound: samples the transport holds for the callback
    SEQ_MAX     \* bound: samples from this number on share it

ASSUME ImuAssumption ==
    /\ Speed \subseteq Int
    /\ SPEED_MAX \in Nat
    /\ REG_MOD \in Nat
    /\ 2 * SPEED_MAX < REG_MOD
    /\ MSG_Q_MAX \in Nat \ {0}
    /\ TCP_MAX \in Nat \ {0}
    /\ TOPIC_MAX \in Nat \ {0}
    /\ SEQ_MAX \in Nat

VARIABLES
    relay,          \* the plugin: "off", "on", "gone"
    bump_detected,  \* its latch
    connected,      \* its flag
    imu_topic,      \* samples published and not yet handled by the callback
    seq,            \* the number of the simulator's next sample
    tcp,            \* messages written and not yet received
    server,         \* the peripheral's listening socket: "off", "listening"
    receiver,       \* its receive thread: "none", "backlog": a connection was
                    \* made, "recv", "dead", "closed"
    g_msg_q,        \* its queue
    reg,            \* simTimeNs and seqNum, and wheelSpeed
    status,         \* its status: the set of bits
    sensor_pc,      \* the Sensor task
    sensor_status,  \* its local copy of STATUS
    sensor_seqnum,  \* and of SEQNUM
    wheel_speed,    \* and of WHEEL_SPEED
    h_contact,      \* the number of the oldest sample whose callback had not
                    \* read the latch at the first contact, or -1
    h_bump,         \* bump_detected was traced
    h_last          \* the last number traced with wheel_speed, or -1

relayVars == <<relay, bump_detected, connected, imu_topic, seq, h_contact>>
threadVars == <<server, receiver>>
wssVars == <<reg, status>>
localVars == <<sensor_status, sensor_seqnum, wheel_speed, h_bump, h_last>>
taskVars == <<sensor_pc, localVars>>
linkVars == <<tcp, threadVars>>
hostVars == <<relayVars, linkVars>>
micVars == <<g_msg_q, wssVars, taskVars>>
imuVars == <<hostVars, micVars>>

ImuInit ==
    /\ relay = "off" /\ bump_detected = FALSE /\ connected = FALSE
    /\ imu_topic = <<>> /\ seq = 0 /\ h_contact = -1
    /\ tcp = <<>>
    /\ server = "off" /\ receiver = "none"
    /\ g_msg_q = <<>>
    /\ reg = [seqnum |-> 0, speed |-> 0] /\ status = {}
    /\ sensor_pc = "init" /\ sensor_status = {} /\ sensor_seqnum = 0
    /\ wheel_speed = 0 /\ h_bump = FALSE /\ h_last = -1

-----------------------------------------------------------------------------
(* The relay in the simulator.                                              *)

Configure ==
    /\ relay = "off"
    /\ relay' = "on"
    /\ UNCHANGED <<bump_detected, connected, imu_topic, seq, h_contact,
                   linkVars, micVars>>

\* The number of the oldest sample whose callback has not read the latch.
Unread == IF imu_topic = <<>> THEN seq ELSE Head(imu_topic).seqnum

\* Mutant: a contact before the connection is forgotten.
contact_msg_cb_IfConnected ==
    /\ relay = "on"
    /\ bump_detected' = (bump_detected \/ connected)
    /\ h_contact' = IF h_contact = -1 THEN Unread ELSE h_contact
    /\ UNCHANGED <<relay, connected, imu_topic, seq, linkVars, micVars>>

\* It runs in a thread of its own, at any point of the other callback.
contact_msg_cb ==
    /\ relay = "on"
    /\ bump_detected' = TRUE
    /\ h_contact' = IF h_contact = -1 THEN Unread ELSE h_contact
    /\ UNCHANGED <<relay, connected, imu_topic, seq, linkVars, micVars>>

NextSeq == IF seq < SEQ_MAX THEN seq + 1 ELSE seq

\* The simulator publishes; a sample that the transport cannot hold is lost.
ImuSample(speed) ==
    /\ relay = "on"
    /\ imu_topic' = IF Len(imu_topic) < TOPIC_MAX
                    THEN Append(imu_topic, [seqnum |-> seq, speed |-> speed])
                    ELSE imu_topic
    /\ seq' = NextSeq
    /\ UNCHANGED <<relay, bump_detected, connected, h_contact, linkVars, micVars>>

\* msg_cb runs for the oldest sample.
Callback == relay = "on" /\ imu_topic # <<>>

\* connect() succeeds; it may have blocked, and the sample has grown old.
Connect ==
    /\ Callback
    /\ ~connected
    /\ server = "listening"
    /\ connected' = TRUE
    /\ receiver' = "backlog"
    /\ UNCHANGED <<relay, bump_detected, imu_topic, seq, h_contact, tcp, server,
                   micVars>>

\* Nobody listens: the sample is skipped.
ConnectFails ==
    /\ Callback
    /\ ~connected
    /\ server = "off"
    /\ imu_topic' = Tail(imu_topic)
    /\ UNCHANGED <<relay, bump_detected, connected, seq, h_contact, linkVars, micVars>>

\* The rest of the callback: it reads the latch, encodes the message and writes
\* it.  The next sample waits while write() blocks on a full connection.
msg_cb ==
    /\ Callback
    /\ connected
    /\ Len(tcp) < TCP_MAX
    /\ imu_topic' = Tail(imu_topic)
    /\ tcp' = Append(tcp, [seqnum |-> Head(imu_topic).seqnum, bump |-> bump_detected,
                           speed |-> Head(imu_topic).speed])
    /\ UNCHANGED <<relay, bump_detected, connected, seq, h_contact, threadVars,
                   micVars>>

\* write() returns -1: the error is logged and the message is lost.
WriteFails ==
    /\ Callback
    /\ connected
    /\ imu_topic' = Tail(imu_topic)
    /\ UNCHANGED <<relay, bump_detected, connected, seq, h_contact, linkVars, micVars>>

\* ~ImuRelay closes the connection.
RelayDestroyed ==
    /\ relay = "on"
    /\ relay' = "gone"
    /\ connected' = FALSE
    /\ UNCHANGED <<bump_detected, imu_topic, seq, h_contact, linkVars, micVars>>

-----------------------------------------------------------------------------
(* The threads of the peripheral's server.                                  *)

\* accept(), and a new thread for the connection.
AcceptClient ==
    /\ receiver = "backlog"
    /\ receiver' = "recv"
    /\ UNCHANGED <<relayVars, tcp, server, micVars>>

\* Mutant: the thread writes to the registers.
OnMessage_Unqueued ==
    /\ receiver = "recv"
    /\ tcp # <<>>
    /\ tcp' = Tail(tcp)
    /\ reg' = [seqnum |-> Head(tcp).seqnum, speed |-> Head(tcp).speed]
    /\ status' = status \cup {"VALID"}
    /\ UNCHANGED <<relayVars, threadVars, g_msg_q, taskVars>>

\* One message in one recv(): parsed, and queued unless the queue is full.
OnMessage ==
    /\ receiver = "recv"
    /\ tcp # <<>>
    /\ tcp' = Tail(tcp)
    /\ g_msg_q' = IF Len(g_msg_q) < MSG_Q_MAX
                  THEN Append(g_msg_q, Head(tcp))
                  ELSE g_msg_q
    /\ UNCHANGED <<relayVars, threadVars, wssVars, taskVars>>

\* One recv() that is not one message, but part of one or more than one:
\* json.loads raises ValueError, which nobody catches.  The socket stays open,
\* and nobody reads it.
OnUnframed ==
    /\ receiver = "recv"
    /\ tcp # <<>>
    /\ \E n \in 0..Len(tcp) : /\ n = 1 => Len(tcp) > 1
                              /\ tcp' = SubSeq(tcp, n + 1, Len(tcp))
    /\ receiver' = "dead"
    /\ UNCHANGED <<relayVars, server, micVars>>

\* recv() returns '' once the relay has closed its end.
OnClose ==
    /\ receiver = "recv"
    /\ relay = "gone"
    /\ tcp = <<>>
    /\ receiver' = "closed"
    /\ UNCHANGED <<relayVars, tcp, server, micVars>>

-----------------------------------------------------------------------------
(* The peripheral's registers, and the Sensor task that uses them.          *)

wheel_speed_to_reg_val(speed) ==
    LET most == IF speed < SPEED_MAX THEN speed ELSE SPEED_MAX
    IN  (IF most > -SPEED_MAX THEN most ELSE -SPEED_MAX) % REG_MOD

\* Mutant: no cast.
Int32_Unsigned(value) == value

\* The firmware's cast of the register to int32_t.
Int32(value) == IF 2 * value >= REG_MOD THEN value - REG_MOD ELSE value

\* wss_init: CTRL_INIT and CTRL_USING_SIMULATOR, which starts the server.
wss_init ==
    /\ sensor_pc = "init"
    /\ sensor_pc' = "delay"
    /\ server' = "listening"
    /\ status' = status \ {"VALID"}
    /\ UNCHANGED <<relayVars, tcp, receiver, g_msg_q, reg, localVars>>

TickWakes ==
    /\ sensor_pc = "delay"
    /\ sensor_pc' = "request"
    /\ UNCHANGED <<hostVars, g_msg_q, wssVars, localVars>>

\* Mutant: a contact hides the measurement.
Shows_BumpOnly(msg) == IF msg.bump THEN {"BUMP"} ELSE {"VALID"}

\* The bits a message sets in STATUS; STATUS_BUMP_DETECTED is never reset.
Shows(msg) == {"VALID"} \cup (IF msg.bump THEN {"BUMP"} ELSE {})

\* A write of CTRL_REQUEST_MEASUREMENT (CTRL reads as 0): the peripheral takes
\* the oldest message, if there is one.
RequestMeasurement ==
    /\ sensor_pc = "request"
    /\ sensor_pc' = "status"
    /\ IF g_msg_q = <<>>
       THEN UNCHANGED <<g_msg_q, reg, status>>
       ELSE LET msg == Head(g_msg_q)
            IN  /\ g_msg_q' = Tail(g_msg_q)
                /\ reg' = [seqnum |-> msg.seqnum, speed |-> msg.speed]
                /\ status' = status \cup Shows(msg)
    /\ UNCHANGED <<hostVars, localVars>>

\* Mutant: the valid bit stays.
ReadStatus_Sticky ==
    /\ sensor_pc = "status"
    /\ sensor_status' = status
    /\ sensor_pc' = IF "VALID" \in status THEN "seqnum" ELSE "delay"
    /\ UNCHANGED <<hostVars, g_msg_q, wssVars, sensor_seqnum, wheel_speed,
                   h_bump, h_last>>

\* Reading STATUS resets the valid bit.
ReadStatus ==
    /\ sensor_pc = "status"
    /\ sensor_status' = status
    /\ status' = status \ {"VALID"}
    /\ sensor_pc' = IF "VALID" \in status THEN "seqnum" ELSE "delay"
    /\ UNCHANGED <<hostVars, g_msg_q, reg, sensor_seqnum, wheel_speed, h_bump,
                   h_last>>

ReadSeqnum ==
    /\ sensor_pc = "seqnum"
    /\ sensor_pc' = "speed"
    /\ sensor_seqnum' = reg.seqnum
    /\ UNCHANGED <<hostVars, g_msg_q, wssVars, sensor_status, wheel_speed,
                   h_bump, h_last>>

\* Reads WHEEL_SPEED, then traces wheel_speed and, if so, bump_detected.
ReadWheelSpeed ==
    /\ sensor_pc = "speed"
    /\ sensor_pc' = "send"
    /\ wheel_speed' = Int32(wheel_speed_to_reg_val(reg.speed))
    /\ h_last' = sensor_seqnum
    /\ h_bump' = (h_bump \/ "BUMP" \in sensor_status)
    /\ UNCHANGED <<hostVars, g_msg_q, wssVars, sensor_status, sensor_seqnum>>

\* comms_send_sensor_data(wheel_speed)
Posts ==
    /\ sensor_pc = "send"
    /\ sensor_pc' = "delay"
    /\ UNCHANGED <<hostVars, g_msg_q, wssVars, localVars>>

SensorTask ==
    \/ wss_init
    \/ TickWakes
    \/ RequestMeasurement
    \/ ReadStatus
    \/ ReadSeqnum
    \/ ReadWheelSpeed
    \/ Posts

Receiver ==
    \/ AcceptClient
    \/ OnMessage
    \/ OnUnframed
    \/ OnClose

ImuNext ==
    \/ Configure
    \/ contact_msg_cb
    \/ \E speed \in Speed : ImuSample(speed)
    \/ Connect
    \/ ConnectFails
    \/ msg_cb
    \/ WriteFails
    \/ RelayDestroyed
    \/ Receiver
    \/ SensorTask

\* The simulator keeps sampling, and the threads and the task run.  Contacts
\* and the end of the simulation need not come.  write() may fail, but not for
\* ever: it is strongly fair.
ImuFairness ==
    /\ WF_imuVars(Configure)
    /\ WF_imuVars(\E speed \in Speed : ImuSample(speed))
    /\ WF_imuVars(Connect \/ ConnectFails)
    /\ SF_imuVars(msg_cb)
    /\ WF_imuVars(Receiver)
    /\ WF_imuVars(SensorTask)

ImuSpec == ImuInit /\ [][ImuNext]_imuVars /\ ImuFairness

-----------------------------------------------------------------------------
Sample == [seqnum : 0..SEQ_MAX, speed : Speed]
Message == [seqnum : 0..SEQ_MAX, bump : BOOLEAN, speed : Speed]

ImuTypeOK ==
    /\ relay \in {"off", "on", "gone"}
    /\ bump_detected \in BOOLEAN
    /\ connected \in BOOLEAN
    /\ imu_topic \in Seq(Sample) /\ Len(imu_topic) <= TOPIC_MAX
    /\ seq \in 0..SEQ_MAX
    /\ tcp \in Seq(Message) /\ Len(tcp) <= TCP_MAX
    /\ server \in {"off", "listening"}
    /\ receiver \in {"none", "backlog", "recv", "dead", "closed"}
    /\ g_msg_q \in Seq(Message) /\ Len(g_msg_q) <= MSG_Q_MAX
    /\ reg \in [seqnum : 0..SEQ_MAX, speed : Speed \cup {0}]
    /\ status \subseteq {"VALID", "BUMP"}
    /\ sensor_pc \in {"init", "delay", "request", "status", "seqnum", "speed", "send"}
    /\ sensor_status \subseteq {"VALID", "BUMP"}
    /\ sensor_seqnum \in 0..SEQ_MAX
    /\ wheel_speed \in -SPEED_MAX..SPEED_MAX
    /\ h_contact \in -1..SEQ_MAX
    /\ h_bump \in BOOLEAN
    /\ h_last \in -1..SEQ_MAX

Clamped(speed) ==
    IF speed > SPEED_MAX THEN SPEED_MAX
    ELSE IF speed < -SPEED_MAX THEN -SPEED_MAX
    ELSE speed

\* The registers are read one by one while messages keep arriving; still, the
\* number and the speed that are traced belong to the same sample, and the
\* speed survives the trip through an unsigned register.
ReadingIsOneSample ==
    sensor_pc = "send" =>
        /\ sensor_seqnum = reg.seqnum
        /\ wheel_speed = Clamped(reg.speed)

\* No sample is measured twice and none after a newer one, whatever the queue
\* dropped and however often a poll found it empty.
SamplesInOrder ==
    [][ReadWheelSpeed => (h_last < sensor_seqnum \/ sensor_seqnum = SEQ_MAX)]_imuVars

\* bump_detected is traced with a wheel speed exactly when the callback of that
\* sample read the latch after the first contact: with every sample taken after
\* it and, of those taken before, only with those that still waited for the
\* callback, be it in connect() or behind a full connection.  A dropped message
\* neither loses nor delays a contact.
BumpMarksContact ==
    [][ReadWheelSpeed /\ sensor_seqnum < SEQ_MAX =>
          ("BUMP" \in sensor_status
              <=> h_contact # -1 /\ h_contact <= sensor_seqnum)]_imuVars

\* "Contact events are detected by the micro" (specs/system.speqtr): the first
\* contact is followed by bump_detected, if the simulation goes on.
ContactDetected ==
    [](relay # "gone") => (h_contact # -1 ~> h_bump)

\* The only obstacle is the missing framing (run imu_stream): a contact is
\* detected as long as every recv() returns one message and the simulation goes
\* on, although the peripheral's queue drops messages.
ContactDetectedIfFramed ==
    [](relay # "gone" /\ receiver # "dead") => (h_contact # -1 ~> h_bump)

\* Firmware.tla models the task by WheelSpeedSensor: with the peripheral and
\* its steps hidden, this is what it does.
Sensor == INSTANCE WheelSpeedSensor WITH
              sensor_pc <- IF sensor_pc \in {"init", "delay"} THEN "delay"
                           ELSE IF sensor_pc = "send" THEN "send"
                           ELSE "poll"

ImplementsSensor ==
    /\ Sensor!SensorInit
    /\ [][Sensor!SensorNext(-SPEED_MAX..SPEED_MAX)]_(Sensor!sensorVars)
=============================================================================
