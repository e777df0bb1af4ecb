------------------------------ MODULE Firmware ------------------------------
(***************************************************************************)
(* The three application tasks of the sensor firmware under the FreeRTOS   *)
(* scheduler: Sensor and VoltageMonitor post to the queue of Comms, which  *)
(* has the higher priority (freertos/config/app_config.h).  The kernel     *)
(* runs one of the ready tasks of the highest priority, so a step of a     *)
(* task is possible only while no task above it is ready.                  *)
(*                                                                         *)
(* The Stats, IP and EMAC tasks share no variable with these three; the    *)
(* time they take is the time between two steps.                           *)
(***************************************************************************)
EXTENDS Comms, VoltageMonitor, WheelSpeedSensor

VARIABLES
    h_unsent,  \* wheel_speed was traced and no comms_tx since
    h_stalled  \* Comms waited elsewhere than at its queue since that trace

historyVars == <<h_unsent, h_stalled>>

vars == <<commsVars, voltageVars, sensorVars, historyVars>>

-----------------------------------------------------------------------------
(* Scheduling.                                                              *)

SENSOR_PRIO == 2
VOLTAGE_MONITOR_PRIO == 2

\* Mutant: Comms does not preempt its producers.
COMMS_PRIO_Equal == 2

COMMS_PRIO == 3

Task == {"Sensor", "VoltageMonitor", "Comms"}

Prio(task) ==
    CASE task = "Sensor"         -> SENSOR_PRIO
      [] task = "VoltageMonitor" -> VOLTAGE_MONITOR_PRIO
      [] task = "Comms"          -> COMMS_PRIO

\* A task that waits in a delay, on its queue or in FreeRTOS_sendto is not ready.
Ready(task) ==
    CASE task = "Sensor"         -> sensor_pc # "delay"
      [] task = "VoltageMonitor" -> voltage_pc # "delay"
      [] task = "Comms"          -> \/ comms_pc = "sendto"
                                    \/ comms_pc = "recv" /\ g_comms_queue # <<>>

Preempted(task) == \E other \in Task : Prio(other) > Prio(task) /\ Ready(other)

\* Comms waits for the network, or inside FreeRTOS_sendto.
Stalled == comms_pc \in {"netwait", "blocked"}

Running == comms_pc # "asserted"

-----------------------------------------------------------------------------
Init ==
    /\ CommsInit
    /\ VoltageInit
    /\ SensorInit
    /\ h_unsent = FALSE
    /\ h_stalled = FALSE

\* A step that neither traces wheel_speed nor comms_tx.
NoteStall ==
    /\ h_stalled' = (h_stalled \/ Stalled')
    /\ UNCHANGED h_unsent

TickWakesSensor ==
    /\ Running
    /\ SensorWakes
    /\ UNCHANGED <<commsVars, voltageVars>>
    /\ NoteStall

TickWakesVoltageMonitor ==
    /\ Running
    /\ VoltageWakes
    /\ UNCHANGED <<commsVars, sensorVars>>
    /\ NoteStall

Measure(speed) ==
    /\ Running
    /\ ~Preempted("Sensor")
    /\ SensorMeasures(speed)
    /\ h_unsent' = TRUE
    /\ h_stalled' = Stalled
    /\ UNCHANGED <<commsVars, voltageVars>>

NoMeasurement ==
    /\ Running
    /\ ~Preempted("Sensor")
    /\ SensorHasNoMeasurement
    /\ UNCHANGED <<commsVars, voltageVars>>
    /\ NoteStall

PostMeasurement ==
    /\ Running
    /\ ~Preempted("Sensor")
    /\ SensorPosts
    /\ comms_send_sensor_data(wheel_speed)
    /\ UNCHANGED voltageVars
    /\ NoteStall

PostVoltage(draw) ==
    /\ Running
    /\ ~Preempted("VoltageMonitor")
    /\ VoltageUpdates(draw)
    /\ comms_send_voltage_data(VoltageSpike)
    /\ UNCHANGED sensorVars
    /\ NoteStall

\* comms_tx is traced, whatever FreeRTOS_sendto then does.
Transmit ==
    /\ Running
    /\ CommsWheelSpeed
    /\ h_unsent' = FALSE
    /\ UNCHANGED <<voltageVars, sensorVars, h_stalled>>

\* Without CommsRecvTimesOut: VoltageMonitor posts every 100 ms, and
\* portMAX_DELAY is weeks.
CommsElse ==
    /\ Running
    /\ \/ CommsNetworkReady
       \/ CommsVoltage
       \/ CommsSendtoReturns
       \/ CommsSendtoBlocks
    /\ UNCHANGED <<voltageVars, sensorVars>>
    /\ NoteStall

NetworkChanges ==
    /\ Running
    /\ NetworkEvent
    /\ UNCHANGED <<voltageVars, sensorVars>>
    /\ NoteStall

Next ==
    \/ TickWakesSensor
    \/ TickWakesVoltageMonitor
    \/ \E speed \in WheelSpeed : Measure(speed)
    \/ NoMeasurement
    \/ PostMeasurement
    \/ \E draw \in Rand8 : PostVoltage(draw)
    \/ Transmit
    \/ CommsElse
    \/ NetworkChanges

\* The tick wakes each task; Comms runs when it is ready and FreeRTOS_sendto
\* gives up after its timeout.  The two producers share a priority and each
\* other's posts make Comms preempt them, so a ready producer is disabled again
\* and again; the round robin of their priority still runs it.
Fairness ==
    /\ WF_vars(TickWakesSensor)
    /\ SF_vars(NoMeasurement \/ \E speed \in WheelSpeed : Measure(speed))
    /\ SF_vars(PostMeasurement)
    /\ WF_vars(TickWakesVoltageMonitor)
    /\ SF_vars(\E draw \in Rand8 : PostVoltage(draw))
    /\ WF_vars(Transmit \/ CommsElse)

Spec == Init /\ [][Next]_vars /\ Fairness

-----------------------------------------------------------------------------
TypeOK ==
    /\ CommsTypeOK
    /\ VoltageTypeOK
    /\ SensorTypeOK(WheelSpeed)
    /\ h_unsent \in BOOLEAN
    /\ h_stalled \in BOOLEAN

\* Corruption is requested, never accidental: unless the test framework asked
\* for voltage spikes, every datagram the firmware builds is intact.
CleanUnlessRequested ==
    g_do_voltage_spike = 0 /\ comms_pc \in {"sendto", "blocked"} =>
        Intact(wire_msg)

\* Why: the walk stays below the spike level, so no spike is queued or pending.
NoSpikeUnlessRequested ==
    g_do_voltage_spike = 0 =>
        /\ millivolts < MV_SPIKE
        /\ voltage_spiked = 0
        /\ h_spike = FALSE
        /\ h_hit = FALSE
        /\ \A i \in 1..Len(g_comms_queue) :
              /\ ~IsSpike(g_comms_queue[i])
              /\ g_comms_queue[i].after_spike = FALSE

\* "Micro local control cycle" (specs/system.speqtr), as far as the code keeps
\* it: a measurement is followed by comms_tx before the next one, however the
\* tasks interleave, unless Comms was held up elsewhere than at its queue in
\* between.
MicroControlCycle ==
    [][\A speed \in WheelSpeed : Measure(speed) => (h_unsent => h_stalled)]_vars

\* "Micro local control cycle" as specs/system.speqtr states it: every
\* wheel_speed is followed by comms_tx before the next wheel_speed.
MeasurementSentWithinCycle ==
    [][\A speed \in WheelSpeed : Measure(speed) => ~h_unsent]_vars

\* The reason for MicroControlCycle: while Comms was not held up, a traced and
\* posted measurement is still in its queue, so Comms preempts the Sensor.
UnsentIsQueued ==
    h_unsent /\ ~h_stalled =>
        /\ ~Stalled
        /\ \/ sensor_pc = "send"
           \/ comms_pc = "asserted"
           \/ \E i \in 1..Len(g_comms_queue) : IsMeasurement(g_comms_queue[i])

\* Once the network stays up, as long as wheel speeds are measured, datagrams
\* are sent: the voltage messages that share the queue, drops on a full queue
\* and a FreeRTOS_sendto that blocks every time do not starve the link.
MeasurementsGetOut ==
    <>[]net_up =>
        \/ <>~Running
        \/ []<><<\E speed \in WheelSpeed : Measure(speed)>>_vars
              => []<><<Transmit>>_vars

\* The Sensor and VoltageMonitor tasks never wait for Comms: each keeps
\* finishing its periods even while the network is down and the queue is full.
ProducersNeverWait ==
    \/ <>~Running
    \/ /\ []<>(sensor_pc = "delay")
       /\ []<>(voltage_pc = "delay")
=============================================================================
