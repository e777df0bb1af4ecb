-------------------------- MODULE WheelSpeedSensor --------------------------
(***************************************************************************)
(* The Sensor task (freertos/src/wss.c): every period it asks the wheel    *)
(* speed peripheral for a measurement and, if one is valid, traces         *)
(* wheel_speed and posts it.  The peripheral itself is in ImuLink.tla;     *)
(* here it answers anything.                                               *)
(***************************************************************************)
EXTENDS Integers

VARIABLES
    sensor_pc,    \* "delay", "poll": woken by the tick, "send": measured
    wheel_speed   \* the task's last measurement

sensorVars == <<sensor_pc, wheel_speed>>

SensorInit ==
    /\ sensor_pc = "delay"
    /\ wheel_speed = 0

SensorWakes ==
    /\ sensor_pc = "delay"
    /\ sensor_pc' = "poll"
    /\ UNCHANGED wheel_speed

\* The measurement is traced here, before it is posted.
SensorMeasures(speed) ==
    /\ sensor_pc = "poll"
    /\ sensor_pc' = "send"
    /\ wheel_speed' = speed

\* STATUS without WSS_STATUS_WHEEL_SPEED_VALID.
SensorHasNoMeasurement ==
    /\ sensor_pc = "poll"
    /\ sensor_pc' = "delay"
    /\ UNCHANGED wheel_speed

\* Returns from comms_send_sensor_data(wheel_speed).
SensorPosts ==
    /\ sensor_pc = "send"
    /\ sensor_pc' = "delay"
    /\ UNCHANGED wheel_speed

SensorNext(WheelSpeeds) ==
    \/ SensorWakes
    \/ \E speed \in WheelSpeeds : SensorMeasures(speed)
    \/ SensorHasNoMeasurement
    \/ SensorPosts

SensorTypeOK(WheelSpeeds) ==
    /\ sensor_pc \in {"delay", "poll", "send"}
    /\ wheel_speed \in WheelSpeeds \cup {0}
    /\ sensor_pc = "send" => wheel_speed \in WheelSpeeds
=============================================================================
