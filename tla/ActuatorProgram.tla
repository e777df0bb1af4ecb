-------------------------- MODULE ActuatorProgram --------------------------
(* The actuator program in a closed world: any datagram of a given set may  *)
(* arrive at any time, in any order and any number.                         *)
EXTENDS Actuator

CONSTANT Datagram

ASSUME DatagramAssumption ==
    \A msg \in Datagram :
        /\ {msg.magic0, msg.magic1, msg.type} \subseteq 0..255
        /\ msg.whole \in BOOLEAN

ActuatorNext ==
    \/ Program
    \/ CallFails
    \/ Signal
    \/ \E msg \in Datagram : DatagramArrives(msg)

\* The program is scheduled; datagrams, signals and failures need not come.
ActuatorSpec ==
    /\ ActuatorInit
    /\ [][ActuatorNext]_actuatorVars
    /\ WF_actuatorVars(Program)

\* Between the first actuation and the last, the next Twist follows the last
\* set_pwm.
NextTwistFollowsPwm ==
    actuator_pc # "done" => twist_seqnum = (h_pwm.seqnum + 1) % TWIST_MOD

\* Nothing moves before the loop.
FirstTwistIsZero ==
    actuator_pc \in {"startup", "registered", "bound"} => duty = 0

\* The inductive invariant of ActuatorProofs.
ActuatorIInv ==
    /\ ActuatorTypeOK
    /\ rcvbuf \in Seq(Datagram)
    /\ duty = h_pwm.duty
    /\ TwistMatchesPwm
    /\ NextTwistFollowsPwm
    /\ FirstTwistIsZero
    /\ AtMostOneLateActuation
    /\ FlagAgreesWithLoop
=============================================================================
