--------------------------- MODULE ActuatorProofs ---------------------------
(***************************************************************************)
(* Proofs about the actuator program, for every maximum duty, step, buffer *)
(* size and set of datagrams that may arrive.                              *)
(***************************************************************************)
EXTENDS ActuatorTrace, FiniteSetTheorems, TLAPS

\* A number below the modulus is its own remainder.
LEMMA Modulo ==
    ASSUME NEW m \in Nat \ {0}, NEW n \in 0..(m - 1)
    PROVE  n % m = n
  OBVIOUS

\* The arithmetic of one step: the uint16_t does not wrap, and the clamp keeps
\* the duty in range without ever lowering it.
LEMMA DutyStep ==
    ASSUME NEW d \in 0..DUTY_MAX
    PROVE  /\ (d + DUTY_STEP) % UINT16 = d + DUTY_STEP
           /\ clamped_duty(d + DUTY_STEP) \in 0..DUTY_MAX
           /\ d <= clamped_duty(d + DUTY_STEP)
           /\ clamped_duty(d + DUTY_STEP) <= d + DUTY_STEP
<1>1. UINT16 \in Nat \ {0}
  BY DEF UINT16
<1>2. d + DUTY_STEP \in 0..(UINT16 - 1)
  BY <1>1, DutyAssumption
<1>3. (d + DUTY_STEP) % UINT16 = d + DUTY_STEP
  BY <1>1, <1>2, Modulo
<1> QED
  BY <1>3, DutyAssumption DEF clamped_duty

\* The Twist counter stays within its width.
LEMMA TwistWraps ==
    ASSUME NEW n \in 0..(TWIST_MOD - 1)
    PROVE  (n + 1) % TWIST_MOD \in 0..(TWIST_MOD - 1)
  BY TwistModAssumption

\* Only a datagram with a correct header is handled as valid.
LEMMA ValidIsIntact ==
    ASSUME NEW msg, Verdict(msg) = "VALID"
    PROVE  Intact(msg)
<1>1. /\ ~(msg.magic0 # WIRE_MAGIC0)
      /\ ~(msg.magic0 = WIRE_MAGIC0 /\ msg.magic1 # WIRE_MAGIC1)
      /\ ~(/\ msg.magic0 = WIRE_MAGIC0
           /\ msg.magic1 = WIRE_MAGIC1
           /\ msg.type # WIRE_TYPE_WHEEL_SPEED)
  BY DEF Verdict
<1> QED
  BY <1>1 DEF Intact, BadFields

\* The verdict on a datagram is always one of four.
LEMMA VerdictType ==
    ASSUME NEW msg
    PROVE  Verdict(msg) \in {"VALID", "BAD_MAGIC0", "BAD_MAGIC1", "BAD_TYPE"}
  BY DEF Verdict

\* The inductive invariant holds initially.
LEMMA ActuatorInvInit == ActuatorInit => ActuatorIInv
<1> SUFFICES ASSUME ActuatorInit PROVE ActuatorIInv
  OBVIOUS
<1>1. 0 \in 0..DUTY_MAX /\ 0 \in 0..(TWIST_MOD - 1) /\ 1 \in 0..(TWIST_MOD - 1)
  BY DutyAssumption, TwistModAssumption
<1>2. rcvbuf \in Seq(Datagram) /\ Len(rcvbuf) <= RCVBUF
  BY RcvbufAssumption DEF ActuatorInit
<1>3. /\ twist \in [seqnum : 0..(TWIST_MOD - 1), velocity : 0..DUTY_MAX]
      /\ h_pwm \in [seqnum : 0..(TWIST_MOD - 1), duty : 0..DUTY_MAX]
  BY <1>1 DEF ActuatorInit, NoTwist
<1>4. ActuatorTypeOK
  BY <1>1, <1>2, <1>3 DEF ActuatorInit, ActuatorTypeOK
<1>5. /\ duty = h_pwm.duty
      /\ TwistMatchesPwm
      /\ AtMostOneLateActuation
      /\ FlagAgreesWithLoop
  BY DEF ActuatorInit, NoTwist, TwistMatchesPwm, AtMostOneLateActuation,
         FlagAgreesWithLoop
<1>6. NextTwistFollowsPwm
  <2>1. (0 + 1) % TWIST_MOD = 1
    BY TwistModAssumption
  <2> QED
    BY <2>1 DEF ActuatorInit, NextTwistFollowsPwm
<1>7. FirstTwistIsZero
  BY DEF ActuatorInit, FirstTwistIsZero
<1> QED
  BY <1>2, <1>4, <1>5, <1>6, <1>7 DEF ActuatorIInv

\* The environment's steps preserve the inductive invariant.
LEMMA EnvironmentStep ==
    ASSUME ActuatorIInv, Signal \/ \E msg \in Datagram : DatagramArrives(msg)
    PROVE  ActuatorIInv'
<1>1. CASE Signal
  <2>1. /\ actuator_pc' \in {actuator_pc, "killed"}
        /\ actuator_pc' = "killed" => actuator_pc = "startup"
        /\ g_exit_signaled' \in {g_exit_signaled, 1}
        /\ actuator_pc = "startup" => UNCHANGED g_exit_signaled
        /\ actuator_pc # "killed"
        /\ UNCHANGED <<duty, twist_seqnum, rcvbuf, twist, h_pwm, h_verdict, h_late>>
    BY <1>1 DEF Signal
  <2>2. ActuatorTypeOK'
    BY <2>1 DEF ActuatorIInv, ActuatorTypeOK
  <2>3. TwistMatchesPwm'
    BY <1>1, <2>1 DEF Signal, ActuatorIInv, TwistMatchesPwm
  <2>4. g_exit_signaled' = 1 => actuator_pc' = actuator_pc /\ actuator_pc # "startup"
    BY <1>1 DEF Signal, ActuatorIInv, FlagAgreesWithLoop
  <2>5. h_late > 0 => actuator_pc' = actuator_pc /\ g_exit_signaled' = 1
    BY <1>1 DEF Signal, ActuatorIInv, FlagAgreesWithLoop
  <2>6. FlagAgreesWithLoop'
    BY <2>1, <2>4, <2>5 DEF ActuatorIInv, FlagAgreesWithLoop
  <2> QED
    BY <2>1, <2>2, <2>3, <2>6
    DEF ActuatorIInv, AtMostOneLateActuation, NextTwistFollowsPwm,
        FirstTwistIsZero
<1>2. CASE \E msg \in Datagram : DatagramArrives(msg)
  <2>1. PICK msg \in Datagram : DatagramArrives(msg)
    BY <1>2
  <2>2. rcvbuf' \in Seq(Datagram) /\ Len(rcvbuf') <= RCVBUF
    BY <2>1, RcvbufAssumption DEF DatagramArrives, ActuatorIInv, ActuatorTypeOK
  <2> QED
    BY <2>1, <2>2
    DEF DatagramArrives, ActuatorIInv, ActuatorTypeOK, TwistMatchesPwm,
        AtMostOneLateActuation, FlagAgreesWithLoop, NextTwistFollowsPwm,
        FirstTwistIsZero
<1> QED
  BY <1>1, <1>2

\* The steps that only move the program counter preserve it.
LEMMA ControlStep ==
    ASSUME ActuatorIInv,
           sigint_register \/ BindSocket \/ LoopTop \/ Select \/ CallFails
    PROVE  ActuatorIInv'
<1>1. /\ actuator_pc' \in {"registered", "bound", "loop", "select", "recv", "stopping",
                         "aborted"}
      /\ actuator_pc # "done"
      /\ UNCHANGED <<g_exit_signaled, duty, twist_seqnum, rcvbuf, twist, h_pwm,
                     h_verdict, h_late>>
  BY DEF sigint_register, BindSocket, LoopTop, Select, CallFails
<1>2. ActuatorTypeOK'
  BY <1>1 DEF ActuatorIInv, ActuatorTypeOK
<1>3. TwistMatchesPwm'
  BY <1>1 DEF ActuatorIInv, TwistMatchesPwm
<1>4. actuator_pc' = "stopping" => g_exit_signaled = 1
  BY DEF sigint_register, BindSocket, LoopTop, Select, CallFails, ActuatorIInv,
         ActuatorTypeOK
<1>5. h_late > 0 => actuator_pc' \in {"loop", "stopping"}
  BY DEF sigint_register, BindSocket, LoopTop, Select, CallFails, ActuatorIInv,
         FlagAgreesWithLoop
<1>6. FlagAgreesWithLoop'
  BY <1>1, <1>4, <1>5 DEF ActuatorIInv, FlagAgreesWithLoop
<1>7. FirstTwistIsZero'
  <2>1. actuator_pc' \in {"registered", "bound"} =>
            actuator_pc \in {"startup", "registered"}
    BY DEF sigint_register, BindSocket, LoopTop, Select, CallFails
  <2> QED
    BY <1>1, <2>1 DEF ActuatorIInv, FirstTwistIsZero
<1> QED
  BY <1>1, <1>2, <1>3, <1>6, <1>7
  DEF ActuatorIInv, AtMostOneLateActuation, NextTwistFollowsPwm

\* What actuator_set_vel does to the types, for a velocity in range.
LEMMA SetVelTypes ==
    ASSUME ActuatorIInv, NEW v \in 0..DUTY_MAX, actuator_set_vel(v)
    PROVE  /\ twist' \in [seqnum : 0..(TWIST_MOD - 1), velocity : 0..DUTY_MAX]
           /\ twist_seqnum' \in 0..(TWIST_MOD - 1)
           /\ h_late' \in Nat
           /\ h_late' \in {h_late, h_late + 1}
           /\ h_late' # h_late => g_exit_signaled = 1 /\ v # 0
  BY TwistWraps DEF ActuatorIInv, ActuatorTypeOK, actuator_set_vel

\* The first, zero actuation preserves it.
LEMMA StartStep ==
    ASSUME ActuatorIInv, StartActuator
    PROVE  ActuatorIInv'
<1>1. 0 \in 0..DUTY_MAX
  BY DutyAssumption
<1>2. /\ actuator_pc = "bound" /\ actuator_pc' = "loop"
      /\ duty' = 0
      /\ h_pwm' = [seqnum |-> twist_seqnum, duty |-> 0]
      /\ twist' = [seqnum |-> twist_seqnum, velocity |-> 0]
      /\ UNCHANGED <<g_exit_signaled, rcvbuf, h_verdict>>
      /\ actuator_set_vel(0)
  BY DEF StartActuator, TraceSetPwm, actuator_set_vel
<1>3. /\ twist' \in [seqnum : 0..(TWIST_MOD - 1), velocity : 0..DUTY_MAX]
      /\ twist_seqnum' \in 0..(TWIST_MOD - 1)
      /\ h_late' = h_late
  BY <1>1, <1>2, SetVelTypes
<1>4. h_pwm' \in [seqnum : 0..(TWIST_MOD - 1), duty : 0..DUTY_MAX]
  BY <1>1, <1>2 DEF ActuatorIInv, ActuatorTypeOK
<1>5. ActuatorTypeOK'
  BY <1>1, <1>2, <1>3, <1>4 DEF ActuatorIInv, ActuatorTypeOK
<1>6. duty' = h_pwm'.duty /\ TwistMatchesPwm'
  BY <1>2 DEF TwistMatchesPwm
<1>7. FlagAgreesWithLoop' /\ AtMostOneLateActuation'
  BY <1>2, <1>3 DEF ActuatorIInv, FlagAgreesWithLoop, AtMostOneLateActuation
<1>8. NextTwistFollowsPwm'
  BY <1>2 DEF actuator_set_vel, NextTwistFollowsPwm
<1>9. FirstTwistIsZero'
  BY <1>2 DEF FirstTwistIsZero
<1>10. rcvbuf' \in Seq(Datagram)
  BY <1>2 DEF ActuatorIInv
<1> QED
  BY <1>5, <1>6, <1>7, <1>8, <1>9, <1>10 DEF ActuatorIInv

\* The last, zero actuation preserves it.
LEMMA StopStep ==
    ASSUME ActuatorIInv, Stop
    PROVE  ActuatorIInv'
<1>1. 0 \in 0..DUTY_MAX
  BY DutyAssumption
<1>2. /\ actuator_pc = "stopping" /\ actuator_pc' = "done"
      /\ twist' = [seqnum |-> twist_seqnum, velocity |-> 0]
      /\ UNCHANGED <<g_exit_signaled, duty, rcvbuf, h_pwm, h_verdict>>
      /\ actuator_set_vel(0)
  BY DEF Stop, actuator_set_vel
<1>3. /\ twist' \in [seqnum : 0..(TWIST_MOD - 1), velocity : 0..DUTY_MAX]
      /\ twist_seqnum' \in 0..(TWIST_MOD - 1)
      /\ h_late' = h_late
  BY <1>1, <1>2, SetVelTypes
<1>4. ActuatorTypeOK'
  BY <1>2, <1>3 DEF ActuatorIInv, ActuatorTypeOK
<1>5. twist_seqnum = (h_pwm.seqnum + 1) % TWIST_MOD
  BY <1>2 DEF ActuatorIInv, NextTwistFollowsPwm
<1>6. TwistMatchesPwm'
  BY <1>2, <1>5 DEF TwistMatchesPwm
<1>7. FlagAgreesWithLoop' /\ AtMostOneLateActuation'
  BY <1>2, <1>3 DEF ActuatorIInv, FlagAgreesWithLoop, AtMostOneLateActuation
<1> QED
  BY <1>2, <1>4, <1>6, <1>7 DEF ActuatorIInv, NextTwistFollowsPwm, FirstTwistIsZero

\* What handling one datagram does.
LEMMA ReceiveEffect ==
    ASSUME ActuatorIInv, Receive
    PROVE  \/ /\ Verdict(Head(rcvbuf)) = "VALID"
              /\ duty' \in 0..DUTY_MAX
              /\ duty <= duty' /\ duty' <= duty + DUTY_STEP
              /\ h_pwm' = [seqnum |-> twist_seqnum, duty |-> duty']
              /\ actuator_set_vel(duty')
           \/ /\ Verdict(Head(rcvbuf)) # "VALID"
              /\ UNCHANGED <<duty, twist_seqnum, twist, h_pwm, h_late>>
<1>1. CASE Verdict(Head(rcvbuf)) = "VALID"
  <2>1. duty \in 0..DUTY_MAX
    BY DEF ActuatorIInv, ActuatorTypeOK
  <2>2. duty' = clamped_duty(duty + DUTY_STEP)
    BY <1>1, <2>1, DutyStep DEF Receive
  <2> QED
    BY <1>1, <2>1, <2>2, DutyStep DEF Receive, TraceSetPwm
<1>2. CASE Verdict(Head(rcvbuf)) # "VALID"
  BY <1>2 DEF Receive
<1> QED
  BY <1>1, <1>2

\* Handling a datagram preserves the inductive invariant.
LEMMA ReceiveStep ==
    ASSUME ActuatorIInv, Receive
    PROVE  ActuatorIInv'
<1>1. /\ actuator_pc = "recv" /\ actuator_pc' = "loop"
      /\ rcvbuf # <<>> /\ rcvbuf' = Tail(rcvbuf)
      /\ h_verdict' = Verdict(Head(rcvbuf))
      /\ UNCHANGED g_exit_signaled
  BY DEF Receive
<1>2. rcvbuf' \in Seq(Datagram) /\ Len(rcvbuf') <= RCVBUF
  BY <1>1, RcvbufAssumption DEF ActuatorIInv, ActuatorTypeOK
<1>3. h_verdict' \in {"NONE", "VALID", "BAD_MAGIC0", "BAD_MAGIC1", "BAD_TYPE"}
  BY <1>1, VerdictType
<1>4. h_late = 0
  BY <1>1 DEF ActuatorIInv, ActuatorTypeOK, FlagAgreesWithLoop
<1>5. FirstTwistIsZero'
  BY <1>1 DEF FirstTwistIsZero
<1>6. CASE /\ duty' \in 0..DUTY_MAX
           /\ h_pwm' = [seqnum |-> twist_seqnum, duty |-> duty']
           /\ actuator_set_vel(duty')
  <2>1. /\ twist' \in [seqnum : 0..(TWIST_MOD - 1), velocity : 0..DUTY_MAX]
        /\ twist_seqnum' \in 0..(TWIST_MOD - 1)
        /\ h_late' \in Nat
        /\ h_late' \in {h_late, h_late + 1}
        /\ h_late' # h_late => g_exit_signaled = 1
    BY <1>6, TwistWraps DEF ActuatorIInv, ActuatorTypeOK, actuator_set_vel
  <2>2. h_pwm' \in [seqnum : 0..(TWIST_MOD - 1), duty : 0..DUTY_MAX]
    BY <1>6 DEF ActuatorIInv, ActuatorTypeOK
  <2>3. ActuatorTypeOK'
    BY <1>1, <1>2, <1>3, <1>6, <2>1, <2>2 DEF ActuatorIInv, ActuatorTypeOK
  <2>4. duty' = h_pwm'.duty /\ TwistMatchesPwm' /\ NextTwistFollowsPwm'
    BY <1>1, <1>6 DEF TwistMatchesPwm, NextTwistFollowsPwm, actuator_set_vel
  <2>5. FlagAgreesWithLoop' /\ AtMostOneLateActuation'
    BY <1>1, <1>4, <2>1 DEF FlagAgreesWithLoop, AtMostOneLateActuation
  <2> QED
    BY <1>2, <1>5, <2>3, <2>4, <2>5 DEF ActuatorIInv
<1>7. CASE UNCHANGED <<duty, twist_seqnum, twist, h_pwm, h_late>>
  <2>1. ActuatorTypeOK'
    BY <1>1, <1>2, <1>3, <1>7 DEF ActuatorIInv, ActuatorTypeOK
  <2>2. duty' = h_pwm'.duty /\ TwistMatchesPwm' /\ NextTwistFollowsPwm'
    BY <1>1, <1>7 DEF ActuatorIInv, TwistMatchesPwm, NextTwistFollowsPwm
  <2>3. FlagAgreesWithLoop' /\ AtMostOneLateActuation'
    BY <1>1, <1>4, <1>7 DEF FlagAgreesWithLoop, AtMostOneLateActuation
  <2> QED
    BY <1>2, <1>5, <2>1, <2>2, <2>3 DEF ActuatorIInv
<1> QED
  BY <1>6, <1>7, ReceiveEffect

\* So does a datagram that is too short, which leaves the robot as it is.
LEMMA ReceiveShortStep ==
    ASSUME ActuatorIInv, ReceiveShort
    PROVE  ActuatorIInv'
<1>1. /\ actuator_pc = "recv" /\ actuator_pc' \in {"loop", "aborted"}
      /\ rcvbuf # <<>> /\ rcvbuf' = Tail(rcvbuf)
      /\ UNCHANGED <<g_exit_signaled, duty, twist_seqnum, twist, h_pwm, h_verdict,
                     h_late>>
  BY DEF ReceiveShort
<1>2. rcvbuf' \in Seq(Datagram) /\ Len(rcvbuf') <= RCVBUF
  BY <1>1, RcvbufAssumption DEF ActuatorIInv, ActuatorTypeOK
<1>3. ActuatorTypeOK'
  BY <1>1, <1>2 DEF ActuatorIInv, ActuatorTypeOK
<1>4. h_late = 0
  BY <1>1 DEF ActuatorIInv, ActuatorTypeOK, FlagAgreesWithLoop
<1>5. /\ TwistMatchesPwm' /\ NextTwistFollowsPwm' /\ FirstTwistIsZero'
      /\ AtMostOneLateActuation' /\ FlagAgreesWithLoop'
  BY <1>1, <1>4 DEF ActuatorIInv, TwistMatchesPwm, NextTwistFollowsPwm,
                    FirstTwistIsZero, AtMostOneLateActuation, FlagAgreesWithLoop
<1> QED
  BY <1>1, <1>2, <1>3, <1>5 DEF ActuatorIInv

\* The inductive invariant is preserved by every step.
LEMMA ActuatorInvStep ==
    ActuatorIInv /\ [ActuatorNext]_actuatorVars => ActuatorIInv'
<1> SUFFICES ASSUME ActuatorIInv, [ActuatorNext]_actuatorVars
             PROVE  ActuatorIInv'
  OBVIOUS
<1>1. CASE UNCHANGED actuatorVars
  BY <1>1 DEF actuatorVars, ActuatorIInv, ActuatorTypeOK, TwistMatchesPwm,
              NextTwistFollowsPwm, FirstTwistIsZero,
              AtMostOneLateActuation, FlagAgreesWithLoop
<1> QED
  BY <1>1, EnvironmentStep, ControlStep, StartStep, StopStep, ReceiveStep,
     ReceiveShortStep
  DEF ActuatorNext, Program

\* Every reachable state of the program satisfies the inductive invariant.
LEMMA ActuatorInvariance == ActuatorSpec => []ActuatorIInv
  BY ActuatorInvInit, ActuatorInvStep, PTL DEF ActuatorSpec

\* The duty and every published velocity stay within the maximum (the command
\* behind WALLBOT-1.1), and the uint16_t arithmetic never wraps.
THEOREM ActuatorTypeCorrect == ActuatorSpec => []ActuatorTypeOK
<1>1. ActuatorIInv => ActuatorTypeOK
  BY DEF ActuatorIInv
<1> QED
  BY <1>1, ActuatorInvariance, PTL

\* Each Twist carries the number and the duty of the set_pwm traced before it.
THEOREM ActuatorTraced == ActuatorSpec => []TwistMatchesPwm
<1>1. ActuatorIInv => TwistMatchesPwm
  BY DEF ActuatorIInv
<1> QED
  BY <1>1, ActuatorInvariance, PTL

\* A signal lets at most one more actuation through.
THEOREM ActuatorLate == ActuatorSpec => []AtMostOneLateActuation
<1>1. ActuatorIInv => AtMostOneLateActuation
  BY DEF ActuatorIInv
<1> QED
  BY <1>1, ActuatorInvariance, PTL

\* The last velocity told to the simulator is the duty, until the program ends.
LEMMA VelocityIsDuty ==
    ASSUME ActuatorIInv, actuator_pc # "done"
    PROVE  twist.velocity = duty
  BY DEF ActuatorIInv, TwistMatchesPwm

\* One step changes the velocity only as VelocityStepsUp allows.
LEMMA VelocityStep ==
    ASSUME ActuatorIInv, [ActuatorNext]_actuatorVars,
           twist'.velocity # twist.velocity
    PROVE  \/ /\ rcvbuf # <<>>
              /\ Intact(Head(rcvbuf))
              /\ rcvbuf' = Tail(rcvbuf)
              /\ twist.velocity < twist'.velocity
              /\ twist'.velocity <= twist.velocity + DUTY_STEP
           \/ /\ actuator_pc' = "done"
              /\ twist'.velocity = 0
<1>1. CASE Receive
  <2>1. Verdict(Head(rcvbuf)) = "VALID"
    BY <1>1, ReceiveEffect
  <2>2. /\ duty <= duty' /\ duty' <= duty + DUTY_STEP
        /\ twist'.velocity = duty'
        /\ duty \in 0..DUTY_MAX /\ duty' \in 0..DUTY_MAX
    BY <1>1, <2>1, ReceiveEffect DEF actuator_set_vel, ActuatorIInv, ActuatorTypeOK
  <2>3. twist.velocity = duty
    BY <1>1, VelocityIsDuty DEF Receive
  <2> QED
    BY <1>1, <2>1, <2>2, <2>3, ValidIsIntact, DutyAssumption DEF Receive
<1>2. CASE Stop
  BY <1>2 DEF Stop, actuator_set_vel
<1>3. CASE StartActuator
  <2>1. twist'.velocity = 0
    BY <1>3 DEF StartActuator, actuator_set_vel
  <2>2. twist.velocity = 0
    BY <1>3, VelocityIsDuty DEF StartActuator, ActuatorIInv, FirstTwistIsZero
  <2> QED
    BY <2>1, <2>2
<1>4. CASE UNCHANGED twist
  BY <1>4
<1> QED
  BY <1>1, <1>2, <1>3, <1>4
  DEF ActuatorNext, Program, sigint_register, BindSocket, LoopTop, Select,
      ReceiveShort, CallFails, Signal, DatagramArrives, actuatorVars

\* The robot is accelerated one step at a time, by intact datagrams only, and
\* stopped only by the end of the program.
THEOREM ActuatorSteps == ActuatorSpec => VelocityStepsUp
<1>1. ActuatorIInv /\ [ActuatorNext]_actuatorVars =>
        [twist'.velocity # twist.velocity =>
           \/ /\ rcvbuf # <<>>
              /\ Intact(Head(rcvbuf))
              /\ rcvbuf' = Tail(rcvbuf)
              /\ twist.velocity < twist'.velocity
              /\ twist'.velocity <= twist.velocity + DUTY_STEP
           \/ /\ actuator_pc' = "done"
              /\ twist'.velocity = 0]_actuatorVars
  BY VelocityStep
<1> QED
  BY <1>1, ActuatorInvariance, PTL DEF ActuatorSpec, VelocityStepsUp

-----------------------------------------------------------------------------
(* LinuxControlCycle.                                                       *)

TracedEvent ==
    {startup, init, deinit}
    \cup {received_msg(msg) : msg \in Datagram}
    \cup {invalid_msg(reason) : reason \in 0..2}
    \cup {target_velocity(velocity) : velocity \in 0..DUTY_MAX}
    \cup {set_pwm(pwm) : pwm \in [seqnum : 0..(TWIST_MOD - 1), duty : 0..DUTY_MAX]}

\* No datagram has been received.
NothingReceived ==
    \A k \in 1..Len(h_cycle) : h_cycle[k].event # "received_msg"

\* An intact datagram, the velocity it leads to, and the last set_pwm.
IntactAnswered ==
    /\ h_cycle[1].event = "received_msg"
    /\ Intact(h_cycle[1])
    /\ h_cycle[2] = target_velocity(h_pwm.duty)
    /\ h_cycle[3] = set_pwm(h_pwm)

\* Any other datagram, and the program's verdict on it.
CorruptRefused ==
    /\ h_cycle[1].event = "received_msg"
    /\ Verdict(h_cycle[1]) # "VALID"
    /\ h_cycle[2] = invalid_msg(invalid_msg_kind[Verdict(h_cycle[1])])

\* What a cycle is like, from its first event to the end of the program.
CycleShape ==
    LET answer == IF actuator_pc = "done" THEN Len(h_cycle) - 2 ELSE Len(h_cycle)
    IN  /\ \/ NothingReceived
           \/ answer = 3 /\ IntactAnswered
           \/ answer = 2 /\ CorruptRefused
        /\ actuator_pc \in {"startup", "registered", "bound"} => NothingReceived
        /\ actuator_pc = "done" =>
              /\ Len(h_cycle) >= 2
              /\ h_cycle[answer + 1] = target_velocity(0)
              /\ h_cycle[answer + 2] = deinit

CycleIInv ==
    /\ ActuatorIInv
    /\ h_cycle \in Seq(TracedEvent)
    /\ CycleShape

\* The positions of a sequence that another one follows.
LEMMA ConcatPositions ==
    ASSUME NEW S, NEW s \in Seq(S), NEW t \in Seq(S)
    PROVE  /\ s \o t \in Seq(S)
           /\ Len(s) \in Nat /\ Len(t) \in Nat
           /\ Len(s \o t) = Len(s) + Len(t)
           /\ \A k \in 1..Len(s) : (s \o t)[k] = s[k]
           /\ \A k \in 1..Len(t) : (s \o t)[Len(s) + k] = t[k]
  OBVIOUS

\* One element before one or two others.
LEMMA OneBefore ==
    ASSUME NEW S, NEW a \in S, NEW b \in S, NEW c \in S
    PROVE  /\ <<a>> \o <<b>> \in Seq(S)
           /\ Len(<<a>> \o <<b>>) = 2
           /\ (<<a>> \o <<b>>)[1] = a /\ (<<a>> \o <<b>>)[2] = b
           /\ <<a>> \o <<b, c>> \in Seq(S)
           /\ Len(<<a>> \o <<b, c>>) = 3
           /\ (<<a>> \o <<b, c>>)[1] = a
           /\ (<<a>> \o <<b, c>>)[2] = b /\ (<<a>> \o <<b, c>>)[3] = c
<1>1. /\ <<a>> \in Seq(S) /\ <<b>> \in Seq(S) /\ <<b, c>> \in Seq(S)
      /\ Len(<<a>>) = 1 /\ Len(<<b>>) = 1 /\ Len(<<b, c>>) = 2
      /\ <<a>>[1] = a /\ <<b>>[1] = b /\ <<b, c>>[1] = b /\ <<b, c>>[2] = c
  OBVIOUS
<1>2. \A t \in Seq(S) :
         /\ <<a>> \o t \in Seq(S)
         /\ Len(<<a>> \o t) = 1 + Len(t)
         /\ (<<a>> \o t)[1] = a
         /\ \A k \in 1..Len(t) : (<<a>> \o t)[1 + k] = t[k]
  BY <1>1
<1> QED
  BY <1>1, <1>2

\* The events of the tracepoints and their kinds.
LEMMA EventKinds ==
    /\ startup.event = "startup"
    /\ init.event = "init"
    /\ deinit.event = "deinit"
    /\ \A msg : /\ received_msg(msg).event = "received_msg"
                /\ received_msg(msg).magic0 = msg.magic0
                /\ received_msg(msg).magic1 = msg.magic1
                /\ received_msg(msg).type = msg.type
    /\ \A reason : invalid_msg(reason).event = "invalid_msg"
    /\ \A velocity : target_velocity(velocity).event = "target_velocity"
    /\ \A pwm : set_pwm(pwm).event = "set_pwm"
  BY DEF startup, init, deinit, received_msg, invalid_msg, target_velocity, set_pwm

\* A received_msg event shows the header of its datagram.
LEMMA ReceivedHeader ==
    ASSUME NEW msg
    PROVE  /\ Verdict(received_msg(msg)) = Verdict(msg)
           /\ Intact(received_msg(msg)) <=> Intact(msg)
<1>1. Verdict(received_msg(msg)) = Verdict(msg)
  BY EventKinds DEF Verdict
<1>2. Intact(received_msg(msg)) <=> Intact(msg)
  BY EventKinds DEF Intact, BadFields
<1> QED
  BY <1>1, <1>2

\* The label in the trace is the program's verdict, and names a bad field.
LEMMA VerdictNamesField ==
    ASSUME NEW msg, Verdict(msg) # "VALID"
    PROVE  /\ invalid_msg_kind[Verdict(msg)] \in 0..2
           /\ invalid_msg(invalid_msg_kind[Verdict(msg)]).label = Verdict(msg)
           /\ Field[Verdict(msg)] \in BadFields(msg)
           /\ ~Intact(msg)
<1> DEFINE kind == Verdict(msg)
<1>1. kind \in {"BAD_MAGIC0", "BAD_MAGIC1", "BAD_TYPE"}
  BY VerdictType
<1>2. invalid_msg_kind[kind] \in 0..2
  BY <1>1 DEF invalid_msg_kind
<1>3. invalid_msg_reason[invalid_msg_kind[kind]] = kind
  BY <1>1 DEF invalid_msg_kind, invalid_msg_reason
<1>4. Field[kind] \in BadFields(msg)
  <2>1. CASE kind = "BAD_MAGIC0"
    <3>1. msg.magic0 # WIRE_MAGIC0
      BY <2>1 DEF Verdict
    <3> QED
      BY <2>1, <3>1 DEF Field, BadFields
  <2>2. CASE kind = "BAD_MAGIC1"
    <3>1. msg.magic1 # WIRE_MAGIC1
      BY <2>2 DEF Verdict
    <3> QED
      BY <2>2, <3>1 DEF Field, BadFields
  <2>3. CASE kind = "BAD_TYPE"
    <3>1. msg.type # WIRE_TYPE_WHEEL_SPEED
      BY <2>3 DEF Verdict
    <3> QED
      BY <2>3, <3>1 DEF Field, BadFields
  <2> QED
    BY <1>1, <2>1, <2>2, <2>3
<1> HIDE DEF kind
<1>5. invalid_msg(invalid_msg_kind[kind]).label = kind
  BY <1>3 DEF invalid_msg
<1> QED
  BY <1>2, <1>4, <1>5 DEF kind, Intact

\* The events of one cycle, by kind.
LEMMA ShownKinds ==
    ASSUME NEW kind, h_cycle \in Seq(TracedEvent)
    PROVE  \A event : event \in Shown(kind) <=>
               \E k \in 1..Len(h_cycle) : h_cycle[k] = event /\ event.event = kind
  BY DEF Shown

\* The shape of a cycle is what specs/system.speqtr asks of it.
LEMMA ShapeIsCycle ==
    ASSUME CycleIInv
    PROVE  LinuxControlCycle
<1> SUFFICES ASSUME h_cycle # <<>>, h_cycle[1].event = "received_msg"
             PROVE  LinuxControlCycle
  BY DEF LinuxControlCycle
<1> DEFINE answer == IF actuator_pc = "done" THEN Len(h_cycle) - 2 ELSE Len(h_cycle)
<1>1. /\ h_cycle \in Seq(TracedEvent)
      /\ Len(h_cycle) \in Nat
      /\ 1 \in 1..Len(h_cycle)
  BY DEF CycleIInv
<1>2. ~NothingReceived
  BY <1>1 DEF NothingReceived
<1>3. actuator_pc = "done" =>
         h_cycle[answer + 1] = target_velocity(0) /\ h_cycle[answer + 2] = deinit
  BY DEF CycleIInv, CycleShape
<1>4. \A k \in 1..Len(h_cycle) :
         \/ k \in 1..answer
         \/ actuator_pc = "done" /\ (k = answer + 1 \/ k = answer + 2)
  BY <1>1
<1>5. \A k \in 1..Len(h_cycle) :
         k \in 1..answer \/ h_cycle[k].event \in {"target_velocity", "deinit"}
  BY <1>3, <1>4, EventKinds
<1>6. CASE answer = 3 /\ IntactAnswered
  <2>1. /\ Intact(h_cycle[1])
        /\ h_cycle[2] = target_velocity(h_pwm.duty)
        /\ h_cycle[3] = set_pwm(h_pwm)
        /\ 3 \in 1..Len(h_cycle)
    BY <1>1, <1>6 DEF IntactAnswered
  <2>2. Shown("invalid_msg") = {}
    <3>1. \A k \in 1..Len(h_cycle) : h_cycle[k].event # "invalid_msg"
      <4>1. \A k \in 1..3 : k = 1 \/ k = 2 \/ k = 3
        OBVIOUS
      <4> QED
        BY <1>5, <1>6, <2>1, <4>1, EventKinds, SMTT(40)
    <3> QED
      BY <1>1, <3>1, ShownKinds
  <2>3. h_cycle[3].duty = h_pwm.duty /\ h_cycle[3].seqnum = h_pwm.seqnum
    BY <2>1 DEF set_pwm
  <2>4. h_cycle[3] \in Shown("set_pwm")
    BY <1>1, <2>1, EventKinds, ShownKinds
  <2>5. CASE actuator_pc # "done"
    <3>1. twist = [seqnum |-> h_pwm.seqnum, velocity |-> h_pwm.duty]
      BY <2>5 DEF CycleIInv, ActuatorIInv, TwistMatchesPwm
    <3>2. h_cycle[3] = set_pwm([seqnum |-> twist.seqnum, duty |-> twist.velocity])
      BY <2>1, <3>1 DEF set_pwm
    <3> QED
      BY <2>1, <2>2, <2>3, <2>4, <3>2 DEF LinuxControlCycle
  <2>6. CASE actuator_pc = "done"
    <3>1. answer + 2 \in 1..Len(h_cycle)
      BY <1>1, <1>6, <2>6
    <3>2. deinit \in Shown("deinit")
      BY <1>1, <1>3, <2>6, <3>1, EventKinds, ShownKinds
    <3> QED
      BY <2>1, <2>2, <2>3, <2>4, <3>2 DEF LinuxControlCycle
  <2> QED
    BY <2>5, <2>6
<1>7. CASE answer = 2 /\ CorruptRefused
  <2>1. /\ Verdict(h_cycle[1]) # "VALID"
        /\ h_cycle[2] = invalid_msg(invalid_msg_kind[Verdict(h_cycle[1])])
        /\ 2 \in 1..Len(h_cycle)
    BY <1>1, <1>7 DEF CorruptRefused
  <2>2. \A k \in 1..2 : k = 1 \/ k = 2
    OBVIOUS
  <2>3. Shown("set_pwm") = {}
    <3>1. h_cycle[2].event = "invalid_msg"
      BY <2>1, EventKinds
    <3>2. \A k \in 1..Len(h_cycle) : h_cycle[k].event # "set_pwm"
      BY <1>5, <1>7, <2>2, <3>1
    <3> QED
      BY <1>1, <3>2, ShownKinds
  <2>4. Shown("invalid_msg") = {h_cycle[2]}
    <3>1. \A k \in 1..Len(h_cycle) : h_cycle[k].event = "invalid_msg" => k = 2
      BY <1>5, <1>7, <2>2, EventKinds
    <3>2. h_cycle[2].event = "invalid_msg"
      BY <2>1, EventKinds
    <3> QED
      BY <1>1, <2>1, <3>1, <3>2, ShownKinds
  <2>5. Cardinality(Shown("invalid_msg")) = 1
    BY <2>4, FS_Singleton
  <2>6. /\ h_cycle[2].label = Verdict(h_cycle[1])
        /\ Field[Verdict(h_cycle[1])] \in BadFields(h_cycle[1])
        /\ ~Intact(h_cycle[1])
    BY <2>1, VerdictNamesField
  <2> QED
    BY <2>3, <2>4, <2>5, <2>6 DEF LinuxControlCycle
<1> QED
  BY <1>2, <1>6, <1>7 DEF CycleIInv, CycleShape

\* The tracepoints' events are events.
LEMMA EventsTyped ==
    ASSUME ActuatorTypeOK'
    PROVE  /\ {startup, init, deinit, set_pwm(h_pwm'), target_velocity(0),
               target_velocity(duty')} \subseteq TracedEvent
           /\ \A msg \in Datagram : received_msg(msg) \in TracedEvent
           /\ \A reason \in 0..2 : invalid_msg(reason) \in TracedEvent
<1>1. 0 \in 0..DUTY_MAX
  BY DutyAssumption
<1> QED
  BY <1>1 DEF TracedEvent, ActuatorTypeOK

\* A traced step is a step of the program without its tracepoints.
LEMMA TracedStepIsStep == [TraceNext]_traceVars => [ActuatorNext]_actuatorVars
  BY DEF TraceNext, TracedProgram, World, TracesStartup, TracesStart, TracesReceive,
         TracesStop, Untraced, ActuatorNext, Program, traceVars

\* A step that traces nothing and plans nothing keeps the shape of the cycle.
LEMMA CycleKept ==
    ASSUME CycleIInv, ActuatorIInv', UNCHANGED <<h_cycle, h_pwm>>,
           actuator_pc' = "done" <=> actuator_pc = "done",
           actuator_pc' \in {"startup", "registered", "bound"} =>
               actuator_pc \in {"startup", "registered", "bound"}
    PROVE  CycleIInv'
<1>1. NothingReceived' <=> NothingReceived
  BY DEF NothingReceived
<1>2. /\ IntactAnswered' <=> IntactAnswered
      /\ CorruptRefused' <=> CorruptRefused
  BY DEF IntactAnswered, CorruptRefused
<1>3. CycleShape'
  BY <1>1, <1>2 DEF CycleIInv, CycleShape
<1> QED
  BY <1>3 DEF CycleIInv

\* The initial cycle is empty.
LEMMA CycleInit == TraceInit => CycleIInv
<1> SUFFICES ASSUME TraceInit PROVE CycleIInv
  OBVIOUS
<1>1. ActuatorIInv
  BY ActuatorInvInit DEF TraceInit
<1>2. h_cycle = <<>> /\ actuator_pc = "startup"
  BY DEF TraceInit, ActuatorInit
<1>3. h_cycle \in Seq(TracedEvent) /\ Len(h_cycle) = 0
  BY <1>2
<1>4. NothingReceived
  BY <1>3 DEF NothingReceived
<1> QED
  BY <1>1, <1>2, <1>3, <1>4 DEF CycleIInv, CycleShape

\* The start of the program is traced before anything is received.
LEMMA CycleStart ==
    ASSUME CycleIInv, ActuatorIInv', TracesStartup \/ TracesStart
    PROVE  CycleIInv'
<1>1. ActuatorTypeOK'
  BY DEF ActuatorIInv
<1>2. h_cycle' \in Seq(TracedEvent) /\ NothingReceived'
  <2>1. CASE TracesStartup
    <3>1. h_cycle' = <<startup>>
      BY <2>1 DEF TracesStartup
    <3>2. startup \in TracedEvent
      BY <1>1, EventsTyped
    <3>3. /\ h_cycle' \in Seq(TracedEvent)
          /\ \A k \in 1..Len(h_cycle') : h_cycle'[k] = startup
      BY <3>1, <3>2
    <3> QED
      BY <3>3, EventKinds DEF NothingReceived
  <2>2. CASE TracesStart
    <3> DEFINE t == <<init, set_pwm(h_pwm')>>
    <3>1. h_cycle' = h_cycle \o t /\ actuator_pc = "bound"
      BY <2>2 DEF TracesStart, StartActuator
    <3>2. h_cycle \in Seq(TracedEvent) /\ NothingReceived
      BY <3>1 DEF CycleIInv, CycleShape
    <3>3. init \in TracedEvent /\ set_pwm(h_pwm') \in TracedEvent
      BY <1>1, EventsTyped
    <3>4. t \in Seq(TracedEvent) /\ Len(t) = 2
      BY <3>3
    <3>5. t[1].event # "received_msg" /\ t[2].event # "received_msg"
      BY EventKinds
    <3> HIDE DEF t
    <3>6. /\ h_cycle' \in Seq(TracedEvent)
          /\ Len(h_cycle) \in Nat
          /\ Len(h_cycle') = Len(h_cycle) + 2
          /\ \A k \in 1..Len(h_cycle) : h_cycle'[k] = h_cycle[k]
          /\ \A k \in 1..2 : h_cycle'[Len(h_cycle) + k] = t[k]
      BY <3>1, <3>2, <3>4, ConcatPositions, SMTT(40)
    <3>7. /\ h_cycle'[Len(h_cycle) + 1] = t[1]
          /\ h_cycle'[Len(h_cycle) + 2] = t[2]
      BY <3>6
    <3>8. \A k \in 1..Len(h_cycle') :
             \/ k \in 1..Len(h_cycle)
             \/ k = Len(h_cycle) + 1 \/ k = Len(h_cycle) + 2
      <4>1. Len(h_cycle) \in Nat /\ Len(h_cycle') = Len(h_cycle) + 2
        BY <3>6
      <4> QED
        BY <4>1
    <3> QED
      BY <3>2, <3>5, <3>6, <3>7, <3>8 DEF NothingReceived
  <2> QED
    BY <2>1, <2>2
<1>3. actuator_pc' # "done"
  BY DEF TracesStartup, TracesStart, sigint_register, StartActuator
<1> QED
  BY <1>2, <1>3 DEF CycleIInv, CycleShape

\* A datagram begins a cycle, and the answer to it follows at once.
LEMMA CycleReceive ==
    ASSUME CycleIInv, ActuatorIInv', TracesReceive
    PROVE  CycleIInv'
<1> DEFINE msg == Head(rcvbuf)
<1>1. /\ Receive
      /\ ActuatorTypeOK'
      /\ rcvbuf # <<>> /\ rcvbuf \in Seq(Datagram)
      /\ h_verdict' = Verdict(msg)
      /\ actuator_pc' = "loop"
      /\ h_cycle' = <<received_msg(msg)>> \o Answer
  BY DEF TracesReceive, Receive, CycleIInv, ActuatorIInv
<1>2. msg \in Datagram
  BY <1>1
<1> HIDE DEF msg
<1>3. received_msg(msg) \in TracedEvent
  BY <1>1, <1>2, EventsTyped
<1>4. CASE Verdict(msg) = "VALID"
  <2>1. Answer = <<target_velocity(duty'), set_pwm(h_pwm')>>
    BY <1>1, <1>4 DEF Answer
  <2>2. target_velocity(duty') \in TracedEvent /\ set_pwm(h_pwm') \in TracedEvent
    BY <1>1, EventsTyped
  <2>3. h_cycle' \in Seq(TracedEvent) /\ Len(h_cycle') = 3
    BY <1>1, <1>3, <2>1, <2>2, OneBefore
  <2>4. /\ h_cycle'[1] = received_msg(msg)
        /\ h_cycle'[2] = target_velocity(duty')
        /\ h_cycle'[3] = set_pwm(h_pwm')
    BY <1>1, <1>3, <2>1, <2>2, OneBefore
  <2>5. Intact(received_msg(msg))
    BY <1>4, ReceivedHeader, ValidIsIntact
  <2>6. IntactAnswered'
    <3>1. h_pwm'.duty = duty'
      BY DEF ActuatorIInv
    <3> QED
      BY <2>4, <2>5, <3>1, EventKinds DEF IntactAnswered
  <2> QED
    BY <1>1, <2>3, <2>6 DEF CycleIInv, CycleShape
<1>5. CASE Verdict(msg) # "VALID"
  <2> DEFINE refusal == invalid_msg(invalid_msg_kind[Verdict(msg)])
  <2>1. Answer = <<refusal>>
    BY <1>1, <1>5 DEF Answer
  <2>2. refusal \in TracedEvent
    BY <1>1, <1>5, EventsTyped, VerdictNamesField
  <2> HIDE DEF refusal
  <2>3. h_cycle' \in Seq(TracedEvent) /\ Len(h_cycle') = 2
    BY <1>1, <1>3, <2>1, <2>2, OneBefore
  <2>4. h_cycle'[1] = received_msg(msg) /\ h_cycle'[2] = refusal
    BY <1>1, <1>3, <2>1, <2>2, OneBefore
  <2>5. CorruptRefused'
    BY <1>5, <2>4, ReceivedHeader, EventKinds DEF CorruptRefused, refusal
  <2> QED
    BY <1>1, <2>3, <2>5 DEF CycleIInv, CycleShape
<1> QED
  BY <1>4, <1>5

\* The end of the program is traced after the last cycle.
LEMMA CycleStop ==
    ASSUME CycleIInv, ActuatorIInv', TracesStop
    PROVE  CycleIInv'
<1> DEFINE t == <<target_velocity(0), deinit>>
<1>1. /\ ActuatorTypeOK'
      /\ h_cycle \in Seq(TracedEvent)
      /\ h_cycle' = h_cycle \o t
      /\ actuator_pc = "stopping" /\ actuator_pc' = "done"
      /\ h_pwm' = h_pwm
  BY DEF TracesStop, Stop, CycleIInv, ActuatorIInv
<1>2. t \in Seq(TracedEvent) /\ Len(t) = 2
  BY <1>1, EventsTyped
<1>3. t[1] = target_velocity(0) /\ t[2] = deinit
  OBVIOUS
<1> HIDE DEF t
<1>4. /\ h_cycle' \in Seq(TracedEvent)
      /\ Len(h_cycle) \in Nat
      /\ Len(h_cycle') = Len(h_cycle) + 2
      /\ \A k \in 1..Len(h_cycle) : h_cycle'[k] = h_cycle[k]
      /\ \A k \in 1..2 : h_cycle'[Len(h_cycle) + k] = t[k]
  BY <1>1, <1>2, ConcatPositions, SMTT(40)
<1>5. /\ h_cycle'[Len(h_cycle) + 1] = target_velocity(0)
      /\ h_cycle'[Len(h_cycle) + 2] = deinit
  BY <1>3, <1>4
<1>6. \A k \in 1..Len(h_cycle') :
         \/ k \in 1..Len(h_cycle)
         \/ k = Len(h_cycle) + 1 \/ k = Len(h_cycle) + 2
  <2>1. Len(h_cycle) \in Nat /\ Len(h_cycle') = Len(h_cycle) + 2
    BY <1>4
  <2> QED
    BY <2>1
<1>7. \/ NothingReceived
      \/ Len(h_cycle) = 3 /\ IntactAnswered
      \/ Len(h_cycle) = 2 /\ CorruptRefused
  BY <1>1 DEF CycleIInv, CycleShape
<1>8. NothingReceived => NothingReceived'
  BY <1>4, <1>5, <1>6, EventKinds DEF NothingReceived
<1>9. Len(h_cycle) = 3 /\ IntactAnswered => IntactAnswered'
  BY <1>1, <1>4 DEF IntactAnswered
<1>10. Len(h_cycle) = 2 /\ CorruptRefused => CorruptRefused'
  BY <1>4 DEF CorruptRefused
<1> QED
  BY <1>1, <1>4, <1>5, <1>7, <1>8, <1>9, <1>10 DEF CycleIInv, CycleShape

\* Every step preserves the shape of the cycle.
LEMMA CycleStep == CycleIInv /\ [TraceNext]_traceVars => CycleIInv'
<1> SUFFICES ASSUME CycleIInv, [TraceNext]_traceVars PROVE CycleIInv'
  OBVIOUS
<1>1. ActuatorIInv'
  BY TracedStepIsStep, ActuatorInvStep DEF CycleIInv
<1>2. CASE TracesStartup \/ TracesStart
  BY <1>1, <1>2, CycleStart
<1>3. CASE TracesReceive
  BY <1>1, <1>3, CycleReceive
<1>4. CASE TracesStop
  BY <1>1, <1>4, CycleStop
<1>5. CASE Untraced
  BY <1>1, <1>5, CycleKept DEF Untraced, BindSocket, LoopTop, Select, ReceiveShort
<1>6. CASE World
  BY <1>1, <1>6, CycleKept DEF World, CallFails, Signal, DatagramArrives
<1>7. CASE UNCHANGED traceVars
  BY <1>1, <1>7, CycleKept DEF traceVars, actuatorVars
<1> QED
  BY <1>2, <1>3, <1>4, <1>5, <1>6, <1>7 DEF TraceNext, TracedProgram

\* The program with its tracepoints is the program: they only look on, so
\* what is proved of ActuatorSpec holds of TraceSpec.
THEOREM TraceRefines ==
    TraceSpec => ActuatorInit /\ [][ActuatorNext]_actuatorVars
  BY TracedStepIsStep, PTL DEF TraceSpec, TraceInit

\* The trace answers what specs/system.speqtr (WALLBOT-2, 3.2 and 3.3) asks of
\* every control cycle, whatever datagrams arrive and wherever a signal falls.
THEOREM TraceAnswersCycle == TraceSpec => []LinuxControlCycle
<1>1. CycleIInv => LinuxControlCycle
  BY ShapeIsCycle
<1> QED
  BY <1>1, CycleInit, CycleStep, PTL DEF TraceSpec
=============================================================================
