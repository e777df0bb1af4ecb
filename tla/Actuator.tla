------------------------------ MODULE Actuator ------------------------------
(***************************************************************************)
(* The actuator program on Linux (linux/src/main.c, actuator.cpp): a loop  *)
(* that polls its UDP socket, answers every well-formed datagram with one  *)
(* more step of velocity, ignores the others, and on SIGINT or SIGTERM     *)
(* stops the robot and exits.  Its assertions are compiled in: a call that *)
(* fails, or a datagram that is too short, aborts it where it stands.      *)
(*                                                                         *)
(* Velocities are in thousandths of the maximum, as the duty cycle is.     *)
(* A variable named h_... is history: no guard reads it.                   *)
(***************************************************************************)
EXTENDS Integers, Sequences, WireProtocol

CONSTANTS
    DUTY_MAX,     \* 1000
    DUTY_STEP,    \* 10
    TWIST_MOD,    \* actuator_s.seqnum is a uint32_t: 2^32
    RCVBUF        \* datagrams the kernel keeps for the socket

UINT16 == 65536

ASSUME DutyAssumption ==
    /\ DUTY_MAX \in Nat
    /\ DUTY_STEP \in Nat \ {0}
    /\ DUTY_MAX + DUTY_STEP < UINT16
ASSUME TwistModAssumption == TWIST_MOD \in Nat \ {0, 1}
ASSUME RcvbufAssumption == RCVBUF \in Nat \ {0}

VARIABLES
    actuator_pc,       \* where the program is
    g_exit_signaled,   \* set by the signal handler, read at the top of the loop
    duty,
    twist_seqnum,      \* actuator_s.seqnum, the number of the next Twist
    rcvbuf,            \* datagrams received by the kernel, oldest first
    twist,             \* the last Twist published to the simulator
    h_pwm,             \* the last set_pwm trace
    h_verdict,         \* what was traced about the last received_msg
    h_late             \* non-zero velocities published since the signal

actuatorVars == <<actuator_pc, g_exit_signaled, duty, twist_seqnum, rcvbuf,
                  twist, h_pwm, h_verdict, h_late>>

NoTwist == [seqnum |-> 0, velocity |-> 0]

ActuatorInit ==
    /\ actuator_pc = "startup"
    /\ g_exit_signaled = 0
    /\ duty = 0
    /\ twist_seqnum = 1
    /\ rcvbuf = <<>>
    /\ twist = NoTwist
    /\ h_pwm = [seqnum |-> 0, duty |-> 0]
    /\ h_verdict = "NONE"
    /\ h_late = 0

-----------------------------------------------------------------------------
(* The environment: the kernel's socket buffer and the operator's signals.  *)

\* Until the socket is bound, and when its buffer is full, a datagram is lost.
Bound == actuator_pc \in {"bound", "loop", "select", "recv", "stopping"}

DatagramArrives(msg) ==
    /\ rcvbuf' = IF Bound /\ Len(rcvbuf) < RCVBUF
                 THEN Append(rcvbuf, msg)
                 ELSE rcvbuf
    /\ UNCHANGED <<actuator_pc, g_exit_signaled, duty, twist_seqnum, twist,
                   h_pwm, h_verdict, h_late>>

\* SIGINT or SIGTERM.  Before sigint_register the default action kills the
\* program; afterwards sigint_handler sets the flag and returns.
Signal ==
    /\ actuator_pc \notin {"done", "killed", "aborted"}
    /\ IF actuator_pc = "startup"
       THEN actuator_pc' = "killed" /\ UNCHANGED g_exit_signaled
       ELSE g_exit_signaled' = 1 /\ UNCHANGED actuator_pc
    /\ UNCHANGED <<duty, twist_seqnum, rcvbuf, twist, h_pwm, h_verdict, h_late>>

-----------------------------------------------------------------------------
(* The program.                                                             *)

actuator_set_vel(velocity) ==
    /\ twist' = [seqnum |-> twist_seqnum, velocity |-> velocity]
    /\ twist_seqnum' = (twist_seqnum + 1) % TWIST_MOD
    /\ h_late' = IF g_exit_signaled = 1 /\ velocity # 0 THEN h_late + 1 ELSE h_late

\* Mutant: traced after the actuation.
TraceSetPwm_After(d) ==
    h_pwm' = [seqnum |-> (twist_seqnum + 1) % TWIST_MOD, duty |-> d]

TraceSetPwm(d) == h_pwm' = [seqnum |-> twist_seqnum, duty |-> d]

sigint_register ==
    /\ actuator_pc = "startup"
    /\ actuator_pc' = "registered"
    /\ UNCHANGED <<g_exit_signaled, duty, twist_seqnum, rcvbuf, twist, h_pwm,
                   h_verdict, h_late>>

BindSocket ==
    /\ actuator_pc = "registered"
    /\ actuator_pc' = "bound"
    /\ UNCHANGED <<g_exit_signaled, duty, twist_seqnum, rcvbuf, twist, h_pwm,
                   h_verdict, h_late>>

\* actuator_new and the first, zero actuation.
StartActuator ==
    /\ actuator_pc = "bound"
    /\ actuator_pc' = "loop"
    /\ duty' = 0
    /\ TraceSetPwm(0)
    /\ actuator_set_vel(0)
    /\ UNCHANGED <<g_exit_signaled, rcvbuf, h_verdict>>

\* Mutant: goes on while datagrams wait.
LoopTop_WhenDrained ==
    /\ actuator_pc = "loop"
    /\ actuator_pc' = IF g_exit_signaled = 0 \/ rcvbuf # <<>>
                      THEN "select" ELSE "stopping"
    /\ UNCHANGED <<g_exit_signaled, duty, twist_seqnum, rcvbuf, twist, h_pwm,
                   h_verdict, h_late>>

\* The only place that reads the flag.
LoopTop ==
    /\ actuator_pc = "loop"
    /\ actuator_pc' = IF g_exit_signaled = 0 THEN "select" ELSE "stopping"
    /\ UNCHANGED <<g_exit_signaled, duty, twist_seqnum, rcvbuf, twist, h_pwm,
                   h_verdict, h_late>>

\* Polls: tv is zero.  EINTR looks like an empty socket.
Select ==
    /\ actuator_pc = "select"
    /\ \/ rcvbuf # <<>> /\ actuator_pc' = "recv"
       \/ (rcvbuf = <<>> \/ g_exit_signaled = 1) /\ actuator_pc' = "loop"
    /\ UNCHANGED <<g_exit_signaled, duty, twist_seqnum, rcvbuf, twist, h_pwm,
                   h_verdict, h_late>>

\* Mutant: one too high.
clamped_duty_OffByOne(d) == IF d > DUTY_MAX + 1 THEN DUTY_MAX ELSE d

clamped_duty(d) == IF d > DUTY_MAX THEN DUTY_MAX ELSE d

\* Mutant: the type is not looked at.
Verdict_AnyType(msg) ==
    CASE msg.magic0 # WIRE_MAGIC0 -> "BAD_MAGIC0"
      [] msg.magic0 = WIRE_MAGIC0 /\ msg.magic1 # WIRE_MAGIC1 -> "BAD_MAGIC1"
      [] OTHER -> "VALID"

Verdict(msg) ==
    CASE msg.magic0 # WIRE_MAGIC0 -> "BAD_MAGIC0"
      [] msg.magic0 = WIRE_MAGIC0 /\ msg.magic1 # WIRE_MAGIC1 -> "BAD_MAGIC1"
      [] /\ msg.magic0 = WIRE_MAGIC0
         /\ msg.magic1 = WIRE_MAGIC1
         /\ msg.type # WIRE_TYPE_WHEEL_SPEED -> "BAD_TYPE"
      [] OTHER -> "VALID"

\* One datagram of WIRE_MSG_SIZE bytes, from received_msg to the actuation.
Receive ==
    /\ actuator_pc = "recv"
    /\ rcvbuf # <<>>
    /\ Head(rcvbuf).whole
    /\ rcvbuf' = Tail(rcvbuf)
    /\ actuator_pc' = "loop"
    /\ h_verdict' = Verdict(Head(rcvbuf))
    /\ IF Verdict(Head(rcvbuf)) = "VALID"
       THEN /\ duty' = clamped_duty((duty + DUTY_STEP) % UINT16)
            /\ TraceSetPwm(duty')
            /\ actuator_set_vel(duty')
       ELSE UNCHANGED <<duty, twist_seqnum, twist, h_pwm, h_late>>
    /\ UNCHANGED g_exit_signaled

\* recv returns fewer bytes.  The assertion that follows also accepts an errno
\* of EAGAIN, which recv has not set: what an earlier call left there decides.
ReceiveShort ==
    /\ actuator_pc = "recv"
    /\ rcvbuf # <<>>
    /\ ~Head(rcvbuf).whole
    /\ rcvbuf' = Tail(rcvbuf)
    /\ actuator_pc' \in {"loop", "aborted"}
    /\ UNCHANGED <<g_exit_signaled, duty, twist_seqnum, twist, h_pwm, h_verdict,
                   h_late>>

\* After the loop: the last actuation has no set_pwm trace.
Stop ==
    /\ actuator_pc = "stopping"
    /\ actuator_pc' = "done"
    /\ actuator_set_vel(0)
    /\ UNCHANGED <<g_exit_signaled, duty, rcvbuf, h_pwm, h_verdict>>

Program ==
    \/ sigint_register
    \/ BindSocket
    \/ StartActuator
    \/ LoopTop
    \/ Select
    \/ Receive
    \/ ReceiveShort
    \/ Stop

\* The assertions on what the kernel and the allocator return: the affinity and
\* the handlers, socket and bind, actuator_new, select, recv.  The robot is
\* told nothing.
CallFails ==
    /\ actuator_pc \in {"startup", "registered", "bound", "select", "recv"}
    /\ actuator_pc' = "aborted"
    /\ UNCHANGED <<g_exit_signaled, duty, twist_seqnum, rcvbuf, twist, h_pwm,
                   h_verdict, h_late>>

-----------------------------------------------------------------------------
ActuatorTypeOK ==
    /\ actuator_pc \in {"startup", "registered", "bound", "loop", "select",
                        "recv", "stopping", "done", "killed", "aborted"}
    /\ g_exit_signaled \in {0, 1}
    /\ duty \in 0..DUTY_MAX
    /\ twist_seqnum \in 0..(TWIST_MOD - 1)
    /\ Len(rcvbuf) <= RCVBUF
    /\ twist \in [seqnum : 0..(TWIST_MOD - 1), velocity : 0..DUTY_MAX]
    /\ h_pwm \in [seqnum : 0..(TWIST_MOD - 1), duty : 0..DUTY_MAX]
    /\ h_verdict \in {"NONE", "VALID", "BAD_MAGIC0", "BAD_MAGIC1", "BAD_TYPE"}
    /\ h_late \in Nat

\* The set_pwm trace is what the simulator was told: until the program stops,
\* the last Twist carries the number and the duty of the last set_pwm; the
\* Twist that stops the robot is the one after it, and is zero.
TwistMatchesPwm ==
    IF actuator_pc = "done"
    THEN twist = [seqnum |-> (h_pwm.seqnum + 1) % TWIST_MOD, velocity |-> 0]
    ELSE twist = [seqnum |-> h_pwm.seqnum, velocity |-> h_pwm.duty]

\* A signal that meets the program between the top of the loop and the
\* datagram it is about to handle lets one more actuation through, never two.
AtMostOneLateActuation == h_late <= 1

\* Why: the flag is set only by a registered handler and the loop ends only on
\* it; once an actuation is late, the next thing read is the flag.
FlagAgreesWithLoop ==
    /\ actuator_pc \in {"startup", "killed"} => g_exit_signaled = 0
    /\ actuator_pc \in {"stopping", "done"} => g_exit_signaled = 1
    /\ h_late > 0 => /\ g_exit_signaled = 1
                     /\ actuator_pc \in {"loop", "stopping", "done"}

\* The velocity rises by at most one step, only for a datagram with a correct
\* header, and falls only to zero and only when the program stops: corrupt
\* messages are ignored (WALLBOT-3.2 and 3.3 of specs/system.speqtr) and no
\* sequence of datagrams, signals and polls makes the robot jump.
VelocityStepsUp ==
    [][twist'.velocity # twist.velocity =>
         \/ /\ rcvbuf # <<>>
            /\ Intact(Head(rcvbuf))
            /\ rcvbuf' = Tail(rcvbuf)
            /\ twist.velocity < twist'.velocity
            /\ twist'.velocity <= twist.velocity + DUTY_STEP
         \/ /\ actuator_pc' = "done"
            /\ twist'.velocity = 0]_actuatorVars

\* A signal stops the robot: the program ends with a zero velocity as its last
\* word, however many datagrams keep arriving.  Only a failed assertion excuses
\* it: an abort leaves the robot at the velocity it was last told.
SignalStopsRobot ==
    g_exit_signaled = 1 ~>
        \/ actuator_pc = "done" /\ twist.velocity = 0
        \/ actuator_pc = "aborted"
=============================================================================
