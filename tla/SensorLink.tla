----------------------------- MODULE SensorLink -----------------------------
(***************************************************************************)
(* What the Comms task promises the rest of the system: an ordered,        *)
(* bounded link for wheel speed measurements.  A measurement is lost only  *)
(* where it enters; one that entered is delivered once, in order, under    *)
(* the next number.  The first measurement that enters after a spike is    *)
(* delivered spoiled, every other one intact.                              *)
(***************************************************************************)
EXTENDS Naturals, Sequences

CONSTANTS Speed, CAPACITY, NUMBERS

VARIABLES
    buf,    \* measurements that entered and were not delivered yet
    spike,  \* a spike happened since the last measurement entered
    out     \* the last delivery

linkVars == <<buf, spike, out>>

Init ==
    /\ buf = <<>>
    /\ spike = FALSE
    /\ out = [number |-> 0, wheel_speed |-> 0, intact |-> FALSE]

Enter(speed) ==
    /\ Len(buf) < CAPACITY
    /\ buf' = Append(buf, [wheel_speed |-> speed, hit |-> spike])
    /\ spike' = FALSE
    /\ UNCHANGED out

Spike ==
    /\ spike' = TRUE
    /\ UNCHANGED <<buf, out>>

Deliver ==
    /\ buf # <<>>
    /\ buf' = Tail(buf)
    /\ out' = [number |-> (out.number + 1) % NUMBERS,
               wheel_speed |-> Head(buf).wheel_speed,
               intact |-> ~Head(buf).hit]
    /\ UNCHANGED spike

Next ==
    \/ \E speed \in Speed : Enter(speed)
    \/ Spike
    \/ Deliver

Spec == Init /\ [][Next]_linkVars
=============================================================================
