---------------------------- MODULE VoltageRand8 ----------------------------
(***************************************************************************)
(* VoltageMonitor with its real generator: the walk of VoltageMonitor.tla  *)
(* draws its slopes from Rand8Generator instead of from any byte.  Nothing *)
(* is left to chance, so that what VoltageMonitor.tla assumes of the       *)
(* generator can be checked.                                               *)
(***************************************************************************)
EXTENDS VoltageMonitor, Rand8Generator

\* What VoltageMonitor.tla lets the generator return are the bytes.
ASSUME BytesAssumption == Rand8 = 0..(BYTE - 1)

VARIABLE rand    \* the static variables of rand8()

rand8Vars == <<voltageVars, rand>>

\* The task's first slope is drawn before its first delay.
VoltageRand8Init ==
    /\ VoltageInit
    /\ mv_delta = rand8(Seeded)
    /\ rand = Called(Seeded)

VoltageRand8Wakes == VoltageWakes /\ UNCHANGED rand

\* rand8() is called where the walk meets an end and nowhere else.
VoltageRand8Updates ==
    /\ VoltageUpdates(rand8(rand))
    /\ rand' = IF AtEnd THEN Called(rand) ELSE rand

VoltageRand8Next == VoltageRand8Wakes \/ VoltageRand8Updates

VoltageRand8Spec ==
    /\ VoltageRand8Init
    /\ [][VoltageRand8Next]_rand8Vars
    /\ WF_rand8Vars(VoltageRand8Next)

-----------------------------------------------------------------------------
\* c stays below the multiplier, far from the end of its uint16_t, and the
\* product below the end of its own: nothing the generator computes wraps.
RandTypeOK ==
    /\ rand.state \in [0..(STATE_BYTES - 1) -> 0..(BYTE - 1)]
    /\ rand.c \in 0..(MULT - 1)
    /\ rand.i \in 0..(STATE_BYTES - 1)

\* Newest(r)[n] are the n newest bytes and the carry, as one number: the
\* digits to the base BYTE, the carry above the newest byte.
Newest(r) ==
    LET newest[n \in 0..STATE_BYTES] ==
            IF n = 0 THEN r.c
            ELSE r.state[(r.i + STATE_BYTES - n) % STATE_BYTES]
                     + BYTE * newest[n - 1]
    IN  newest

Value(r) == Newest(r)[STATE_BYTES]

\* BYTE^n
Weight[n \in 0..STATE_BYTES] == IF n = 0 THEN 1 ELSE BYTE * Weight[n - 1]

\* rand8() is the multiply-with-carry generator it is taken from: on the number
\* its variables stand for, a call divides by BYTE modulo
\* MULT * BYTE^STATE_BYTES - 1.
Modulus == MULT * Weight[STATE_BYTES] - 1

MultiplyWithCarry ==
    [][rand' # rand =>
          (BYTE * Value(rand')) % Modulus = Value(rand) % Modulus]_rand8Vars

\* With its real generator the task does what VoltageMonitor.tla says, strong
\* fairness of the nonzero slopes included: that is no assumption here, the
\* generator does not return zero whenever the walk asks for a slope.
ImplementsVoltage == VoltageSpec
=============================================================================
