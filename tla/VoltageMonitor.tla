--------------------------- MODULE VoltageMonitor ---------------------------
(***************************************************************************)
(* The VoltageMonitor task (freertos/src/voltage_monitor.c): a simulated   *)
(* supply voltage that walks between MV_MIN and MV_MAX and draws a new     *)
(* slope from rand8() at either end.  A reading of MV_SPIKE or more is     *)
(* reported as a spike; with g_do_voltage_spike unset the walk is held     *)
(* one below it.                                                           *)
(*                                                                         *)
(* Only the bytes rand8() can return matter here, not their order.         *)
(***************************************************************************)
EXTENDS Integers

CONSTANTS
    MV_MIN,    \* 11000
    MV_MAX,    \* 13000
    MV_SPIKE,  \* 13000
    Rand8      \* what rand8() may return: 0..255

ASSUME MillivoltsAssumption ==
    /\ MV_MIN \in Int
    /\ MV_MAX \in Int
    /\ MV_SPIKE \in Int
    /\ MV_MIN < MV_SPIKE
    /\ MV_SPIKE <= MV_MAX
ASSUME Rand8Assumption == Rand8 \subseteq Nat /\ Rand8 # {}

VARIABLES
    voltage_pc,         \* "delay": in xTaskDelayUntil; "run": woken by the tick
    millivolts,
    mv_delta,
    g_do_voltage_spike  \* .noinit: written by the test framework before boot

voltageVars == <<voltage_pc, millivolts, mv_delta, g_do_voltage_spike>>

VoltageInit ==
    /\ voltage_pc = "delay"
    /\ millivolts = MV_MIN
    /\ mv_delta \in Rand8
    /\ g_do_voltage_spike \in {0, 1}

\* Mutant: the level at which the walk is held is reported.
VoltageSpike_OneBelow == IF millivolts >= MV_SPIKE - 1 THEN 1 ELSE 0

\* What the task reports before it moves on.
VoltageSpike == IF millivolts >= MV_SPIKE THEN 1 ELSE 0

VoltageWakes ==
    /\ voltage_pc = "delay"
    /\ voltage_pc' = "run"
    /\ UNCHANGED <<millivolts, mv_delta, g_do_voltage_spike>>

Moved == millivolts + mv_delta

AtEnd == Moved >= MV_MAX \/ Moved <= MV_MIN

\* Mutant: the upper end only.
Bounded_Above(mv) == IF mv >= MV_MAX THEN MV_MAX ELSE mv

Bounded(mv) ==
    IF mv >= MV_MAX THEN MV_MAX ELSE IF mv <= MV_MIN THEN MV_MIN ELSE mv

\* Mutant: the new slope points down at either end.
Slope_Down(draw) == IF AtEnd THEN -draw ELSE mv_delta

Slope(draw) ==
    IF Moved >= MV_MAX THEN -draw ELSE IF Moved <= MV_MIN THEN draw ELSE mv_delta

\* Mutant: held whatever the flag says.
Held_Always(mv) == IF mv >= MV_SPIKE THEN MV_SPIKE - 1 ELSE mv

Held(mv) ==
    IF g_do_voltage_spike = 0 /\ mv >= MV_SPIKE THEN MV_SPIKE - 1 ELSE mv

\* One pass of the loop; the composition posts the reading in the same step.
VoltageUpdates(draw) ==
    /\ voltage_pc = "run"
    /\ voltage_pc' = "delay"
    /\ mv_delta' = Slope(draw)
    /\ millivolts' = Held(Bounded(Moved))
    /\ UNCHANGED g_do_voltage_spike

VoltageNext ==
    \/ VoltageWakes
    \/ \E draw \in Rand8 : VoltageUpdates(draw)

\* The tick wakes the task and the task then runs; the generator is not stuck
\* at zero whenever the walk asks it for a slope.
VoltageFairness ==
    /\ WF_voltageVars(VoltageNext)
    /\ SF_voltageVars(AtEnd /\ \E draw \in Rand8 \ {0} : VoltageUpdates(draw))

VoltageSpec == VoltageInit /\ [][VoltageNext]_voltageVars /\ VoltageFairness

-----------------------------------------------------------------------------
VoltageTypeOK ==
    /\ voltage_pc \in {"delay", "run"}
    /\ millivolts \in MV_MIN..MV_MAX
    /\ mv_delta \in Rand8 \cup {-draw : draw \in Rand8}
    /\ g_do_voltage_spike \in {0, 1}

\* rand8() can return zero.  The walk survives that at MV_MIN and at MV_MAX,
\* where it draws again; one below the spike level, with spikes off, it does
\* not: nothing draws a slope there.  Nowhere else can the voltage freeze.
FreezesOnlyBelowSpike ==
    mv_delta = 0 =>
        \/ millivolts \in {MV_MIN, MV_MAX}
        \/ g_do_voltage_spike = 0 /\ millivolts = MV_SPIKE - 1

\* With spikes asked for, the walk reaches the spike level again and again.
SpikesRecur == g_do_voltage_spike # 0 => []<>(millivolts >= MV_SPIKE)
=============================================================================
