--------------------------- MODULE VoltageProofs ---------------------------
(***************************************************************************)
(* Proofs about the VoltageMonitor task, with any generator of bytes and   *)
(* with its own, for every range of the supply voltage, every spike level  *)
(* in it, and every multiply-with-carry generator of that form.            *)
(***************************************************************************)
EXTENDS VoltageRand8, WellFoundedInduction, TLAPS

\* One pass keeps the voltage in its range, whatever the slope; the walk held
\* below the spike level stays in it because MV_MIN is below that level.
LEMMA WalkStaysInRange ==
    ASSUME millivolts \in Int, mv_delta \in Int
    PROVE  /\ Bounded(Moved) \in MV_MIN..MV_MAX
           /\ Held(Bounded(Moved)) \in MV_MIN..MV_MAX
<1>1. Moved \in Int
  BY DEF Moved
<1>2. Bounded(Moved) \in MV_MIN..MV_MAX
  BY <1>1, MillivoltsAssumption DEF Bounded
<1> QED
  BY <1>2, MillivoltsAssumption DEF Held

\* Whatever is drawn, the slopes are bytes or their negations.
LEMMA SlopeTypes ==
    ASSUME VoltageTypeOK
    PROVE  /\ mv_delta \in Int
           /\ \A draw \in Rand8 :
                  Slope(draw) \in Rand8 \cup {-byte : byte \in Rand8}
<1>1. mv_delta \in Int
  BY Rand8Assumption DEF VoltageTypeOK
<1>2. ASSUME NEW draw \in Rand8
      PROVE  Slope(draw) \in Rand8 \cup {-byte : byte \in Rand8}
  BY DEF Slope, VoltageTypeOK
<1> QED
  BY <1>1, <1>2

\* The type invariant is preserved by every step.
LEMMA VoltageTypeStep ==
    VoltageTypeOK /\ [VoltageNext]_voltageVars => VoltageTypeOK'
<1> SUFFICES ASSUME VoltageTypeOK, [VoltageNext]_voltageVars
             PROVE  VoltageTypeOK'
  OBVIOUS
<1>1. CASE VoltageWakes
  BY <1>1 DEF VoltageWakes, VoltageTypeOK
<1>2. CASE \E draw \in Rand8 : VoltageUpdates(draw)
  <2>1. PICK draw \in Rand8 : VoltageUpdates(draw)
    BY <1>2
  <2>2. millivolts \in Int /\ mv_delta \in Int
    BY SlopeTypes, MillivoltsAssumption DEF VoltageTypeOK
  <2>3. millivolts' \in MV_MIN..MV_MAX
    BY <2>1, <2>2, WalkStaysInRange DEF VoltageUpdates
  <2>4. mv_delta' \in Rand8 \cup {-byte : byte \in Rand8}
    BY <2>1, SlopeTypes DEF VoltageUpdates
  <2> QED
    BY <2>1, <2>3, <2>4 DEF VoltageUpdates, VoltageTypeOK
<1>3. CASE UNCHANGED voltageVars
  BY <1>3 DEF voltageVars, VoltageTypeOK
<1> QED
  BY <1>1, <1>2, <1>3 DEF VoltageNext

\* The type invariant and FreezesOnlyBelowSpike hold initially.
LEMMA VoltageInvInit == VoltageInit => VoltageTypeOK /\ FreezesOnlyBelowSpike
<1> SUFFICES ASSUME VoltageInit
             PROVE  VoltageTypeOK /\ FreezesOnlyBelowSpike
  OBVIOUS
<1>1. MV_MIN \in MV_MIN..MV_MAX
  BY MillivoltsAssumption
<1> QED
  BY <1>1 DEF VoltageInit, VoltageTypeOK, FreezesOnlyBelowSpike

\* A slope of zero is drawn only where the walk ends, and a walk that rests at
\* an end draws again: neither leads to a rest anywhere else.
LEMMA FreezeStep ==
    ASSUME VoltageTypeOK, FreezesOnlyBelowSpike, [VoltageNext]_voltageVars
    PROVE  FreezesOnlyBelowSpike'
<1>1. CASE VoltageWakes \/ UNCHANGED voltageVars
  BY <1>1 DEF VoltageWakes, voltageVars, FreezesOnlyBelowSpike
<1>2. CASE \E draw \in Rand8 : VoltageUpdates(draw)
  <2> SUFFICES ASSUME mv_delta' = 0
               PROVE  \/ millivolts' \in {MV_MIN, MV_MAX}
                      \/ g_do_voltage_spike = 0 /\ millivolts' = MV_SPIKE - 1
    BY <1>2 DEF VoltageUpdates, FreezesOnlyBelowSpike
  <2>1. PICK draw \in Rand8 : VoltageUpdates(draw)
    BY <1>2
  <2>2. millivolts \in MV_MIN..MV_MAX /\ mv_delta \in Int /\ Moved \in Int
    BY SlopeTypes, MillivoltsAssumption DEF VoltageTypeOK, Moved
  <2>3. CASE AtEnd
    <3>1. Bounded(Moved) \in {MV_MIN, MV_MAX}
      BY <2>3 DEF AtEnd, Bounded
    <3> QED
      BY <2>1, <3>1 DEF VoltageUpdates, Held
  <2>4. CASE ~AtEnd
    <3>1. mv_delta = 0
      BY <2>1, <2>4 DEF VoltageUpdates, Slope, AtEnd
    <3>2. Moved = millivolts /\ Bounded(Moved) = millivolts
      BY <2>2, <2>4, <3>1 DEF Moved, Bounded, AtEnd
    <3>3. millivolts \notin {MV_MIN, MV_MAX}
      BY <2>4, <3>2, MillivoltsAssumption DEF AtEnd
    <3>4. g_do_voltage_spike = 0 /\ millivolts = MV_SPIKE - 1
      BY <3>1, <3>3 DEF FreezesOnlyBelowSpike
    <3> QED
      BY <2>1, <3>2, <3>4 DEF VoltageUpdates, Held
  <2> QED
    BY <2>3, <2>4
<1> QED
  BY <1>1, <1>2 DEF VoltageNext

\* The voltage stays between its limits and is only held where it should be.
THEOREM VoltageTypeCorrect == VoltageSpec => []VoltageTypeOK
<1>1. VoltageInit => VoltageTypeOK
  BY VoltageInvInit
<1> QED
  BY <1>1, VoltageTypeStep, PTL DEF VoltageSpec

\* A generator that may return zero can stop the walk for good in one place
\* only, one below the spike level with spikes off, whatever else it returns.
THEOREM VoltageFreezes == VoltageSpec => []FreezesOnlyBelowSpike
<1>1. VoltageInit => VoltageTypeOK /\ FreezesOnlyBelowSpike
  BY VoltageInvInit
<1>2. /\ VoltageTypeOK /\ FreezesOnlyBelowSpike
      /\ [VoltageNext]_voltageVars
      => (VoltageTypeOK /\ FreezesOnlyBelowSpike)'
  BY VoltageTypeStep, FreezeStep
<1> QED
  BY <1>1, <1>2, PTL DEF VoltageSpec

-----------------------------------------------------------------------------
(* rand8().                                                                 *)

\* Multiplication by a number that is not negative keeps the order.
LEMMA TimesMonotonic ==
    ASSUME NEW a \in Nat, NEW b \in Nat, NEW n \in Nat, a <= b
    PROVE  a * n <= b * n /\ a * n \in Nat
<1>1. (b - a) \in Nat /\ n \in Nat
  OBVIOUS
<1>2. (b - a) * n >= 0
  BY <1>1
<1>3. b * n = a * n + (b - a) * n
  OBVIOUS
<1> QED
  BY <1>2, <1>3

\* A number below n multiples of d, n > 0, has a quotient below n.
LEMMA QuotientBelow ==
    ASSUME NEW x \in Nat, NEW d \in Nat \ {0}, NEW n \in Nat, x < d * (n + 1)
    PROVE  x \div d \in 0..n
<1>1. x \div d \in Nat /\ x = d * (x \div d) + (x % d) /\ x % d \in 0..(d - 1)
  OBVIOUS
<1>2. ASSUME x \div d > n PROVE FALSE
  <2>1. n + 1 <= x \div d
    BY <1>1, <1>2
  <2>2. (n + 1) * d <= (x \div d) * d
    BY <1>1, <2>1, TimesMonotonic
  <2> QED
    BY <1>1, <2>2
<1> QED
  BY <1>1, <1>2

\* RandTypeOK of any value of the generator's variables.
RandOK(r) ==
    /\ r.state \in [0..(STATE_BYTES - 1) -> 0..(BYTE - 1)]
    /\ r.c \in 0..(MULT - 1)
    /\ r.i \in 0..(STATE_BYTES - 1)

\* With a carry below the multiplier, the uint16_t product does not wrap and
\* its quotient leaves room for the old byte that MULT_HI adds.
LEMMA ProductFits ==
    ASSUME NEW r, RandOK(r)
    PROVE  /\ Product(r) = r.state[r.i] * MULT_LO + r.c
           /\ Product(r) \in Nat
           /\ Product(r) \div BYTE \in 0..(MULT - BYTE)
<1> DEFINE byte == r.state[r.i]
           lo == MULT - BYTE
           exact == byte * lo + r.c
<1>1. byte \in 0..(BYTE - 1) /\ r.c \in 0..(MULT - 1)
  BY DEF RandOK
<1>2. /\ lo \in 0..(BYTE - 1) /\ MULT = BYTE + lo
      /\ BYTE \in Nat \ {0} /\ MULT \in Nat
  BY GeneratorAssumption
<1>3. MULT_LO = lo
  <2>1. MULT % BYTE = lo
    BY <1>2
  <2> QED
    BY <2>1 DEF MULT_LO
<1>4. byte * lo <= (BYTE - 1) * lo /\ byte * lo \in Nat
  BY <1>1, <1>2, TimesMonotonic
<1>5. exact \in Nat /\ exact <= (BYTE - 1) * lo + MULT - 1
  BY <1>1, <1>2, <1>4
<1>6. exact < 65536
  <2>1. (BYTE - 1) * lo + MULT <= 65536
    BY GeneratorAssumption
  <2> QED
    BY <1>2, <1>5, <2>1
<1>7. exact < BYTE * (lo + 1)
  <2>1. (BYTE - 1) * lo + MULT - 1 = BYTE * (lo + 1) - 1
    BY <1>2
  <2> QED
    BY <1>2, <1>5, <2>1
<1> HIDE DEF exact
<1>8. Product(r) = exact
  <2>1. exact % 65536 = exact
    BY <1>5, <1>6
  <2> QED
    BY <1>3, <2>1 DEF Product, exact
<1>9. exact \div BYTE \in 0..lo
  BY <1>2, <1>5, <1>7, QuotientBelow
<1> QED
  BY <1>3, <1>5, <1>8, <1>9 DEF exact

\* A call returns a byte and leaves a state, a carry and an index in range.
LEMMA CalledTypes ==
    ASSUME NEW r, RandOK(r)
    PROVE  rand8(r) \in 0..(BYTE - 1) /\ RandOK(Called(r))
<1>1. rand8(r) \in 0..(BYTE - 1)
  BY ProductFits, GeneratorAssumption DEF rand8
<1>2. r.state[r.i] \in 0..(BYTE - 1)
  BY DEF RandOK
<1>3. Carried(r) \in 0..(MULT - 1)
  BY <1>2, ProductFits, GeneratorAssumption DEF Carried
<1>4. MULT - 1 < 65536
  <2>1. 0 <= (BYTE - 1) * (MULT - BYTE)
    BY GeneratorAssumption, TimesMonotonic
  <2> QED
    BY <2>1, GeneratorAssumption
<1>5. \A carry \in 0..(MULT - 1) : carry % 65536 = carry
  BY <1>4, GeneratorAssumption
<1>6. (r.i + 1) % STATE_BYTES \in 0..(STATE_BYTES - 1)
  <2>1. STATE_BYTES \in Nat \ {0}
    BY GeneratorAssumption
  <2>2. r.i + 1 \in Nat
    BY <2>1 DEF RandOK
  <2>3. \A m \in Nat \ {0}, n \in Nat : n % m \in 0..(m - 1)
    OBVIOUS
  <2> QED
    BY <2>1, <2>2, <2>3
<1> QED
  BY <1>1, <1>3, <1>5, <1>6 DEF Called, RandOK

\* The generator is ready when the task draws its first slope.
LEMMA SeededTypes == RandOK(Seeded)
<1>1. 0 \in 0..(STATE_BYTES - 1)
  BY GeneratorAssumption
<1> QED
  BY <1>1, GeneratorAssumption DEF RandOK, Seeded

\* The generator's type invariant is preserved by every step.
LEMMA RandTypeStep ==
    RandTypeOK /\ [VoltageRand8Next]_rand8Vars => RandTypeOK'
<1> SUFFICES ASSUME RandTypeOK, [VoltageRand8Next]_rand8Vars
             PROVE  RandTypeOK'
  OBVIOUS
<1>1. RandOK(rand)
  BY DEF RandTypeOK, RandOK
<1>2. rand' = rand \/ rand' = Called(rand)
  BY DEF VoltageRand8Next, VoltageRand8Wakes, VoltageRand8Updates, rand8Vars
<1>3. RandOK(rand')
  BY <1>1, <1>2, CalledTypes
<1> QED
  BY <1>3 DEF RandTypeOK, RandOK

\* Nothing rand8() computes wraps, for every multiplier and every byte size
\* for which the product of a byte and the multiplier's low part leaves room in
\* a uint16_t for the carry.
THEOREM RandTypeCorrect == VoltageRand8Spec => []RandTypeOK
<1>1. VoltageRand8Init => RandTypeOK
  <2> SUFFICES ASSUME VoltageRand8Init PROVE RandTypeOK
    OBVIOUS
  <2>1. RandOK(rand)
    BY SeededTypes, CalledTypes DEF VoltageRand8Init
  <2> QED
    BY <2>1 DEF RandTypeOK, RandOK
<1> QED
  BY <1>1, RandTypeStep, PTL DEF VoltageRand8Spec

\* With its generator the task takes only steps of VoltageMonitor.
LEMMA Rand8Implements ==
    RandTypeOK /\ [VoltageRand8Next]_rand8Vars => [VoltageNext]_voltageVars
<1> SUFFICES ASSUME RandTypeOK, VoltageRand8Next
             PROVE  VoltageNext
  BY DEF rand8Vars
<1>1. rand8(rand) \in Rand8
  <2>1. RandOK(rand)
    BY DEF RandTypeOK, RandOK
  <2> QED
    BY <2>1, CalledTypes, BytesAssumption
<1> QED
  BY <1>1 DEF VoltageRand8Next, VoltageRand8Wakes, VoltageRand8Updates, VoltageNext

\* The safety part of ImplementsVoltage: the task with its real generator is
\* a VoltageMonitor task, so that what is proved of one holds of the other.
THEOREM VoltageRefines ==
    VoltageRand8Spec => VoltageInit /\ [][VoltageNext]_voltageVars
<1>1. VoltageRand8Init => VoltageInit
  BY DEF VoltageRand8Init
<1> QED
  BY <1>1, Rand8Implements, RandTypeCorrect, PTL DEF VoltageRand8Spec

\* The voltage freezes nowhere else with the real generator either.
COROLLARY VoltageRand8Freezes ==
    VoltageRand8Spec => [](VoltageTypeOK /\ FreezesOnlyBelowSpike)
<1>1. VoltageInit => VoltageTypeOK /\ FreezesOnlyBelowSpike
  BY VoltageInvInit
<1>2. /\ VoltageTypeOK /\ FreezesOnlyBelowSpike
      /\ [VoltageNext]_voltageVars
      => (VoltageTypeOK /\ FreezesOnlyBelowSpike)'
  BY VoltageTypeStep, FreezeStep
<1> QED
  BY <1>1, <1>2, VoltageRefines, PTL

-----------------------------------------------------------------------------
(* What rand8() computes.                                                   *)

\* Induction, from the library's fact that every set of numbers has a least
\* one: T is the set of the numbers for which the claim holds.
LEMMA Induction ==
    ASSUME NEW T, 0 \in T, \A n \in Nat : n \in T => n + 1 \in T
    PROVE  Nat \subseteq T
<1> SUFFICES ASSUME Nat \ T # {} PROVE FALSE
  OBVIOUS
<1>1. PICK n \in Nat \ T : \A m \in Nat \ T : ~(<<m, n>> \in OpToRel(<, Nat))
  BY Zenon, NatLessThanWellFounded, WFMin
<1>2. \A m \in Nat \ T : ~(m < n)
  BY <1>1, Zenon DEF OpToRel
<1>3. n # 0
  OBVIOUS
<1>4. n - 1 \in Nat /\ n - 1 < n
  BY <1>3
<1>5. n - 1 \in T
  BY <1>2, <1>4
<1>6. (n - 1) + 1 \in T
  BY <1>4, <1>5
<1> QED
  BY <1>6

\* f is defined by this recursion up to l.
Recursion(f, l, first, added, factor) ==
    f = [n \in 0..l |-> IF n = 0 THEN first ELSE added[n] + factor * f[n - 1]]

\* Every such recursion has a solution.
LEMMA RecursionExists ==
    ASSUME NEW l \in Nat, NEW first, NEW added, NEW factor
    PROVE  \E f : Recursion(f, l, first, added, factor)
<1> DEFINE Val(f, n) == IF n = 0 THEN first ELSE added[n] + factor * f[n - 1]
<1> DEFINE T == {k \in Nat : \E f : f = [n \in 0..k |-> Val(f, n)]}
<1>1. 0 \in T
  <2> DEFINE f == [n \in 0..0 |-> first]
  <2>1. f = [n \in 0..0 |-> Val(f, n)]
    OBVIOUS
  <2> QED
    BY <2>1
<1>2. ASSUME NEW k \in Nat, k \in T PROVE k + 1 \in T
  <2>1. PICK f : f = [n \in 0..k |-> Val(f, n)]
    BY <1>2
  <2> DEFINE g == [n \in 0..(k + 1) |-> IF n = k + 1 THEN Val(f, n) ELSE f[n]]
  <2> HIDE DEF Val
  <2>2. ASSUME NEW n \in 0..(k + 1) PROVE g[n] = Val(g, n)
    <3>1. n # 0 => n - 1 \in 0..k /\ n - 1 \in 0..(k + 1) /\ n - 1 # k + 1
      OBVIOUS
    <3>2. n # 0 => g[n - 1] = f[n - 1]
      BY <3>1
    <3>3. Val(g, n) = Val(f, n)
      BY <3>2 DEF Val
    <3>4. n # k + 1 => n \in 0..k
      OBVIOUS
    <3>5. n # k + 1 => f[n] = Val(f, n)
      BY <2>1, <3>4
    <3>6. g[n] = IF n = k + 1 THEN Val(f, n) ELSE f[n]
      OBVIOUS
    <3> QED
      BY <3>3, <3>5, <3>6
  <2>3. g = [n \in 0..(k + 1) |-> g[n]]
    OBVIOUS
  <2> HIDE DEF g
  <2>4. g = [n \in 0..(k + 1) |-> Val(g, n)]
    BY <2>2, <2>3
  <2> QED
    BY <2>4
<1> HIDE DEF T
<1>3. l \in T
  BY <1>1, <1>2, Induction
<1> QED
  BY <1>3 DEF T, Recursion

\* Newest, digit by digit,
LEMMA NewestStep ==
    ASSUME NEW r
    PROVE  /\ Newest(r)[0] = r.c
           /\ \A n \in 1..STATE_BYTES :
                Newest(r)[n] = r.state[(r.i + STATE_BYTES - n) % STATE_BYTES]
                                   + BYTE * Newest(r)[n - 1]
<1> DEFINE added == [n \in 1..STATE_BYTES |->
                       r.state[(r.i + STATE_BYTES - n) % STATE_BYTES]]
<1> DEFINE P(f) == f = [n \in 0..STATE_BYTES |->
              IF n = 0 THEN r.c
              ELSE r.state[(r.i + STATE_BYTES - n) % STATE_BYTES] + BYTE * f[n - 1]]
<1>1. STATE_BYTES \in Nat \ {0}
  BY GeneratorAssumption
<1>2. \E f : P(f)
  <2>1. PICK f : Recursion(f, STATE_BYTES, r.c, added, BYTE)
    <3>1. STATE_BYTES \in Nat
      BY <1>1
    <3> HIDE DEF added
    <3> QED
      BY <3>1, RecursionExists
  <2>2. \A n \in 0..STATE_BYTES : n # 0 =>
           added[n] = r.state[(r.i + STATE_BYTES - n) % STATE_BYTES]
    BY <1>1
  <2> HIDE DEF added
  <2>3. P(f)
    BY <2>1, <2>2 DEF Recursion
  <2> QED
    BY <2>3
<1>3. Newest(r) = CHOOSE f : P(f)
  BY DEF Newest
<1> HIDE DEF P
<1>4. P(Newest(r))
  BY <1>2, <1>3
<1>5. \A n \in 0..STATE_BYTES : Newest(r)[n] =
         IF n = 0 THEN r.c
         ELSE r.state[(r.i + STATE_BYTES - n) % STATE_BYTES] + BYTE * Newest(r)[n - 1]
  BY <1>4 DEF P
<1>6. 0 \in 0..STATE_BYTES /\ \A n \in 1..STATE_BYTES : n \in 0..STATE_BYTES /\ n # 0
  BY <1>1
<1> QED
  BY <1>5, <1>6

\* and the powers of BYTE, which are positive.
LEMMA WeightStep ==
    /\ Weight[0] = 1
    /\ \A n \in 1..STATE_BYTES : Weight[n] = BYTE * Weight[n - 1]
    /\ \A n \in 0..STATE_BYTES : Weight[n] \in Nat \ {0}
<1> DEFINE P(f) == f = [n \in 0..STATE_BYTES |-> IF n = 0 THEN 1 ELSE BYTE * f[n - 1]]
<1>1. STATE_BYTES \in Nat \ {0} /\ BYTE \in Nat \ {0}
  BY GeneratorAssumption
<1>2. \E f : P(f)
  <2> DEFINE added == [n \in 1..STATE_BYTES |-> 0]
  <2>1. PICK f : Recursion(f, STATE_BYTES, 1, added, BYTE)
    <3>1. STATE_BYTES \in Nat
      BY <1>1
    <3> HIDE DEF added
    <3> QED
      BY <3>1, RecursionExists
  <2>2. f[0] = 1 /\ \A n \in 1..STATE_BYTES : f[n] = 0 + BYTE * f[n - 1]
    BY <1>1, <2>1 DEF Recursion
  <2>3. \A n \in 0..STATE_BYTES : f[n] \in Nat
    <3> DEFINE T == {n \in Nat : n <= STATE_BYTES => f[n] \in Nat}
    <3>1. 0 \in T
      BY <2>2
    <3>2. ASSUME NEW n \in Nat, n \in T PROVE n + 1 \in T
      <4> SUFFICES ASSUME n + 1 <= STATE_BYTES PROVE f[n + 1] \in Nat
        OBVIOUS
      <4>1. f[n] \in Nat
        BY <1>1, <3>2
      <4>2. f[n + 1] = 0 + BYTE * f[(n + 1) - 1] /\ (n + 1) - 1 = n
        BY <1>1, <2>2
      <4> QED
        BY <1>1, <4>1, <4>2
    <3> HIDE DEF T
    <3>3. Nat \subseteq T
      BY <3>1, <3>2, Induction
    <3> QED
      BY <1>1, <3>3 DEF T
  <2>4. \A n \in 1..STATE_BYTES : 0 + BYTE * f[n - 1] = BYTE * f[n - 1]
    BY <1>1, <2>3
  <2>5. \A n \in 0..STATE_BYTES : n # 0 => added[n] + BYTE * f[n - 1] = BYTE * f[n - 1]
    BY <1>1, <2>4
  <2> HIDE DEF added
  <2>6. P(f)
    BY <2>1, <2>5 DEF Recursion
  <2> QED
    BY <2>6
<1>3. Weight = CHOOSE f : P(f)
  BY DEF Weight
<1> HIDE DEF P
<1>4. P(Weight)
  BY <1>2, <1>3
<1>5. \A n \in 0..STATE_BYTES :
         Weight[n] = IF n = 0 THEN 1 ELSE BYTE * Weight[n - 1]
  BY <1>4 DEF P
<1>6. 0 \in 0..STATE_BYTES /\ \A n \in 1..STATE_BYTES : n \in 0..STATE_BYTES /\ n # 0
  BY <1>1
<1>7. Weight[0] = 1 /\ \A n \in 1..STATE_BYTES : Weight[n] = BYTE * Weight[n - 1]
  BY <1>5, <1>6
<1>8. \A n \in 0..STATE_BYTES : Weight[n] \in Nat \ {0}
  <2> DEFINE T == {n \in Nat : n <= STATE_BYTES => Weight[n] \in Nat \ {0}}
  <2>1. 0 \in T
    BY <1>7
  <2>2. ASSUME NEW n \in Nat, n \in T PROVE n + 1 \in T
    <3> SUFFICES ASSUME n + 1 <= STATE_BYTES PROVE Weight[n + 1] \in Nat \ {0}
      OBVIOUS
    <3>1. Weight[n] \in Nat \ {0}
      BY <1>1, <2>2
    <3>2. Weight[n + 1] = BYTE * Weight[(n + 1) - 1] /\ (n + 1) - 1 = n
      BY <1>1, <1>7
    <3> QED
      BY <1>1, <3>1, <3>2
  <2> HIDE DEF T
  <2>3. Nat \subseteq T
    BY <2>1, <2>2, Induction
  <2> QED
    BY <1>1, <2>3 DEF T
<1> QED
  BY <1>7, <1>8

\* Adding a multiple of the modulus changes no residue.
LEMMA SameResidue ==
    ASSUME NEW m \in Nat \ {0}, NEW a \in Int, NEW k \in Int
    PROVE  ((a + k * m) % m) = (a % m)
<1> DEFINE b == a + k * m
           d == (a \div m) + k - (b \div m)
<1>1. /\ a = m * (a \div m) + (a % m)
      /\ (a % m) \in 0..(m - 1) /\ (a \div m) \in Int
  OBVIOUS
<1>2. b \in Int
  OBVIOUS
<1>3. \A x \in Int : /\ x = m * (x \div m) + (x % m)
                     /\ (x % m) \in 0..(m - 1) /\ (x \div m) \in Int
  OBVIOUS
<1>4. /\ b = m * (b \div m) + (b % m)
      /\ (b % m) \in 0..(m - 1) /\ (b \div m) \in Int
  BY <1>2, <1>3
<1>5. d \in Int /\ m * d = (b % m) - (a % m)
  BY <1>1, <1>4
<1>6. -m < m * d /\ m * d < m
  BY <1>1, <1>4, <1>5
<1> HIDE DEF d
<1>7. ~(d >= 1)
  <2> SUFFICES ASSUME d >= 1 PROVE FALSE
    OBVIOUS
  <2>1. d - 1 \in Nat
    BY <1>5
  <2>2. m * (d - 1) >= 0
    BY <2>1
  <2>3. m * (d - 1) = m * d - m
    BY <1>5
  <2> QED
    BY <1>5, <1>6, <2>2, <2>3
<1>8. ~(d <= -1)
  <2> SUFFICES ASSUME d <= -1 PROVE FALSE
    OBVIOUS
  <2>1. -1 - d \in Nat
    BY <1>5
  <2>2. m * (-1 - d) >= 0
    BY <2>1
  <2>3. m * (-1 - d) = -m - m * d
    BY <1>5
  <2> QED
    BY <1>5, <1>6, <2>2, <2>3
<1>9. d = 0
  BY <1>5, <1>7, <1>8
<1> QED
  BY <1>1, <1>4, <1>5, <1>9

\* A number below the modulus is its own residue.
LEMMA SmallResidue ==
    ASSUME NEW m \in Nat \ {0}, NEW a \in 0..(m - 1)
    PROVE  (a % m) = a
  OBVIOUS

\* The digit that is n places below the newest after a call was n - 1 places
\* below it before, and only the newest is the byte the call replaced.
LEMMA Indexes ==
    ASSUME NEW l \in Nat \ {0}, NEW i \in 0..(l - 1), NEW n \in 0..(l - 1)
    PROVE  /\ (((i + 1) % l) + l - (n + 1)) % l = (i + l - n) % l
           /\ (i + l - n) % l \in 0..(l - 1)
           /\ n = 0 => (i + l - n) % l = i
           /\ n # 0 => (i + l - n) % l # i
<1>1. (i + l - n) % l = IF i >= n THEN i - n ELSE i + l - n
  <2>1. CASE i >= n
    <3>1. i - n \in 0..(l - 1) /\ i + l - n = (i - n) + 1 * l
      BY <2>1
    <3>2. (((i - n) + 1 * l) % l) = ((i - n) % l)
      BY <3>1, SameResidue
    <3>3. ((i - n) % l) = i - n
      BY <3>1, SmallResidue
    <3> QED
      BY <2>1, <3>1, <3>2, <3>3
  <2>2. CASE i < n
    <3>1. i + l - n \in 0..(l - 1)
      BY <2>2
    <3> QED
      BY <2>2, <3>1, SmallResidue
  <2> QED
    BY <2>1, <2>2
<1>2. (((i + 1) % l) + l - (n + 1)) % l = (i + l - n) % l
  <2>1. CASE i + 1 < l
    <3>1. (i + 1) % l = i + 1
      BY <2>1, SmallResidue
    <3>2. (i + 1) + l - (n + 1) = i + l - n
      OBVIOUS
    <3> QED
      BY <3>1, <3>2
  <2>2. CASE i + 1 = l
    <3>1. (i + 1) % l = 0
      BY <2>2
    <3>2. 0 + l - (n + 1) = i - n /\ i - n \in 0..(l - 1)
      BY <2>2
    <3>3. ((i - n) % l) = i - n
      BY <3>2, SmallResidue
    <3> QED
      BY <1>1, <3>1, <3>2, <3>3
  <2> QED
    BY <2>1, <2>2
<1> QED
  BY <1>1, <1>2

\* The digits stand for natural numbers.
LEMMA NewestType ==
    ASSUME NEW r, RandOK(r)
    PROVE  \A n \in 0..STATE_BYTES : Newest(r)[n] \in Nat
<1> DEFINE T == {n \in Nat : n <= STATE_BYTES => Newest(r)[n] \in Nat}
<1>1. STATE_BYTES \in Nat \ {0} /\ BYTE \in Nat /\ MULT \in Nat
  BY GeneratorAssumption
<1>2. 0 \in T
  BY <1>1, NewestStep DEF RandOK
<1>3. ASSUME NEW n \in Nat, n \in T PROVE n + 1 \in T
  <2> SUFFICES ASSUME n + 1 <= STATE_BYTES PROVE Newest(r)[n + 1] \in Nat
    OBVIOUS
  <2>1. Newest(r)[n] \in Nat
    BY <1>1, <1>3
  <2>2. n + 1 \in 1..STATE_BYTES /\ (n + 1) - 1 = n
    BY <1>1
  <2> DEFINE j == (r.i + STATE_BYTES - (n + 1)) % STATE_BYTES
  <2>3. Newest(r)[n + 1] = r.state[j] + BYTE * Newest(r)[n]
    BY <2>2, NewestStep
  <2>4. j \in 0..(STATE_BYTES - 1)
    BY <1>1, <2>2 DEF RandOK
  <2> HIDE DEF j
  <2>5. r.state[j] \in Nat
    BY <1>1, <2>4 DEF RandOK
  <2> QED
    BY <1>1, <2>1, <2>3, <2>5
<1> HIDE DEF T
<1>4. Nat \subseteq T
  BY <1>2, <1>3, Induction
<1> QED
  BY <1>1, <1>4 DEF T

\* One call multiplies the byte it replaces and adds the carry, exactly.
LEMMA CallMultiplies ==
    ASSUME NEW r, RandOK(r)
    PROVE  /\ Called(r).state = [r.state EXCEPT ![r.i] = rand8(r)]
           /\ Called(r).i = (r.i + 1) % STATE_BYTES
           /\ Called(r).c \in Nat /\ rand8(r) \in Nat
           /\ r.state[r.i] * MULT + r.c = BYTE * Called(r).c + rand8(r)
<1> DEFINE byte == r.state[r.i]
<1>1. byte \in 0..(BYTE - 1) /\ r.c \in 0..(MULT - 1)
  BY DEF RandOK
<1>2. BYTE \in Nat \ {0} /\ MULT \in BYTE..(2 * BYTE - 1)
  BY GeneratorAssumption
<1>3. MULT_LO = MULT - BYTE /\ MULT_HI = BYTE
  <2>1. MULT - BYTE \in 0..(BYTE - 1) /\ MULT = (MULT - BYTE) + 1 * BYTE
    BY <1>2
  <2>2. (((MULT - BYTE) + 1 * BYTE) % BYTE) = ((MULT - BYTE) % BYTE)
    BY <1>2, <2>1, SameResidue
  <2>3. ((MULT - BYTE) % BYTE) = MULT - BYTE
    BY <1>2, <2>1, SmallResidue
  <2>4. (MULT % BYTE) = MULT - BYTE
    BY <2>1, <2>2, <2>3
  <2> QED
    BY <1>2, <2>4 DEF MULT_LO, MULT_HI
<1>4. /\ Product(r) = byte * (MULT - BYTE) + r.c
      /\ Product(r) \in Nat
  BY <1>3, ProductFits
<1>5. /\ Product(r) = BYTE * (Product(r) \div BYTE) + (Product(r) % BYTE)
      /\ (Product(r) \div BYTE) \in Nat /\ (Product(r) % BYTE) \in Nat
  BY <1>2, <1>4
<1>6. Carried(r) = (Product(r) \div BYTE) + byte
  BY <1>2, <1>3 DEF Carried
<1>7. Called(r).c = Carried(r)
  <2>1. Carried(r) \in 0..(MULT - 1)
    BY <1>1, <1>2, <1>6, ProductFits
  <2>2. MULT - 1 < 65536
    <3>1. 0 <= (BYTE - 1) * (MULT - BYTE)
      BY GeneratorAssumption, TimesMonotonic
    <3> QED
      BY <3>1, GeneratorAssumption
  <2>3. Carried(r) % 65536 = Carried(r)
    BY <1>2, <2>1, <2>2
  <2> QED
    BY <2>3 DEF Called
<1>8. /\ Called(r).state = [r.state EXCEPT ![r.i] = rand8(r)]
      /\ Called(r).i = (r.i + 1) % STATE_BYTES
  BY DEF Called
<1>9. rand8(r) = (Product(r) % BYTE)
  BY DEF rand8
<1> DEFINE q == Product(r) \div BYTE
<1> DEFINE p == Product(r)
<1> HIDE DEF q, p, byte
<1>10. p = BYTE * q + rand8(r) /\ p = byte * (MULT - BYTE) + r.c
  BY <1>4, <1>5, <1>9 DEF p, q
<1>11. q \in Nat /\ rand8(r) \in Nat /\ p \in Nat
  BY <1>4, <1>5, <1>9 DEF p, q
<1>12. byte * MULT + r.c = BYTE * (q + byte) + rand8(r)
  <2>1. byte \in Int /\ MULT \in Int /\ BYTE \in Int /\ r.c \in Int
    BY <1>1, <1>2
  <2>2. byte * (MULT - BYTE) = byte * MULT - BYTE * byte
    BY <2>1
  <2>3. BYTE * (q + byte) = BYTE * q + BYTE * byte
    BY <2>1, <1>11
  <2> QED
    BY <1>10, <1>11, <2>1, <2>2, <2>3
<1>13. Called(r).c = q + byte /\ byte \in Nat
  BY <1>1, <1>2, <1>6, <1>7 DEF q, byte
<1> QED
  BY <1>8, <1>11, <1>12, <1>13 DEF byte

\* Times BYTE, the new number is the old one plus a multiple of the modulus: the
\* byte that was replaced.
LEMMA CallDivides ==
    ASSUME NEW r, RandOK(r)
    PROVE  BYTE * Value(Called(r)) = Value(r) + r.state[r.i] * Modulus
<1> DEFINE s == Called(r)
           x == r.state[r.i]
           l == STATE_BYTES
           T == {n \in Nat : n < l => Newest(s)[n + 1] = Newest(r)[n] + (x * MULT) * Weight[n]}
<1>1. l \in Nat \ {0} /\ BYTE \in Nat \ {0} /\ MULT \in Nat \ {0}
  BY GeneratorAssumption
<1>2. RandOK(s)
  BY CalledTypes
<1>3. /\ \A n \in 0..l : Newest(r)[n] \in Nat
      /\ \A n \in 0..l : Newest(s)[n] \in Nat
  BY <1>2, NewestType
<1>4. /\ s.state = [r.state EXCEPT ![r.i] = rand8(r)]
      /\ s.i = (r.i + 1) % l
      /\ s.c \in Nat /\ rand8(r) \in Nat
      /\ x * MULT + r.c = BYTE * s.c + rand8(r)
  BY CallMultiplies
<1>5. /\ r.i \in 0..(l - 1) /\ x \in Nat /\ r.c \in Nat
      /\ \A j \in 0..(l - 1) : r.state[j] \in Nat
  BY <1>1 DEF RandOK
<1>6. /\ s.state[r.i] = rand8(r)
      /\ \A j \in 0..(l - 1) : j # r.i => s.state[j] = r.state[j]
  BY <1>4, <1>5 DEF RandOK
<1>7. /\ Weight[0] = 1
      /\ \A n \in 1..l : Weight[n] = BYTE * Weight[n - 1]
      /\ \A n \in 0..l : Weight[n] \in Nat \ {0}
  BY WeightStep
<1> HIDE DEF s, x, l
<1>8. /\ Newest(r)[0] = r.c /\ Newest(s)[0] = s.c
      /\ \A n \in 1..l : Newest(r)[n] = r.state[(r.i + l - n) % l] + BYTE * Newest(r)[n - 1]
      /\ \A n \in 1..l : Newest(s)[n] = s.state[(s.i + l - n) % l] + BYTE * Newest(s)[n - 1]
  BY NewestStep DEF l
<1>9. \A n \in 0..(l - 1) : /\ (s.i + l - (n + 1)) % l = (r.i + l - n) % l
                            /\ (r.i + l - n) % l \in 0..(l - 1)
                            /\ n = 0 => (r.i + l - n) % l = r.i
                            /\ n # 0 => (r.i + l - n) % l # r.i
  <2> DEFINE i == r.i
  <2>1. i \in 0..(l - 1) /\ s.i = (i + 1) % l
    BY <1>4, <1>5
  <2> HIDE DEF i
  <2>2. \A n \in 0..(l - 1) :
            /\ (((i + 1) % l) + l - (n + 1)) % l = (i + l - n) % l
            /\ (i + l - n) % l \in 0..(l - 1)
            /\ n = 0 => (i + l - n) % l = i
            /\ n # 0 => (i + l - n) % l # i
    BY <1>1, <2>1, Indexes
  <2> QED
    BY <2>1, <2>2 DEF i
<1>10. 0 \in T
  <2>1. 0 \in 0..(l - 1) /\ 0 + 1 \in 1..l /\ (0 + 1) - 1 = 0
    BY <1>1
  <2>2. Newest(s)[0 + 1] = s.state[(s.i + l - (0 + 1)) % l] + BYTE * Newest(s)[0]
    BY <1>8, <2>1
  <2>3. s.state[(s.i + l - (0 + 1)) % l] = rand8(r)
    BY <1>6, <1>9, <2>1
  <2>4. Newest(s)[0 + 1] = rand8(r) + BYTE * s.c
    BY <1>8, <2>2, <2>3
  <2>5. (x * MULT) * Weight[0] = x * MULT
    BY <1>1, <1>5, <1>7
  <2>6. x * MULT \in Nat /\ BYTE * s.c \in Nat
    BY <1>1, <1>4, <1>5
  <2>7. Newest(s)[0 + 1] = Newest(r)[0] + (x * MULT) * Weight[0]
    BY <1>4, <1>5, <1>8, <2>4, <2>5, <2>6
  <2> QED
    BY <2>7
<1>11. ASSUME NEW n \in Nat, n \in T PROVE n + 1 \in T
  <2> SUFFICES ASSUME n + 1 < l
               PROVE  Newest(s)[(n + 1) + 1] = Newest(r)[n + 1] + (x * MULT) * Weight[n + 1]
    OBVIOUS
  <2>1. /\ n + 1 \in 0..(l - 1) /\ n + 1 \in 1..l /\ (n + 1) + 1 \in 1..l
        /\ (n + 1) - 1 = n /\ ((n + 1) + 1) - 1 = n + 1 /\ n + 1 # 0
        /\ n \in 0..l
    BY <1>1
  <2>2. Newest(s)[n + 1] = Newest(r)[n] + (x * MULT) * Weight[n]
    BY <1>1, <1>11
  <2> DEFINE j == (r.i + l - (n + 1)) % l
  <2>3. j \in 0..(l - 1) /\ j # r.i /\ (s.i + l - ((n + 1) + 1)) % l = j
    BY <1>9, <2>1
  <2>4. Newest(r)[n + 1] = r.state[j] + BYTE * Newest(r)[n]
    BY <1>8, <2>1
  <2>5. Newest(s)[(n + 1) + 1] = s.state[(s.i + l - ((n + 1) + 1)) % l] + BYTE * Newest(s)[n + 1]
    BY <1>8, <2>1
  <2>6. Weight[n + 1] = BYTE * Weight[n]
    BY <1>7, <2>1
  <2> HIDE DEF j
  <2>7. Newest(s)[(n + 1) + 1] = r.state[j] + BYTE * (Newest(r)[n] + (x * MULT) * Weight[n])
    BY <1>6, <2>2, <2>3, <2>5
  <2> DEFINE w == Weight[n]
             a == Newest(r)[n]
             m == x * MULT
             b == r.state[j]
  <2>8. w \in Int /\ a \in Int /\ m \in Int /\ b \in Int /\ BYTE \in Int
    BY <1>1, <1>3, <1>5, <1>7, <2>1, <2>3
  <2> HIDE DEF w, a, m, b
  <2>9. b + BYTE * (a + m * w) = (b + BYTE * a) + m * (BYTE * w)
    BY <2>8
  <2> QED
    BY <2>4, <2>6, <2>7, <2>9 DEF w, a, m, b
<1> HIDE DEF T
<1>12. l - 1 \in T
  <2>1. Nat \subseteq T /\ l - 1 \in Nat
    BY <1>1, <1>10, <1>11, Induction
  <2> QED
    BY <2>1
<1>13. Newest(s)[l] = Newest(r)[l - 1] + (x * MULT) * Weight[l - 1]
  <2>1. l - 1 < l /\ (l - 1) + 1 = l
    BY <1>1
  <2> QED
    BY <1>12, <2>1 DEF T
<1>14. Newest(r)[l] = x + BYTE * Newest(r)[l - 1]
  <2>1. l \in 1..l /\ r.i + l - l = r.i
    BY <1>1, <1>5
  <2>2. (r.i % l) = r.i
    BY <1>1, <1>5, SmallResidue
  <2> QED
    BY <1>8, <2>1, <2>2 DEF x
<1>15. Weight[l] = BYTE * Weight[l - 1]
  BY <1>1, <1>7
<1> DEFINE w == Weight[l - 1]
           a == Newest(r)[l - 1]
<1>16. /\ w \in Int /\ a \in Int /\ x \in Int /\ MULT \in Int /\ BYTE \in Int
  BY <1>1, <1>3, <1>5, <1>7
<1> HIDE DEF w, a
<1>17. BYTE * (a + (x * MULT) * w) = (x + BYTE * a) + x * (MULT * (BYTE * w) - 1)
  BY <1>16
<1> QED
  BY <1>13, <1>14, <1>15, <1>17 DEF w, a, Value, Modulus, s, x, l

\* The modulus is positive, so that the residues agree.
LEMMA ValuesAgree ==
    ASSUME NEW r, RandOK(r)
    PROVE  ((BYTE * Value(Called(r))) % Modulus) = (Value(r) % Modulus)
<1>1. Modulus \in Nat \ {0}
  <2>1. STATE_BYTES \in 0..STATE_BYTES /\ MULT \in Nat \ {0, 1}
    BY GeneratorAssumption
  <2>2. Weight[STATE_BYTES] \in Nat \ {0}
    BY <2>1, WeightStep
  <2>3. MULT * Weight[STATE_BYTES] >= MULT
    <3>1. 1 <= Weight[STATE_BYTES] /\ 1 \in Nat /\ MULT \in Nat
      BY <2>1, <2>2
    <3>2. 1 * MULT <= Weight[STATE_BYTES] * MULT
      BY <2>2, <3>1, TimesMonotonic
    <3> QED
      BY <2>1, <2>2, <3>2
  <2>4. MULT * Weight[STATE_BYTES] \in Nat
    BY <2>1, <2>2
  <2> QED
    BY <2>1, <2>3, <2>4 DEF Modulus
<1>2. Value(r) \in Int
  <2>1. STATE_BYTES \in 0..STATE_BYTES
    BY GeneratorAssumption
  <2>2. Newest(r)[STATE_BYTES] \in Nat
    BY <2>1, NewestType
  <2> QED
    BY <2>2 DEF Value
<1>3. r.state[r.i] \in Int
  BY GeneratorAssumption DEF RandOK
<1>4. ((Value(r) + r.state[r.i] * Modulus) % Modulus) = (Value(r) % Modulus)
  BY <1>1, <1>2, <1>3, SameResidue
<1> QED
  BY <1>4, CallDivides

\* rand8() is a multiply-with-carry generator, carry, modulus and index
\* included, for every byte width, multiplier, state length and seed.
THEOREM RandMultiplies == VoltageRand8Spec => MultiplyWithCarry
<1>1. RandTypeOK /\ [VoltageRand8Next]_rand8Vars
        => [rand' # rand =>
             (BYTE * Value(rand')) % Modulus = Value(rand) % Modulus]_rand8Vars
  <2> SUFFICES ASSUME RandTypeOK, VoltageRand8Next, rand' # rand
               PROVE  ((BYTE * Value(rand')) % Modulus) = (Value(rand) % Modulus)
    BY DEF rand8Vars
  <2>1. RandOK(rand)
    BY DEF RandTypeOK, RandOK
  <2>2. rand' = Called(rand)
    BY DEF VoltageRand8Next, VoltageRand8Wakes, VoltageRand8Updates
  <2>3. ((BYTE * Value(Called(rand))) % Modulus) = (Value(rand) % Modulus)
    BY <2>1, ValuesAgree
  <2> QED
    BY <2>2, <2>3
<1> QED
  BY <1>1, RandTypeCorrect, PTL DEF VoltageRand8Spec, MultiplyWithCarry
=============================================================================
