--------------------------- MODULE Rand8Generator ---------------------------
(***************************************************************************)
(* rand8() of freertos/src/voltage_monitor.c: a lagged multiply-with-carry *)
(* generator of bytes.  Its static variables are one record: state[0..], c *)
(* and i; rand8 is the byte a call returns, Called what it leaves behind.  *)
(***************************************************************************)
EXTENDS Integers

CONSTANTS
    BYTE,        \* 256
    MULT,        \* 0x13B
    STATE_BYTES, \* 7
    SEED,        \* the initial bytes, by index
    CARRY        \* the initial c, 0x42

ASSUME GeneratorAssumption ==
    /\ BYTE \in Nat \ {0, 1}
    /\ MULT \in BYTE..(2 * BYTE - 1)
    /\ (BYTE - 1) * (MULT - BYTE) + MULT <= 65536
    /\ STATE_BYTES \in Nat \ {0}
    /\ SEED \in [0..(STATE_BYTES - 1) -> 0..(BYTE - 1)]
    /\ CARRY \in 0..(MULT - 1)

\* MULT & 255 and MULT & 256
MULT_LO == MULT % BYTE
MULT_HI == MULT - MULT_LO

\* Mutant: the static variables have no initialisers.
Seeded_Zero == [state |-> [j \in 0..(STATE_BYTES - 1) |-> 0], c |-> 0, i |-> 0]

Seeded == [state |-> SEED, c |-> CARRY, i |-> 0]

\* uint16_t t
Product(rand) == (rand.state[rand.i] * MULT_LO + rand.c) % 65536

rand8(rand) == Product(rand) % BYTE

\* Mutant: the high bit of the multiplier is forgotten.
Carried_Low(rand) == Product(rand) \div BYTE

\* Mutant: shifted by too little.
Carried_Short(rand) == Product(rand) \div (BYTE \div 2) + rand.state[rand.i]

\* MULT_HI adds the old byte times 256 to the product, that is, the old byte to
\* the carry.
Carried(rand) ==
    Product(rand) \div BYTE + (IF MULT_HI # 0 THEN rand.state[rand.i] ELSE 0)

Called(rand) ==
    [state |-> [rand.state EXCEPT ![rand.i] = rand8(rand)],
     c     |-> Carried(rand) % 65536,
     i     |-> (rand.i + 1) % STATE_BYTES]
=============================================================================
