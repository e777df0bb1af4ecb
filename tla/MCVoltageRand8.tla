--------------------------- MODULE MCVoltageRand8 ---------------------------
(* Bytes of four bits and a state of three.  27 is to 16 what 0x13B is to   *)
(* 256, and 27 * 16^2 - 1 is prime, 27 * 16^3 - 1 = 13 * 47 * 181 is not:   *)
(* as in the code, where 0x13B is "for STATE_BYTES==6 only", STATE_BYTES is *)
(* 7, and 0x13B * 256^6 - 1 is prime but 0x13B * 256^7 - 1 a multiple of    *)
(* 13.  So the generator repeats itself after 1035 bytes.                   *)
EXTENDS VoltageRand8

MCRand8 == 0..15
MCSeed == [j \in 0..2 |-> <<8, 13, 12>>[j + 1]]
=============================================================================
