------------------------------ MODULE MCComms ------------------------------
(* Comms with two speeds, three slots and a sequence number that wraps.     *)
EXTENDS Comms

MCWheelSpeed == {-1, 2}
=============================================================================
