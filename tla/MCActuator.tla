----------------------------- MODULE MCActuator -----------------------------
(* Every single corruption Comms can produce, one datagram with two bad     *)
(* fields, an intact one, and one that is too short.                        *)
EXTENDS ActuatorTrace

Header(magic0, magic1, type) ==
    [magic0 |-> magic0, magic1 |-> magic1, type |-> type, whole |-> TRUE]

MCDatagram ==
    {Header(170, 187, 240), Header(85, 187, 240), Header(170, 68, 240),
     Header(170, 187, 241), Header(170, 68, 241),
     [Header(170, 187, 240) EXCEPT !.whole = FALSE]}
=============================================================================
