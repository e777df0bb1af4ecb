--------------------------- MODULE MCControlLoop ---------------------------
(* The control loop with one wheel speed.                                   *)
EXTENDS ControlLoop

MCWheelSpeed == {1}
=============================================================================
