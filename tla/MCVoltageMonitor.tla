-------------------------- MODULE MCVoltageMonitor --------------------------
(* The voltage walk over ten levels, with slopes that land on an end,      *)
(* slopes that overshoot it, and zero.                                      *)
EXTENDS VoltageMonitor

MCRand8 == {0, 1, 3, 5}
=============================================================================
