----------------------------- MODULE MCFirmware -----------------------------
(* The firmware with one speed, a voltage walk of four levels and a         *)
(* generator that may return zero.                                          *)
EXTENDS Firmware

MCWheelSpeed == {1}
MCRand8 == {0, 2}
=============================================================================
