-------------------------- MODULE MCTraceStreamPort -------------------------
(* Two clients, so that the second meets the socket the first has left.     *)
EXTENDS TraceStreamPort

CONSTANTS c1, c2

MCClient == {c1, c2}
=============================================================================
