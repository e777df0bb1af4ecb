---------------------------- MODULE MCTaskStats -----------------------------
(* Four tasks at boot, one for each stack size, and the driver's later.     *)
EXTENDS TaskStats

MCBootTask == {"Stats", "VoltageMonitor", "TzCtrl", "IP-task"}
MCAppTask == MCBootTask \cup {"EMAC"}
=============================================================================
