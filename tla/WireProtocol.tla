---------------------------- MODULE WireProtocol ----------------------------
(***************************************************************************)
(* The header of the UDP datagrams that Comms sends and the actuator       *)
(* program checks.  The two sides include their own copy of                *)
(* wire_protocol.h; the copies agree, and this module stands for both.     *)
(***************************************************************************)
EXTENDS Integers

WIRE_MAGIC0 == 170
WIRE_MAGIC1 == 187
WIRE_TYPE_WHEEL_SPEED == 240

\* The header fields that differ from what the protocol fixes.
BadFields(msg) ==
    (IF msg.magic0 # WIRE_MAGIC0 THEN {"magic0"} ELSE {})
    \cup (IF msg.magic1 # WIRE_MAGIC1 THEN {"magic1"} ELSE {})
    \cup (IF msg.type # WIRE_TYPE_WHEEL_SPEED THEN {"type"} ELSE {})

Intact(msg) == BadFields(msg) = {}
=============================================================================
