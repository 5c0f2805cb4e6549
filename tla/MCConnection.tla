---------------------------- MODULE MCConnection ----------------------------
(* Connection for TLC: on both sides, or on the accepting side alone.         *)
EXTENDS Connection
BothSides == {"accept", "connect"}
Accepting == {"accept"}
=============================================================================
