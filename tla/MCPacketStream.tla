--------------------------- MODULE MCPacketStream ---------------------------
(* A two-byte header, packets of two and of three bytes, blocks of two of the   *)
(* longer ones: behind the fourth packet the pool may hand one out again. The  *)
(* shorter packet is the limit that SendPacket::data takes, an empty body.      *)
EXTENDS PacketStream
CONSTANTS b1, b2, b3
ThreeBlocks == {b1, b2, b3}
Requests    == {[type |-> "REQ_CS_MOVE", body |-> 1], [type |-> "REQ_CS_LOGIN", body |-> 0]}
=============================================================================
