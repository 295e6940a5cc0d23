---------------------------- MODULE MCPacketStream ----------------------------
(* A read may bring the end of a body, a whole small packet and the start of *)
(* the next one; a large body takes two reads and three writes; a huge one   *)
(* is refused.                                                               *)
EXTENDS PacketStream, TLC
CONSTANTS empty, small, large, huge
MCPackets == {empty, small, large, huge}
MCSize == empty :> 0 @@ small :> 1 @@ large :> 6 @@ huge :> 7
=============================================================================
