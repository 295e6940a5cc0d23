----------------------------- MODULE PacketChannel -----------------------------
(***************************************************************************)
(* What the reader and the writer of socket-core promise together: packets  *)
(* are delivered whole, each once, in the order they were offered.          *)
(***************************************************************************)
EXTENDS Naturals, Sequences

CONSTANT Packets

VARIABLES offered, delivered

vars == <<offered, delivered>>

Init == offered = <<>> /\ delivered = <<>>

Offer(p) == offered' = Append(offered, p) /\ UNCHANGED delivered

Deliver ==
  /\ Len(delivered) < Len(offered)
  /\ delivered' = Append(delivered, offered[Len(delivered) + 1])
  /\ UNCHANGED offered

Next == Deliver \/ \E p \in Packets : Offer(p)

Spec == Init /\ [][Next]_vars
=============================================================================
