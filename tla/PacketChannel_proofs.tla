------------------------- MODULE PacketChannel_proofs -------------------------
(***************************************************************************)
(* What PacketChannel says of a whole behaviour: deliveries never get ahead *)
(* of offers and repeat them one by one.  PacketStream implements it        *)
(* (InOrder), so the same holds of the packets the reader hands on.         *)
(***************************************************************************)
EXTENDS PacketChannel, TLAPS

SeqsOK == offered \in Seq(Packets) /\ delivered \in Seq(Packets)

\* What has been delivered is the beginning of what has been offered: nothing is lost,
\* repeated or overtaken before it.
DeliveredInOrder ==
  /\ Len(delivered) <= Len(offered)
  /\ \A i \in 1..Len(delivered) : delivered[i] = offered[i]

Fifo == SeqsOK /\ DeliveredInOrder

LEMMA FifoStart == Init => Fifo
  BY DEF Init, Fifo, SeqsOK, DeliveredInOrder

LEMMA FifoStep == Fifo /\ [Next]_vars => Fifo'
<1> SUFFICES ASSUME Fifo, [Next]_vars PROVE Fifo'
  OBVIOUS
<1> USE DEF Fifo, SeqsOK, DeliveredInOrder
<1>1. ASSUME NEW p \in Packets, Offer(p) PROVE Fifo'
  <2>1. offered' \in Seq(Packets) /\ Len(offered') = Len(offered) + 1
    BY <1>1 DEF Offer
  <2>2. \A i \in 1..Len(offered) : offered'[i] = offered[i]
    BY <1>1 DEF Offer
  <2> QED
    BY <1>1, <2>1, <2>2 DEF Offer
<1>2. ASSUME Deliver PROVE Fifo'
  <2> DEFINE n == Len(delivered) + 1
  <2>1. n \in 1..Len(offered) /\ offered[n] \in Packets
    BY <1>2 DEF Deliver
  <2>2. delivered' \in Seq(Packets) /\ Len(delivered') = n /\ delivered'[n] = offered[n]
    BY <1>2, <2>1 DEF Deliver
  <2>3. \A i \in 1..Len(delivered) : delivered'[i] = delivered[i]
    BY <1>2, <2>1 DEF Deliver
  <2> QED
    BY <1>2, <2>1, <2>2, <2>3 DEF Deliver
<1>3. CASE UNCHANGED vars
  BY <1>3 DEF vars
<1> QED
  BY <1>1, <1>2, <1>3 DEF Next

\* Every behaviour of the channel delivers a prefix of what was offered, whatever the
\* packets are and however many.
THEOREM ChannelIsFifo == Spec => []DeliveredInOrder
<1>1. Fifo => DeliveredInOrder
  BY DEF Fifo
<1> QED
  BY <1>1, FifoStart, FifoStep, PTL DEF Spec
=============================================================================
