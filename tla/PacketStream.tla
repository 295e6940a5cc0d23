----------------------------- MODULE PacketStream -----------------------------
(***************************************************************************)
(* WriterImpl and ReaderImpl of socket-core over one byte stream: packets   *)
(* are written in chunks, the stream hands the bytes on in other chunks,    *)
(* and the reader cuts them into packets again, keeping in mRemainingBuf    *)
(* what a read has brought beyond the end of a body.  A byte is named by    *)
(* its packet and its place in it.                                          *)
(***************************************************************************)
EXTENDS Naturals, Sequences

CONSTANTS
  Packets,
  Size,               \* Size[p]: length of the body of p, as its header says
  HeaderLength,
  WritePackageBytes, ReadPackageBytes,
  MaxReadData,        \* getMaxReadDataMB(), in bytes
  CutsInBody          \* TRUE: the stream may end inside a body

NoPacket == "none"

ASSUME PacketStreamAssumption ==
  /\ NoPacket \notin Packets
  /\ Size \in [Packets -> Nat]
  /\ HeaderLength \in Nat \ {0}
  /\ WritePackageBytes \in Nat \ {0} /\ ReadPackageBytes \in Nat \ {0}
  /\ MaxReadData \in Nat /\ CutsInBody \in BOOLEAN

VARIABLES
  offered,    \* history variable: the packets offered, in order
  queue,      \* WriterImpl.mQueue
  writer,     \* the packet write() has taken and the bytes of it written
  stream,     \* bytes on their way
  ended,      \* TRUE: no more bytes will come
  reader,     \* read(): where it is, headBuf, byteBuffer
  remaining,  \* ReaderImpl.mRemainingBuf
  delivered   \* the packets of ACTION_READ_COMPLETE, as head and body bytes

vars == <<offered, queue, writer, stream, ended, reader, remaining, delivered>>
-----------------------------------------------------------------------------
Least(a, b) == IF a < b THEN a ELSE b

Zero == [packet |-> NoPacket, place |-> 0]

\* parse(): header and body
Parse(p) == [i \in 1..(HeaderLength + Size[p]) |-> [packet |-> p, place |-> i]]
Header(p) == SubSeq(Parse(p), 1, HeaderLength)

\* getBodyLength(): what a header of no packet says is arbitrary
BodyLength(head) ==
  IF \E p \in Packets : head = Header(p) THEN Size[head[1].packet] ELSE 0

(* java.nio.ByteBuffer.  A null buffer is one without bytes.               *)
Allocate(n) == [array |-> [i \in 1..n |-> Zero], position |-> 0, limit |-> n]
Null == Allocate(0)
Remaining(b) == b.limit - b.position
Flip(b) == [b EXCEPT !.limit = b.position, !.position = 0]
Slice(b, from, n) == SubSeq(b.array, from + 1, from + n)
Put(b, bytes) ==
  [b EXCEPT !.position = @ + Len(bytes),
            !.array = [i \in DOMAIN @ |->
              IF i \in (b.position + 1)..(b.position + Len(bytes))
              THEN bytes[i - b.position] ELSE @[i]]]

\* Mutant of Rest: array() is read from its start.
RestFromStart(b) == Put(Allocate(Remaining(b)), Slice(b, 0, Remaining(b)))

\* The bytes left in b, in a buffer of their own
Rest(b) == Put(Allocate(Remaining(b)), Slice(b, b.position, Remaining(b)))

Idle == [at |-> "idle", head |-> Null, body |-> Null]

Init ==
  /\ offered = <<>> /\ queue = <<>> /\ stream = <<>> /\ ended = FALSE
  /\ writer = [packet |-> NoPacket, index |-> 0]
  /\ reader = Idle /\ remaining = Null /\ delivered = <<>>
-----------------------------------------------------------------------------
(* WriterImpl.                                                              *)

\* offer(): each packet once, so that a packet names its place in the order
Offer(p) ==
  /\ \A i \in DOMAIN offered : offered[i] # p
  /\ offered' = Append(offered, p) /\ queue' = Append(queue, p)
  /\ UNCHANGED <<writer, stream, ended, reader, remaining, delivered>>

Take ==
  /\ writer.packet = NoPacket /\ queue # <<>> /\ ~ended
  /\ writer' = [packet |-> Head(queue), index |-> 0]
  /\ queue' = Tail(queue)
  /\ UNCHANGED <<offered, stream, ended, reader, remaining, delivered>>

\* One round of the loop of write().
WriteChunk ==
  /\ writer.packet # NoPacket /\ ~ended
  /\ LET bytes == Parse(writer.packet)
         n == Least(WritePackageBytes, Len(bytes) - writer.index)
         index == writer.index + n
     IN /\ stream' = stream \o SubSeq(bytes, writer.index + 1, index)
        /\ writer' = IF index = Len(bytes) THEN [packet |-> NoPacket, index |-> 0]
                     ELSE [writer EXCEPT !.index = index]
  /\ UNCHANGED <<offered, queue, ended, reader, remaining, delivered>>

\* The sender is gone; what it has written still arrives.
End ==
  /\ ~ended
  /\ CutsInBody \/ writer.packet = NoPacket \/ writer.index < HeaderLength
  /\ ended' = TRUE
  /\ UNCHANGED <<offered, queue, writer, stream, reader, remaining, delivered>>
-----------------------------------------------------------------------------
(* ReaderImpl.read(), called again and again until it throws.               *)

Deliver(head, body) ==
  /\ delivered' = Append(delivered, head \o body)
  /\ reader' = Idle

\* Mutant of ReadHead: the part of a header that mRemainingBuf holds is dropped.
ReadHeadDropsPart ==
  /\ reader.at = "idle"
  /\ LET b == Flip(remaining)
         n == IF Remaining(b) < HeaderLength THEN 0 ELSE HeaderLength
     IN /\ reader' = [at |-> "head", head |-> Put(Allocate(HeaderLength), Slice(b, 0, n)),
                      body |-> Null]
        /\ remaining' = IF n = 0 THEN Null ELSE [b EXCEPT !.position = HeaderLength]
  /\ UNCHANGED <<offered, queue, writer, stream, ended, delivered>>

\* The header, as far as mRemainingBuf holds it.
ReadHead ==
  /\ reader.at = "idle"
  /\ LET b == Flip(remaining)
         n == Least(Remaining(b), HeaderLength)
     IN /\ reader' = [at |-> "head", head |-> Put(Allocate(HeaderLength), Slice(b, 0, n)),
                      body |-> Null]
        /\ remaining' = IF n < HeaderLength THEN Null
                        ELSE [b EXCEPT !.position = HeaderLength]
  /\ UNCHANGED <<offered, queue, writer, stream, ended, delivered>>

\* readHeaderFromChannel(): one byte; the end of the stream throws.
ReadHeadByte ==
  /\ reader.at = "head" /\ Remaining(reader.head) > 0
  /\ \/ /\ stream # <<>>
        /\ reader' = [reader EXCEPT !.head = Put(@, <<Head(stream)>>)]
        /\ stream' = Tail(stream)
     \/ /\ stream = <<>> /\ ended
        /\ reader' = [reader EXCEPT !.at = "failed"]
        /\ UNCHANGED stream
  /\ UNCHANGED <<offered, queue, writer, ended, remaining, delivered>>

\* The body, as far as mRemainingBuf holds it.
StartBody ==
  /\ reader.at = "head" /\ Remaining(reader.head) = 0
  /\ LET head == reader.head.array
         size == BodyLength(head)
         n == Least(Remaining(remaining), size)
         body == Put(Allocate(size), Slice(remaining, remaining.position, n))
         read == [remaining EXCEPT !.position = @ + n]
     IN \/ /\ size > MaxReadData
           /\ reader' = [reader EXCEPT !.at = "failed"]
           /\ UNCHANGED <<remaining, delivered>>
        \/ /\ size <= MaxReadData /\ n = size
           /\ remaining' = Rest(read)
           /\ Deliver(head, body.array)
        \/ /\ size <= MaxReadData /\ n < size
           /\ remaining' = Null
           /\ reader' = [reader EXCEPT !.at = "body", !.body = body]
           /\ UNCHANGED delivered
  /\ UNCHANGED <<offered, queue, writer, stream, ended>>

\* Mutant of ReadBodyChunk: whatever was read is put into the body.
ReadBodyChunkWhole ==
  /\ reader.at = "body" /\ Remaining(reader.body) > 0
  /\ \E len \in 1..Least(Len(stream), ReadPackageBytes) :
       /\ reader' = [reader EXCEPT !.body = Put(@, SubSeq(stream, 1, len))]
       /\ stream' = SubSeq(stream, len + 1, Len(stream))
  /\ UNCHANGED <<offered, queue, writer, ended, remaining, delivered>>

\* readBodyFromChannel(): one round of the loop.
ReadBodyChunk ==
  /\ reader.at = "body" /\ Remaining(reader.body) > 0
  /\ \E len \in 1..Least(Len(stream), ReadPackageBytes) :
       LET n == Least(len, Remaining(reader.body)) IN
       /\ reader' = [reader EXCEPT !.body = Put(@, SubSeq(stream, 1, n))]
       /\ remaining' = IF len > n THEN Put(Allocate(len - n), SubSeq(stream, n + 1, len))
                       ELSE remaining
       /\ stream' = SubSeq(stream, len + 1, Len(stream))
  /\ UNCHANGED <<offered, queue, writer, ended, delivered>>

\* The loop ends with the body, or with the stream.
EndBody ==
  /\ reader.at = "body"
  /\ Remaining(reader.body) = 0 \/ (stream = <<>> /\ ended)
  /\ Deliver(reader.head.array, reader.body.array)
  /\ UNCHANGED <<offered, queue, writer, stream, ended, remaining>>

Reads == ReadHead \/ ReadHeadByte \/ StartBody \/ ReadBodyChunk \/ EndBody
Writes == Take \/ WriteChunk
Next == Writes \/ Reads \/ End \/ \E p \in Packets : Offer(p)
Spec == Init /\ [][Next]_vars /\ WF_vars(Writes) /\ WF_vars(Reads)
-----------------------------------------------------------------------------
TypeOK ==
  /\ offered \in Seq(Packets) /\ queue \in Seq(Packets)
  /\ writer \in [packet : Packets \cup {NoPacket}, index : Nat]
  /\ stream \in Seq([packet : Packets, place : Nat]) /\ ended \in BOOLEAN
  /\ reader.at \in {"idle", "head", "body", "failed"}
  /\ \A b \in {reader.head, reader.body, remaining} :
       b.position \in 0..b.limit /\ b.limit \in 0..Len(b.array)

PacketOf(bytes) ==
  IF \E p \in Packets : Parse(p) = bytes
  THEN CHOOSE p \in Packets : Parse(p) = bytes ELSE NoPacket

\* However writes and reads are cut into chunks, the packets delivered are packets
\* offered: whole, each once and in order.
Channel == INSTANCE PacketChannel
  WITH delivered <- [i \in DOMAIN delivered |-> PacketOf(delivered[i])]
InOrder == Channel!Spec

\* A packet that was offered is delivered, unless the stream ends or the reader has given
\* up: the reader never waits for bytes it has already taken.
EveryPacketArrives ==
  \A p \in Packets :
    (\E i \in DOMAIN offered : offered[i] = p)
      ~> ended \/ reader.at = "failed" \/ \E i \in DOMAIN delivered : delivered[i] = Parse(p)
=============================================================================
