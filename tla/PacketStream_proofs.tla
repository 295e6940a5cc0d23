-------------------------- MODULE PacketStream_proofs --------------------------
(***************************************************************************)
(* For all sizes of packets, headers and chunks: the buffers of ReaderImpl  *)
(* stay within their bounds, and reader and writer together implement       *)
(* PacketChannel.  The invariant puts every byte on one line: the packets   *)
(* offered lie on it one after the other, what is still to be written       *)
(* begins where the stream ends, the stream where mRemainingBuf ends,       *)
(* mRemainingBuf where the body read so far ends, and so on back to the end *)
(* of the last packet delivered.  Each step of the reader moves one of      *)
(* these marks over bytes it copies.                                        *)
(***************************************************************************)
EXTENDS PacketStream, TLAPS

Total(p) == HeaderLength + Size[p]
Bytes == [packet : Packets \cup {NoPacket}, place : Nat]
Buffers == [array : Seq(Bytes), position : Nat, limit : Nat]
BufferOK(b) == b \in Buffers /\ b.position <= b.limit /\ b.limit <= Len(b.array)

-----------------------------------------------------------------------------
(* Sequences and buffers.                                                   *)

LEMMA FunctionIsSeq ==
  ASSUME NEW S, NEW n \in Nat, NEW f \in [1..n -> S]
  PROVE  f \in Seq(S) /\ Len(f) = n
  OBVIOUS

\* The bytes of a packet.
LEMMA ParseFact ==
  ASSUME NEW p \in Packets
  PROVE  /\ Total(p) \in Nat /\ Total(p) >= HeaderLength /\ HeaderLength \in Nat /\ HeaderLength >= 1
         /\ Size[p] \in Nat
         /\ Parse(p) \in Seq([packet : Packets, place : Nat]) /\ Parse(p) \in Seq(Bytes)
         /\ Len(Parse(p)) = Total(p)
         /\ \A i \in 1..Total(p) : Parse(p)[i] = [packet |-> p, place |-> i]
  <1>1. /\ Total(p) \in Nat /\ Total(p) >= HeaderLength /\ HeaderLength \in Nat /\ HeaderLength >= 1
        /\ Size[p] \in Nat
    BY PacketStreamAssumption DEF Total
  <1>2. Parse(p) = [i \in 1..Total(p) |-> [packet |-> p, place |-> i]]
    BY DEF Parse, Total
  <1>3. \A i \in 1..Total(p) : [packet |-> p, place |-> i] \in [packet : Packets, place : Nat]
    OBVIOUS
  <1>4. \A i \in 1..Total(p) : [packet |-> p, place |-> i] \in Bytes
    BY DEF Bytes
  <1> HIDE DEF Total
  <1>5. Parse(p) \in [1..Total(p) -> [packet : Packets, place : Nat]]
    BY <1>2, <1>3
  <1>6. Parse(p) \in [1..Total(p) -> Bytes]
    BY <1>2, <1>4
  <1>7. \A i \in 1..Total(p) : Parse(p)[i] = [packet |-> p, place |-> i]
    BY <1>2
  <1>8. Parse(p) \in Seq([packet : Packets, place : Nat]) /\ Len(Parse(p)) = Total(p)
    BY <1>1, <1>5, FunctionIsSeq
  <1>9. Parse(p) \in Seq(Bytes)
    BY <1>1, <1>6, FunctionIsSeq
  <1> QED
    BY <1>1, <1>7, <1>8, <1>9

\* The name of a byte names its packet.
LEMMA ParseInjective ==
  ASSUME NEW p \in Packets, NEW q \in Packets, Parse(p) = Parse(q)
  PROVE  p = q
  <1>1. 1 \in 1..Total(p) /\ 1 \in 1..Total(q)
    BY ParseFact
  <1>2. Parse(p)[1] = [packet |-> p, place |-> 1] /\ Parse(q)[1] = [packet |-> q, place |-> 1]
    BY <1>1, ParseFact
  <1> QED
    BY <1>2

LEMMA PacketOfParse == ASSUME NEW p \in Packets PROVE PacketOf(Parse(p)) = p
  BY ParseInjective DEF PacketOf

LEMMA HeaderFact ==
  ASSUME NEW p \in Packets
  PROVE  /\ Header(p) \in Seq(Bytes) /\ Len(Header(p)) = HeaderLength
         /\ \A i \in 1..HeaderLength : Header(p)[i] = [packet |-> p, place |-> i]
         /\ BodyLength(Header(p)) = Size[p]
  <1>1. /\ Header(p) \in Seq(Bytes) /\ Len(Header(p)) = HeaderLength
        /\ \A i \in 1..HeaderLength : Header(p)[i] = [packet |-> p, place |-> i]
    <2>1. /\ Parse(p) \in Seq(Bytes) /\ Len(Parse(p)) = Total(p)
          /\ HeaderLength \in Nat /\ HeaderLength >= 1 /\ HeaderLength <= Total(p) /\ Total(p) \in Nat
          /\ \A i \in 1..Total(p) : Parse(p)[i] = [packet |-> p, place |-> i]
      BY ParseFact
    <2>2. /\ Header(p) \in Seq(Bytes) /\ Len(Header(p)) = HeaderLength
          /\ \A i \in 1..HeaderLength : Header(p)[i] = Parse(p)[i]
      BY <2>1 DEF Header
    <2>3. \A i \in 1..HeaderLength : i \in 1..Total(p)
      BY <2>1
    <2> QED
      BY <2>1, <2>2, <2>3
  <1>2. Header(p)[1].packet = p
    <2>1. 1 \in 1..HeaderLength
      BY ParseFact
    <2> QED
      BY <1>1, <2>1
  <1> QED
    BY <1>1, <1>2 DEF BodyLength

\* What a header says is a length.
LEMMA BodyLengthNat == ASSUME NEW head PROVE BodyLength(head) \in Nat
  <1>1. CASE \E p \in Packets : head = Header(p)
    <2>1. PICK p \in Packets : head = Header(p)
      BY <1>1
    <2> QED
      BY <2>1, HeaderFact, ParseFact
  <1>2. CASE ~\E p \in Packets : head = Header(p)
    BY <1>2 DEF BodyLength
  <1> QED
    BY <1>1, <1>2

LEMMA ZeroByte == Zero \in Bytes
  BY DEF Zero, Bytes

LEMMA AllocateFact ==
  ASSUME NEW n \in Nat
  PROVE  LET b == Allocate(n) IN
         BufferOK(b) /\ b.position = 0 /\ b.limit = n /\ Len(b.array) = n
  <1>1. [i \in 1..n |-> Zero] \in Seq(Bytes) /\ Len([i \in 1..n |-> Zero]) = n
    BY ZeroByte
  <1> QED
    BY <1>1 DEF Allocate, BufferOK, Buffers

LEMMA NullFact == BufferOK(Null) /\ Null.position = 0 /\ Null.limit = 0 /\ Len(Null.array) = 0
  BY AllocateFact DEF Null

\* put(): the bytes follow what the buffer holds.
LEMMA PutFact ==
  ASSUME NEW b, BufferOK(b), NEW bytes \in Seq(Bytes), Len(bytes) <= b.limit - b.position
  PROVE  LET c == Put(b, bytes) IN
         /\ BufferOK(c) /\ c.limit = b.limit /\ Len(c.array) = Len(b.array)
         /\ c.position = b.position + Len(bytes)
         /\ \A i \in 1..b.position : c.array[i] = b.array[i]
         /\ \A j \in 1..Len(bytes) : c.array[b.position + j] = bytes[j]
  <1> DEFINE n == Len(b.array)
             L == Len(bytes)
             at == b.position
             array == [i \in 1..n |-> IF i \in (at + 1)..(at + L) THEN bytes[i - at] ELSE b.array[i]]
  <1>1. n \in Nat /\ L \in Nat /\ at \in Nat /\ b.limit \in Nat /\ at + L <= b.limit /\ b.limit <= n
        /\ DOMAIN b.array = 1..n
    BY DEF BufferOK, Buffers
  <1>2. Put(b, bytes) = [b EXCEPT !.position = at + L, !.array = array]
    BY <1>1 DEF Put
  <1>3. \A i \in 1..n : (IF i \in (at + 1)..(at + L) THEN bytes[i - at] ELSE b.array[i]) \in Bytes
    <2> TAKE i \in 1..n
    <2>1. CASE i \in (at + 1)..(at + L)
      <3>1. i - at \in 1..L
        BY <1>1, <2>1
      <3> QED
        BY <2>1, <3>1
    <2>2. CASE i \notin (at + 1)..(at + L)
      BY <2>2 DEF BufferOK, Buffers
    <2> QED
      BY <2>1, <2>2
  <1>4. array \in Seq(Bytes) /\ Len(array) = n
    <2> HIDE DEF L, at, n
    <2> QED
      BY <1>1, <1>3
  <1>5. \A i \in 1..at : array[i] = b.array[i]
    BY <1>1
  <1>6. \A j \in 1..L : array[at + j] = bytes[j]
    <2> TAKE j \in 1..L
    <2>1. at + j \in 1..n /\ at + j \in (at + 1)..(at + L) /\ (at + j) - at = j
      BY <1>1, SMTT(30)
    <2> QED
      BY <2>1
  <1> HIDE DEF n, L, at, array
  <1>7. LET c == [b EXCEPT !.position = at + L, !.array = array] IN
        /\ c \in Buffers /\ c.limit = b.limit /\ c.array = array /\ c.position = at + L
    <2>1. at + L \in Nat /\ b \in Buffers
      BY <1>1 DEF BufferOK
    <2> QED
      BY <1>4, <2>1 DEF Buffers
  <1> QED
    BY <1>1, <1>2, <1>4, <1>5, <1>6, <1>7 DEF BufferOK, n, L, at

LEMMA SliceFact ==
  ASSUME NEW b, BufferOK(b), NEW from \in Nat, NEW n \in Nat, from + n <= Len(b.array)
  PROVE  LET s == Slice(b, from, n) IN
         /\ s \in Seq(Bytes) /\ Len(s) = n
         /\ \A j \in 1..n : s[j] = b.array[from + j]
  <1>1. b.array \in Seq(Bytes)
    BY DEF BufferOK, Buffers
  <1> QED
    BY <1>1 DEF Slice

\* A new buffer into which bytes were put.
LEMMA FilledFact ==
  ASSUME NEW n \in Nat, NEW bytes \in Seq(Bytes), Len(bytes) <= n
  PROVE  LET c == Put(Allocate(n), bytes) IN
         /\ BufferOK(c) /\ c.limit = n /\ Len(c.array) = n /\ c.position = Len(bytes)
         /\ \A j \in 1..Len(bytes) : c.array[j] = bytes[j]
  <1> DEFINE b == Allocate(n)
  <1>1. BufferOK(b) /\ b.position = 0 /\ b.limit = n /\ Len(b.array) = n
    BY AllocateFact
  <1>2. Len(bytes) <= b.limit - b.position
    BY <1>1
  <1> DEFINE c == Put(b, bytes)
  <1> HIDE DEF b
  <1>3. /\ BufferOK(c) /\ c.limit = b.limit /\ Len(c.array) = Len(b.array)
        /\ c.position = b.position + Len(bytes)
        /\ \A j \in 1..Len(bytes) : c.array[b.position + j] = bytes[j]
    BY <1>1, <1>2, PutFact
  <1> HIDE DEF c
  <1> QED
    BY <1>1, <1>3 DEF b, c

LEMMA FlipFact ==
  ASSUME NEW b, BufferOK(b)
  PROVE  LET c == Flip(b) IN
         BufferOK(c) /\ c.array = b.array /\ c.position = 0 /\ c.limit = b.position
  <1>1. /\ b \in Buffers /\ b.position \in Nat /\ b.limit \in Nat /\ Len(b.array) \in Nat
        /\ b.position <= b.limit /\ b.limit <= Len(b.array) /\ b.position <= Len(b.array)
    BY DEF BufferOK, Buffers
  <1> DEFINE c == Flip(b)
  <1>2. c \in Buffers /\ c.array = b.array /\ c.position = 0 /\ c.limit = b.position
    BY <1>1 DEF Flip, Buffers
  <1> HIDE DEF c
  <1> QED
    BY <1>1, <1>2 DEF c, BufferOK

\* position(): a buffer within its limit is one.
LEMMA PositionFact ==
  ASSUME NEW b, BufferOK(b), NEW n \in Nat, n <= b.limit
  PROVE  LET c == [b EXCEPT !.position = n] IN
         BufferOK(c) /\ c.array = b.array /\ c.position = n /\ c.limit = b.limit
  <1>1. b \in Buffers /\ b.limit <= Len(b.array)
    BY DEF BufferOK
  <1> DEFINE c == [b EXCEPT !.position = n]
  <1>2. c \in Buffers /\ c.array = b.array /\ c.position = n /\ c.limit = b.limit
    BY <1>1 DEF Buffers
  <1> HIDE DEF c
  <1> QED
    BY <1>1, <1>2 DEF c, BufferOK

LEMMA RestFact ==
  ASSUME NEW b, BufferOK(b)
  PROVE  LET c == Rest(b) IN
         /\ BufferOK(c) /\ c.limit = b.limit - b.position /\ c.position = c.limit
         /\ Len(c.array) = c.limit
         /\ \A j \in 1..c.limit : c.array[j] = b.array[b.position + j]
  <1> DEFINE n == b.limit - b.position
             s == Slice(b, b.position, n)
  <1>1. n \in Nat /\ b.position \in Nat /\ b.position + n <= Len(b.array)
    BY DEF BufferOK, Buffers
  <1>2. s \in Seq(Bytes) /\ Len(s) = n /\ \A j \in 1..n : s[j] = b.array[b.position + j]
    BY <1>1, SliceFact
  <1>3. Rest(b) = Put(Allocate(n), s)
    BY DEF Rest, Remaining
  <1> DEFINE c == Put(Allocate(n), s)
  <1> HIDE DEF n, s
  <1>4. Len(s) <= n
    BY <1>1, <1>2
  <1>5. /\ BufferOK(c) /\ c.limit = n /\ Len(c.array) = n /\ c.position = Len(s)
        /\ \A j \in 1..Len(s) : c.array[j] = s[j]
    BY <1>1, <1>2, <1>4, FilledFact
  <1> HIDE DEF c
  <1>6. /\ c.position = c.limit /\ Len(c.array) = c.limit
        /\ \A j \in 1..c.limit : c.array[j] = b.array[b.position + j]
    BY <1>2, <1>5
  <1> QED
    BY <1>3, <1>5, <1>6 DEF n, c
-----------------------------------------------------------------------------
(* Types.                                                                   *)

ReaderOK(r) ==
  /\ r \in [at : {"idle", "head", "body", "failed"}, head : Buffers, body : Buffers]
  /\ BufferOK(r.head) /\ BufferOK(r.body)

TypeInv ==
  /\ offered \in Seq(Packets) /\ queue \in Seq(Packets)
  /\ writer \in [packet : Packets \cup {NoPacket}, index : Nat]
  /\ writer.packet # NoPacket => writer.index < Total(writer.packet)
  /\ stream \in Seq([packet : Packets, place : Nat]) /\ ended \in BOOLEAN
  /\ ReaderOK(reader) /\ BufferOK(remaining) /\ delivered \in Seq(Seq(Bytes))

LEMMA TypeInvOK == TypeInv => TypeOK
  <1>1. ASSUME NEW b, BufferOK(b)
        PROVE  b.position \in 0..b.limit /\ b.limit \in 0..Len(b.array)
    <2>1. b.position \in Nat /\ b.limit \in Nat /\ Len(b.array) \in Nat
      BY <1>1 DEF Buffers, BufferOK
    <2> QED
      BY <1>1, <2>1 DEF BufferOK
  <1> QED
    BY <1>1 DEF TypeInv, TypeOK, ReaderOK

LEMMA IdleOK == ReaderOK(Idle)
  BY NullFact DEF Idle, ReaderOK, BufferOK

\* A piece of a sequence.
LEMMA PieceFact ==
  ASSUME NEW S, NEW s \in Seq(S), NEW from \in 1..(Len(s) + 1), NEW to \in (from - 1)..Len(s)
  PROVE  /\ SubSeq(s, from, to) \in Seq(S) /\ Len(SubSeq(s, from, to)) = to - from + 1
         /\ \A j \in 1..(to - from + 1) : SubSeq(s, from, to)[j] = s[from - 1 + j]
  OBVIOUS

LEMMA ChunkPiece ==
  ASSUME NEW S, NEW s \in Seq(S), NEW i \in Nat, NEW n \in Nat, i + n <= Len(s)
  PROVE  /\ SubSeq(s, i + 1, i + n) \in Seq(S) /\ Len(SubSeq(s, i + 1, i + n)) = n
         /\ \A j \in 1..n : SubSeq(s, i + 1, i + n)[j] = s[i + j]
  OBVIOUS

LEMMA TailPiece ==
  ASSUME NEW S, NEW s \in Seq(S), NEW n \in Nat, n <= Len(s)
  PROVE  /\ SubSeq(s, n + 1, Len(s)) \in Seq(S) /\ Len(SubSeq(s, n + 1, Len(s))) = Len(s) - n
         /\ \A j \in 1..(Len(s) - n) : SubSeq(s, n + 1, Len(s))[j] = s[n + j]
  <1> DEFINE m == Len(s) - n
  <1>1. m \in Nat /\ n + m = Len(s)
    OBVIOUS
  <1> HIDE DEF m
  <1>2. /\ SubSeq(s, n + 1, n + m) \in Seq(S) /\ Len(SubSeq(s, n + 1, n + m)) = m
        /\ \A j \in 1..m : SubSeq(s, n + 1, n + m)[j] = s[n + j]
    BY <1>1, ChunkPiece
  <1>3. /\ SubSeq(s, n + 1, Len(s)) \in Seq(S) /\ Len(SubSeq(s, n + 1, Len(s))) = m
        /\ \A j \in 1..m : SubSeq(s, n + 1, Len(s))[j] = s[n + j]
    BY <1>1, <1>2
  <1> QED
    BY <1>3 DEF m

LEMMA SeqWiden ==
  ASSUME NEW S, NEW T, S \subseteq T, NEW s \in Seq(S) PROVE s \in Seq(T)
  <1>1. s \in [1..Len(s) -> T] /\ Len(s) \in Nat
    OBVIOUS
  <1> QED
    BY <1>1, FunctionIsSeq

LEMMA StreamBytes == [packet : Packets, place : Nat] \subseteq Bytes
  BY DEF Bytes

\* A round of the loop of write().
LEMMA ChunkFact ==
  ASSUME TypeInv, WriteChunk
  PROVE  \E n \in Nat :
           /\ 0 < n /\ writer.index + n <= Total(writer.packet)
           /\ stream' = stream \o SubSeq(Parse(writer.packet), writer.index + 1, writer.index + n)
           /\ writer' = IF writer.index + n = Total(writer.packet)
                        THEN [packet |-> NoPacket, index |-> 0]
                        ELSE [writer EXCEPT !.index = writer.index + n]
  <1> DEFINE p == writer.packet
             n == Least(WritePackageBytes, Len(Parse(p)) - writer.index)
  <1>1. p \in Packets /\ writer.index \in Nat /\ writer.index < Total(p)
    BY DEF WriteChunk, TypeInv
  <1>2. Len(Parse(p)) = Total(p) /\ Total(p) \in Nat
    BY <1>1, ParseFact
  <1>3. n \in Nat /\ 0 < n /\ writer.index + n <= Total(p)
    BY <1>1, <1>2, PacketStreamAssumption DEF Least
  <1> QED
    BY <1>2, <1>3 DEF WriteChunk

\* What the writer does next is typed.
LEMMA WritesTyped == ASSUME TypeInv, Writes PROVE TypeInv'
  <1>1. CASE Take
    <2>1. /\ queue \in Seq(Packets) /\ queue # <<>> /\ queue' = Tail(queue)
          /\ writer' = [packet |-> Head(queue), index |-> 0]
          /\ UNCHANGED <<offered, stream, ended, reader, remaining, delivered>>
      BY <1>1 DEF Take, TypeInv
    <2>2. Head(queue) \in Packets /\ queue' \in Seq(Packets)
      BY <2>1
    <2>3. Total(Head(queue)) > 0
      BY <2>2, ParseFact
    <2> QED
      BY <2>1, <2>2, <2>3 DEF TypeInv
  <1>2. CASE WriteChunk
    <2>1. PICK n \in Nat :
           /\ 0 < n /\ writer.index + n <= Total(writer.packet)
           /\ stream' = stream \o SubSeq(Parse(writer.packet), writer.index + 1, writer.index + n)
           /\ writer' = IF writer.index + n = Total(writer.packet)
                        THEN [packet |-> NoPacket, index |-> 0]
                        ELSE [writer EXCEPT !.index = writer.index + n]
      BY <1>2, ChunkFact
    <2>2. writer.packet \in Packets /\ writer.index \in Nat
      BY <1>2 DEF WriteChunk, TypeInv
    <2>3. /\ Parse(writer.packet) \in Seq([packet : Packets, place : Nat])
          /\ Len(Parse(writer.packet)) = Total(writer.packet) /\ Total(writer.packet) \in Nat
      BY <2>2, ParseFact
    <2>8. writer.index + n <= Total(writer.packet)
      BY <2>1
    <2>4. SubSeq(Parse(writer.packet), writer.index + 1, writer.index + n)
            \in Seq([packet : Packets, place : Nat])
      BY <2>2, <2>3, <2>8, ChunkPiece
    <2>5. stream' \in Seq([packet : Packets, place : Nat])
      BY <2>1, <2>4 DEF TypeInv
    <2>6. writer' \in [packet : Packets \cup {NoPacket}, index : Nat]
          /\ (writer'.packet # NoPacket => writer'.index < Total(writer'.packet))
      <3>1. CASE writer.index + n = Total(writer.packet)
        <4>1. writer' = [packet |-> NoPacket, index |-> 0]
          BY <2>1, <3>1
        <4> QED
          BY <4>1
      <3>2. CASE writer.index + n # Total(writer.packet)
        <4>1. writer.index + n \in Nat /\ writer.index + n < Total(writer.packet)
          BY <2>2, <2>3, <2>8, <3>2
        <4>2. writer' = [writer EXCEPT !.index = writer.index + n]
          BY <2>1, <3>2
        <4> QED
          BY <4>1, <4>2 DEF TypeInv
      <3> QED
        BY <3>1, <3>2
    <2>7. UNCHANGED <<offered, queue, ended, reader, remaining, delivered>>
      BY <1>2 DEF WriteChunk
    <2> QED
      BY <2>5, <2>6, <2>7 DEF TypeInv
  <1> QED
    BY <1>1, <1>2 DEF Writes

\* A whole packet or what there is of it is handed on.
LEMMA DeliverTyped ==
  ASSUME TypeInv, NEW head \in Seq(Bytes), NEW body \in Seq(Bytes), Deliver(head, body)
  PROVE  ReaderOK(reader') /\ delivered' \in Seq(Seq(Bytes))
  <1>1. head \o body \in Seq(Bytes)
    OBVIOUS
  <1> QED
    BY <1>1, IdleOK DEF Deliver, TypeInv

\* The rounds of read(), as buffers: what each holds afterwards, and that it is one.
LEMMA ReadHeadFact ==
  ASSUME TypeInv, ReadHead
  PROVE  LET r == remaining
             h == reader'.head
             n == Least(r.position, HeaderLength)
         IN /\ n \in Nat /\ n <= r.position /\ n <= HeaderLength
            /\ n < HeaderLength => n = r.position
            /\ reader'.at = "head" /\ reader'.body = Null /\ ReaderOK(reader')
            /\ h.position = n /\ h.limit = HeaderLength /\ Len(h.array) = HeaderLength
            /\ \A j \in 1..n : h.array[j] = r.array[j]
            /\ BufferOK(remaining')
            /\ n < HeaderLength => remaining' = Null
            /\ n = HeaderLength => /\ remaining'.array = r.array /\ remaining'.limit = r.position
                                   /\ remaining'.position = HeaderLength
            /\ UNCHANGED <<offered, queue, writer, stream, ended, delivered>>
  <1> DEFINE r == remaining
             b == Flip(r)
             n == Least(r.position, HeaderLength)
             h == Put(Allocate(HeaderLength), Slice(b, 0, n))
  <1>1. /\ r \in Buffers /\ r.position \in Nat /\ r.position <= r.limit /\ r.limit <= Len(r.array)
        /\ r.limit \in Nat /\ Len(r.array) \in Nat
    BY DEF TypeInv, BufferOK, Buffers
  <1>2. /\ BufferOK(b) /\ b.array = r.array /\ b.position = 0 /\ b.limit = r.position
        /\ Remaining(b) = r.position
    <2>1. BufferOK(r)
      BY DEF TypeInv
    <2>2. BufferOK(b) /\ b.array = r.array /\ b.position = 0 /\ b.limit = r.position
      BY <2>1, FlipFact
    <2> QED
      BY <1>1, <2>2 DEF Remaining
  <1>3. /\ n \in Nat /\ n <= r.position /\ n <= HeaderLength /\ (n < HeaderLength => n = r.position)
        /\ HeaderLength \in Nat
    BY <1>1, PacketStreamAssumption DEF Least
  <1>4. /\ reader' = [at |-> "head", head |-> h, body |-> Null]
        /\ remaining' = IF n < HeaderLength THEN Null ELSE [b EXCEPT !.position = HeaderLength]
        /\ UNCHANGED <<offered, queue, writer, stream, ended, delivered>>
    BY <1>2 DEF ReadHead
  <1> HIDE DEF n, b
  <1>5. /\ Slice(b, 0, n) \in Seq(Bytes) /\ Len(Slice(b, 0, n)) = n
        /\ \A j \in 1..n : Slice(b, 0, n)[j] = r.array[j]
    <2>1. 0 + n <= Len(b.array)
      BY <1>1, <1>2, <1>3
    <2>2. /\ Slice(b, 0, n) \in Seq(Bytes) /\ Len(Slice(b, 0, n)) = n
          /\ \A j \in 1..n : Slice(b, 0, n)[j] = b.array[0 + j]
      BY <1>2, <1>3, <2>1, SliceFact
    <2> QED
      BY <1>2, <1>3, <2>2
  <1>6. /\ BufferOK(h) /\ h.limit = HeaderLength /\ Len(h.array) = HeaderLength /\ h.position = n
        /\ \A j \in 1..n : h.array[j] = r.array[j]
    BY <1>3, <1>5, FilledFact
  <1> HIDE DEF h
  <1>7. /\ reader'.at = "head" /\ reader'.body = Null /\ reader'.head = h /\ ReaderOK(reader')
    BY <1>4, <1>6, NullFact DEF ReaderOK, BufferOK
  <1>8. n = HeaderLength => /\ BufferOK(remaining') /\ remaining'.array = r.array
                            /\ remaining'.limit = r.position /\ remaining'.position = HeaderLength
    <2>1. SUFFICES ASSUME n = HeaderLength
                   PROVE  /\ BufferOK(remaining') /\ remaining'.array = r.array
                          /\ remaining'.limit = r.position /\ remaining'.position = HeaderLength
      OBVIOUS
    <2>2. remaining' = [b EXCEPT !.position = HeaderLength] /\ HeaderLength <= b.limit
      BY <1>2, <1>3, <1>4, <2>1
    <2> QED
      BY <1>2, <1>3, <2>2, PositionFact
  <1>9. n < HeaderLength => remaining' = Null
    BY <1>4
  <1>10. BufferOK(remaining')
    <2>1. n < HeaderLength \/ n = HeaderLength
      BY <1>3
    <2> QED
      BY <2>1, <1>8, <1>9, NullFact
  <1> QED
    BY <1>3, <1>4, <1>6, <1>7, <1>8, <1>9, <1>10 DEF n

LEMMA ReadHeadByteFact ==
  ASSUME TypeInv, ReadHeadByte
  PROVE  /\ ReaderOK(reader') /\ stream' \in Seq([packet : Packets, place : Nat])
         /\ UNCHANGED <<offered, queue, writer, ended, remaining, delivered>>
         /\ reader.at = "head" /\ reader.head.position < reader.head.limit
         /\ \/ reader'.at = "failed"
            \/ /\ reader'.at = "head" /\ reader'.body = reader.body
               /\ reader'.head.position = reader.head.position + 1
               /\ reader'.head.limit = reader.head.limit
               /\ Len(reader'.head.array) = Len(reader.head.array)
               /\ \A j \in 1..reader.head.position : reader'.head.array[j] = reader.head.array[j]
               /\ reader'.head.array[reader.head.position + 1] = Head(stream)
               /\ stream # <<>> /\ stream' = Tail(stream)
  <1>1. /\ ReaderOK(reader) /\ stream \in Seq([packet : Packets, place : Nat])
        /\ reader.at = "head" /\ reader.head.limit - reader.head.position > 0
        /\ BufferOK(reader.head)
        /\ UNCHANGED <<offered, queue, writer, ended, remaining, delivered>>
    BY DEF TypeInv, ReadHeadByte, Remaining, ReaderOK
  <1>2. reader.head.position \in Nat /\ reader.head.limit \in Nat
    BY <1>1 DEF BufferOK, Buffers
  <1>3. CASE stream # <<>> /\ reader' = [reader EXCEPT !.head = Put(@, <<Head(stream)>>)] /\ stream' = Tail(stream)
    <2> DEFINE x == Head(stream)
               s == <<x>>
               h == Put(reader.head, s)
    <2>1. x \in Bytes /\ stream' \in Seq([packet : Packets, place : Nat])
      <3>1. \A T : stream \in Seq(T) /\ stream # <<>> => Head(stream) \in T /\ Tail(stream) \in Seq(T)
        OBVIOUS
      <3> QED
        BY <1>1, <1>3, <3>1, StreamBytes
    <2> HIDE DEF x
    <2>2. s \in Seq(Bytes) /\ Len(s) = 1 /\ s[1] = x /\ 1 \in 1..Len(s)
      BY <2>1
    <2>3. Len(s) <= reader.head.limit - reader.head.position
      BY <1>1, <1>2, <2>2
    <2> HIDE DEF s
    <2>4. /\ BufferOK(h) /\ h.limit = reader.head.limit /\ Len(h.array) = Len(reader.head.array)
          /\ h.position = reader.head.position + Len(s)
          /\ \A i \in 1..reader.head.position : h.array[i] = reader.head.array[i]
          /\ \A j \in 1..Len(s) : h.array[reader.head.position + j] = s[j]
      BY <1>1, <2>2, <2>3, PutFact
    <2>5. reader' = [reader EXCEPT !.head = h]
      BY <1>3 DEF s, x
    <2> HIDE DEF h
    <2>6. ReaderOK(reader') /\ reader'.head = h /\ reader'.at = "head" /\ reader'.body = reader.body
      <3>1. h \in Buffers
        BY <2>4 DEF BufferOK
      <3> QED
        BY <1>1, <2>4, <2>5, <3>1 DEF ReaderOK
    <2>7. /\ h.position = reader.head.position + 1
          /\ h.array[reader.head.position + 1] = Head(stream)
      BY <2>2, <2>4 DEF x
    <2>8. /\ reader'.head.position = reader.head.position + 1
          /\ reader'.head.limit = reader.head.limit
          /\ Len(reader'.head.array) = Len(reader.head.array)
          /\ \A j \in 1..reader.head.position : reader'.head.array[j] = reader.head.array[j]
          /\ reader'.head.array[reader.head.position + 1] = Head(stream)
      BY <2>4, <2>6, <2>7
    <2>9. reader.head.position < reader.head.limit
      BY <1>1, <1>2
    <2> QED
      BY <1>1, <1>3, <2>1, <2>6, <2>8, <2>9
  <1>4. CASE reader' = [reader EXCEPT !.at = "failed"] /\ UNCHANGED stream
    <2>1. ReaderOK(reader') /\ reader'.at = "failed"
      BY <1>1, <1>4 DEF ReaderOK
    <2>2. reader.head.position < reader.head.limit
      BY <1>1, <1>2
    <2> QED
      BY <1>1, <1>4, <2>1, <2>2
  <1> QED
    BY <1>3, <1>4 DEF ReadHeadByte

LEMMA StartBodyFact ==
  ASSUME TypeInv, StartBody
  PROVE  LET head == reader.head.array
             size == BodyLength(head)
             m == remaining.limit - remaining.position
             n == Least(m, size)
         IN /\ size \in Nat /\ m \in Nat /\ n \in Nat /\ n <= size /\ n <= m /\ (n < size => n = m)
            /\ reader.at = "head" /\ reader.head.position = reader.head.limit
            /\ UNCHANGED <<offered, queue, writer, stream, ended>>
            /\ ReaderOK(reader') /\ BufferOK(remaining') /\ delivered' \in Seq(Seq(Bytes))
            /\ \/ reader'.at = "failed" /\ UNCHANGED delivered
               \/ /\ n = size /\ reader' = Idle
                  /\ remaining'.limit = m - n /\ remaining'.position = m - n
                  /\ Len(remaining'.array) = m - n
                  /\ \A j \in 1..(m - n) :
                       remaining'.array[j] = remaining.array[remaining.position + n + j]
                  /\ \E body \in Seq(Bytes) :
                       /\ delivered' = Append(delivered, head \o body) /\ Len(body) = size
                       /\ \A j \in 1..n : body[j] = remaining.array[remaining.position + j]
               \/ /\ n < size /\ remaining' = Null /\ UNCHANGED delivered
                  /\ reader'.at = "body" /\ reader'.head = reader.head
                  /\ reader'.body.position = n /\ reader'.body.limit = size
                  /\ Len(reader'.body.array) = size
                  /\ \A j \in 1..n : reader'.body.array[j] = remaining.array[remaining.position + j]
  <1> DEFINE head == reader.head.array
             size == BodyLength(head)
             m == Remaining(remaining)
             n == Least(m, size)
             body == Put(Allocate(size), Slice(remaining, remaining.position, n))
             read == [remaining EXCEPT !.position = @ + n]
  <1>1. /\ ReaderOK(reader) /\ BufferOK(remaining) /\ BufferOK(reader.head) /\ delivered \in Seq(Seq(Bytes))
        /\ reader.at = "head" /\ reader.head.limit - reader.head.position = 0
        /\ head \in Seq(Bytes) /\ m = remaining.limit - remaining.position
        /\ UNCHANGED <<offered, queue, writer, stream, ended>>
    BY DEF TypeInv, StartBody, Remaining, ReaderOK, BufferOK, Buffers
  <1>2. /\ reader.head.position \in Nat /\ reader.head.limit \in Nat /\ remaining.position \in Nat
        /\ remaining.limit \in Nat /\ m \in Nat /\ Len(remaining.array) \in Nat
        /\ remaining.position + m = remaining.limit /\ remaining.limit <= Len(remaining.array)
    BY <1>1, SMTT(30) DEF BufferOK, Buffers
  <1>3. size \in Nat
    BY BodyLengthNat
  <1> HIDE DEF size, m
  <1>4. n \in Nat /\ n <= size /\ n <= m /\ (n < size => n = m)
    BY <1>2, <1>3 DEF Least
  <1>5. \/ reader' = [reader EXCEPT !.at = "failed"] /\ UNCHANGED <<remaining, delivered>>
        \/ n = size /\ remaining' = Rest(read) /\ Deliver(head, body.array)
        \/ /\ n < size /\ remaining' = Null /\ UNCHANGED delivered
           /\ reader' = [reader EXCEPT !.at = "body", !.body = body]
    BY DEF StartBody, size, m
  <1> HIDE DEF n
  <1>6. /\ Slice(remaining, remaining.position, n) \in Seq(Bytes)
        /\ Len(Slice(remaining, remaining.position, n)) = n
        /\ \A j \in 1..n : Slice(remaining, remaining.position, n)[j] = remaining.array[remaining.position + j]
    <2>1. remaining.position + n <= Len(remaining.array)
      BY <1>2, <1>4
    <2>2. BufferOK(remaining) /\ remaining.position \in Nat /\ n \in Nat
      BY <1>1, <1>2, <1>4
    <2> QED
      BY <2>1, <2>2, SliceFact, SMTT(30)
  <1>7. /\ BufferOK(body) /\ body.limit = size /\ Len(body.array) = size /\ body.position = n
        /\ \A j \in 1..n : body.array[j] = remaining.array[remaining.position + j]
    BY <1>3, <1>4, <1>6, FilledFact
  <1> HIDE DEF body
  <1>8. /\ BufferOK(read) /\ read.position = remaining.position + n /\ read.limit = remaining.limit
        /\ read.array = remaining.array
    <2>1. remaining.position + n \in Nat /\ remaining.position + n <= remaining.limit
      BY <1>2, <1>4
    <2>2. read = [remaining EXCEPT !.position = remaining.position + n]
      BY <1>1 DEF BufferOK, Buffers
    <2> HIDE DEF read
    <2> QED
      BY <1>1, <2>1, <2>2, PositionFact
  <1> HIDE DEF read
  <1>9. CASE reader' = [reader EXCEPT !.at = "failed"] /\ UNCHANGED <<remaining, delivered>>
    <2>1. ReaderOK(reader') /\ reader'.at = "failed"
      BY <1>1, <1>9 DEF ReaderOK
    <2> QED
      BY <1>1, <1>2, <1>3, <1>4, <1>9, <2>1, SMTT(30) DEF m, n, size, Remaining
  <1>10. CASE n = size /\ remaining' = Rest(read) /\ Deliver(head, body.array)
    <2>1. body.array \in Seq(Bytes)
      BY <1>7 DEF BufferOK, Buffers
    <2>2. ReaderOK(reader') /\ delivered' \in Seq(Seq(Bytes))
      BY <1>1, <1>10, <2>1, DeliverTyped
    <2>3. /\ BufferOK(remaining') /\ remaining'.limit = m - n /\ remaining'.position = m - n
          /\ Len(remaining'.array) = m - n
          /\ \A j \in 1..(m - n) : remaining'.array[j] = remaining.array[remaining.position + n + j]
      <3>1. read.limit - read.position = m - n
        BY <1>2, <1>4, <1>8
      <3> QED
        BY <1>8, <1>10, <3>1, RestFact
    <2>4. reader' = Idle /\ delivered' = Append(delivered, head \o body.array)
      BY <1>10 DEF Deliver
    <2>5. \E x \in Seq(Bytes) :
            /\ delivered' = Append(delivered, head \o x) /\ Len(x) = size
            /\ \A j \in 1..n : x[j] = remaining.array[remaining.position + j]
      BY <1>7, <2>1, <2>4
    <2>6. reader.head.position = reader.head.limit
      BY <1>1, <1>2, SMTT(30)
    <2> HIDE DEF head
    <2>7. n = Least(m, size) /\ size = BodyLength(head)
      BY DEF n, size
    <2> QED
      BY <1>1, <1>2, <1>3, <1>4, <1>10, <2>2, <2>3, <2>4, <2>5, <2>6 DEF n, size, head
  <1>11. CASE /\ n < size /\ remaining' = Null /\ UNCHANGED delivered
              /\ reader' = [reader EXCEPT !.at = "body", !.body = body]
    <2>1. ReaderOK(reader') /\ reader'.at = "body" /\ reader'.head = reader.head /\ reader'.body = body
      BY <1>1, <1>7, <1>11 DEF ReaderOK, BufferOK
    <2> QED
      BY <1>1, <1>2, <1>3, <1>4, <1>7, <1>11, <2>1, NullFact, SMTT(30) DEF m, n, size, Remaining
  <1> QED
    BY <1>5, <1>9, <1>10, <1>11

LEMMA ReadBodyChunkFact ==
  ASSUME TypeInv, ReadBodyChunk
  PROVE  LET p == reader.body.position IN
         /\ reader.at = "body" /\ reader'.at = "body" /\ reader'.head = reader.head
         /\ p < reader.body.limit
         /\ UNCHANGED <<offered, queue, writer, ended, delivered>>
         /\ ReaderOK(reader') /\ BufferOK(remaining')
         /\ reader'.body.limit = reader.body.limit
         /\ Len(reader'.body.array) = Len(reader.body.array)
         /\ \E len \in Nat, n \in Nat :
              /\ 0 < n /\ n <= len /\ len <= Len(stream)
              /\ stream' = SubSeq(stream, len + 1, Len(stream))
              /\ reader'.body.position = p + n /\ p + n <= reader.body.limit
              /\ n < len => p + n = reader.body.limit
              /\ \A j \in 1..p : reader'.body.array[j] = reader.body.array[j]
              /\ \A j \in 1..n : reader'.body.array[p + j] = stream[j]
              /\ n = len => UNCHANGED remaining
              /\ n < len => /\ remaining'.position = len - n /\ remaining'.limit = len - n
                            /\ Len(remaining'.array) = len - n
                            /\ \A j \in 1..(len - n) : remaining'.array[j] = stream[n + j]
  <1> DEFINE b == reader.body
             p == b.position
  <1>1. /\ ReaderOK(reader) /\ BufferOK(b) /\ BufferOK(remaining)
        /\ stream \in Seq([packet : Packets, place : Nat])
        /\ reader.at = "body" /\ b.limit - p > 0
        /\ UNCHANGED <<offered, queue, writer, ended, delivered>>
    BY DEF TypeInv, ReadBodyChunk, Remaining, ReaderOK
  <1>2. p \in Nat /\ b.limit \in Nat
    BY <1>1 DEF BufferOK, Buffers
  <1>3. PICK len \in 1..Least(Len(stream), ReadPackageBytes) :
       LET n == Least(len, Remaining(b)) IN
       /\ reader' = [reader EXCEPT !.body = Put(@, SubSeq(stream, 1, n))]
       /\ remaining' = IF len > n THEN Put(Allocate(len - n), SubSeq(stream, n + 1, len))
                       ELSE remaining
       /\ stream' = SubSeq(stream, len + 1, Len(stream))
    BY DEF ReadBodyChunk
  <1> DEFINE n == Least(len, Remaining(b))
  <1>4. len \in Nat /\ len <= Len(stream) /\ 0 < len /\ Len(stream) \in Nat
    BY <1>1, <1>3, PacketStreamAssumption, SMTT(30) DEF Least
  <1>5. n \in Nat /\ 0 < n /\ n <= len /\ p + n <= b.limit /\ (n < len => p + n = b.limit)
    BY <1>1, <1>2, <1>4, SMTT(30) DEF Least, Remaining
  <1>6. /\ reader' = [reader EXCEPT !.body = Put(b, SubSeq(stream, 1, n))]
        /\ remaining' = IF len > n THEN Put(Allocate(len - n), SubSeq(stream, n + 1, len))
                        ELSE remaining
        /\ stream' = SubSeq(stream, len + 1, Len(stream))
    BY <1>3
  <1> HIDE DEF n, p
  <1>7. stream \in Seq(Bytes)
    BY <1>1, StreamBytes, SeqWiden
  <1> DEFINE s == SubSeq(stream, 1, n)
             t == SubSeq(stream, n + 1, len)
             c == Put(b, s)
  <1>8. s \in Seq(Bytes) /\ Len(s) = n /\ \A j \in 1..n : s[j] = stream[j]
    <2>1. 0 + n <= Len(stream)
      BY <1>4, <1>5
    <2> QED
      BY <1>4, <1>5, <1>7, <2>1
  <1>9. t \in Seq(Bytes) /\ Len(t) = len - n /\ \A j \in 1..(len - n) : t[j] = stream[n + j]
    BY <1>4, <1>5, <1>7
  <1> HIDE DEF s, t
  <1>10. /\ BufferOK(c) /\ c.limit = b.limit /\ Len(c.array) = Len(b.array)
         /\ c.position = p + n
         /\ \A i \in 1..p : c.array[i] = b.array[i]
         /\ \A j \in 1..n : c.array[p + j] = s[j]
    <2>1. Len(s) <= b.limit - b.position
      BY <1>2, <1>5, <1>8 DEF p
    <2> QED
      BY <1>1, <1>8, <2>1, PutFact, SMTT(30) DEF p
  <1>11. reader' = [reader EXCEPT !.body = c]
    BY <1>6 DEF s
  <1> HIDE DEF c
  <1>12. ReaderOK(reader') /\ reader'.at = "body" /\ reader'.head = reader.head /\ reader'.body = c
    BY <1>1, <1>10, <1>11 DEF ReaderOK, BufferOK
  <1>13. n < len => /\ BufferOK(remaining') /\ remaining'.position = len - n
                    /\ remaining'.limit = len - n /\ Len(remaining'.array) = len - n
                    /\ \A j \in 1..(len - n) : remaining'.array[j] = stream[n + j]
    <2>1. SUFFICES ASSUME n < len
                   PROVE  /\ BufferOK(remaining') /\ remaining'.position = len - n
                          /\ remaining'.limit = len - n /\ Len(remaining'.array) = len - n
                          /\ \A j \in 1..(len - n) : remaining'.array[j] = stream[n + j]
      OBVIOUS
    <2>2. remaining' = Put(Allocate(len - n), t) /\ len - n \in Nat
      BY <1>4, <1>5, <1>6, <2>1 DEF t
    <2>3. /\ BufferOK(remaining') /\ remaining'.limit = len - n /\ remaining'.position = len - n
          /\ Len(remaining'.array) = len - n
          /\ \A j \in 1..(len - n) : remaining'.array[j] = t[j]
      BY <1>9, <2>2, FilledFact
    <2> QED
      BY <1>9, <2>3
  <1>14. n = len => remaining' = remaining
    BY <1>4, <1>6
  <1>15. BufferOK(remaining')
    BY <1>1, <1>4, <1>5, <1>13, <1>14
  <1>16. /\ reader'.body.position = p + n /\ reader'.body.limit = b.limit
         /\ Len(reader'.body.array) = Len(b.array)
         /\ \A j \in 1..p : reader'.body.array[j] = b.array[j]
         /\ \A j \in 1..n : reader'.body.array[p + j] = stream[j]
    BY <1>8, <1>10, <1>12
  <1>17. n <= len /\ len <= Len(stream) /\ p < b.limit
    BY <1>1, <1>2, <1>4, <1>5
  <1>18. \E l \in Nat, k \in Nat :
           /\ 0 < k /\ k <= l /\ l <= Len(stream)
           /\ stream' = SubSeq(stream, l + 1, Len(stream))
           /\ reader'.body.position = p + k /\ p + k <= b.limit
           /\ k < l => p + k = b.limit
           /\ \A j \in 1..p : reader'.body.array[j] = b.array[j]
           /\ \A j \in 1..k : reader'.body.array[p + j] = stream[j]
           /\ k = l => UNCHANGED remaining
           /\ k < l => /\ remaining'.position = l - k /\ remaining'.limit = l - k
                       /\ Len(remaining'.array) = l - k
                       /\ \A j \in 1..(l - k) : remaining'.array[j] = stream[k + j]
    <2> len \in Nat /\ n \in Nat
      BY <1>4, <1>5
    <2> WITNESS len \in Nat, n \in Nat
    <2> QED
      BY <1>5, <1>6, <1>13, <1>14, <1>16, <1>17
  <1> QED
    BY <1>1, <1>12, <1>15, <1>16, <1>17, <1>18 DEF p

LEMMA ReadsTyped == ASSUME TypeInv, Reads PROVE TypeInv'
  <1>1. CASE ReadHead
    BY <1>1, ReadHeadFact DEF TypeInv
  <1>2. CASE ReadHeadByte
    BY <1>2, ReadHeadByteFact DEF TypeInv
  <1>3. CASE StartBody
    BY <1>3, StartBodyFact DEF TypeInv
  <1>4. CASE ReadBodyChunk
    <2>1. PICK len \in Nat : len <= Len(stream) /\ stream' = SubSeq(stream, len + 1, Len(stream))
      BY <1>4, ReadBodyChunkFact
    <2>2. stream' \in Seq([packet : Packets, place : Nat])
      BY <2>1, TailPiece DEF TypeInv
    <2> QED
      BY <1>4, <2>2, ReadBodyChunkFact DEF TypeInv
  <1>5. CASE EndBody
    <2>1. reader.head.array \in Seq(Bytes) /\ reader.body.array \in Seq(Bytes)
      BY DEF TypeInv, ReaderOK, BufferOK, Buffers
    <2> QED
      BY <1>5, <2>1, DeliverTyped DEF EndBody, TypeInv
  <1> QED
    BY <1>1, <1>2, <1>3, <1>4, <1>5 DEF Reads

LEMMA NextTyped == ASSUME TypeInv, [Next]_vars PROVE TypeInv'
  <1>1. CASE End
    BY <1>1 DEF End, TypeInv
  <1>2. ASSUME NEW p \in Packets, Offer(p) PROVE TypeInv'
    BY <1>2 DEF Offer, TypeInv
  <1>3. CASE UNCHANGED vars
    BY <1>3 DEF vars, TypeInv
  <1> QED
    BY <1>1, <1>2, <1>3, WritesTyped, ReadsTyped DEF Next

LEMMA InitTyped == Init => TypeInv
  <1> SUFFICES ASSUME Init PROVE TypeInv
    OBVIOUS
  <1>1. BufferOK(remaining) /\ ReaderOK(reader)
    BY NullFact, IdleOK DEF Init
  <1>2. writer \in [packet : Packets \cup {NoPacket}, index : Nat] /\ writer.packet = NoPacket
    BY DEF Init
  <1>3. \A S : <<>> \in Seq(S)
    OBVIOUS
  <1>4. /\ offered = <<>> /\ queue = <<>> /\ delivered = <<>> /\ stream = <<>> /\ ended \in BOOLEAN
    BY DEF Init
  <1> QED
    BY <1>1, <1>2, <1>3, <1>4 DEF TypeInv

(* The writer, the wire, the reader's buffers and what is left over stay       *)
(* within their bounds, for any packets, chunk sizes and buffer limit.         *)
THEOREM StreamTypeCorrect == Spec => []TypeOK
  <1>1. Init => TypeInv
    BY InitTyped
  <1>2. TypeInv /\ [Next]_vars => TypeInv'
    BY NextTyped
  <1> QED
    BY <1>1, <1>2, TypeInvOK, PTL DEF Spec
-----------------------------------------------------------------------------
(* The bytes between the writer and the reader.  All that will ever be        *)
(* written lies on one line, sent, on which end[n] is where the n-th packet   *)
(* offered ends; what the stream and the buffers hold are runs of that line,  *)
(* one after the other.                                                       *)

Ends(end) ==
  /\ end \in [0..Len(offered) -> Nat] /\ end[0] = 0
  /\ \A n \in 1..Len(offered) : end[n] = end[n - 1] + Total(offered[n])
  /\ \A i, j \in 0..Len(offered) : i <= j => end[i] <= end[j]

Laid(end, sent) ==
  \A n \in 1..Len(offered) : \A i \in 1..Total(offered[n]) :
    sent[end[n - 1] + i] = [packet |-> offered[n], place |-> i]

\* The n bytes of s after the first from are those of the line after a.
Run(sent, s, from, n, a) == \A j \in 1..n : s[from + j] = sent[a + j]

Taken == Len(offered) - Len(queue)
Written(end) ==
  IF writer.packet = NoPacket THEN end[Taken] ELSE end[Taken - 1] + writer.index

\* Where the reader is on the line, and what mRemainingBuf still holds after that.
ReaderAt(end) == end[Len(delivered)] + reader.head.position + reader.body.position
HeldFrom == IF reader.at = "head" THEN remaining.position ELSE 0
Held == IF reader.at = "head" THEN remaining.limit - remaining.position
        ELSE Len(remaining.array)

WriterInv ==
  /\ Len(queue) <= Len(offered) /\ \A i \in 1..Len(queue) : queue[i] = offered[Taken + i]
  /\ writer.packet # NoPacket => Taken >= 1 /\ writer.packet = offered[Taken]
  /\ ended => writer.packet = NoPacket \/ writer.index < HeaderLength

DeliveredInv ==
  /\ Len(delivered) <= Len(offered)
  /\ \A i \in 1..Len(delivered) : delivered[i] = Parse(offered[i])

BufferInv ==
  /\ remaining.limit = Len(remaining.array)
  /\ reader.at = "idle" => reader = Idle
  /\ reader.at \in {"idle", "body"} => remaining.position = Len(remaining.array)
  /\ reader.at = "head" =>
       /\ reader.body = Null /\ reader.head.limit = HeaderLength
       /\ Len(reader.head.array) = HeaderLength
       /\ reader.head.position < HeaderLength => remaining = Null
  /\ reader.at = "body" =>
       /\ Len(delivered) < Len(offered) /\ reader.head.position = HeaderLength
       /\ reader.head.array = Header(offered[Len(delivered) + 1])
       /\ reader.body.limit = Size[offered[Len(delivered) + 1]]
       /\ Len(reader.body.array) = Size[offered[Len(delivered) + 1]]
       /\ reader.body.position < reader.body.limit => remaining = Null

Streaming(end, sent) ==
  /\ Run(sent, reader.head.array, 0, reader.head.position, end[Len(delivered)])
  /\ Run(sent, reader.body.array, 0, reader.body.position,
         end[Len(delivered)] + reader.head.position)
  /\ Run(sent, remaining.array, HeldFrom, Held, ReaderAt(end))
  /\ Run(sent, stream, 0, Len(stream), ReaderAt(end) + Held)
  /\ Written(end) = ReaderAt(end) + Held + Len(stream)

\* A reader that has failed reads no more: what it held is of no account.
OnLine(end, sent) ==
  /\ TypeInv /\ WriterInv /\ DeliveredInv /\ Ends(end) /\ Laid(end, sent)
  /\ reader.at # "failed" => BufferInv /\ Streaming(end, sent)

StreamInv == \E end, sent : OnLine(end, sent)

LEMMA RunPart ==
  ASSUME NEW sent, NEW s, NEW from \in Nat, NEW n \in Nat, NEW a \in Nat, NEW m \in Nat, m <= n,
         Run(sent, s, from, n, a)
  PROVE  Run(sent, s, from, m, a) /\ Run(sent, s, from + m, n - m, a + m)
  <1>1. Run(sent, s, from, m, a)
    BY DEF Run
  <1>2. ASSUME NEW j \in 1..(n - m) PROVE s[from + m + j] = sent[a + m + j]
    <2>1. m + j \in 1..n /\ from + m + j = from + (m + j) /\ a + m + j = a + (m + j)
      OBVIOUS
    <2>2. s[from + (m + j)] = sent[a + (m + j)]
      BY <2>1 DEF Run
    <2> QED
      BY <2>1, <2>2
  <1> QED
    BY <1>1, <1>2 DEF Run

LEMMA RunCopy ==
  ASSUME NEW sent, NEW s, NEW t, NEW from \in Nat, NEW to \in Nat, NEW n \in Nat, NEW a \in Nat,
         Run(sent, s, from, n, a), \A j \in 1..n : t[to + j] = s[from + j]
  PROVE  Run(sent, t, to, n, a)
  BY DEF Run

LEMMA RunJoin ==
  ASSUME NEW sent, NEW s, NEW from \in Nat, NEW n \in Nat, NEW a \in Nat, NEW m \in Nat,
         Run(sent, s, from, n, a), Run(sent, s, from + n, m, a + n)
  PROVE  Run(sent, s, from, n + m, a)
  <1>1. ASSUME NEW j \in 1..(n + m) PROVE s[from + j] = sent[a + j]
    <2>1. CASE j <= n
      BY <2>1 DEF Run
    <2>2. CASE j > n
      <3>1. j - n \in 1..m /\ from + n + (j - n) = from + j /\ a + n + (j - n) = a + j
        BY <2>2
      <3>2. s[from + n + (j - n)] = sent[a + n + (j - n)]
        BY <3>1 DEF Run
      <3> QED
        BY <3>1, <3>2
    <2> QED
      BY <2>1, <2>2
  <1> QED
    BY <1>1 DEF Run

LEMMA RunEmpty == ASSUME NEW sent, NEW s, NEW from, NEW a PROVE Run(sent, s, from, 0, a)
  BY DEF Run

\* Two lines that agree up to m have the same runs there.
LEMMA RunSame ==
  ASSUME NEW sent, NEW other, NEW s, NEW from \in Nat, NEW n \in Nat, NEW a \in Nat, NEW m \in Nat,
         a + n <= m, \A b \in 1..m : other[b] = sent[b], Run(sent, s, from, n, a)
  PROVE  Run(other, s, from, n, a)
  <1>1. ASSUME NEW j \in 1..n PROVE s[from + j] = other[a + j]
    <2>1. a + j \in 1..m
      OBVIOUS
    <2> QED
      BY <2>1 DEF Run
  <1> QED
    BY <1>1 DEF Run

\* The numbers of the line.
LEMMA Numbers ==
  ASSUME NEW end, NEW sent, OnLine(end, sent)
  PROVE  /\ Len(delivered) \in Nat /\ Len(offered) \in Nat /\ Len(delivered) <= Len(offered)
         /\ Len(queue) \in Nat /\ Len(stream) \in Nat
         /\ end[Len(delivered)] \in Nat /\ end[Len(offered)] \in Nat
         /\ reader.head.position \in Nat /\ reader.body.position \in Nat
         /\ reader.head.limit \in Nat /\ reader.body.limit \in Nat
         /\ reader.head.position <= reader.head.limit /\ reader.body.position <= reader.body.limit
         /\ remaining.position \in Nat /\ remaining.limit \in Nat /\ Len(remaining.array) \in Nat
         /\ remaining.position <= remaining.limit
         /\ ReaderAt(end) \in Nat /\ Held \in Nat /\ HeldFrom \in Nat
         /\ Taken \in Nat /\ Taken <= Len(offered) /\ end[Taken] \in Nat
         /\ HeaderLength \in Nat /\ HeaderLength >= 1
  <1>1. /\ Len(delivered) \in Nat /\ Len(offered) \in Nat /\ Len(delivered) <= Len(offered)
        /\ Len(queue) \in Nat /\ Len(stream) \in Nat /\ Len(queue) <= Len(offered)
    <2>1. /\ delivered \in Seq(Seq(Bytes)) /\ offered \in Seq(Packets) /\ queue \in Seq(Packets)
          /\ stream \in Seq([packet : Packets, place : Nat])
          /\ Len(delivered) <= Len(offered) /\ Len(queue) <= Len(offered)
      BY DEF OnLine, TypeInv, DeliveredInv, WriterInv
    <2>2. \A S : \A s \in Seq(S) : Len(s) \in Nat
      OBVIOUS
    <2> QED
      BY <2>1, <2>2
  <1>2. Taken \in Nat /\ Taken <= Len(offered)
    BY <1>1 DEF Taken
  <1>3. end[Len(delivered)] \in Nat /\ end[Len(offered)] \in Nat /\ end[Taken] \in Nat
    <2>1. \A i \in 0..Len(offered) : end[i] \in Nat
      BY DEF OnLine, Ends
    <2>2. /\ Len(delivered) \in 0..Len(offered) /\ Len(offered) \in 0..Len(offered)
          /\ Taken \in 0..Len(offered)
      BY <1>1, <1>2
    <2> QED
      BY <2>1, <2>2
  <1>4. BufferOK(reader.head) /\ BufferOK(reader.body) /\ BufferOK(remaining)
    BY DEF OnLine, TypeInv, ReaderOK
  <1>5. ASSUME NEW b, BufferOK(b)
        PROVE  b.position \in Nat /\ b.limit \in Nat /\ Len(b.array) \in Nat /\ b.position <= b.limit
    BY <1>5 DEF BufferOK, Buffers
  <1>6. /\ reader.head.position \in Nat /\ reader.body.position \in Nat
        /\ reader.head.limit \in Nat /\ reader.body.limit \in Nat
        /\ reader.head.position <= reader.head.limit /\ reader.body.position <= reader.body.limit
        /\ remaining.position \in Nat /\ remaining.limit \in Nat /\ Len(remaining.array) \in Nat
        /\ remaining.position <= remaining.limit
    <2>1. /\ reader.head.position \in Nat /\ reader.head.limit \in Nat
          /\ reader.head.position <= reader.head.limit
      BY <1>4, <1>5
    <2>2. /\ reader.body.position \in Nat /\ reader.body.limit \in Nat
          /\ reader.body.position <= reader.body.limit
      BY <1>4, <1>5
    <2>3. /\ remaining.position \in Nat /\ remaining.limit \in Nat /\ Len(remaining.array) \in Nat
          /\ remaining.position <= remaining.limit
      BY <1>4, <1>5
    <2> QED
      BY <2>1, <2>2, <2>3
  <1>7. ReaderAt(end) \in Nat
    <2>1. \A a, b, c \in Nat : a + b + c \in Nat
      OBVIOUS
    <2> QED
      BY <1>3, <1>6, <2>1 DEF ReaderAt
  <1>8. Held \in Nat /\ HeldFrom \in Nat
    BY <1>6 DEF Held, HeldFrom
  <1> QED
    BY <1>1, <1>2, <1>3, <1>6, <1>7, <1>8, PacketStreamAssumption

\* Nothing is written that was not offered; the packet in the writer is the one before
\* those still queued.
LEMMA WrittenFact ==
  ASSUME NEW end, NEW sent, OnLine(end, sent)
  PROVE  /\ Written(end) \in Nat /\ Written(end) <= end[Len(offered)]
         /\ writer.packet # NoPacket =>
              /\ Taken \in 1..Len(offered) /\ Taken - 1 \in 0..Len(offered)
              /\ writer.packet \in Packets /\ writer.packet = offered[Taken]
              /\ writer.index \in Nat /\ writer.index < Total(writer.packet)
              /\ end[Taken - 1] \in Nat /\ end[Taken] = end[Taken - 1] + Total(writer.packet)
  <1>1. Taken \in Nat /\ Taken <= Len(offered) /\ Len(offered) \in Nat
    BY Numbers
  <1>2. end[Taken] <= end[Len(offered)] /\ end[Taken] \in Nat /\ end[Len(offered)] \in Nat
    BY <1>1, Numbers DEF OnLine, Ends
  <1>3. CASE writer.packet = NoPacket
    BY <1>2, <1>3 DEF Written
  <1>4. CASE writer.packet # NoPacket
    <2>1. /\ Taken >= 1 /\ writer.packet = offered[Taken] /\ writer.packet \in Packets
          /\ writer.index \in Nat /\ writer.index < Total(writer.packet)
      BY <1>4 DEF OnLine, WriterInv, TypeInv
    <2>2. Taken \in 1..Len(offered) /\ Taken - 1 \in 0..Len(offered)
      BY <1>1, <2>1
    <2>3. end[Taken - 1] \in Nat /\ end[Taken] = end[Taken - 1] + Total(writer.packet)
      BY <2>1, <2>2 DEF OnLine, Ends
    <2>4. Total(writer.packet) \in Nat
      BY <2>1, ParseFact
    <2>5. Written(end) = end[Taken - 1] + writer.index
      BY <1>4 DEF Written
    <2>6. Written(end) \in Nat /\ Written(end) <= end[Len(offered)]
      BY <1>2, <2>1, <2>3, <2>4, <2>5
    <2> QED
      BY <2>1, <2>2, <2>3, <2>6
  <1> QED
    BY <1>3, <1>4

\* Where bytes have been written after the last packet delivered, there is a next one.
LEMMA NextPacket ==
  ASSUME NEW end, NEW sent, OnLine(end, sent), Written(end) > end[Len(delivered)]
  PROVE  LET k == Len(delivered)
             p == offered[Len(delivered) + 1]
         IN /\ k < Len(offered) /\ k + 1 \in 1..Len(offered) /\ p \in Packets
            /\ end[k + 1] = end[k] + Total(p)
            /\ \A i \in 1..Total(p) : sent[end[k] + i] = [packet |-> p, place |-> i]
  <1> DEFINE k == Len(delivered)
  <1>1. k \in Nat /\ Len(offered) \in Nat /\ k <= Len(offered) /\ end[k] \in Nat
        /\ end[Len(offered)] \in Nat
    BY Numbers
  <1>2. Written(end) <= end[Len(offered)] /\ Written(end) \in Nat
    BY WrittenFact
  <1>3. k # Len(offered)
    BY <1>1, <1>2
  <1>4. k < Len(offered) /\ k + 1 \in 1..Len(offered) /\ (k + 1) - 1 = k
    BY <1>1, <1>3
  <1>5. offered[k + 1] \in Packets
    BY <1>4 DEF OnLine, TypeInv
  <1>6. end[k + 1] = end[k] + Total(offered[k + 1])
    BY <1>4 DEF OnLine, Ends
  <1>7. \A i \in 1..Total(offered[k + 1]) : sent[end[k] + i] = [packet |-> offered[k + 1], place |-> i]
    BY <1>4 DEF OnLine, Laid
  <1> QED
    BY <1>4, <1>5, <1>6, <1>7

LEMMA SameSeq ==
  ASSUME NEW S, NEW s \in Seq(S), NEW t \in Seq(S), Len(s) = Len(t), \A i \in 1..Len(s) : s[i] = t[i]
  PROVE  s = t
  OBVIOUS

LEMMA JoinFact ==
  ASSUME NEW S, NEW s \in Seq(S), NEW t \in Seq(S)
  PROVE  /\ s \o t \in Seq(S) /\ Len(s \o t) = Len(s) + Len(t)
         /\ \A i \in 1..Len(s) : (s \o t)[i] = s[i]
         /\ \A i \in 1..Len(t) : (s \o t)[Len(s) + i] = t[i]
  OBVIOUS

\* A header that is full is that of the next packet.
LEMMA HeaderIsNext ==
  ASSUME NEW end, NEW sent, OnLine(end, sent), reader.at = "head",
         reader.head.position = reader.head.limit
  PROVE  LET p == offered[Len(delivered) + 1] IN
         /\ Written(end) > end[Len(delivered)] /\ reader.head.position = HeaderLength
         /\ p \in Packets /\ reader.head.array = Header(p)
         /\ BodyLength(reader.head.array) = Size[p]
  <1> DEFINE p == offered[Len(delivered) + 1]
             h == reader.head.array
             k == Len(delivered)
  <1>1. /\ reader.head.position = HeaderLength /\ Len(h) = HeaderLength /\ reader.body.position = 0
        /\ Run(sent, h, 0, HeaderLength, end[k])
        /\ Written(end) = ReaderAt(end) + Held + Len(stream)
    BY NullFact DEF OnLine, BufferInv, Streaming
  <1>2. Written(end) > end[k]
    <2>1. ReaderAt(end) = end[k] + HeaderLength
      BY <1>1, Numbers DEF ReaderAt
    <2>2. /\ end[k] \in Nat /\ HeaderLength \in Nat /\ HeaderLength >= 1 /\ Held \in Nat
          /\ Len(stream) \in Nat
      BY Numbers
    <2> HIDE DEF k
    <2> QED
      BY <1>1, <2>1, <2>2
  <1>3. p \in Packets /\ \A i \in 1..Total(p) : sent[end[k] + i] = [packet |-> p, place |-> i]
    BY <1>2, NextPacket
  <1>4. /\ Header(p) \in Seq(Bytes) /\ Len(Header(p)) = HeaderLength
        /\ \A i \in 1..HeaderLength : Header(p)[i] = [packet |-> p, place |-> i]
        /\ BodyLength(Header(p)) = Size[p]
    BY <1>3, HeaderFact
  <1>5. h \in Seq(Bytes)
    BY DEF OnLine, TypeInv, ReaderOK, Buffers
  <1>6. \A i \in 1..HeaderLength : h[i] = Header(p)[i]
    <2> TAKE i \in 1..HeaderLength
    <2>1. i \in 1..Total(p) /\ 0 + i = i
      BY <1>3, ParseFact
    <2>2. h[0 + i] = sent[end[k] + i]
      BY <1>1 DEF Run
    <2> QED
      BY <1>3, <1>4, <2>1, <2>2
  <1> HIDE DEF p, h
  <1>7. h = Header(p)
    BY <1>1, <1>4, <1>5, <1>6, SameSeq
  <1> QED
    BY <1>1, <1>2, <1>3, <1>4, <1>7 DEF p, h

\* Header and body together are the next packet, and the line goes on after it.
LEMMA WholePacket ==
  ASSUME NEW end, NEW sent, OnLine(end, sent), Written(end) > end[Len(delivered)],
         NEW body \in Seq(Bytes), Len(body) = Size[offered[Len(delivered) + 1]],
         Run(sent, body, 0, Len(body), end[Len(delivered)] + HeaderLength)
  PROVE  LET p == offered[Len(delivered) + 1] IN
         /\ Header(p) \o body = Parse(p)
         /\ end[Len(delivered) + 1] = end[Len(delivered)] + HeaderLength + Size[p]
  <1> DEFINE p == offered[Len(delivered) + 1]
             k == Len(delivered)
             a == end[k]
             whole == Header(p) \o body
  <1>1. p \in Packets /\ (\A i \in 1..Total(p) : sent[a + i] = [packet |-> p, place |-> i])
        /\ end[k + 1] = a + Total(p)
    BY NextPacket
  <1>2. /\ Total(p) \in Nat /\ HeaderLength \in Nat /\ Size[p] \in Nat
        /\ Total(p) = HeaderLength + Size[p]
        /\ Parse(p) \in Seq(Bytes) /\ Len(Parse(p)) = Total(p)
        /\ \A i \in 1..Total(p) : Parse(p)[i] = [packet |-> p, place |-> i]
    BY <1>1, ParseFact DEF Total
  <1>3. /\ Header(p) \in Seq(Bytes) /\ Len(Header(p)) = HeaderLength
        /\ \A i \in 1..HeaderLength : Header(p)[i] = [packet |-> p, place |-> i]
    BY <1>1, HeaderFact
  <1>4. a \in Nat
    BY Numbers
  <1>5. Len(body) = Size[p] /\ Run(sent, body, 0, Size[p], a + HeaderLength)
    OBVIOUS
  <1> HIDE DEF p, k, a
  <1> DEFINE head == Header(p)
  <1>10. \A i \in 1..HeaderLength : head[i] = [packet |-> p, place |-> i]
    BY <1>3 DEF head
  <1> HIDE DEF head
  <1>6. /\ whole \in Seq(Bytes) /\ Len(whole) = Total(p)
        /\ \A i \in 1..HeaderLength : whole[i] = head[i]
        /\ \A i \in 1..Size[p] : whole[HeaderLength + i] = body[i]
    <2>1. head \in Seq(Bytes) /\ Len(head) = HeaderLength /\ whole = head \o body
      BY <1>3 DEF head
    <2> HIDE DEF whole
    <2>2. whole \in Seq(Bytes) /\ Len(whole) = Len(head) + Len(body)
      BY <2>1, JoinFact
    <2>3. \A i \in 1..Len(head) : whole[i] = head[i]
      BY <2>1, JoinFact
    <2>4. \A i \in 1..Len(body) : whole[Len(head) + i] = body[i]
      BY <2>1, JoinFact, SMTT(30)
    <2> QED
      BY <1>2, <1>5, <2>1, <2>2, <2>3, <2>4
  <1> HIDE DEF whole
  <1>7. ASSUME NEW i \in 1..Total(p) PROVE whole[i] = Parse(p)[i]
    <2>1. CASE i <= HeaderLength
      <3>1. i \in 1..HeaderLength
        BY <2>1, <1>2
      <3>2. whole[i] = head[i] /\ head[i] = [packet |-> p, place |-> i]
        BY <1>6, <1>10, <3>1
      <3>3. Parse(p)[i] = [packet |-> p, place |-> i]
        BY <1>2
      <3> QED
        BY <3>2, <3>3
    <2>2. CASE i > HeaderLength
      <3> DEFINE j == i - HeaderLength
      <3>1. j \in 1..Size[p] /\ 0 + j = j /\ a + HeaderLength + j = a + i /\ HeaderLength + j = i
        BY <1>2, <1>4, <1>7, <2>2
      <3> HIDE DEF j
      <3>2. whole[i] = body[j]
        BY <1>6, <3>1
      <3>3. body[0 + j] = sent[a + HeaderLength + j]
        BY <1>5, <3>1 DEF Run
      <3>4. sent[a + i] = Parse(p)[i]
        BY <1>1, <1>2
      <3> QED
        BY <3>1, <3>2, <3>3, <3>4
    <2> QED
      BY <1>2, <2>1, <2>2
  <1>8. whole = Parse(p)
    BY <1>2, <1>6, <1>7, SameSeq
  <1>9. end[k + 1] = a + HeaderLength + Size[p]
    BY <1>1, <1>2, <1>4
  <1> QED
    BY <1>8, <1>9 DEF whole, p, k, a

\* A further packet lengthens the line.
LEMMA OfferOnLine ==
  ASSUME NEW end, NEW sent, OnLine(end, sent), TypeInv', NEW p \in Packets, Offer(p)
  PROVE  StreamInv'
  <1> DEFINE N == Len(offered)
             far == end[N]
  <1>1. /\ N \in Nat /\ far \in Nat /\ Total(p) \in Nat
        /\ offered \in Seq(Packets) /\ queue \in Seq(Packets)
        /\ offered' = Append(offered, p) /\ queue' = Append(queue, p)
        /\ UNCHANGED <<writer, stream, ended, reader, remaining, delivered>>
    BY Numbers, ParseFact DEF Offer, OnLine, TypeInv
  <1>2. /\ Len(offered') = N + 1 /\ offered'[N + 1] = p /\ \A i \in 1..N : offered'[i] = offered[i]
    BY <1>1
  <1>3. /\ Len(queue) \in Nat /\ Len(queue') = Len(queue) + 1 /\ queue'[Len(queue) + 1] = p
        /\ \A i \in 1..Len(queue) : queue'[i] = queue[i]
    BY <1>1
  <1>4. /\ end \in [0..N -> Nat] /\ end[0] = 0
        /\ \A n \in 1..N : end[n] = end[n - 1] + Total(offered[n])
        /\ \A i, j \in 0..N : i <= j => end[i] <= end[j]
    BY DEF OnLine, Ends
  <1>5. PICK end2 : /\ \A n \in 0..N : end2[n] = end[n]
                    /\ end2[N + 1] = far + Total(p) /\ end2 \in [0..(N + 1) -> Nat]
    <2> DEFINE longer == [n \in 0..(N + 1) |-> IF n <= N THEN end[n] ELSE far + Total(p)]
    <2>1. /\ \A n \in 0..N : longer[n] = end[n]
          /\ longer[N + 1] = far + Total(p) /\ longer \in [0..(N + 1) -> Nat]
      BY <1>1, <1>4
    <2> HIDE DEF longer
    <2> QED
      BY <2>1
  <1>6. PICK sent2 : /\ \A a \in 1..far : sent2[a] = sent[a]
                     /\ \A i \in 1..Total(p) : sent2[far + i] = [packet |-> p, place |-> i]
    <2> DEFINE longer == [a \in Nat |-> IF a <= far THEN sent[a]
                                        ELSE [packet |-> p, place |-> a - far]]
    <2>1. \A a \in 1..far : longer[a] = sent[a]
      BY <1>1
    <2>2. ASSUME NEW i \in 1..Total(p) PROVE longer[far + i] = [packet |-> p, place |-> i]
      <3>1. far + i \in Nat /\ ~(far + i <= far) /\ (far + i) - far = i
        BY <1>1
      <3> HIDE DEF far
      <3> QED
        BY <3>1
    <2> HIDE DEF longer
    <2> QED
      BY <2>1, <2>2
  <1>7. Len(delivered) \in 0..N
    BY Numbers
  <1>8. Ends(end2)'
    <2>1. end2 \in [0..Len(offered') -> Nat] /\ end2[0] = 0
      BY <1>1, <1>2, <1>4, <1>5
    <2>2. ASSUME NEW n \in 1..Len(offered') PROVE end2[n] = end2[n - 1] + Total(offered'[n])
      <3>1. CASE n = N + 1
        <4>1. n - 1 = N /\ N \in 0..N
          BY <1>1, <3>1
        <4> QED
          BY <1>2, <1>5, <3>1, <4>1
      <3>2. CASE n # N + 1
        <4>1. n \in 1..N /\ n \in 0..N /\ n - 1 \in 0..N
          BY <1>1, <1>2, <2>2, <3>2
        <4> QED
          BY <1>2, <1>4, <1>5, <4>1
      <3> QED
        BY <3>1, <3>2
    <2>3. ASSUME NEW i \in 0..Len(offered'), NEW j \in 0..Len(offered'), i <= j
          PROVE  end2[i] <= end2[j]
      <3>1. CASE j = N + 1
        <4>1. CASE i = N + 1
          BY <1>1, <1>5, <3>1, <4>1
        <4>2. CASE i # N + 1
          <5>1. i \in 0..N /\ N \in 0..N /\ i <= N
            BY <1>1, <1>2, <2>3, <4>2
          <5>2. end[i] <= far /\ end2[i] = end[i] /\ end[i] \in Nat
            BY <1>4, <1>5, <5>1
          <5> HIDE DEF far
          <5> QED
            BY <1>1, <1>5, <3>1, <5>2
        <4> QED
          BY <4>1, <4>2
      <3>2. CASE j # N + 1
        <4>1. i \in 0..N /\ j \in 0..N
          BY <1>1, <1>2, <2>3, <3>2
        <4> QED
          BY <1>4, <1>5, <2>3, <4>1
      <3> QED
        BY <3>1, <3>2
    <2> QED
      BY <2>1, <2>2, <2>3 DEF Ends
  <1>9. Laid(end2, sent2)'
    <2> SUFFICES ASSUME NEW n \in 1..Len(offered'), NEW i \in 1..Total(offered'[n])
                 PROVE  sent2[end2[n - 1] + i] = [packet |-> offered'[n], place |-> i]
      BY DEF Laid
    <2>1. CASE n = N + 1
      <3>1. n - 1 = N /\ N \in 0..N
        BY <1>1, <2>1
      <3>2. end2[n - 1] = far /\ offered'[n] = p
        BY <1>2, <1>5, <2>1, <3>1
      <3> QED
        BY <1>6, <3>2
    <2>2. CASE n # N + 1
      <3>1. n \in 1..N /\ n \in 0..N /\ n - 1 \in 0..N /\ N \in 0..N /\ n <= N
        BY <1>1, <1>2, <2>2
      <3>2. end2[n - 1] = end[n - 1] /\ offered'[n] = offered[n] /\ end[n - 1] \in Nat
        BY <1>2, <1>4, <1>5, <3>1
      <3>3. end[n] <= far /\ end[n] = end[n - 1] + Total(offered[n])
        <4>1. end[n] = end[n - 1] + Total(offered[n])
          BY <1>4, <3>1
        <4>2. end[n] <= end[N]
          BY <1>4, <3>1
        <4> QED
          BY <4>1, <4>2
      <3>4. Total(offered[n]) \in Nat
        <4>1. offered[n] \in Packets
          BY <1>1, <3>1
        <4> QED
          BY <4>1, ParseFact
      <3>5. sent[end[n - 1] + i] = [packet |-> offered[n], place |-> i]
        BY <3>1, <3>2 DEF OnLine, Laid
      <3>6. end[n - 1] + i \in 1..far
        <4>1. i \in 1..Total(offered[n])
          BY <3>2
        <4> HIDE DEF far
        <4> QED
          BY <1>1, <3>2, <3>3, <3>4, <4>1, SMTT(30)
      <3> QED
        BY <1>6, <3>2, <3>5, <3>6
    <2> QED
      BY <2>1, <2>2
  <1>10. Taken' = Taken /\ Taken \in 0..N /\ (writer.packet # NoPacket => Taken - 1 \in 0..N)
    <2>1. Taken' = (N + 1) - (Len(queue) + 1)
      BY <1>2, <1>3 DEF Taken
    <2>2. Taken = N - Len(queue) /\ Taken \in Nat /\ Taken <= N
      BY Numbers DEF Taken
    <2>3. writer.packet # NoPacket => Taken - 1 \in 0..N
      BY WrittenFact
    <2> HIDE DEF N
    <2> QED
      BY <1>1, <1>3, <2>1, <2>2, <2>3
  <1>11. WriterInv'
    <2>1. Len(queue') <= Len(offered')
      BY <1>1, <1>2, <1>3 DEF OnLine, WriterInv
    <2>2. ASSUME NEW i \in 1..Len(queue') PROVE queue'[i] = offered'[Taken' + i]
      <3>0. Taken + Len(queue) = N
        <4>1. Taken = N - Len(queue) /\ Len(queue) \in Nat /\ N \in Nat
          BY Numbers DEF Taken
        <4> HIDE DEF N
        <4> QED
          BY <4>1
      <3>1. CASE i = Len(queue) + 1
        <4>1. Taken + i = N + 1
          <5>1. Taken \in Nat /\ Len(queue) \in Nat
            BY <1>3, Numbers
          <5> HIDE DEF N
          <5> QED
            BY <3>0, <3>1, <5>1
        <4> QED
          BY <1>2, <1>3, <1>10, <3>1, <4>1
      <3>2. CASE i # Len(queue) + 1
        <4>1. i \in 1..Len(queue)
          BY <1>3, <2>2, <3>2
        <4>2. Taken + i \in 1..N
          BY <1>1, <1>3, <1>10, <3>0, <4>1
        <4>3. queue[i] = offered[Taken + i]
          BY <4>1 DEF OnLine, WriterInv
        <4> QED
          BY <1>2, <1>3, <1>10, <4>1, <4>2, <4>3
      <3> QED
        BY <3>1, <3>2
    <2>3. ended' => writer'.packet = NoPacket \/ writer'.index < HeaderLength
      BY <1>1 DEF OnLine, WriterInv
    <2>4. writer'.packet # NoPacket => Taken' >= 1 /\ writer'.packet = offered'[Taken']
      <3>1. writer.packet # NoPacket => Taken \in 1..N /\ writer.packet = offered[Taken]
        BY WrittenFact
      <3> QED
        BY <1>1, <1>2, <1>10, <3>1
    <2> QED
      BY <2>1, <2>2, <2>3, <2>4 DEF WriterInv
  <1>12. DeliveredInv'
    <2>1. Len(delivered) \in Nat /\ Len(delivered) <= N
      BY Numbers
    <2>2. \A i \in 1..Len(delivered) : i \in 1..N /\ delivered[i] = Parse(offered[i])
      BY <1>1, <2>1 DEF OnLine, DeliveredInv
    <2> QED
      BY <1>1, <1>2, <2>1, <2>2 DEF DeliveredInv
  <1>13. reader'.at # "failed" => BufferInv' /\ Streaming(end2, sent2)'
    <2> SUFFICES ASSUME reader.at # "failed" PROVE BufferInv' /\ Streaming(end2, sent2)'
      BY <1>1
    <2>1. BufferInv /\ Streaming(end, sent)
      BY DEF OnLine
    <2>2. BufferInv'
      <3>1. Len(delivered) < N => /\ Len(delivered) < Len(offered')
                                  /\ offered'[Len(delivered) + 1] = offered[Len(delivered) + 1]
        <4>1. Len(delivered) \in Nat /\ (Len(delivered) < N => Len(delivered) + 1 \in 1..N)
          BY <1>1, Numbers, SMTT(30)
        <4> QED
          BY <1>1, <1>2, <4>1
      <3> QED
        BY <1>1, <2>1, <3>1 DEF BufferInv
    <2>3. /\ end2[Len(delivered)] = end[Len(delivered)] /\ Written(end2)' = Written(end)
          /\ ReaderAt(end2)' = ReaderAt(end) /\ Held' = Held /\ HeldFrom' = HeldFrom
      <3>2. end2[Len(delivered)] = end[Len(delivered)]
        BY <1>5, <1>7
      <3>3. Written(end2)' = Written(end)
        BY <1>1, <1>5, <1>10 DEF Written
      <3>4. ReaderAt(end2)' = ReaderAt(end)
        BY <1>1, <3>2 DEF ReaderAt
      <3>5. Held' = Held /\ HeldFrom' = HeldFrom
        BY <1>1 DEF Held, HeldFrom
      <3> QED
        BY <3>2, <3>3, <3>4, <3>5
    <2>4. /\ end[Len(delivered)] + reader.head.position <= far
          /\ end[Len(delivered)] + reader.head.position + reader.body.position <= far
          /\ ReaderAt(end) + Held <= far /\ ReaderAt(end) + Held + Len(stream) <= far
      <3>1. Written(end) <= far /\ Written(end) = ReaderAt(end) + Held + Len(stream)
        BY <2>1, WrittenFact DEF Streaming
      <3>2. /\ ReaderAt(end) = end[Len(delivered)] + reader.head.position + reader.body.position
            /\ end[Len(delivered)] \in Nat /\ reader.head.position \in Nat
            /\ reader.body.position \in Nat /\ ReaderAt(end) \in Nat
            /\ Held \in Nat /\ Len(stream) \in Nat
        BY Numbers DEF ReaderAt
      <3> DEFINE a == end[Len(delivered)]
                 h == reader.head.position
                 b == reader.body.position
                 at == ReaderAt(end)
                 held == Held
                 n == Len(stream)
      <3>3. /\ Written(end) <= far /\ Written(end) = at + held + n /\ at = a + h + b
            /\ a \in Nat /\ h \in Nat /\ b \in Nat /\ at \in Nat /\ held \in Nat /\ n \in Nat
        BY <3>1, <3>2
      <3> HIDE DEF far, a, h, b, at, held, n
      <3>4. a + h <= far /\ a + h + b <= far /\ at + held <= far /\ at + held + n <= far
        BY <1>1, <3>3
      <3> QED
        BY <3>4 DEF a, h, b, at, held, n
    <2>5. /\ Run(sent, reader.head.array, 0, reader.head.position, end[Len(delivered)])
          /\ Run(sent, reader.body.array, 0, reader.body.position,
                 end[Len(delivered)] + reader.head.position)
          /\ Run(sent, remaining.array, HeldFrom, Held, ReaderAt(end))
          /\ Run(sent, stream, 0, Len(stream), ReaderAt(end) + Held)
      BY <2>1 DEF Streaming
    <2>6. /\ reader.head.position \in Nat /\ end[Len(delivered)] \in Nat
          /\ reader.body.position \in Nat /\ ReaderAt(end) \in Nat /\ Held \in Nat
          /\ HeldFrom \in Nat /\ Len(stream) \in Nat
          /\ end[Len(delivered)] + reader.head.position \in Nat /\ ReaderAt(end) + Held \in Nat
      <3>1. \A a, b \in Nat : a + b \in Nat
        OBVIOUS
      <3> QED
        BY <3>1, Numbers
    <2> HIDE DEF far
    <2>13. ASSUME NEW s, NEW from \in Nat, NEW n \in Nat, NEW a \in Nat, a + n <= far,
                  Run(sent, s, from, n, a)
           PROVE  Run(sent2, s, from, n, a)
      <3>1. far \in Nat /\ \A b \in 1..far : sent2[b] = sent[b]
        BY <1>1, <1>6
      <3> QED
        BY <2>13, <3>1, RunSame
    <2>7. Run(sent2, reader.head.array, 0, reader.head.position, end[Len(delivered)])
      BY <2>4, <2>5, <2>6, <2>13
    <2>8. Run(sent2, reader.body.array, 0, reader.body.position,
              end[Len(delivered)] + reader.head.position)
      BY <2>4, <2>5, <2>6, <2>13
    <2>9. Run(sent2, remaining.array, HeldFrom, Held, ReaderAt(end))
      BY <2>4, <2>5, <2>6, <2>13
    <2>10. Run(sent2, stream, 0, Len(stream), ReaderAt(end) + Held)
      BY <2>4, <2>5, <2>6, <2>13
    <2>11. Written(end) = ReaderAt(end) + Held + Len(stream)
      BY <2>1 DEF Streaming
    <2>12. Streaming(end2, sent2)'
      BY <1>1, <2>3, <2>7, <2>8, <2>9, <2>10, <2>11 DEF Streaming
    <2> QED
      BY <2>2, <2>12
  <1> QED
    BY <1>8, <1>9, <1>11, <1>12, <1>13 DEF StreamInv, OnLine

\* What the writer's steps leave alone, and what the reader's do.
LEMMA WriterFrame ==
  ASSUME NEW end, NEW sent, OnLine(end, sent), UNCHANGED <<offered, reader, remaining, delivered>>
  PROVE  /\ DeliveredInv' /\ Ends(end)' /\ Laid(end, sent)' /\ (BufferInv => BufferInv')
         /\ ReaderAt(end)' = ReaderAt(end) /\ Held' = Held /\ HeldFrom' = HeldFrom
  <1>1. DeliveredInv' /\ Ends(end)' /\ Laid(end, sent)'
    BY DEF OnLine, DeliveredInv, Ends, Laid
  <1>2. BufferInv => BufferInv'
    BY DEF BufferInv
  <1>3. ReaderAt(end)' = ReaderAt(end) /\ Held' = Held /\ HeldFrom' = HeldFrom
    BY DEF ReaderAt, Held, HeldFrom
  <1> QED
    BY <1>1, <1>2, <1>3

LEMMA ReaderFrame ==
  ASSUME NEW end, NEW sent, OnLine(end, sent), UNCHANGED <<offered, queue, writer, ended>>
  PROVE  WriterInv' /\ Ends(end)' /\ Laid(end, sent)' /\ Written(end)' = Written(end)
  <1>1. Taken' = Taken
    BY DEF Taken
  <1>2. WriterInv'
    BY <1>1 DEF OnLine, WriterInv
  <1>3. Ends(end)' /\ Laid(end, sent)'
    BY DEF OnLine, Ends, Laid
  <1>4. Written(end)' = Written(end)
    BY <1>1 DEF Written
  <1> QED
    BY <1>2, <1>3, <1>4

LEMMA TakeOnLine ==
  ASSUME NEW end, NEW sent, OnLine(end, sent), TypeInv', Take
  PROVE  OnLine(end, sent)'
  <1>1. /\ writer.packet = NoPacket /\ queue # <<>> /\ ended = FALSE
        /\ writer' = [packet |-> Head(queue), index |-> 0] /\ queue' = Tail(queue)
        /\ queue \in Seq(Packets) /\ offered \in Seq(Packets)
        /\ UNCHANGED <<offered, stream, ended, reader, remaining, delivered>>
    BY DEF Take, OnLine, TypeInv
  <1>2. /\ Len(queue) \in Nat /\ Len(queue) >= 1 /\ Len(queue') = Len(queue) - 1
        /\ Head(queue) = queue[1] /\ Head(queue) \in Packets
        /\ \A i \in 1..(Len(queue) - 1) : queue'[i] = queue[i + 1]
    BY <1>1
  <1>3. /\ Len(offered) \in Nat /\ Len(queue) <= Len(offered)
        /\ \A i \in 1..Len(queue) : queue[i] = offered[Taken + i]
        /\ Taken = Len(offered) - Len(queue) /\ Taken \in Nat
    BY Numbers DEF OnLine, WriterInv, Taken
  <1>4. Taken' = Taken + 1
    <2>1. Taken' = Len(offered) - (Len(queue) - 1)
      BY <1>1, <1>2 DEF Taken
    <2> QED
      BY <1>2, <1>3, <2>1
  <1>5. Head(queue) = offered[Taken']
    BY <1>2, <1>3, <1>4
  <1>6. ASSUME NEW i \in 1..Len(queue') PROVE queue'[i] = offered[Taken' + i]
    <2>1. i + 1 \in 1..Len(queue) /\ i \in 1..(Len(queue) - 1)
      BY <1>2, <1>6
    <2>2. queue[i + 1] = offered[Taken + (i + 1)]
      BY <1>3, <2>1
    <2>3. Taken + (i + 1) = Taken' + i
      BY <1>3, <1>4, <2>1
    <2> QED
      BY <1>2, <2>1, <2>2, <2>3
  <1>7. WriterInv'
    <2>1. Len(queue') <= Len(offered)
      BY <1>2, <1>3
    <2>2. Taken' >= 1
      BY <1>3, <1>4
    <2> QED
      BY <1>1, <1>5, <1>6, <2>1, <2>2 DEF WriterInv
  <1>8. Written(end)' = Written(end)
    <2>1. writer'.packet # NoPacket /\ writer'.index = 0
      BY <1>1, <1>2, PacketStreamAssumption
    <2>2. Taken' - 1 = Taken /\ end[Taken] \in Nat
      BY <1>3, <1>4, Numbers
    <2> QED
      BY <1>1, <2>1, <2>2 DEF Written
  <1>9. /\ DeliveredInv' /\ Ends(end)' /\ Laid(end, sent)' /\ (BufferInv => BufferInv')
        /\ ReaderAt(end)' = ReaderAt(end) /\ Held' = Held /\ HeldFrom' = HeldFrom
    BY <1>1, WriterFrame
  <1>10. Streaming(end, sent) => Streaming(end, sent)'
    BY <1>1, <1>8, <1>9 DEF Streaming
  <1> QED
    BY <1>1, <1>7, <1>9, <1>10 DEF OnLine

LEMMA WriteChunkOnLine ==
  ASSUME NEW end, NEW sent, OnLine(end, sent), TypeInv', WriteChunk
  PROVE  OnLine(end, sent)'
  <1> DEFINE p == writer.packet
             i == writer.index
             L == Len(stream)
  <1>1. TypeInv /\ stream \in Seq([packet : Packets, place : Nat]) /\ L \in Nat
        /\ ended = FALSE /\ writer.packet # NoPacket
        /\ UNCHANGED <<offered, queue, ended, reader, remaining, delivered>>
    BY Numbers DEF OnLine, TypeInv, WriteChunk
  <1>2. PICK n \in Nat :
           /\ 0 < n /\ i + n <= Total(p)
           /\ stream' = stream \o SubSeq(Parse(p), i + 1, i + n)
           /\ writer' = IF i + n = Total(p) THEN [packet |-> NoPacket, index |-> 0]
                        ELSE [writer EXCEPT !.index = i + n]
    BY <1>1, ChunkFact
  <1>3. /\ Taken \in 1..Len(offered) /\ p \in Packets /\ p = offered[Taken] /\ i \in Nat
        /\ end[Taken - 1] \in Nat /\ end[Taken] = end[Taken - 1] + Total(p)
    BY <1>1, WrittenFact
  <1>4. /\ Parse(p) \in Seq([packet : Packets, place : Nat]) /\ Len(Parse(p)) = Total(p)
        /\ Total(p) \in Nat /\ \A j \in 1..Total(p) : Parse(p)[j] = [packet |-> p, place |-> j]
    BY <1>3, ParseFact
  <1>5. Written(end) = end[Taken - 1] + i /\ Written(end) \in Nat
    BY <1>1, WrittenFact DEF Written
  <1> DEFINE piece == SubSeq(Parse(p), i + 1, i + n)
  <1>6. /\ piece \in Seq([packet : Packets, place : Nat]) /\ Len(piece) = n
        /\ \A j \in 1..n : piece[j] = Parse(p)[i + j]
    <2> DEFINE s == Parse(p)
               T == [packet : Packets, place : Nat]
    <2>1. s \in Seq(T) /\ i \in Nat /\ n \in Nat /\ i + n <= Len(s)
      BY <1>2, <1>3, <1>4
    <2> HIDE DEF i, p, s, T
    <2>2. /\ SubSeq(s, i + 1, i + n) \in Seq(T) /\ Len(SubSeq(s, i + 1, i + n)) = n
          /\ \A j \in 1..n : SubSeq(s, i + 1, i + n)[j] = s[i + j]
      BY <2>1, ChunkPiece
    <2> QED
      BY <2>2 DEF s, T
  <1>7. Taken' = Taken
    BY <1>1 DEF Taken
  <1>8. Written(end)' = Written(end) + n
    <2>1. CASE i + n = Total(p)
      <3>1. writer'.packet = NoPacket
        BY <1>2, <2>1
      <3>2. Written(end)' = end[Taken]
        BY <1>7, <3>1 DEF Written
      <3> HIDE DEF p, i
      <3> QED
        BY <1>2, <1>3, <1>4, <1>5, <2>1, <3>2, SMTT(30)
    <2>2. CASE i + n # Total(p)
      <3>1. writer' = [writer EXCEPT !.index = i + n]
        BY <1>2, <2>2
      <3>2. writer'.packet = p /\ writer'.index = i + n
        BY <1>1, <3>1 DEF TypeInv
      <3>3. Written(end)' = end[Taken - 1] + (i + n)
        BY <1>1, <1>7, <3>2 DEF Written
      <3> HIDE DEF p, i
      <3> QED
        BY <1>2, <1>3, <1>5, <3>3
    <2> QED
      BY <2>1, <2>2
  <1>9. WriterInv'
    <2>1. writer'.packet # NoPacket => writer'.packet = p
      BY <1>1, <1>2 DEF TypeInv
    <2> QED
      BY <1>1, <1>3, <1>7, <2>1 DEF OnLine, WriterInv
  <1>10. /\ DeliveredInv' /\ Ends(end)' /\ Laid(end, sent)' /\ (BufferInv => BufferInv')
         /\ ReaderAt(end)' = ReaderAt(end) /\ Held' = Held /\ HeldFrom' = HeldFrom
    BY <1>1, WriterFrame
  <1>11. ASSUME Streaming(end, sent) PROVE Streaming(end, sent)'
    <2> DEFINE a == ReaderAt(end) + Held
               w == Written(end)
    <2> HIDE DEF piece, p, i
    <2>1. a \in Nat /\ w = a + L /\ w \in Nat /\ Run(sent, stream, 0, L, a)
      <3>1. ReaderAt(end) \in Nat /\ Held \in Nat
        BY Numbers
      <3> QED
        BY <1>5, <1>11, <3>1 DEF Streaming
    <2>2. /\ Len(stream') = L + n /\ \A j \in 1..L : stream'[j] = stream[j]
          /\ \A j \in 1..n : stream'[L + j] = piece[j]
      <3>1. stream' = stream \o piece
        BY <1>2 DEF piece, p, i
      <3> DEFINE T == [packet : Packets, place : Nat]
      <3>2. stream \in Seq(T) /\ piece \in Seq(T) /\ Len(piece) = n
        BY <1>1, <1>6
      <3> HIDE DEF T
      <3>3. Len(stream \o piece) = L + n
        BY <3>2, JoinFact
      <3>4. \A j \in 1..L : (stream \o piece)[j] = stream[j]
        BY <3>2, JoinFact
      <3>5. \A j \in 1..n : (stream \o piece)[L + j] = piece[j]
        BY <3>2, JoinFact
      <3> QED
        BY <3>1, <3>3, <3>4, <3>5
    <2>3. Run(sent, stream', 0, L, a)
      BY <1>1, <2>1, <2>2 DEF Run
    <2>4. Run(sent, stream', L, n, w)
      <3> SUFFICES ASSUME NEW j \in 1..n PROVE stream'[L + j] = sent[w + j]
        BY DEF Run
      <3>1. i + j \in 1..Total(p) /\ w + j = end[Taken - 1] + (i + j)
        <4> DEFINE t == Total(p)
                   e == end[Taken - 1]
        <4>1. i \in Nat /\ t \in Nat /\ i + n <= t /\ e \in Nat /\ w = e + i
          BY <1>2, <1>3, <1>4, <1>5 DEF p, i
        <4> HIDE DEF t, e, w
        <4> QED
          BY <4>1 DEF t, e
      <3>2. sent[end[Taken - 1] + (i + j)] = [packet |-> p, place |-> i + j]
        BY <1>3, <3>1 DEF OnLine, Laid
      <3>3. stream'[L + j] = Parse(p)[i + j]
        BY <1>6, <2>2
      <3> QED
        BY <1>4, <3>1, <3>2, <3>3
    <2> HIDE DEF a, w, L
    <2>5. 0 + L = L
      BY <1>1
    <2>6. Run(sent, stream', 0, L + n, a)
      BY <1>1, <2>1, <2>3, <2>4, <2>5, RunJoin
    <2>7. Written(end)' = ReaderAt(end) + Held + Len(stream')
      <3>1. Written(end)' = w + n
        BY <1>8 DEF w
      <3> QED
        BY <1>1, <2>1, <2>2, <3>1 DEF a
    <2>8. Run(sent, stream', 0, Len(stream'), ReaderAt(end) + Held)
      BY <2>2, <2>6 DEF a
    <2> QED
      BY <1>1, <1>10, <1>11, <2>7, <2>8 DEF Streaming
  <1> QED
    BY <1>1, <1>9, <1>10, <1>11 DEF OnLine

LEMMA EndOnLine ==
  ASSUME ~CutsInBody, NEW end, NEW sent, OnLine(end, sent), TypeInv', End
  PROVE  OnLine(end, sent)'
  <1>1. /\ writer.packet = NoPacket \/ writer.index < HeaderLength
        /\ UNCHANGED <<offered, queue, writer, stream, reader, remaining, delivered>>
    BY DEF End
  <1>2. Taken' = Taken
    BY <1>1 DEF Taken
  <1>3. WriterInv'
    BY <1>1, <1>2 DEF OnLine, WriterInv
  <1>4. /\ DeliveredInv' /\ Ends(end)' /\ Laid(end, sent)' /\ (BufferInv => BufferInv')
        /\ ReaderAt(end)' = ReaderAt(end) /\ Held' = Held /\ HeldFrom' = HeldFrom
    BY <1>1, WriterFrame
  <1>5. Streaming(end, sent) => Streaming(end, sent)'
    BY <1>1, <1>2, <1>4 DEF Streaming, Written
  <1> QED
    BY <1>1, <1>3, <1>4, <1>5 DEF OnLine

LEMMA ReadHeadOnLine ==
  ASSUME NEW end, NEW sent, OnLine(end, sent), TypeInv', ReadHead
  PROVE  OnLine(end, sent)'
  <1> DEFINE r == remaining
             h == reader'.head
             H == HeaderLength
             n == Least(r.position, H)
             a == end[Len(delivered)]
             R == r.position
             L == Len(stream)
  <1>1. /\ n \in Nat /\ n <= R /\ n <= H /\ (n < H => n = R)
        /\ reader'.at = "head" /\ reader'.body = Null
        /\ h.position = n /\ h.limit = H /\ Len(h.array) = H
        /\ \A j \in 1..n : h.array[j] = r.array[j]
        /\ n < H => remaining' = Null
        /\ n = H => remaining'.array = r.array /\ remaining'.limit = R /\ remaining'.position = H
        /\ UNCHANGED <<offered, queue, writer, stream, ended, delivered>>
    BY ReadHeadFact DEF OnLine
  <1>2. reader.at = "idle" /\ BufferInv /\ Streaming(end, sent)
    BY DEF ReadHead, OnLine
  <1>3. /\ r.limit = Len(r.array) /\ R = Len(r.array)
        /\ reader.head.position = 0 /\ reader.body.position = 0
    BY <1>2, NullFact DEF BufferInv, Idle
  <1>4. /\ R \in Nat /\ a \in Nat /\ H \in Nat /\ H >= 1 /\ L \in Nat
    BY Numbers
  <1>5. ReaderAt(end) = a /\ Held = R /\ HeldFrom = 0
    <2>1. ReaderAt(end) = a + 0 + 0
      BY <1>3 DEF ReaderAt
    <2> HIDE DEF a
    <2> QED
      BY <1>2, <1>3, <1>4, <2>1 DEF Held, HeldFrom
  <1>6. /\ Run(sent, r.array, 0, R, a) /\ Run(sent, stream, 0, L, a + R)
        /\ Written(end) = a + R + L
    BY <1>2, <1>5 DEF Streaming
  <1>7. WriterInv' /\ Ends(end)' /\ Laid(end, sent)' /\ Written(end)' = Written(end)
    BY <1>1, ReaderFrame
  <1>8. DeliveredInv'
    BY <1>1 DEF OnLine, DeliveredInv
  <1>9. reader'.head.position = n /\ reader'.body.position = 0
    BY <1>1, NullFact
  <1>10. ReaderAt(end)' = a + n
    <2>1. ReaderAt(end)' = a + n + 0
      BY <1>1, <1>9 DEF ReaderAt
    <2> HIDE DEF a, n
    <2> QED
      BY <1>1, <1>4, <2>1
  <1> HIDE DEF n, a, R, L, H
  <1>11. Run(sent, r.array, 0, n, a) /\ Run(sent, r.array, 0 + n, R - n, a + n)
    <2> DEFINE arr == r.array
    <2>1. n \in Nat /\ R \in Nat /\ a \in Nat /\ n <= R /\ 0 \in Nat
      BY <1>1, <1>4
    <2>2. Run(sent, arr, 0, R, a)
      BY <1>6
    <2> HIDE DEF arr
    <2>3. Run(sent, arr, 0, n, a) /\ Run(sent, arr, 0 + n, R - n, a + n)
      BY <2>1, <2>2, RunPart
    <2> QED
      BY <2>3 DEF arr
  <1>12. Run(sent, h.array, 0, n, a)
    <2> SUFFICES ASSUME NEW j \in 1..n PROVE h.array[0 + j] = sent[a + j]
      BY DEF Run
    <2>1. 0 + j = j /\ h.array[j] = r.array[j]
      BY <1>1
    <2>2. r.array[0 + j] = sent[a + j]
      BY <1>11 DEF Run
    <2> QED
      BY <2>1, <2>2
  <1>13. n < H \/ n = H
    BY <1>1, <1>4
  <1>14. /\ HeldFrom' = (IF n < H THEN 0 ELSE H) /\ Held' = R - n
         /\ remaining'.limit = Len(remaining'.array)
         /\ Run(sent, remaining'.array, HeldFrom', Held', a + n)
    <2>1. CASE n < H
      <3>1. remaining' = Null /\ R - n = 0
        BY <1>1, <1>4, <2>1
      <3>2. /\ remaining'.position = 0 /\ remaining'.limit = 0 /\ Len(remaining'.array) = 0
        BY <3>1, NullFact
      <3>3. HeldFrom' = 0 /\ Held' = 0
        BY <1>1, <3>2 DEF HeldFrom, Held
      <3> QED
        BY <2>1, <3>1, <3>2, <3>3, RunEmpty
    <2>2. CASE n = H
      <3>1. remaining'.array = r.array /\ remaining'.limit = R /\ remaining'.position = n
        BY <1>1, <2>2
      <3>2. HeldFrom' = n /\ Held' = R - n
        BY <1>1, <3>1 DEF HeldFrom, Held
      <3>3. R = Len(remaining'.array) /\ 0 + n = n /\ ~(n < H)
        BY <1>1, <1>3, <1>4, <2>2, <3>1 DEF R
      <3> QED
        BY <1>11, <2>2, <3>1, <3>2, <3>3
    <2> QED
      BY <1>13, <2>1, <2>2
  <1>15. a + n + (R - n) = a + R
    BY <1>1, <1>4
  <1>16. BufferInv'
    BY <1>1, <1>9, <1>14 DEF BufferInv, H
  <1>17. Streaming(end, sent)'
    <2>1. Run(sent, reader'.head.array, 0, reader'.head.position, end[Len(delivered')])
      BY <1>1, <1>9, <1>12 DEF a
    <2>2. Run(sent, reader'.body.array, 0, reader'.body.position,
              end[Len(delivered')] + reader'.head.position)
      BY <1>9, RunEmpty
    <2>3. Run(sent, stream', 0, Len(stream'), ReaderAt(end)' + Held')
      BY <1>1, <1>6, <1>10, <1>14, <1>15 DEF L
    <2>4. Written(end)' = ReaderAt(end)' + Held' + Len(stream')
      BY <1>1, <1>6, <1>7, <1>10, <1>14, <1>15 DEF L
    <2> QED
      BY <1>10, <1>14, <2>1, <2>2, <2>3, <2>4 DEF Streaming
  <1> QED
    BY <1>7, <1>8, <1>16, <1>17 DEF OnLine

LEMMA ReadHeadByteOnLine ==
  ASSUME NEW end, NEW sent, OnLine(end, sent), TypeInv', ReadHeadByte
  PROVE  OnLine(end, sent)'
  <1> DEFINE i == reader.head.position
             a == end[Len(delivered)]
             L == Len(stream)
             h == reader.head.array
             h2 == reader'.head.array
  <1>1. /\ UNCHANGED <<offered, queue, writer, ended, remaining, delivered>>
        /\ reader.at = "head" /\ i < reader.head.limit
        /\ \/ reader'.at = "failed"
           \/ /\ reader'.at = "head" /\ reader'.body = reader.body
              /\ reader'.head.position = i + 1
              /\ reader'.head.limit = reader.head.limit
              /\ Len(h2) = Len(h)
              /\ \A j \in 1..i : h2[j] = h[j]
              /\ h2[i + 1] = Head(stream)
              /\ stream # <<>> /\ stream' = Tail(stream)
    BY ReadHeadByteFact DEF OnLine
  <1>2. WriterInv' /\ Ends(end)' /\ Laid(end, sent)' /\ Written(end)' = Written(end)
    BY <1>1, ReaderFrame
  <1>3. DeliveredInv'
    BY <1>1 DEF OnLine, DeliveredInv
  <1>4. CASE reader'.at = "failed"
    BY <1>2, <1>3, <1>4 DEF OnLine
  <1>5. CASE reader'.at # "failed"
    <2>1. BufferInv /\ Streaming(end, sent)
      BY <1>1 DEF OnLine
    <2>2. /\ remaining = Null /\ reader.body = Null /\ reader.head.limit = HeaderLength
          /\ Len(h) = HeaderLength /\ remaining.limit = Len(remaining.array)
      BY <1>1, <2>1 DEF BufferInv
    <2>3. /\ i \in Nat /\ a \in Nat /\ L \in Nat /\ i < HeaderLength /\ HeaderLength \in Nat
      BY <1>1, <2>2, Numbers
    <2>4. reader.body.position = 0 /\ Held = 0 /\ HeldFrom = 0
      BY <1>1, <2>2, NullFact DEF Held, HeldFrom
    <2>5. ReaderAt(end) = a + i
      <3>1. ReaderAt(end) = a + i + 0
        BY <2>4 DEF ReaderAt
      <3> HIDE DEF a, i
      <3> QED
        BY <2>3, <3>1
    <2>6. /\ Run(sent, h, 0, i, a) /\ Run(sent, stream, 0, L, a + i + 0)
          /\ Written(end) = a + i + 0 + L
      BY <2>1, <2>4, <2>5 DEF Streaming
    <2>7. /\ reader'.at = "head" /\ reader'.body = Null /\ reader'.head.position = i + 1
          /\ reader'.head.limit = HeaderLength /\ Len(h2) = HeaderLength
          /\ \A j \in 1..i : h2[j] = h[j]
          /\ h2[i + 1] = Head(stream) /\ stream # <<>> /\ stream' = Tail(stream)
      BY <1>1, <1>5, <2>2
    <2>8. /\ L >= 1 /\ Head(stream) = stream[1] /\ Len(stream') = L - 1
          /\ \A j \in 1..(L - 1) : stream'[j] = stream[1 + j]
      <3>1. stream \in Seq([packet : Packets, place : Nat])
        BY DEF OnLine, TypeInv
      <3> QED
        BY <2>7, <3>1
    <2>9. ReaderAt(end)' = a + (i + 1) /\ Held' = 0 /\ HeldFrom' = 0
      <3>1. ReaderAt(end)' = a + (i + 1) + 0
        BY <1>1, <2>7, NullFact DEF ReaderAt
      <3>2. Held' = 0 /\ HeldFrom' = 0
        BY <1>1, <2>2, <2>7, NullFact DEF Held, HeldFrom
      <3> HIDE DEF a, i
      <3> QED
        BY <2>3, <3>1, <3>2
    <2>10. BufferInv'
      BY <1>1, <2>2, <2>7 DEF BufferInv
    <2> HIDE DEF a, i, L, h, h2
    <2>11. Run(sent, h2, 0, i + 1, a)
      <3>1. ASSUME NEW j \in 1..(i + 1) PROVE h2[0 + j] = sent[a + j]
        <4>1. CASE j = i + 1
          <5>1. stream[0 + 1] = sent[a + i + 0 + 1]
            BY <2>3, <2>6, <2>8 DEF Run
          <5>2. a + i + 0 + 1 = a + j /\ 0 + j = i + 1 /\ 0 + 1 = 1
            BY <2>3, <4>1
          <5> QED
            BY <2>7, <2>8, <5>1, <5>2
        <4>2. CASE j # i + 1
          <5>1. j \in 1..i /\ 0 + j = j
            BY <2>3, <3>1, <4>2
          <5>2. h[0 + j] = sent[a + j]
            BY <2>6, <5>1 DEF Run
          <5> QED
            BY <2>7, <5>1, <5>2
        <4> QED
          BY <4>1, <4>2
      <3> QED
        BY <3>1 DEF Run
    <2>12. Run(sent, stream', 0, L - 1, a + (i + 1) + 0)
      <3> SUFFICES ASSUME NEW j \in 1..(L - 1) PROVE stream'[0 + j] = sent[a + (i + 1) + 0 + j]
        BY DEF Run
      <3>1. 1 + j \in 1..L /\ 0 + j = j /\ 0 + (1 + j) = 1 + j
            /\ a + i + 0 + (1 + j) = a + (i + 1) + 0 + j
        BY <2>3, <2>8
      <3>2. stream[0 + (1 + j)] = sent[a + i + 0 + (1 + j)]
        BY <2>6, <3>1 DEF Run
      <3> QED
        BY <2>8, <3>1, <3>2
    <2>13. a + i + 0 + L = a + (i + 1) + 0 + (L - 1)
      BY <2>3, <2>8
    <2>14. Streaming(end, sent)'
      <3>1. Run(sent, reader'.head.array, 0, reader'.head.position, end[Len(delivered')])
        BY <1>1, <2>7, <2>11 DEF a, h2
      <3>2. Run(sent, reader'.body.array, 0, reader'.body.position,
                end[Len(delivered')] + reader'.head.position)
        BY <2>7, NullFact, RunEmpty
      <3>3. Run(sent, remaining'.array, HeldFrom', Held', ReaderAt(end)')
        BY <2>9, RunEmpty
      <3> QED
        BY <1>2, <2>6, <2>8, <2>9, <2>12, <2>13, <3>1, <3>2, <3>3 DEF Streaming
    <2> QED
      BY <1>2, <1>3, <2>10, <2>14 DEF OnLine
  <1> QED
    BY <1>4, <1>5

\* Delivering the next packet keeps what has been delivered in order.
LEMMA DeliveredOneMore ==
  ASSUME NEW end, NEW sent, OnLine(end, sent), UNCHANGED offered,
         Len(delivered) + 1 \in 1..Len(offered),
         NEW bytes, bytes = Parse(offered[Len(delivered) + 1]),
         delivered' = Append(delivered, bytes)
  PROVE  Len(delivered') = Len(delivered) + 1 /\ DeliveredInv'
  <1> DEFINE k == Len(delivered)
  <1>1. /\ delivered \in Seq(Seq(Bytes)) /\ k \in Nat /\ Len(offered) \in Nat
        /\ \A i \in 1..k : delivered[i] = Parse(offered[i])
    BY Numbers DEF OnLine, TypeInv, DeliveredInv
  <1>2. Len(delivered') = k + 1 /\ delivered'[k + 1] = bytes
        /\ \A i \in 1..k : delivered'[i] = delivered[i]
    BY <1>1
  <1>3. ASSUME NEW i \in 1..(k + 1) PROVE delivered'[i] = Parse(offered[i])
    <2>1. CASE i = k + 1
      BY <1>2, <2>1
    <2>2. CASE i # k + 1
      <3>1. i \in 1..k
        BY <1>1, <1>3, <2>2
      <3> QED
        BY <1>1, <1>2, <3>1
    <2> QED
      BY <2>1, <2>2
  <1>4. k + 1 <= Len(offered)
    BY <1>1, SMTT(30)
  <1> QED
    BY <1>2, <1>3, <1>4 DEF DeliveredInv

LEMMA StartBodyOnLine ==
  ASSUME NEW end, NEW sent, OnLine(end, sent), TypeInv', StartBody
  PROVE  OnLine(end, sent)'
  <1> DEFINE head == reader.head.array
             k == Len(delivered)
             p == offered[k + 1]
             a == end[k]
             H == HeaderLength
             L == Len(stream)
             size == BodyLength(head)
             from == remaining.position
             m == remaining.limit - remaining.position
             n == Least(m, size)
             arr == remaining.array
  <1>1. /\ size \in Nat /\ m \in Nat /\ n \in Nat /\ n <= size /\ n <= m /\ (n < size => n = m)
        /\ reader.at = "head" /\ reader.head.position = reader.head.limit
        /\ UNCHANGED <<offered, queue, writer, stream, ended>>
        /\ \/ reader'.at = "failed" /\ UNCHANGED delivered
           \/ /\ n = size /\ reader' = Idle
              /\ remaining'.limit = m - n /\ remaining'.position = m - n
              /\ Len(remaining'.array) = m - n
              /\ \A j \in 1..(m - n) : remaining'.array[j] = arr[from + n + j]
              /\ \E body \in Seq(Bytes) :
                   /\ delivered' = Append(delivered, head \o body) /\ Len(body) = size
                   /\ \A j \in 1..n : body[j] = arr[from + j]
           \/ /\ n < size /\ remaining' = Null /\ UNCHANGED delivered
              /\ reader'.at = "body" /\ reader'.head = reader.head
              /\ reader'.body.position = n /\ reader'.body.limit = size
              /\ Len(reader'.body.array) = size
              /\ \A j \in 1..n : reader'.body.array[j] = arr[from + j]
    BY StartBodyFact DEF OnLine
  <1>2. WriterInv' /\ Ends(end)' /\ Laid(end, sent)' /\ Written(end)' = Written(end)
    BY <1>1, ReaderFrame
  <1>3. BufferInv /\ Streaming(end, sent)
    BY <1>1 DEF OnLine
  <1>4. /\ Written(end) > a /\ reader.head.position = H /\ p \in Packets /\ head = Header(p)
        /\ size = Size[p]
    BY <1>1, HeaderIsNext
  <1>5. /\ k < Len(offered) /\ k + 1 \in 1..Len(offered)
    BY <1>4, NextPacket
  <1>6. /\ k \in Nat /\ a \in Nat /\ H \in Nat /\ from \in Nat /\ L \in Nat
    BY Numbers
  <1>7. reader.body = Null /\ reader.body.position = 0 /\ Held = m /\ HeldFrom = from
    BY <1>1, <1>3, NullFact DEF BufferInv, Held, HeldFrom
  <1>8. ReaderAt(end) = a + H
    <2>1. ReaderAt(end) = a + H + 0
      BY <1>4, <1>7 DEF ReaderAt
    <2> HIDE DEF a, H
    <2> QED
      BY <1>6, <2>1
  <1>9. /\ Run(sent, head, 0, H, a) /\ Run(sent, arr, from, m, a + H)
        /\ Run(sent, stream, 0, L, a + H + m) /\ Written(end) = a + H + m + L
    BY <1>3, <1>4, <1>7, <1>8 DEF Streaming
  <1>10. CASE reader'.at = "failed" /\ UNCHANGED delivered
    BY <1>1, <1>2, <1>10 DEF OnLine, DeliveredInv
  <1>11. CASE /\ n = size /\ reader' = Idle
              /\ remaining'.limit = m - n /\ remaining'.position = m - n
              /\ Len(remaining'.array) = m - n
              /\ \A j \in 1..(m - n) : remaining'.array[j] = arr[from + n + j]
              /\ \E body \in Seq(Bytes) :
                   /\ delivered' = Append(delivered, head \o body) /\ Len(body) = size
                   /\ \A j \in 1..n : body[j] = arr[from + j]
    <2>1. PICK body \in Seq(Bytes) :
            /\ delivered' = Append(delivered, head \o body) /\ Len(body) = size
            /\ \A j \in 1..n : body[j] = arr[from + j]
      BY <1>11
    <2> HIDE DEF n, size, m, from, arr
    <2>2. Run(sent, arr, from, n, a + H) /\ Run(sent, arr, from + n, m - n, a + H + n)
      <3> DEFINE at == a + H
      <3>1. at \in Nat /\ Run(sent, arr, from, m, at)
        BY <1>6, <1>9
      <3> HIDE DEF at
      <3>2. Run(sent, arr, from, n, at) /\ Run(sent, arr, from + n, m - n, at + n)
        BY <1>1, <1>6, <3>1, RunPart
      <3> QED
        BY <3>2 DEF at
    <2>3. Run(sent, body, 0, n, a + H)
      <3> SUFFICES ASSUME NEW j \in 1..n PROVE body[0 + j] = sent[a + H + j]
        BY DEF Run
      <3>0. n \in Nat
        BY <1>1
      <3>1. 0 + j = j /\ body[j] = arr[from + j]
        BY <2>1, <3>0
      <3>2. arr[from + j] = sent[a + H + j]
        BY <2>2 DEF Run
      <3> QED
        BY <3>1, <3>2
    <2>4. head \o body = Parse(p) /\ end[k + 1] = a + H + Size[p]
      BY <1>4, <1>11, <2>1, <2>3, WholePacket
    <2>5. /\ Len(delivered') = k + 1 /\ DeliveredInv'
      BY <1>1, <1>5, <2>1, <2>4, DeliveredOneMore
    <2>6. end[Len(delivered')] = a + H + n
      BY <1>4, <1>11, <2>4, <2>5
    <2>7. /\ reader'.at = "idle" /\ reader'.head = Null /\ reader'.body = Null
          /\ reader'.head.position = 0 /\ reader'.body.position = 0
      BY <1>11, NullFact DEF Idle
    <2>8. Held' = m - n /\ HeldFrom' = 0
      BY <1>11, <2>7 DEF Held, HeldFrom
    <2>9. ReaderAt(end)' = a + H + n
      <3>1. ReaderAt(end)' = (a + H + n) + 0 + 0
        BY <2>6, <2>7 DEF ReaderAt
      <3> HIDE DEF a, H
      <3> QED
        BY <1>1, <1>6, <3>1
    <2>10. BufferInv'
      BY <1>11, <2>7 DEF BufferInv
    <2> HIDE DEF a, H, L
    <2>11. /\ a + H + n + (m - n) = a + H + m /\ m - n \in Nat
      BY <1>1, <1>6
    <2>12. Run(sent, remaining'.array, 0, m - n, a + H + n)
      <3> SUFFICES ASSUME NEW j \in 1..(m - n)
                   PROVE  remaining'.array[0 + j] = sent[a + H + n + j]
        BY DEF Run
      <3>1. 0 + j = j
        BY <2>11
      <3> QED
        BY <1>11, <2>2, <3>1 DEF Run
    <2>13. Streaming(end, sent)'
      <3>1. Run(sent, reader'.head.array, 0, reader'.head.position, end[Len(delivered')])
        BY <2>7, RunEmpty
      <3>2. Run(sent, reader'.body.array, 0, reader'.body.position,
                end[Len(delivered')] + reader'.head.position)
        BY <2>7, RunEmpty
      <3>3. Run(sent, stream', 0, Len(stream'), ReaderAt(end)' + Held')
        BY <1>1, <1>9, <2>8, <2>9, <2>11 DEF L
      <3>4. Written(end)' = ReaderAt(end)' + Held' + Len(stream')
        BY <1>1, <1>2, <1>9, <2>8, <2>9, <2>11 DEF L
      <3> QED
        BY <2>8, <2>9, <2>12, <3>1, <3>2, <3>3, <3>4 DEF Streaming
    <2> QED
      BY <1>2, <2>5, <2>10, <2>13 DEF OnLine
  <1>12. CASE /\ n < size /\ remaining' = Null /\ UNCHANGED delivered
              /\ reader'.at = "body" /\ reader'.head = reader.head
              /\ reader'.body.position = n /\ reader'.body.limit = size
              /\ Len(reader'.body.array) = size
              /\ \A j \in 1..n : reader'.body.array[j] = arr[from + j]
    <2>1. n = m /\ reader'.head.position = H /\ reader'.head.array = head
      BY <1>1, <1>4, <1>12
    <2>2. /\ Held' = 0 /\ HeldFrom' = 0 /\ remaining'.limit = 0 /\ Len(remaining'.array) = 0
          /\ remaining'.position = 0
      BY <1>12, NullFact DEF Held, HeldFrom
    <2>3. ReaderAt(end)' = a + H + m
      BY <1>12, <2>1 DEF ReaderAt
    <2>4. BufferInv'
      BY <1>1, <1>4, <1>5, <1>12, <2>1, <2>2 DEF BufferInv
    <2>5. DeliveredInv'
      BY <1>1, <1>12 DEF OnLine, DeliveredInv
    <2> HIDE DEF a, H, L, n, size, m, from, arr, head
    <2>6. Run(sent, reader'.body.array, 0, n, a + H)
      BY <1>9, <1>12, <2>1 DEF Run
    <2>7. a + H + m + 0 = a + H + m
      BY <1>1, <1>6
    <2>8. Streaming(end, sent)'
      <3>1. Run(sent, reader'.head.array, 0, reader'.head.position, end[Len(delivered')])
        BY <1>9, <1>12, <2>1 DEF a
      <3>2. Run(sent, reader'.body.array, 0, reader'.body.position,
                end[Len(delivered')] + reader'.head.position)
        BY <1>12, <2>1, <2>6 DEF a
      <3>3. Run(sent, remaining'.array, HeldFrom', Held', ReaderAt(end)')
        BY <2>2, RunEmpty
      <3>4. Run(sent, stream', 0, Len(stream'), ReaderAt(end)' + Held')
        BY <1>1, <1>9, <2>2, <2>3, <2>7 DEF L
      <3>5. Written(end)' = ReaderAt(end)' + Held' + Len(stream')
        BY <1>1, <1>2, <1>9, <2>2, <2>3, <2>7 DEF L
      <3> QED
        BY <3>1, <3>2, <3>3, <3>4, <3>5 DEF Streaming
    <2> QED
      BY <1>2, <2>4, <2>5, <2>8 DEF OnLine
  <1> QED
    BY <1>1, <1>10, <1>11, <1>12

LEMMA ReadBodyChunkOnLine ==
  ASSUME NEW end, NEW sent, OnLine(end, sent), TypeInv', ReadBodyChunk
  PROVE  OnLine(end, sent)'
  <1> DEFINE b == reader.body
             b2 == reader'.body
             i == reader.body.position
             a == end[Len(delivered)]
             H == HeaderLength
             L == Len(stream)
  <1>1. /\ reader.at = "body" /\ reader'.at = "body" /\ reader'.head = reader.head
        /\ i < b.limit
        /\ UNCHANGED <<offered, queue, writer, ended, delivered>>
        /\ b2.limit = b.limit /\ Len(b2.array) = Len(b.array)
    BY ReadBodyChunkFact DEF OnLine
  <1>2. PICK len \in Nat, n \in Nat :
              /\ 0 < n /\ n <= len /\ len <= L
              /\ stream' = SubSeq(stream, len + 1, L)
              /\ b2.position = i + n /\ i + n <= b.limit
              /\ n < len => i + n = b.limit
              /\ \A j \in 1..i : b2.array[j] = b.array[j]
              /\ \A j \in 1..n : b2.array[i + j] = stream[j]
              /\ n = len => UNCHANGED remaining
              /\ n < len => /\ remaining'.position = len - n /\ remaining'.limit = len - n
                            /\ Len(remaining'.array) = len - n
                            /\ \A j \in 1..(len - n) : remaining'.array[j] = stream[n + j]
    BY ReadBodyChunkFact DEF OnLine
  <1>3. WriterInv' /\ Ends(end)' /\ Laid(end, sent)' /\ Written(end)' = Written(end)
    BY <1>1, ReaderFrame
  <1>4. DeliveredInv'
    BY <1>1 DEF OnLine, DeliveredInv
  <1>5. BufferInv /\ Streaming(end, sent)
    BY <1>1 DEF OnLine
  <1>6. /\ remaining = Null /\ reader.head.position = H
        /\ remaining.limit = Len(remaining.array) /\ remaining.position = Len(remaining.array)
    BY <1>1, <1>5 DEF BufferInv
  <1>7. Held = 0 /\ HeldFrom = 0
    BY <1>1, <1>6, NullFact DEF Held, HeldFrom
  <1>8. i \in Nat /\ a \in Nat /\ H \in Nat /\ L \in Nat
    BY Numbers
  <1>9. ReaderAt(end) = a + H + i
    BY <1>6 DEF ReaderAt
  <1>10. /\ Run(sent, reader.head.array, 0, H, a) /\ Run(sent, b.array, 0, i, a + H)
         /\ Run(sent, stream, 0, L, a + H + i + 0) /\ Written(end) = a + H + i + 0 + L
    BY <1>5, <1>6, <1>7, <1>9 DEF Streaming
  <1>11. /\ Len(stream') = L - len /\ \A j \in 1..(L - len) : stream'[j] = stream[len + j]
    <2>1. stream \in Seq([packet : Packets, place : Nat])
      BY DEF OnLine, TypeInv
    <2> QED
      BY <1>2, <2>1, TailPiece
  <1>12. ReaderAt(end)' = a + H + (i + n)
    BY <1>1, <1>2, <1>6 DEF ReaderAt
  <1>13. /\ HeldFrom' = 0 /\ Held' = len - n
         /\ remaining'.limit = Len(remaining'.array)
         /\ remaining'.position = Len(remaining'.array)
         /\ \A j \in 1..(len - n) : remaining'.array[j] = stream[n + j]
    <2>1. HeldFrom' = 0 /\ Held' = Len(remaining'.array)
      BY <1>1 DEF HeldFrom, Held
    <2>2. CASE n < len
      BY <1>2, <2>1, <2>2
    <2>3. CASE n = len
      <3>1. len - n = 0 /\ remaining' = remaining /\ Len(remaining'.array) = 0
        BY <1>2, <1>6, <2>3, NullFact
      <3> QED
        BY <1>6, <2>1, <3>1
    <2> QED
      BY <1>2, <2>2, <2>3
  <1>14. BufferInv'
    <2>1. b2.position < b2.limit => remaining' = Null
      <3>1. CASE n = len
        BY <1>2, <1>6, <3>1
      <3>2. CASE n < len
        <4>1. b2.position = b2.limit /\ b2.limit \in Nat
          BY <1>1, <1>2, <3>2, Numbers
        <4> QED
          BY <4>1
      <3> QED
        BY <1>2, <3>1, <3>2
    <2> QED
      BY <1>1, <1>5, <1>13, <2>1 DEF BufferInv
  <1> HIDE DEF a, H, L, i, b, b2
  <1>15. Run(sent, b2.array, 0, i + n, a + H)
    <2> SUFFICES ASSUME NEW j \in 1..(i + n) PROVE b2.array[0 + j] = sent[a + H + j]
      BY DEF Run
    <2>1. CASE j <= i
      <3>1. j \in 1..i /\ 0 + j = j
        BY <1>8, <2>1
      <3>2. b.array[0 + j] = sent[a + H + j]
        BY <1>10, <3>1 DEF Run
      <3> QED
        BY <1>2, <3>1, <3>2
    <2>2. CASE j > i
      <3> DEFINE d == j - i
      <3>1. d \in 1..n /\ d \in 1..L /\ i + d = j /\ 0 + j = j /\ 0 + d = d
            /\ a + H + i + 0 + d = a + H + j
        BY <1>2, <1>8, <2>2
      <3> HIDE DEF d
      <3>2. stream[0 + d] = sent[a + H + i + 0 + d]
        BY <1>10, <3>1 DEF Run
      <3>3. b2.array[i + d] = stream[d]
        BY <1>2, <3>1
      <3> QED
        BY <3>1, <3>2, <3>3
    <2> QED
      BY <1>8, <2>1, <2>2
  <1>16. Run(sent, remaining'.array, 0, len - n, a + H + (i + n))
    <2> SUFFICES ASSUME NEW j \in 1..(len - n)
                 PROVE  remaining'.array[0 + j] = sent[a + H + (i + n) + j]
      BY DEF Run
    <2>1. n + j \in 1..L /\ 0 + j = j /\ 0 + (n + j) = n + j
          /\ a + H + i + 0 + (n + j) = a + H + (i + n) + j
      BY <1>2, <1>8, SMTT(30)
    <2>2. stream[0 + (n + j)] = sent[a + H + i + 0 + (n + j)]
      BY <1>10, <2>1 DEF Run
    <2> QED
      BY <1>13, <2>1, <2>2
  <1>17. Run(sent, stream', 0, L - len, a + H + (i + n) + (len - n))
    <2> SUFFICES ASSUME NEW j \in 1..(L - len)
                 PROVE  stream'[0 + j] = sent[a + H + (i + n) + (len - n) + j]
      BY DEF Run
    <2>1. len + j \in 1..L /\ 0 + j = j /\ 0 + (len + j) = len + j
          /\ a + H + i + 0 + (len + j) = a + H + (i + n) + (len - n) + j
      BY <1>2, <1>8
    <2>2. stream[0 + (len + j)] = sent[a + H + i + 0 + (len + j)]
      BY <1>10, <2>1 DEF Run
    <2> QED
      BY <1>11, <2>1, <2>2
  <1>18. a + H + i + 0 + L = a + H + (i + n) + (len - n) + (L - len)
    BY <1>2, <1>8, SMTT(30)
  <1>19. Streaming(end, sent)'
    <2>1. Run(sent, reader'.head.array, 0, reader'.head.position, end[Len(delivered')])
      BY <1>1, <1>6, <1>10 DEF a
    <2>2. Run(sent, reader'.body.array, 0, reader'.body.position,
              end[Len(delivered')] + reader'.head.position)
      BY <1>1, <1>2, <1>6, <1>15 DEF a, b2
    <2> QED
      BY <1>3, <1>10, <1>11, <1>12, <1>13, <1>16, <1>17, <1>18, <2>1, <2>2 DEF Streaming
  <1> QED
    BY <1>3, <1>4, <1>14, <1>19 DEF OnLine

LEMMA EndBodyOnLine ==
  ASSUME NEW end, NEW sent, OnLine(end, sent), TypeInv', EndBody
  PROVE  OnLine(end, sent)'
  <1> DEFINE k == Len(delivered)
             p == offered[k + 1]
             a == end[k]
             H == HeaderLength
             L == Len(stream)
             i == reader.body.position
             body == reader.body.array
  <1>1. /\ reader.at = "body" /\ reader' = Idle
        /\ delivered' = Append(delivered, reader.head.array \o body)
        /\ reader.body.limit - i = 0 \/ (stream = <<>> /\ ended)
        /\ UNCHANGED <<offered, queue, writer, stream, ended, remaining>>
    BY DEF EndBody, Deliver, Remaining
  <1>2. WriterInv' /\ Ends(end)' /\ Laid(end, sent)' /\ Written(end)' = Written(end)
    BY <1>1, ReaderFrame
  <1>3. BufferInv /\ Streaming(end, sent)
    BY <1>1 DEF OnLine
  <1>4. /\ k < Len(offered) /\ reader.head.position = H /\ reader.head.array = Header(p)
        /\ reader.body.limit = Size[p] /\ Len(body) = Size[p]
        /\ remaining.limit = Len(remaining.array) /\ remaining.position = Len(remaining.array)
    BY <1>1, <1>3 DEF BufferInv
  <1>5. /\ i \in Nat /\ a \in Nat /\ H \in Nat /\ H >= 1 /\ L \in Nat /\ k \in Nat
        /\ Held \in Nat /\ i <= reader.body.limit /\ Len(offered) \in Nat
    BY Numbers
  <1>6. p \in Packets /\ Size[p] \in Nat /\ k + 1 \in 1..Len(offered)
    <2>1. k + 1 \in 1..Len(offered)
      BY <1>4, <1>5
    <2>2. p \in Packets
      BY <2>1 DEF OnLine, TypeInv
    <2> QED
      BY <2>1, <2>2, ParseFact
  <1>7. ReaderAt(end) = a + H + i
    BY <1>4 DEF ReaderAt
  <1>8. Held = Len(remaining.array) /\ HeldFrom = 0
    BY <1>1 DEF Held, HeldFrom
  <1>9. /\ Run(sent, body, 0, i, a + H) /\ Run(sent, remaining.array, 0, Held, a + H + i)
        /\ Run(sent, stream, 0, L, a + H + i + Held) /\ Written(end) = a + H + i + Held + L
    BY <1>3, <1>4, <1>7, <1>8 DEF Streaming
  <1>10. Written(end) > a
    <2> HIDE DEF a, H, L, i
    <2> QED
      BY <1>5, <1>9
  <1>11. end[k + 1] = a + H + Size[p]
    <2>1. end[k + 1] = a + Total(p)
      BY <1>10, NextPacket
    <2> HIDE DEF a, p
    <2> QED
      BY <1>5, <1>6, <2>1 DEF Total
  <1>12. i = Size[p]
    <2>1. SUFFICES ASSUME i # Size[p] PROVE FALSE
      OBVIOUS
    <2>2. stream = <<>> /\ ended /\ i < Size[p]
      <3> HIDE DEF i, p
      <3> QED
        BY <1>1, <1>4, <1>5, <1>6, <2>1
    <2>3. L = 0 /\ Held = 0
      <3>1. remaining = Null
        BY <1>1, <1>3, <1>4, <2>2 DEF BufferInv
      <3> QED
        BY <1>8, <2>2, <3>1, NullFact
    <2>4. Written(end) = a + H + i
      <3> HIDE DEF a, H, L, i
      <3> QED
        BY <1>5, <1>9, <2>3
    <2>5. /\ k \in 0..Len(offered) /\ k + 1 \in 0..Len(offered) /\ Taken \in 0..Len(offered)
          /\ \A x, y \in 0..Len(offered) : x <= y => end[x] <= end[y]
          /\ Taken \in Nat /\ \A x \in 0..Len(offered) : end[x] \in Nat
      <3>1. Taken \in Nat /\ Taken <= Len(offered) /\ k \in Nat /\ k + 1 \in 1..Len(offered)
        BY <1>6, Numbers
      <3>2. /\ \A x, y \in 0..Len(offered) : x <= y => end[x] <= end[y]
            /\ \A x \in 0..Len(offered) : end[x] \in Nat
        BY DEF OnLine, Ends
      <3>3. k \in 0..Len(offered) /\ k + 1 \in 0..Len(offered) /\ Taken \in 0..Len(offered)
        BY <1>5, <3>1
      <3> QED
        BY <3>1, <3>2, <3>3
    <2>6. ASSUME NEW x \in 0..Len(offered), NEW d \in Nat, d < H, Written(end) = end[x] + d
          PROVE  FALSE
      <3>1. CASE x <= k
        <4>1. end[x] <= a /\ end[x] \in Nat
          BY <2>5, <3>1
        <4> HIDE DEF a, H, i
        <4> QED
          BY <1>5, <2>4, <2>6, <4>1
      <3>2. CASE x > k
        <4>1. k + 1 <= x
          BY <1>5, <3>2
        <4>2. end[k + 1] <= end[x] /\ end[x] \in Nat
          BY <2>5, <4>1
        <4> HIDE DEF a, H, i, p
        <4> QED
          BY <1>5, <1>6, <1>11, <2>2, <2>4, <2>6, <4>2, SMTT(30)
      <3> QED
        BY <1>5, <3>1, <3>2
    <2>7. CASE writer.packet = NoPacket
      <3>1. Written(end) = end[Taken] + 0
        BY <2>5, <2>7 DEF Written
      <3>2. 0 < H
        BY <1>5
      <3> QED
        BY <2>5, <2>6, <3>1, <3>2
    <2>8. CASE writer.packet # NoPacket
      <3>1. writer.index < H /\ writer.index \in Nat /\ Taken - 1 \in 0..Len(offered)
        BY <2>2, <2>8, WrittenFact DEF OnLine, WriterInv
      <3>2. Written(end) = end[Taken - 1] + writer.index
        BY <2>8 DEF Written
      <3> QED
        BY <2>6, <3>1, <3>2
    <2> QED
      BY <2>7, <2>8
  <1>13. reader.head.array \o body = Parse(p)
    <2>1. body \in Seq(Bytes)
      BY DEF OnLine, TypeInv, ReaderOK, Buffers
    <2>2. Run(sent, body, 0, Len(body), a + H)
      BY <1>4, <1>9, <1>12
    <2> HIDE DEF body
    <2> QED
      BY <1>4, <1>10, <2>1, <2>2, WholePacket
  <1>14. Len(delivered') = k + 1 /\ DeliveredInv'
    BY <1>1, <1>6, <1>13, DeliveredOneMore
  <1>15. /\ reader'.at = "idle" /\ reader'.head = Null /\ reader'.body = Null
         /\ reader'.head.position = 0 /\ reader'.body.position = 0
    BY <1>1, NullFact DEF Idle
  <1>16. Held' = Held /\ HeldFrom' = 0
    BY <1>1, <1>8, <1>15 DEF Held, HeldFrom
  <1>17. end[Len(delivered')] = a + H + i
    BY <1>11, <1>12, <1>14
  <1>18. ReaderAt(end)' = a + H + i
    <2>1. ReaderAt(end)' = (a + H + i) + 0 + 0
      BY <1>15, <1>17 DEF ReaderAt
    <2> HIDE DEF a, H, i
    <2> QED
      BY <1>5, <2>1
  <1>19. BufferInv'
    BY <1>1, <1>4, <1>15 DEF BufferInv
  <1>20. Streaming(end, sent)'
    <2>1. Run(sent, reader'.head.array, 0, reader'.head.position, end[Len(delivered')])
      BY <1>15, RunEmpty
    <2>2. Run(sent, reader'.body.array, 0, reader'.body.position,
              end[Len(delivered')] + reader'.head.position)
      BY <1>15, RunEmpty
    <2> HIDE DEF a, H, i
    <2> QED
      BY <1>1, <1>2, <1>9, <1>16, <1>18, <2>1, <2>2 DEF Streaming
  <1> QED
    BY <1>2, <1>14, <1>19, <1>20 DEF OnLine
-----------------------------------------------------------------------------
(* The invariant of every step, and the channel.                             *)

LEMMA InitStream == Init => StreamInv
  <1> SUFFICES ASSUME Init PROVE StreamInv
    OBVIOUS
  <1>1. PICK end : end \in [0..0 -> Nat] /\ end[0] = 0
    <2>1. [n \in 0..0 |-> 0] \in [0..0 -> Nat] /\ [n \in 0..0 |-> 0][0] = 0
      OBVIOUS
    <2> QED
      BY <2>1
  <1>2. /\ Len(offered) = 0 /\ Len(queue) = 0 /\ Len(delivered) = 0 /\ Len(stream) = 0
        /\ writer.packet = NoPacket /\ ended = FALSE /\ reader = Idle /\ remaining = Null
    BY DEF Init
  <1>3. /\ reader.at = "idle" /\ reader.head = Null /\ reader.body = Null
        /\ reader.head.position = 0 /\ reader.body.position = 0
        /\ remaining.position = 0 /\ remaining.limit = 0 /\ Len(remaining.array) = 0
    BY <1>2, NullFact DEF Idle
  <1>4. Taken = 0 /\ Held = 0 /\ HeldFrom = 0 /\ ReaderAt(end) = 0 /\ Written(end) = 0
    BY <1>1, <1>2, <1>3 DEF Taken, Held, HeldFrom, ReaderAt, Written
  <1>5. Ends(end)
    BY <1>1, <1>2 DEF Ends
  <1>6. Laid(end, end)
    BY <1>2 DEF Laid
  <1>7. WriterInv /\ DeliveredInv
    BY <1>2 DEF WriterInv, DeliveredInv
  <1>8. BufferInv
    BY <1>2, <1>3 DEF BufferInv
  <1>9. Streaming(end, end)
    BY <1>2, <1>3, <1>4, RunEmpty DEF Streaming
  <1> QED
    BY <1>5, <1>6, <1>7, <1>8, <1>9, InitTyped DEF StreamInv, OnLine

LEMMA NextStream == ASSUME ~CutsInBody, StreamInv, [Next]_vars PROVE StreamInv'
  <1>1. PICK end, sent : OnLine(end, sent)
    BY DEF StreamInv
  <1>2. TypeInv'
    BY <1>1, NextTyped DEF OnLine
  <1>3. CASE Writes
    BY <1>1, <1>2, <1>3, TakeOnLine, WriteChunkOnLine DEF Writes, StreamInv
  <1>4. CASE Reads
    BY <1>1, <1>2, <1>4, ReadHeadOnLine, ReadHeadByteOnLine, StartBodyOnLine,
       ReadBodyChunkOnLine, EndBodyOnLine DEF Reads, StreamInv
  <1>5. CASE End
    BY <1>1, <1>2, <1>5, EndOnLine DEF StreamInv
  <1>6. ASSUME NEW p \in Packets, Offer(p) PROVE StreamInv'
    BY <1>1, <1>2, <1>6, OfferOnLine
  <1>7. CASE UNCHANGED vars
    <2>1. UNCHANGED <<offered, reader, remaining, delivered>>
      BY <1>7 DEF vars
    <2>2. /\ DeliveredInv' /\ Ends(end)' /\ Laid(end, sent)' /\ (BufferInv => BufferInv')
          /\ ReaderAt(end)' = ReaderAt(end) /\ Held' = Held /\ HeldFrom' = HeldFrom
      BY <1>1, <2>1, WriterFrame
    <2>3. WriterInv' /\ Written(end)' = Written(end)
      BY <1>1, <1>7, ReaderFrame DEF vars
    <2>4. Streaming(end, sent) => Streaming(end, sent)'
      BY <1>7, <2>2, <2>3 DEF Streaming, vars
    <2>5. OnLine(end, sent)'
      BY <1>1, <1>2, <1>7, <2>2, <2>3, <2>4 DEF OnLine, vars
    <2> QED
      BY <2>5 DEF StreamInv
  <1> QED
    BY <1>3, <1>4, <1>5, <1>6, <1>7 DEF Next

\* What a delivery adds.
LEMMA OnlyOneMore ==
  ASSUME StreamInv, [Next]_vars
  PROVE  \/ UNCHANGED delivered
         \/ UNCHANGED offered /\ \E bytes \in Seq(Bytes) : delivered' = Append(delivered, bytes)
  <1>1. TypeInv
    BY DEF StreamInv, OnLine
  <1>2. reader.head.array \in Seq(Bytes) /\ reader.body.array \in Seq(Bytes)
    BY <1>1 DEF TypeInv, ReaderOK, Buffers
  <1>3. CASE StartBody
    <2>1. \/ UNCHANGED delivered
          \/ \E body \in Seq(Bytes) : delivered' = Append(delivered, reader.head.array \o body)
      BY <1>1, <1>3, StartBodyFact
    <2>2. \A body \in Seq(Bytes) : reader.head.array \o body \in Seq(Bytes)
      BY <1>2, JoinFact
    <2> QED
      BY <1>3, <2>1, <2>2 DEF StartBody
  <1>4. CASE EndBody
    BY <1>2, <1>4, JoinFact DEF EndBody, Deliver
  <1>5. CASE UNCHANGED vars
    BY <1>5 DEF vars
  <1> QED
    BY <1>3, <1>4, <1>5 DEF Next, Writes, Reads, Take, WriteChunk, End, Offer, ReadHead,
       ReadHeadByte, ReadBodyChunk

\* The packets delivered, as the channel sees them.
BeginningOfOffered ==
  LET d == [i \in DOMAIN delivered |-> PacketOf(delivered[i])] IN
  /\ Len(delivered) \in Nat /\ Len(delivered) <= Len(offered) /\ offered \in Seq(Packets)
  /\ delivered \in Seq(Seq(Bytes)) /\ Len(offered) \in Nat
  /\ d \in Seq(Packets) /\ Len(d) = Len(delivered)
  /\ \A i \in 1..Len(delivered) : d[i] = offered[i]

LEMMA DeliveredPackets == StreamInv => BeginningOfOffered
  <1> SUFFICES ASSUME StreamInv PROVE BeginningOfOffered
    OBVIOUS
  <1>1. /\ Len(delivered) \in Nat /\ Len(delivered) <= Len(offered) /\ Len(offered) \in Nat
        /\ offered \in Seq(Packets) /\ delivered \in Seq(Seq(Bytes))
        /\ \A i \in 1..Len(delivered) : delivered[i] = Parse(offered[i])
    BY Numbers DEF StreamInv, OnLine, TypeInv, DeliveredInv
  <1>2. DOMAIN delivered = 1..Len(delivered)
    BY <1>1
  <1>3. \A i \in 1..Len(delivered) : offered[i] \in Packets
    BY <1>1
  <1>4. \A i \in 1..Len(delivered) : PacketOf(delivered[i]) = offered[i]
    BY <1>1, <1>3, PacketOfParse
  <1> DEFINE d == [i \in DOMAIN delivered |-> PacketOf(delivered[i])]
  <1>5. d = [i \in 1..Len(delivered) |-> offered[i]]
    BY <1>2, <1>4
  <1> HIDE DEF d
  <1>6. d \in [1..Len(delivered) -> Packets] /\ \A i \in 1..Len(delivered) : d[i] = offered[i]
    BY <1>3, <1>5
  <1>7. d \in Seq(Packets) /\ Len(d) = Len(delivered)
    BY <1>1, <1>6, FunctionIsSeq
  <1> QED
    BY <1>1, <1>6, <1>7 DEF d, BeginningOfOffered

LEMMA AppendFact ==
  ASSUME NEW S, NEW s \in Seq(S), NEW x \in S
  PROVE  /\ Append(s, x) \in Seq(S) /\ Len(Append(s, x)) = Len(s) + 1
         /\ Append(s, x)[Len(s) + 1] = x /\ \A i \in 1..Len(s) : Append(s, x)[i] = s[i]
  OBVIOUS

LEMMA ChannelStep ==
  ASSUME ~CutsInBody, StreamInv, StreamInv', [Next]_vars
  PROVE  [Channel!Next]_Channel!vars
  <1> DEFINE d == [i \in DOMAIN delivered |-> PacketOf(delivered[i])]
             k == Len(delivered)
  <1>1. /\ k \in Nat /\ k <= Len(offered) /\ offered \in Seq(Packets) /\ Len(offered) \in Nat
        /\ d \in Seq(Packets) /\ Len(d) = k /\ delivered \in Seq(Seq(Bytes))
        /\ \A i \in 1..k : d[i] = offered[i]
    BY DeliveredPackets DEF BeginningOfOffered
  <1>2. CASE UNCHANGED delivered
    <2>1. d' = d
      BY <1>2
    <2>2. UNCHANGED offered \/ \E p \in Packets : offered' = Append(offered, p)
      <3>1. CASE Writes
        BY <3>1 DEF Writes, Take, WriteChunk
      <3>2. CASE Reads
        BY <3>2 DEF Reads, ReadHead, ReadHeadByte, StartBody, ReadBodyChunk, EndBody
      <3> QED
        BY <3>1, <3>2 DEF Next, End, Offer, vars
    <2> QED
      BY <2>1, <2>2 DEF Channel!Next, Channel!Offer, Channel!vars
  <1>3. CASE UNCHANGED offered /\ \E bytes \in Seq(Bytes) : delivered' = Append(delivered, bytes)
    <2>1. PICK bytes \in Seq(Bytes) : delivered' = Append(delivered, bytes)
      BY <1>3
    <2>2. Len(delivered') = k + 1
      BY <1>1, <2>1
    <2>3. /\ k + 1 <= Len(offered) /\ d' \in Seq(Packets) /\ Len(d') = k + 1
          /\ \A i \in 1..(k + 1) : d'[i] = offered'[i]
      <3>1. /\ Len(delivered') <= Len(offered')
            /\ d' \in Seq(Packets) /\ Len(d') = Len(delivered')
            /\ \A i \in 1..Len(delivered') : d'[i] = offered'[i]
        <4>1. BeginningOfOffered'
          BY DeliveredPackets, PTL
        <4> QED
          BY <4>1 DEF BeginningOfOffered
      <3> QED
        BY <1>3, <2>2, <3>1
    <2> HIDE DEF d, k
    <2>4. k + 1 \in 1..Len(offered) /\ k < Len(offered)
      BY <1>1, <2>3
    <2>5. offered[k + 1] \in Packets
      BY <1>1, <2>4
    <2> DEFINE e == Append(d, offered[k + 1])
    <2>6. e \in Seq(Packets) /\ Len(e) = k + 1 /\ e[k + 1] = offered[k + 1]
          /\ \A i \in 1..k : e[i] = d[i]
      <3>1. d \in Seq(Packets) /\ Len(d) = k
        BY <1>1
      <3>2. e \in Seq(Packets) /\ Len(e) = Len(d) + 1
        BY <2>5, <3>1, AppendFact
      <3>3. e[Len(d) + 1] = offered[k + 1]
        BY <2>5, <3>1, AppendFact
      <3>4. \A i \in 1..Len(d) : e[i] = d[i]
        BY <2>5, <3>1, AppendFact
      <3> QED
        BY <3>1, <3>2, <3>3, <3>4
    <2>7. \A i \in 1..(k + 1) : d'[i] = e[i]
      <3> TAKE i \in 1..(k + 1)
      <3>1. i = k + 1 \/ i \in 1..k
        BY <1>1
      <3>2. d'[i] = offered[i]
        BY <1>3, <2>3
      <3> HIDE DEF e
      <3> QED
        BY <1>1, <2>6, <3>1, <3>2
    <2> HIDE DEF e
    <2>8. d' = e
      BY <1>1, <2>3, <2>6, <2>7, SameSeq
    <2> QED
      BY <1>1, <1>3, <2>4, <2>8 DEF Channel!Next, Channel!Deliver, d, e
  <1> QED
    BY <1>2, <1>3, OnlyOneMore

\* Whatever the sizes of packets and chunks, the packets that the reader delivers are
\* those offered, whole, each once and in order, provided that the stream does not end
\* inside a body.
THEOREM StreamIsChannel == ~CutsInBody => (Spec => InOrder)
  <1> SUFFICES ASSUME ~CutsInBody PROVE Spec => InOrder
    OBVIOUS
  <1>1. Init => Channel!Init
    BY DEF Init, Channel!Init
  <1>2. StreamInv /\ [Next]_vars => StreamInv'
    BY NextStream
  <1>3. StreamInv /\ StreamInv' /\ [Next]_vars => [Channel!Next]_Channel!vars
    BY ChannelStep
  <1> QED
    BY <1>1, <1>2, <1>3, InitStream, PTL DEF Spec, InOrder, Channel!Spec
===============================================================================
