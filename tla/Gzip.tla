------------------------------- MODULE Gzip -------------------------------
(***************************************************************************)
(* ZlibDll.cpp: CompressGZ of the sender and GetGZHead and UnCompressGZ of  *)
(* the receiver, over a model of zlib in which one code stands for one or  *)
(* two bytes of the text.  Files are sequences of bytes.                   *)
(***************************************************************************)
EXTENDS Integers, Sequences, SequencesExt

CONSTANTS
  Z_BUFSIZE,  \* what is given to, or taken from, zlib at a time
  GzMinimum   \* CompressGZ refuses shorter texts

ASSUME GzipAssumption == Z_BUFSIZE \in Nat \ {0} /\ GzMinimum \in Nat

VARIABLES
  zip,   \* CompressGZ: pc, source, z_stream, crc, done and err of its loops, the file it wrote
  gz     \* UnCompressGZ: pc, gz_stream with its z_stream, the text written, the value
         \* returned, and how often its loop has turned

gzipVars == <<zip, gz>>

Least(a, b) == IF a < b THEN a ELSE b
HasBit(flags, bit) == (flags \div bit) % 2 = 1
EOF == -1
-----------------------------------------------------------------------------
(* zlib, as CompressGZ and UnCompressGZ use it.                            *)

StartOfBlock == 254
EndOfBlock == 255

\* What a code adds to the text, and whether it is one
TextOf(code) ==
  IF code < 100 THEN <<code>> ELSE IF code < 200 THEN <<code - 100, code - 100>> ELSE <<>>
IsCode(code) == code < 200 \/ code = StartOfBlock

\* deflate's output for a whole text: a byte at an odd place and its equal after it are one code
CodesOf(text) ==
  LET half == (Len(text) + 1) \div 2
      codes == [i \in 1..half |->
                  IF 2 * i <= Len(text) /\ text[2 * i - 1] = text[2 * i]
                  THEN <<text[2 * i] + 100>>
                  ELSE SubSeq(text, 2 * i - 1, Least(2 * i, Len(text)))]
  IN <<StartOfBlock>> \o FlattenSeq(codes) \o <<EndOfBlock>>

\* Any function of the text that tells a text from its neighbours
Crc32(text) ==
  IF text = <<>> THEN 0 ELSE (Len(text) * 257 + 5 * text[1] + 31 * text[Len(text)]) % 61441

\* deflate(): consumes input and emits codes until one side is exhausted; before Z_FINISH it
\* keeps back what it likes.  At the end it reports the end of the stream, or leaves that to the
\* next call when the output is full.
Deflate(z, finish, room) ==
  LET all == Len(CodesOf(z.source))
      most == Least(all, z.total_out + room)
      before == Len(z.source) - z.avail_in
  IN IF finish
     THEN {r \in [taken : {Len(z.source)}, total_out : {most}, err : {"OK", "STREAM_END"}] :
             most = IF r.err = "OK" THEN z.total_out + room ELSE all}
     ELSE {r \in [taken : before..Len(z.source), total_out : z.total_out..most, err : {"OK"}] :
             /\ r.total_out <= r.taken
             /\ r.taken < Len(z.source) => r.total_out = z.total_out + room}

\* inflate() on the codes a, up to the first that is none; there is room, dwRawSize being the
\* size of the text.
Inflate(a) ==
  LET bad == {i \in 1..Len(a) : ~IsCode(a[i])}
      taken == IF bad = {} THEN Len(a) ELSE CHOOSE i \in bad : \A j \in bad : i <= j
  IN [taken |-> taken, given |-> FlattenSeq([i \in 1..taken |-> TextOf(a[i])]),
      err |-> IF bad # {} THEN IF a[taken] = EndOfBlock THEN "STREAM_END" ELSE "DATA_ERROR"
              ELSE IF a = <<>> THEN "BUF_ERROR" ELSE "OK"]
-----------------------------------------------------------------------------
(* CompressGZ                                                              *)

\* putlong
Putlong(x) == <<x % 256, (x \div 256) % 256, (x \div 65536) % 256, x \div 16777216>>

GzHead(flags) == <<31, 139, 8, flags, 0, 0, 0, 0, 0, 11>>

NoZip == [pc |-> "idle", source |-> <<>>, avail_in |-> 0, avail_out |-> 0, total_out |-> 0,
          done |-> FALSE, err |-> "OK", file |-> <<>>]

\* The call, up to the first loop
CompressGZ(src) ==
  /\ zip.pc \in {"idle", "returned"}
  /\ zip' = IF Len(src) < GzMinimum
            THEN [NoZip EXCEPT !.pc = "returned", !.source = src, !.err = "ERRNO"]
            ELSE [NoZip EXCEPT !.pc = IF src = <<>> THEN "finish" ELSE "deflate",
                               !.source = src, !.avail_in = Len(src), !.avail_out = Z_BUFSIZE]

\* while (s.avail_in != 0)
DeflateTurn ==
  LET room == IF zip.avail_out = 0 THEN Z_BUFSIZE ELSE zip.avail_out IN
  /\ zip.pc = "deflate"
  /\ \E r \in Deflate(zip, FALSE, room) :
       zip' = [zip EXCEPT
         !.pc = IF r.taken = Len(zip.source) THEN "finish" ELSE @,
         !.avail_in = Len(zip.source) - r.taken,
         !.avail_out = room - (r.total_out - zip.total_out),
         !.total_out = r.total_out]
  /\ UNCHANGED gz

\* for (;;) around deflate(Z_FINISH)
FinishTurn ==
  LET room == IF zip.avail_out # Z_BUFSIZE THEN Z_BUFSIZE ELSE zip.avail_out IN
  /\ zip.pc = "finish"
  /\ \/ /\ zip.done
        /\ zip' = [zip EXCEPT !.pc = "trailer", !.avail_out = room]
     \/ /\ ~zip.done
        /\ \E r \in Deflate(zip, TRUE, room) :
             LET left == room - (r.total_out - zip.total_out) IN
             zip' = [zip EXCEPT !.avail_out = left, !.total_out = r.total_out, !.err = r.err,
                                !.done = left # 0 \/ r.err = "STREAM_END"]
  /\ UNCHANGED gz

\* The trailer, and the value returned; the stream is gone.
CompressReturn ==
  /\ zip.pc = "trailer"
  /\ zip' = [NoZip EXCEPT !.pc = "returned", !.source = zip.source, !.err = zip.err,
       !.file = IF zip.err = "STREAM_END"
                THEN GzHead(0) \o SubSeq(CodesOf(zip.source), 1, zip.total_out)
                     \o Putlong(Crc32(zip.source)) \o Putlong(Len(zip.source))
                ELSE <<>>]
  /\ UNCHANGED gz
-----------------------------------------------------------------------------
(* UnCompressGZ                                                            *)

\* A C string of the file: the bytes from offset from up to the next zero, and the zero
StringLength(file, from) ==
  LET ends == {i \in from..(Len(file) - 1) : file[i + 1] = 0}
  IN IF ends = {} THEN Len(file) - from ELSE (CHOOSE i \in ends : \A j \in ends : i <= j) - from + 1

\* *(int *) of four bytes
SignedInt(b) ==
  b[1] + 256 * b[2] + 65536 * b[3] + 16777216 * (b[4] % 128)
  - (IF b[4] < 128 THEN 0 ELSE 2147483647) - (IF b[4] < 128 THEN 0 ELSE 1)

\* GetGZHead: bit 0 stands for the extra field here, which is bit 2 in check_header.
GetGZHead(file) ==
  LET size == Len(file)
      flags == file[4]
      s0 == IF HasBit(flags, 1) THEN 10 + file[11] + 2 ELSE 10
      s1 == IF HasBit(flags, 8) THEN s0 + StringLength(file, s0) ELSE s0
      s2 == IF HasBit(flags, 16) THEN s1 + StringLength(file, s1) ELSE s1
      skip == IF HasBit(flags, 2) THEN s2 + 2 ELSE s2
  IN IF size <= 10 \/ file[1] # 31 \/ file[2] # 139 \/ size <= skip + 8 THEN [ok |-> FALSE]
     ELSE [ok |-> TRUE, destlen |-> SignedInt(SubSeq(file, size - 3, size)),
           srclen |-> size - skip - 8, start |-> skip]

NoGz == [pc |-> "idle", file |-> <<>>, start |-> 0, gzlen |-> 0, next_in |-> 0, avail_in |-> 0,
         total_in |-> 0, avail_out |-> 0, text |-> <<>>, from |-> 0, turns |-> 0,
         z_err |-> "OK", z_eof |-> FALSE, transparent |-> FALSE, ret |-> "OK"]

\* Mutant of Refill: the last window is as long as the others.
RefillWhole(s) == IF s.gzlen = s.total_in THEN 0 ELSE Z_BUFSIZE

\* How much more of the compressed data is given at a time
Refill(s) == Least(s.gzlen - s.total_in, Z_BUFSIZE)

\* The call, up to the loop; next_in is counted from the start of the compressed data.
UnCompressGZ(file, destlen) ==
  LET head == GetGZHead(file) IN
  /\ gz.pc \in {"idle", "returned"}
  /\ gz' = IF Len(file) <= 0 \/ destlen <= 0 \/ ~head.ok \/ head.destlen > destlen
           THEN [NoGz EXCEPT !.pc = "returned", !.ret = "ERRNO"]
           ELSE [NoGz EXCEPT !.pc = "inflate", !.file = file, !.start = head.start,
                             !.gzlen = head.srclen, !.avail_in = Least(head.srclen, Z_BUFSIZE),
                             !.avail_out = destlen]
  /\ UNCHANGED zip

\* n bytes of the compressed data; past the end of the file there are none.
NoByte == 256
BytesAt(s, from, n) ==
  SubSeq(s.file \o [i \in 1..Z_BUFSIZE |-> NoByte], s.start + from + 1, s.start + from + n)

\* get_byte, k times: the last byte it gives, and the stream after it.  A new window starts at
\* inbuf again, and total_in does not count the bytes taken here.
ByteAt(s, k) ==
  IF s.z_eof THEN EOF
  ELSE IF k <= s.avail_in THEN BytesAt(s, s.next_in + k - 1, 1)[1]
  ELSE IF Refill(s) = 0 THEN EOF
  ELSE BytesAt(s, (k - s.avail_in - 1) % Refill(s), 1)[1]

Skip(s, k) ==
  LET used == ((k - s.avail_in - 1) % Refill(s)) + 1 IN
  IF s.z_eof THEN s
  ELSE IF k <= s.avail_in THEN [s EXCEPT !.avail_in = @ - k, !.next_in = @ + k]
  ELSE IF Refill(s) = 0
       THEN [s EXCEPT !.avail_in = 0, !.next_in = @ + s.avail_in, !.z_eof = TRUE]
  ELSE [s EXCEPT !.avail_in = Refill(s) - used, !.next_in = used]

Unget(s, k) == [s EXCEPT !.avail_in = @ + k, !.next_in = @ - k]

\* getLong: its four bytes in place of their sum
LongAt(s) == <<ByteAt(s, 1), ByteAt(s, 2), ByteAt(s, 3), ByteAt(s, 4)>>
GetLong(s) ==
  IF ByteAt(s, 4) = EOF THEN [Skip(s, 4) EXCEPT !.z_err = "DATA_ERROR"] ELSE Skip(s, 4)

\* The byte that ends a string which begins after byte k
StringEnd(s, k) ==
  LET ends == {i \in (k + 1)..(k + s.avail_in + Refill(s) + 1) : ByteAt(s, i) \in {0, EOF}}
  IN CHOOSE i \in ends : \A j \in ends : i <= j

\* check_header
CheckHeader(s) ==
  LET flags == ByteAt(s, 4)
      noMagic(n) ==
        LET t == Unget(Skip(s, n), IF ByteAt(s, n) = EOF THEN n - 1 ELSE n)
        IN [t EXCEPT !.transparent = @ \/ ByteAt(s, n) # EOF,
                     !.z_err = IF t.avail_in # 0 THEN "OK" ELSE "STREAM_END"]
      extra == IF ByteAt(s, 12) = EOF THEN 0 ELSE ByteAt(s, 11) + 256 * ByteAt(s, 12)
      k1 == IF HasBit(flags, 4) THEN 12 + extra ELSE 10
      k2 == IF HasBit(flags, 8) THEN StringEnd(s, k1) ELSE k1
      k3 == IF HasBit(flags, 16) THEN StringEnd(s, k2) ELSE k2
      k4 == IF HasBit(flags, 2) THEN k3 + 2 ELSE k3
  IN IF ByteAt(s, 1) # 31 THEN noMagic(1)
     ELSE IF ByteAt(s, 2) # 139 THEN noMagic(2)
     ELSE IF ByteAt(s, 3) # 8 \/ flags \notin 0..31 THEN [Skip(s, 4) EXCEPT !.z_err = "DATA_ERROR"]
     ELSE [Skip(s, k4) EXCEPT !.z_err = IF Skip(s, k4).z_eof THEN "DATA_ERROR" ELSE "OK"]

\* After the end of a member: its checksum, its size, the header of the next one
EndOfMember(s) ==
  LET good == LongAt(s) = Putlong(Crc32(SubSeq(s.text, s.from + 1, Len(s.text))))
      t == IF good THEN CheckHeader(GetLong(GetLong(s)))
           ELSE [GetLong(s) EXCEPT !.z_err = "DATA_ERROR"]
  IN [t EXCEPT !.from = Len(s.text)]

\* The turn from s on, which Ends tells to leave the loop: inflate() and what follows it
Inflated(s, Ends(_)) ==
  LET r == Inflate(BytesAt(s, s.next_in, s.avail_in))
      t == [s EXCEPT !.next_in = @ + r.taken, !.avail_in = @ - r.taken,
                     !.total_in = @ + r.taken, !.avail_out = @ - Len(r.given),
                     !.text = @ \o r.given, !.z_err = r.err, !.turns = @ + 1]
      after == IF r.err = "STREAM_END" THEN EndOfMember(t) ELSE t
  IN [after EXCEPT !.pc = IF Ends(after) THEN "end" ELSE @]

Window(from) ==
  IF gz.avail_in = 0 /\ ~gz.z_eof
  THEN [gz EXCEPT !.avail_in = Refill(gz), !.next_in = from, !.z_eof = Refill(gz) = 0]
  ELSE gz

LeavesLoop(s) == s.z_err # "OK" \/ s.z_eof

\* Mutant of InflateTurn: the next window starts where the last one did.
InflateTurnRereads ==
  /\ gz.pc = "inflate" /\ gz.avail_out # 0 /\ ~gz.transparent
  /\ gz' = Inflated(Window(0), LeavesLoop)
  /\ UNCHANGED zip

\* One turn of while (s.avail_out != 0) that calls inflate()
InflateTurn ==
  /\ gz.pc = "inflate" /\ gz.avail_out # 0 /\ ~gz.transparent
  /\ gz' = Inflated(Window(gz.total_in), LeavesLoop)
  /\ UNCHANGED zip

\* The rest is not compressed: it is copied, and when it is too short the buffer is filled with the
\* start of the compressed data. What was copied moves the output to as many bytes after the start
\* of the buffer, not of what was free, so the second copy then goes over the text.
CopyTurn ==
  LET n == Least(gz.avail_in, gz.avail_out)
      left == gz.avail_out - n
      copied == gz.text \o BytesAt(gz, gz.next_in, n)
      out == IF n > 0 THEN n ELSE Len(gz.text)
      filled == IF left = 0 THEN copied
                ELSE SubSeq(copied, 1, out) \o BytesAt(gz, 0, left)
                     \o SubSeq(copied, out + left + 1, Len(copied))
  IN /\ gz.pc = "inflate" /\ gz.avail_out # 0 /\ gz.transparent
     /\ gz' = [gz EXCEPT !.text = filled, !.next_in = @ + n, !.avail_in = @ - n, !.avail_out = 0,
                         !.pc = "returned", !.ret = "OK"]
     /\ UNCHANGED zip

UnCompressReturn ==
  /\ gz.pc = "end" \/ (gz.pc = "inflate" /\ gz.avail_out = 0)
  /\ gz' = [NoGz EXCEPT !.pc = "returned", !.text = gz.text, !.z_err = gz.z_err,
                         !.ret = IF gz.avail_in = 0 THEN "OK" ELSE "ERRNO"]
  /\ UNCHANGED zip

GzipInit == zip = NoZip /\ gz = NoGz
CompressStep == DeflateTurn \/ FinishTurn \/ CompressReturn
UnCompressStep == InflateTurn \/ CopyTurn \/ UnCompressReturn
-----------------------------------------------------------------------------
\* The window of UnCompressGZ stays inside the compressed data of the file, although get_byte and
\* the loop count what they have taken differently.
ReadsInsideFile ==
  gz.pc \in {"inflate", "end"} =>
    /\ gz.avail_in >= 0 /\ gz.next_in >= 0
    /\ gz.next_in + gz.avail_in <= gz.gzlen
    /\ gz.total_in + gz.avail_in <= gz.gzlen

\* The loop of UnCompressGZ ends: it turns once a window, and once more for what follows.
LoopEnds == gz.turns <= (gz.gzlen \div Z_BUFSIZE) + 2
=============================================================================
