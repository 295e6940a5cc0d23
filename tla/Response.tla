----------------------------- MODULE Response -----------------------------
(***************************************************************************)
(* The life of a reply: the server compresses and encrypts it under the    *)
(* key agreed on for the connection, the client takes the key from the     *)
(* exchange and AbsResponse takes the reply back.  The callbacks of a      *)
(* connection reach the main thread in order and before those of the next  *)
(* one, so a connection is made when inbox is empty.                       *)
(***************************************************************************)
EXTENDS Cbc, Gzip, KeyExchange

CONSTANTS
  Replies,        \* texts the server answers with
  Archives,       \* how it may compress them: subset of ArchiveKinds
  ServerPrivates, \* private halves of the server
  MaxConnections  \* bound on connections

ArchiveKinds == {"none", "CompressGZ", "described", "members", "padded"}
ASSUME ResponseAssumption ==
  /\ Archives \subseteq ArchiveKinds /\ ServerPrivates \subseteq Nat /\ MaxConnections \in Nat
\* The texts of the model of zlib; their archives fit the buffers of the cipher.
ASSUME ReplyAssumption == \A text \in Replies :
  text \in Seq(0..99) /\ Len(text) <= 2147483647 /\ Len(text) + 47 <= 16 * MaxRows
ASSUME DigestAssumption == NoKey \in Keys /\ \A k \in 0..(Modulus - 1) : Md5(k) \in Keys

VARIABLES
  phase,    \* "down", "up", "compress", "encrypt", "posted", "decrypt", "decrypted", "unpress", "done"
  n,        \* number of the connection
  skey,     \* key of the server for it
  inbox,    \* public half of the server, posted and not handled
  head,     \* of the answer: text, kind of archive, btCompressFlag, bEncrypt, dwRawSize
  wire,     \* what is encrypted, or sent as it is
  response  \* AbsResponse.body

serverVars == <<n, skey>>
responseVars == <<phase, inbox, head, wire, response>>
vars == <<cbcVars, gzipVars, mx, aesKey, serverVars, responseVars>>
-----------------------------------------------------------------------------
NoHead == [text |-> <<>>, kind |-> "none", btCompressFlag |-> 0, bEncrypt |-> 0, dwRawSize |-> 0]

Init ==
  /\ CbcInit /\ ekey = NoKey /\ GzipInit /\ mx = {} /\ aesKey = NoKey
  /\ phase = "down" /\ n = 0 /\ skey = NoKey /\ inbox = {}
  /\ head = NoHead /\ wire = <<>> /\ response = <<>>

\* Row r holds bytes 16 * r + 1 on of the sequence
RowsOf(bytes) ==
  [r \in Rows |-> [c \in Columns |-> IF 16 * r + c < Len(bytes) THEN bytes[16 * r + c + 1] ELSE 0]]
BytesOf(rows, count) == [i \in 1..count |-> rows[(i - 1) \div 16][(i - 1) % 16]]

\* A gzip file, whoever writes it: a name, a comment and a header checksum are optional.
Member(text, described) ==
  (IF described THEN GzHead(26) \o <<97, 0>> \o <<98, 99, 0>> \o <<0, 7>> ELSE GzHead(0))
  \o CodesOf(text) \o Putlong(Crc32(text)) \o Putlong(Len(text))

Archive(text, kind) ==
  LET half == (Len(text) + 1) \div 2 IN
  CASE kind = "described" -> Member(text, TRUE)
    [] kind = "members" -> Member(SubSeq(text, 1, half), FALSE)
                           \o Member(SubSeq(text, half + 1, Len(text)), TRUE)
    [] kind = "padded" -> Member(text, FALSE) \o [i \in 1..12 |-> 0]
    [] OTHER -> text
-----------------------------------------------------------------------------
(* Connection and server.                                                  *)

CbcReset ==
  /\ cpc' = "idle" /\ plain' = Zeros /\ size' = 0 /\ cipher' = Zeros /\ body' = Zeros
  /\ ekey' = NoKey /\ dkey' = NoKey /\ row' = 0 /\ len' = 0 /\ ivec' = InitialVector

\* A connection: onSocketConnectionSuccess sends a new public half, and the server answers.
Connect ==
  /\ phase \in {"down", "up", "done"} /\ inbox = {} /\ n < MaxConnections
  /\ \E x \in Privates, y \in ServerPrivates :
       /\ genPublicKey(x)
       /\ skey' = Md5(CBN_CalcKey(CBN_CreateLocalKey(x), y))
       /\ inbox' = {CBN_CreateLocalKey(y)}
  /\ n' = n + 1 /\ phase' = "up" /\ response' = <<>> /\ wire' = <<>> /\ head' = NoHead
  /\ CbcReset /\ zip' = NoZip /\ gz' = NoGz

\* The server answers a request: with a gzip file of CompressGZ or of another program, or plainly.
Reply ==
  /\ phase \in {"up", "done"}
  /\ \E text \in Replies, kind \in Archives, encrypt \in {0, 1} :
       /\ head' = [text |-> text, kind |-> kind, bEncrypt |-> encrypt,
                   dwRawSize |-> Len(text) + (IF kind = "padded" THEN 4 ELSE 0),
                   btCompressFlag |-> IF kind = "none" THEN 0 ELSE 2]
       /\ gz' = NoGz
       /\ \/ kind = "CompressGZ" /\ CompressGZ(text) /\ wire' = <<>> /\ phase' = "compress"
          \/ /\ kind # "CompressGZ"
             /\ wire' = Archive(text, kind) /\ phase' = "encrypt" /\ zip' = NoZip
  /\ CbcReset /\ response' = <<>>
  /\ UNCHANGED <<mx, aesKey, serverVars, inbox>>

Compress ==
  /\ phase = "compress" /\ zip.pc # "returned"
  /\ CompressStep
  /\ UNCHANGED <<cbcVars, mx, aesKey, serverVars, responseVars>>

\* A text that CompressGZ refuses is sent as it is.
Compressed ==
  /\ phase = "compress" /\ zip.pc = "returned"
  /\ phase' = "encrypt"
  /\ \/ zip.err # "ERRNO" /\ wire' = zip.file /\ UNCHANGED head
     \/ zip.err = "ERRNO" /\ wire' = zip.source /\ head' = [head EXCEPT !.btCompressFlag = 0]
  /\ UNCHANGED <<cbcVars, gzipVars, mx, aesKey, serverVars, inbox, response>>

Encrypt ==
  /\ phase = "encrypt" /\ head.bEncrypt = 1
  /\ CallEncrypt(RowsOf(wire), Len(wire), skey) \/ EncryptBlock
  /\ UNCHANGED <<gzipVars, mx, aesKey, serverVars, responseVars>>

Post ==
  /\ phase = "encrypt" /\ (head.bEncrypt = 1 => cpc = "encrypted")
  /\ phase' = "posted"
  /\ UNCHANGED <<cbcVars, gzipVars, mx, aesKey, serverVars, inbox, head, wire, response>>
-----------------------------------------------------------------------------
(* Main thread of the client.                                              *)

\* The answer to the exchange comes before the replies of its connection.
OnExchange ==
  /\ \E gy \in inbox : genMD5(gy)
  /\ inbox' = {}
  /\ UNCHANGED <<cbcVars, gzipVars, serverVars, phase, head, wire, response>>

\* AbsResponse(head, originBody, aesKey): decrypt() if bEncrypt, then unPress() if compressed
Handle ==
  /\ phase = "posted" /\ inbox = {}
  /\ \/ head.bEncrypt = 1 /\ CallDecrypt(aesKey) /\ phase' = "decrypt"
     \/ head.bEncrypt = 0 /\ UNCHANGED cbcVars /\ phase' = "decrypted"
  /\ UNCHANGED <<gzipVars, mx, aesKey, serverVars, inbox, head, wire, response>>

Decrypt ==
  /\ phase = "decrypt"
  /\ \/ DecryptBlock /\ UNCHANGED phase
     \/ cpc = "decrypted" /\ phase' = "decrypted" /\ UNCHANGED cbcVars
  /\ UNCHANGED <<gzipVars, mx, aesKey, serverVars, inbox, head, wire, response>>

encryptBody == IF head.bEncrypt = 1 THEN BytesOf(body, size) ELSE wire

Unpress ==
  /\ phase = "decrypted"
  /\ \/ /\ head.btCompressFlag = 2
        /\ UnCompressGZ(encryptBody, head.dwRawSize)
        /\ phase' = "unpress"
        /\ UNCHANGED response
     \/ /\ head.btCompressFlag # 2
        /\ response' = encryptBody
        /\ phase' = "done"
        /\ UNCHANGED gzipVars
  /\ UNCHANGED <<cbcVars, mx, aesKey, serverVars, inbox, head, wire>>

UnCompress ==
  /\ phase = "unpress" /\ gz.pc # "returned"
  /\ UnCompressStep
  /\ UNCHANGED <<cbcVars, mx, aesKey, serverVars, responseVars>>

\* unPress(): a zeroed buffer of dwRawSize bytes, or an empty array when UnCompressGZ fails
UnpressReturn ==
  /\ phase = "unpress" /\ gz.pc = "returned"
  /\ response' = IF gz.ret = "OK"
                 THEN gz.text \o [i \in 1..(head.dwRawSize - Len(gz.text)) |-> 0] ELSE <<>>
  /\ phase' = "done"
  /\ UNCHANGED <<cbcVars, gzipVars, mx, aesKey, serverVars, inbox, head, wire>>

ServerNext == Compress \/ Compressed \/ Encrypt \/ Post
ClientNext == OnExchange \/ Handle \/ Decrypt \/ Unpress \/ UnCompress \/ UnpressReturn
Next == Connect \/ Reply \/ ServerNext \/ ClientNext

Spec == Init /\ [][Next]_vars
-----------------------------------------------------------------------------
\* Once the answer to the exchange of a connection is handled both ends have the same key,
\* although the private half is a static variable that every connection replaces.
SameKey == phase # "down" /\ inbox = {} => aesKey = skey

\* A reply arrives byte for byte, under the key agreed on for its connection: compressed by
\* CompressGZ or by a program that describes the file in its header, or not at all, encrypted or
\* not, whatever its length and the windows of zlib.
BodyIsReply ==
  phase = "done" /\ head.kind \in {"none", "CompressGZ", "described"} => response = head.text

\* UnCompressGZ is bounded by its file, in what it reads and in how long it reads, unless the file
\* has members after the first.
BoundedByFile == head.kind # "members" => ReadsInsideFile /\ LoopEnds

\* The check of a member that is intact finds no error.
IntactPassesCheck ==
  phase = "done" /\ head.kind = "CompressGZ" /\ head.btCompressFlag = 2 =>
    gz.z_err # "DATA_ERROR"
=============================================================================
