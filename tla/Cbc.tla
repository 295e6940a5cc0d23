------------------------------- MODULE Cbc -------------------------------
(***************************************************************************)
(* AES_cbc128_encrypt of one end, AES_cbc128_decrypt of the other, which   *)
(* works in place.  Memory is a function from row to the sixteen bytes of  *)
(* the row: the pointers of both functions only move by sixteen.  The      *)
(* block cipher is a parameter.                                            *)
(***************************************************************************)
EXTENDS Integers

CONSTANTS
  MaxRows,        \* rows of each buffer
  Keys,           \* user keys
  ByteXor(_, _),  \* the ^ of two bytes
  Encipher(_, _), \* AES_encrypt of a block under the schedule of a key
  Decipher(_, _)  \* AES_decrypt of a block under the decryption schedule of a key

Byte == 0..255
Rows == 0..(MaxRows - 1)
Columns == 0..15
Block == [Columns -> Byte]
Memory == [Rows -> Block]

ASSUME CbcAssumption == MaxRows \in Nat
ASSUME XorAssumption ==
  \A a, b \in Byte : ByteXor(a, b) \in Byte /\ ByteXor(ByteXor(a, b), b) = a

VARIABLES
  cpc,            \* "idle", "encrypt", "encrypted", "decrypt", "decrypted"
  plain, size,    \* what is encrypted: rows, and the number of its bytes
  cipher,         \* out of the encryption
  body,           \* in and out of the decryption
  ekey, dkey,     \* user key of each end
  row, len, ivec  \* row in and out point at, len and ivec of the function at work

cbcVars == <<cpc, plain, size, cipher, body, ekey, dkey, row, len, ivec>>
-----------------------------------------------------------------------------
Zeros == [r \in Rows |-> [n \in Columns |-> 0]]
InitialVector == [n \in Columns |-> 204]

CbcInit ==
  /\ cpc = "idle" /\ plain = Zeros /\ size = 0 /\ cipher = Zeros /\ body = Zeros
  /\ ekey \in Keys /\ dkey = ekey
  /\ row = 0 /\ len = 0 /\ ivec = InitialVector

\* The call of AES_cbc128_encrypt on n bytes of p
CallEncrypt(p, n, key) ==
  /\ cpc = "idle"
  /\ plain' = p /\ size' = n /\ ekey' = key
  /\ cipher' = Zeros /\ row' = 0 /\ len' = n /\ ivec' = InitialVector
  /\ cpc' = IF n = 0 THEN "encrypted" ELSE "encrypt"
  /\ UNCHANGED <<body, dkey>>

\* Mutant of EncryptBlock: the loop turns once more after a last block that is full.
EncryptPastFull ==
  LET mixed == [n \in Columns |-> IF n < len THEN ByteXor(plain[row][n], ivec[n]) ELSE ivec[n]]
      out == Encipher(ekey, mixed)
  IN /\ cpc = "encrypt"
     /\ cipher' = [cipher EXCEPT ![row] = out]
     /\ ivec' = out
     /\ \/ len < 16 /\ cpc' = "encrypted" /\ UNCHANGED <<row, len>>
        \/ len >= 16 /\ row' = row + 1 /\ len' = len - 16 /\ UNCHANGED cpc
     /\ UNCHANGED <<plain, size, body, ekey, dkey>>

\* One turn of while (len); memcpy(ivec, iv) is what leaves the last block in ivec.
EncryptBlock ==
  LET mixed == [n \in Columns |-> IF n < len THEN ByteXor(plain[row][n], ivec[n]) ELSE ivec[n]]
      out == Encipher(ekey, mixed)
  IN /\ cpc = "encrypt"
     /\ cipher' = [cipher EXCEPT ![row] = out]
     /\ ivec' = out
     /\ \/ /\ len <= 16
           /\ cpc' = "encrypted"
           /\ UNCHANGED <<row, len>>
        \/ /\ len > 16
           /\ row' = row + 1 /\ len' = len - 16
           /\ UNCHANGED cpc
     /\ UNCHANGED <<plain, size, body, ekey, dkey>>

\* decrypt(key, dwEncRawSize, body): AES_cbc128_decrypt with in = out
CallDecrypt(key) ==
  /\ cpc = "encrypted"
  /\ body' = cipher /\ dkey' = key
  /\ row' = 0 /\ len' = size /\ ivec' = InitialVector
  /\ cpc' = IF size = 0 THEN "decrypted" ELSE "decrypt"
  /\ UNCHANGED <<plain, size, cipher, ekey>>

\* Mutant of DecryptBlock: the next block is chained to what was written over this one.
DecryptChainsOutput ==
  LET tmp == Decipher(dkey, body[row])
      out == [n \in Columns |-> IF n < len THEN ByteXor(tmp[n], ivec[n]) ELSE body[row][n]]
  IN /\ cpc = "decrypt"
     /\ body' = [body EXCEPT ![row] = out]
     /\ ivec' = out
     /\ \/ len <= 16 /\ cpc' = "decrypted" /\ UNCHANGED <<row, len>>
        \/ len > 16 /\ row' = row + 1 /\ len' = len - 16 /\ UNCHANGED cpc
     /\ UNCHANGED <<plain, size, cipher, ekey, dkey>>

\* One turn of while (len): a byte of in is read before the one of out that overwrites it.
DecryptBlock ==
  LET tmp == Decipher(dkey, body[row])
  IN /\ cpc = "decrypt"
     /\ body' = [body EXCEPT ![row] =
                   [n \in Columns |-> IF n < len THEN ByteXor(tmp[n], ivec[n]) ELSE @[n]]]
     /\ ivec' = body[row]
     /\ \/ /\ len <= 16
           /\ cpc' = "decrypted"
           /\ UNCHANGED <<row, len>>
        \/ /\ len > 16
           /\ row' = row + 1 /\ len' = len - 16
           /\ UNCHANGED cpc
     /\ UNCHANGED <<plain, size, cipher, ekey, dkey>>

CbcNext ==
  \/ \E p \in Memory, n \in 0..(16 * MaxRows), key \in Keys : CallEncrypt(p, n, key)
  \/ EncryptBlock
  \/ \E key \in Keys : CallDecrypt(key)
  \/ DecryptBlock

CbcSpec == CbcInit /\ [][CbcNext]_cbcVars
-----------------------------------------------------------------------------
CbcTypeOK ==
  /\ cpc \in {"idle", "encrypt", "encrypted", "decrypt", "decrypted"}
  /\ plain \in Memory /\ cipher \in Memory /\ body \in Memory
  /\ size \in 0..(16 * MaxRows) /\ len \in 0..size
  /\ ekey \in Keys /\ dkey \in Keys
  /\ row \in Nat /\ ivec \in Block
  /\ cpc \in {"encrypt", "decrypt"} => row \in Rows /\ len > 0 /\ len = size - 16 * row

\* Decryption in place, under the key of the encryption, gives back every byte, whatever the
\* length; what it has not reached yet is still the ciphertext.
DecryptedIsPlain ==
  cpc \in {"decrypt", "decrypted"} /\ dkey = ekey =>
    \A r \in Rows :
      /\ cpc = "decrypt" /\ r >= row => body[r] = cipher[r]
      /\ cpc = "decrypted" \/ r < row =>
           \A n \in Columns : 16 * r + n < size => body[r][n] = plain[r][n]
=============================================================================
