----------------------------- MODULE Rijndael -----------------------------
(***************************************************************************)
(* The cipher as its standard defines it, from the field GF(2^8) up: the   *)
(* reference that the tables and word tricks of Aes are compared with.     *)
(* Nothing here is translated from the code.                               *)
(***************************************************************************)
EXTENDS Bytes

\* Product of polynomials modulo x^8 + x^4 + x^3 + x + 1
Product(a, b) ==
  LET shifted[i \in 0..7] ==
        LET twice == 2 * shifted[i - 1]
        IN IF i = 0 THEN a ELSE IF twice < 256 THEN twice ELSE Xor(twice - 256, 27)
      sum[i \in 0..8] ==
        IF i = 0 THEN 0
        ELSE IF Bit(b, i - 1) = 1 THEN Xor(sum[i - 1], shifted[i - 1]) ELSE sum[i - 1]
  IN sum[8]

Reciprocal(a) == IF a = 0 THEN 0 ELSE CHOOSE b \in Byte : Product(a, b) = 1

Affine(b) ==
  LET turned(n) == ((b * 2^n) % 256) + ((b * 2^n) \div 256)
  IN Xor(Xor(Xor(b, turned(1)), Xor(turned(2), turned(3))), Xor(turned(4), 99))

SBox == [a \in Byte |-> Affine(Reciprocal(a))]
-----------------------------------------------------------------------------
(* A state is four columns of four bytes.                                  *)

SubBytes(s) == Four(LAMBDA c : Four(LAMBDA r : SBox[s[c][r]]))
ShiftRows(s) == Four(LAMBDA c : Four(LAMBDA r : s[((c + r - 2) % 4) + 1][r]))

Times == [c \in 1..3 |-> [a \in Byte |-> Product(c, a)]]
MixColumn(a) ==
  LET term(r, k) == Times[<<2, 3, 1, 1>>[((k - r) % 4) + 1]][a[k]]
  IN Four(LAMBDA r : Xor(Xor(term(r, 1), term(r, 2)), Xor(term(r, 3), term(r, 4))))
MixColumns(s) == Four(LAMBDA c : MixColumn(s[c]))

\* w is the schedule of key, a key of nk words
IsKeySchedule(w, key) ==
  LET nk == Len(key) \div 4
      constant[i \in 1..10] == IF i = 1 THEN 1 ELSE Product(2, constant[i - 1])
      sub(v) == Four(LAMBDA r : SBox[v[r]])
      rot(v) == <<v[2], v[3], v[4], v[1]>>
      turned(i) == IF i % nk = 0 THEN WXor(sub(rot(w[i])), Word(constant[i \div nk]))
                   ELSE IF nk > 6 /\ i % nk = 4 THEN sub(w[i]) ELSE w[i]
  IN /\ Len(w) = 4 * (nk + 7)
     /\ \A j \in 1..nk : w[j] = SubSeq(key, 4 * j - 3, 4 * j)
     /\ \A i \in nk..(Len(w) - 1) : w[i + 1] = WXor(w[i + 1 - nk], turned(i))

Cipher(in, w) ==
  LET nr == (Len(w) \div 4) - 1
      add(s, r) == Four(LAMBDA c : WXor(s[c], w[4 * r + c]))
      state[r \in 0..nr] ==
        IF r = 0 THEN add(Four(LAMBDA c : Four(LAMBDA i : in[4 * c + i - 5])), 0)
        ELSE Apply(LAMBDA s : add(IF r < nr THEN MixColumns(ShiftRows(SubBytes(s)))
                                  ELSE ShiftRows(SubBytes(s)), r), state[r - 1])
      out == state[nr]
  IN [n \in 0..15 |-> out[(n \div 4) + 1][(n % 4) + 1]]
=============================================================================
