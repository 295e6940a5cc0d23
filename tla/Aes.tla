------------------------------- MODULE Aes -------------------------------
(***************************************************************************)
(* aes_x86core.c: the key schedules and the table-driven cipher, with the  *)
(* compact S-box in the first and the last round and the combined tables   *)
(* in the rounds between.  A state is four words, a block the function     *)
(* 0..15 -> Byte that CBC hands over.                                      *)
(***************************************************************************)
EXTENDS Bytes

Te4 == <<
   99, 124, 119, 123, 242, 107, 111, 197,  48,   1, 103,  43, 254, 215, 171, 118,
  202, 130, 201, 125, 250,  89,  71, 240, 173, 212, 162, 175, 156, 164, 114, 192,
  183, 253, 147,  38,  54,  63, 247, 204,  52, 165, 229, 241, 113, 216,  49,  21,
    4, 199,  35, 195,  24, 150,   5, 154,   7,  18, 128, 226, 235,  39, 178, 117,
    9, 131,  44,  26,  27, 110,  90, 160,  82,  59, 214, 179,  41, 227,  47, 132,
   83, 209,   0, 237,  32, 252, 177,  91, 106, 203, 190,  57,  74,  76,  88, 207,
  208, 239, 170, 251,  67,  77,  51, 133,  69, 249,   2, 127,  80,  60, 159, 168,
   81, 163,  64, 143, 146, 157,  56, 245, 188, 182, 218,  33,  16, 255, 243, 210,
  205,  12,  19, 236,  95, 151,  68,  23, 196, 167, 126,  61, 100,  93,  25, 115,
   96, 129,  79, 220,  34,  42, 144, 136,  70, 238, 184,  20, 222,  94,  11, 219,
  224,  50,  58,  10,  73,   6,  36,  92, 194, 211, 172,  98, 145, 149, 228, 121,
  231, 200,  55, 109, 141, 213,  78, 169, 108,  86, 244, 234, 101, 122, 174,   8,
  186, 120,  37,  46,  28, 166, 180, 198, 232, 221, 116,  31,  75, 189, 139, 138,
  112,  62, 181, 102,  72,   3, 246,  14,  97,  53,  87, 185, 134, 193,  29, 158,
  225, 248, 152,  17, 105, 217, 142, 148, 155,  30, 135, 233, 206,  85,  40, 223,
  140, 161, 137,  13, 191, 230,  66, 104,  65, 153,  45,  15, 176,  84, 187,  22 >>

\* The 256 entries of the code, which are those of the inverse of Te4
Td4 == [y \in Byte |-> CHOOSE x \in Byte : Te4[x + 1] = y]

S(x) == Te4[x + 1]
Si(x) == Td4[x]

\* (b << 1) ^ (0x1b if the top bit was set): what the 0x80808080 masks do to each byte
XTime(b) == IF b < 128 THEN 2 * b ELSE Xor(2 * b - 256, 27)
XTimes(w) == Four(LAMBDA i : XTime(w[i]))

\* The 256 entries of each table of the code. The code stores each entry twice, and every one of
\* them has been compared with these formulas.
Te == [x \in Byte |-> LET s == S(x) IN <<XTime(s), s, s, Xor(XTime(s), s)>>]
Td == [x \in Byte |->
         LET s == Si(x)  s2 == XTime(s)  s4 == XTime(s2)  s8 == XTime(s4)  s9 == Xor(s8, s)
         IN <<Xor(s8, Xor(s4, s2)), s9, Xor(s9, s4), Xor(s9, s2)>>]

rcon == <<1, 2, 4, 8, 16, 32, 64, 128, 27, 54>>
-----------------------------------------------------------------------------
(* Key schedules: [rounds, rd_key], or the error the function returns.     *)

SubWord(w) == Four(LAMBDA i : S(w[i]))

\* One turn of a loop of AES_set_encrypt_key: the last words give as many new ones.
NextWords(last, i) ==
  LET nk == Len(last)
      new[j \in 0..nk] ==
        LET temp(before) == IF j = 1 THEN WXor(Rotate(SubWord(last[nk]), 3), Word(rcon[i]))
                            ELSE IF nk = 8 /\ j = 5 THEN SubWord(before[4]) ELSE before[j - 1]
        IN IF j = 0 THEN <<>>
           ELSE Apply(LAMBDA before : Append(before, WXor(last[j], temp(before))), new[j - 1])
  IN new[nk]

AES_set_encrypt_key(userKey, bits) ==
  LET nk == bits \div 32
      rounds == nk + 6
      first == [w \in 1..nk |-> SubSeq(userKey, 4 * w - 3, 4 * w)]
      turns == CASE bits = 128 -> 10 [] bits = 192 -> 8 [] bits = 256 -> 7
      rk[i \in 0..turns] ==
        LET longer(before) ==
              before \o NextWords(SubSeq(before, Len(before) - nk + 1, Len(before)), i)
        IN IF i = 0 THEN first ELSE Apply(longer, rk[i - 1])
  IN IF bits \notin {128, 192, 256} THEN [error |-> -2]
     ELSE [rounds |-> rounds, rd_key |-> SubSeq(rk[turns], 1, 4 * (rounds + 1))]

RoundKey(key, r) == SubSeq(key.rd_key, 4 * r + 1, 4 * r + 4)

\* The inverse MixColumn transform of a word.
InverseMix(w) ==
  LET tp2 == XTimes(w)  tp4 == XTimes(tp2)  tp8 == XTimes(tp4)  tp9 == WXor(tp8, w)
  IN WXor(WXor(WXor(tp8, WXor(tp4, tp2)), Rotate(WXor(tp9, tp4), 2)),
          WXor(Rotate(tp9, 1), Rotate(WXor(tp9, tp2), 3)))

\* Mutant of AES_set_decrypt_key: the last round key is transformed too.
InverseMixOfLast(userKey, bits) ==
  LET key == AES_set_encrypt_key(userKey, bits)
      back == [w \in DOMAIN key.rd_key |->
                 RoundKey(key, key.rounds - (w - 1) \div 4)[((w - 1) % 4) + 1]]
  IN [key EXCEPT !.rd_key = [w \in DOMAIN back |->
                               IF w \in 1..4 THEN back[w] ELSE InverseMix(back[w])]]

AES_set_decrypt_key(userKey, bits) ==
  LET key == AES_set_encrypt_key(userKey, bits)
      back == [w \in DOMAIN key.rd_key |->
                 RoundKey(key, key.rounds - (w - 1) \div 4)[((w - 1) % 4) + 1]]
      outer == 1..4 \cup (4 * key.rounds + 1)..(4 * key.rounds + 4)
  IN IF "error" \in DOMAIN key THEN key
     ELSE [key EXCEPT !.rd_key = [w \in DOMAIN back |->
                                    IF w \in outer THEN back[w] ELSE InverseMix(back[w])]]
-----------------------------------------------------------------------------
(* Rounds.  Byte i of word j comes from the word that ShiftRows brings     *)
(* there: i - 1 words on for the cipher, back for its inverse.             *)

Ahead(j, i) == ((j - 1 + (i - 1)) % 4) + 1
Back(j, i) == ((j - 1 - (i - 1)) % 4) + 1

AddKey(s, rk) == Four(LAMBDA j : WXor(s[j], rk[j]))
MixAll(Linear(_), s) == Four(LAMBDA j : Linear(s[j]))
Substitute(Box(_), Source(_, _), s) ==
  Four(LAMBDA j : Four(LAMBDA i : Box(s[Source(j, i)][i])))

\* Table T of the code, read at byte offset 0, 3, 2, 1 for its four variants
TableRound(T, Source(_, _), s, rk) ==
  LET part(j, i) == Rotate(T[s[Source(j, i)][i]], i - 1)
  IN Four(LAMBDA j : WXor(WXor(WXor(part(j, 1), part(j, 2)), WXor(part(j, 3), part(j, 4))), rk[j]))

\* The linear transform of the first round, on whole words
Mix(w) ==
  LET r2 == XTimes(w)
  IN WXor(WXor(r2, Rotate(WXor(r2, w), 3)), WXor(Rotate(w, 2), Rotate(w, 1)))

Load(in) == Four(LAMBDA j : Four(LAMBDA i : in[4 * j + i - 5]))
Store(s) == [n \in 0..15 |-> s[(n \div 4) + 1][(n % 4) + 1]]

AES_encrypt(in, key) ==
  LET s0 == AddKey(Load(in), RoundKey(key, 0))
      t == Substitute(S, Ahead, s0)
      s1 == AddKey(MixAll(Mix, t), RoundKey(key, 1))
      s[r \in 1..key.rounds - 1] ==
        IF r = 1 THEN s1
        ELSE Apply(LAMBDA before : TableRound(Te, Ahead, before, RoundKey(key, r)), s[r - 1])
  IN Store(AddKey(Substitute(S, Ahead, s[key.rounds - 1]), RoundKey(key, key.rounds)))

AES_decrypt(in, key) ==
  LET s0 == AddKey(Load(in), RoundKey(key, 0))
      t == Substitute(Si, Back, s0)
      s1 == AddKey(MixAll(InverseMix, t), RoundKey(key, 1))
      s[r \in 1..key.rounds - 1] ==
        IF r = 1 THEN s1
        ELSE Apply(LAMBDA before : TableRound(Td, Back, before, RoundKey(key, r)), s[r - 1])
  IN Store(AddKey(Substitute(Si, Back, s[key.rounds - 1]), RoundKey(key, key.rounds)))
=============================================================================
