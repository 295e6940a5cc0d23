-------------------------- MODULE Response_proofs --------------------------
(***************************************************************************)
(* Proofs about the life of a reply: both ends agree on a key, decryption  *)
(* undoes encryption, UnCompressGZ undoes CompressGZ, and the body that    *)
(* AbsResponse ends with is the text of the server.                        *)
(* They are of the models of the modules that Response extends as well.    *)
(***************************************************************************)
EXTENDS Response, SequenceTheorems, WellFoundedInduction, TLAPS
-----------------------------------------------------------------------------
(* Induction                                                               *)

\* Induction over the numbers, for a set: a least number outside of it has one below it.
LEMMA Induction ==
  ASSUME NEW A, 0 \in A, \A i \in Nat : i \in A => i + 1 \in A
  PROVE  \A i \in Nat : i \in A
<1> SUFFICES ASSUME Nat \ A # {} PROVE FALSE
  OBVIOUS
<1>1. PICK m \in Nat \ A : \A i \in Nat \ A : ~(<<i, m>> \in OpToRel(<, Nat))
  BY NatLessThanWellFounded, WFMin, Zenon
<1>2. m - 1 \in Nat /\ m - 1 < m /\ m - 1 + 1 = m
  OBVIOUS
<1>3. <<m - 1, m>> \in OpToRel(<, Nat)
  BY <1>2, Zenon DEF OpToRel
<1>4. m - 1 \in A
  BY <1>1, <1>2, <1>3, Zenon
<1> QED
  BY <1>2, <1>4
-----------------------------------------------------------------------------
(* The key.                                                                *)

\* A greater factor gives a product that is greater by a whole multiple.
LEMMA MultipleGrows ==
  ASSUME NEW m \in Nat, NEW x \in Nat, NEW y \in Nat, x < y
  PROVE  m * x + m <= m * y
<1> DEFINE d == y - x - 1
<1>1. d \in Nat /\ y = x + 1 + d
  OBVIOUS
<1> HIDE DEF d
<1>2. m * y = m * x + m + m * d
  BY <1>1
<1>3. m * d \in Nat /\ m * x \in Nat
  BY <1>1
<1> QED
  BY <1>2, <1>3

Splits(a, m, q, r) == a \in Nat /\ m \in Nat \ {0} /\ q \in Nat /\ r \in 0..(m - 1) /\ a = m * q + r

\* Quotient and remainder are what TLA+ divides into.
LEMMA Remainder ==
  ASSUME NEW m \in Nat \ {0}, NEW a \in Nat
  PROVE  Splits(a, m, a \div m, a % m)
<1> DEFINE q == a \div m
           r == a % m
<1>1. q \in Nat /\ r \in 0..(m - 1)
  OBVIOUS
<1>2. r = a - m * q
  OBVIOUS
<1> HIDE DEF q, r
<1>3. a = m * q + r
  BY <1>1, <1>2
<1>4. Splits(a, m, q, r)
  BY <1>1, <1>3 DEF Splits
<1> QED
  BY <1>4 DEF q, r

\* There is one quotient and one remainder.
LEMMA OneRemainder ==
  ASSUME NEW m, NEW a, NEW q, NEW r, NEW p, NEW s, Splits(a, m, q, r), Splits(a, m, p, s)
  PROVE  q = p /\ r = s
<1>1. m \in Nat /\ q \in Nat /\ r \in Nat /\ p \in Nat /\ s \in Nat /\ m * q + r = m * p + s
      /\ r < m /\ s < m
  BY DEF Splits
<1>2. m * q \in Nat /\ m * p \in Nat
  BY <1>1
<1>3. ~(q < p)
  <2>1. q < p => m * q + m <= m * p
    BY <1>1, MultipleGrows
  <2> QED
    BY <1>1, <1>2, <2>1
<1>4. ~(p < q)
  <2>1. p < q => m * p + m <= m * q
    BY <1>1, MultipleGrows
  <2> QED
    BY <1>1, <1>2, <2>1
<1>5. q = p
  BY <1>1, <1>3, <1>4
<1> QED
  BY <1>1, <1>2, <1>5

\* The remainder of a number is that of another when they differ by a multiple.
LEMMA SameRemainder ==
  ASSUME NEW m \in Nat \ {0}, NEW a \in Nat, NEW q \in Nat
  PROVE  (m * q + a) % m = a % m
<1> DEFINE b == m * q + a
<1>1. b \in Nat
  OBVIOUS
<1>2. Splits(a, m, a \div m, a % m)
  BY Remainder
<1>3. Splits(b, m, b \div m, b % m)
  BY <1>1, Remainder
<1>4. Splits(b, m, q + (a \div m), a % m)
  <2> DEFINE d == a \div m
             r == a % m
  <2>1. Splits(a, m, d, r)
    BY <1>2
  <2> HIDE DEF d, r
  <2>2. m * q + a = m * (q + d) + r /\ q + d \in Nat
    BY <2>1 DEF Splits
  <2>3. Splits(b, m, q + d, r)
    BY <1>1, <2>1, <2>2 DEF Splits
  <2> QED
    BY <2>3 DEF d, r
<1> HIDE DEF b
<1>5. b % m = a % m
  BY <1>3, <1>4, OneRemainder
<1> QED
  BY <1>5 DEF b

\* One factor of a product may be replaced by its remainder.
LEMMA FactorRemainder ==
  ASSUME NEW m \in Nat \ {0}, NEW a \in Nat, NEW b \in Nat
  PROVE  ((a % m) * b) % m = (a * b) % m /\ (b * (a % m)) % m = (a * b) % m
<1> DEFINE d == a \div m
           r == a % m
<1>1. Splits(a, m, d, r)
  BY Remainder
<1> HIDE DEF d, r
<1>2. d * b \in Nat /\ r * b \in Nat /\ a * b = m * (d * b) + r * b /\ b * r = r * b
  BY <1>1 DEF Splits
<1>3. (m * (d * b) + r * b) % m = (r * b) % m
  BY <1>2, SameRemainder
<1>4. (r * b) % m = (a * b) % m /\ (b * r) % m = (a * b) % m
  BY <1>2, <1>3
<1> QED
  BY <1>4 DEF r

\* What BN_mod_exp computes, for each exponent from the one before.
IsPower(g, b, e) ==
  g = [i \in 0..e |-> IF i = 0 THEN 1 % Modulus ELSE (g[i - 1] * b) % Modulus]

\* Its values, one from the other.
LEMMA PowerStep ==
  ASSUME NEW b \in Nat, NEW g, NEW e \in Nat, IsPower(g, b, e)
  PROVE  /\ g[0] = 1 % Modulus
         /\ \A i \in 1..e : g[i] = (g[i - 1] * b) % Modulus
<1> DEFINE h == [i \in 0..e |-> IF i = 0 THEN 1 % Modulus ELSE (g[i - 1] * b) % Modulus]
<1>1. h[0] = 1 % Modulus /\ \A i \in 1..e : h[i] = (g[i - 1] * b) % Modulus
  <2>1. 0 \in 0..e /\ \A i \in 1..e : i \in 0..e /\ i # 0
    OBVIOUS
  <2> QED
    BY <2>1, Zenon
<1>2. g = h
  BY DEF IsPower
<1> HIDE DEF h
<1> QED
  BY <1>1, <1>2

\* BN_mod_exp(b, e) is the last value of such a function.
LEMMA PowerRuns ==
  ASSUME NEW b \in Nat, NEW e \in Nat
  PROVE  \E g : IsPower(g, b, e) /\ BN_mod_exp(b, e) = g[e]
<1> DEFINE A == {i \in Nat : \E g : IsPower(g, b, i)}
           f == CHOOSE g : IsPower(g, b, e)
<1>1. 0 \in A
  <2> DEFINE one == 1 % Modulus
             g == [i \in 0..0 |-> one]
  <2>1. g = [i \in 0..0 |-> IF i = 0 THEN one ELSE (g[i - 1] * b) % Modulus]
    <3> HIDE DEF one
    <3> QED
      OBVIOUS
  <2>2. IsPower(g, b, 0)
    BY <2>1, Zenon DEF IsPower
  <2> QED
    BY <2>2
<1>2. ASSUME NEW k \in Nat, k \in A PROVE k + 1 \in A
  <2> PICK g : IsPower(g, b, k)
    BY <1>2
  <2> DEFINE h == [i \in 0..(k + 1) |-> IF i = k + 1 THEN (g[k] * b) % Modulus ELSE g[i]]
             Value(i) == IF i = 0 THEN 1 % Modulus ELSE (h[i - 1] * b) % Modulus
  <2>1. \A i \in 0..k : /\ h[i] = g[i]
                        /\ g[i] = IF i = 0 THEN 1 % Modulus ELSE (g[i - 1] * b) % Modulus
    <3>1. \A i \in 0..k : h[i] = g[i]
      OBVIOUS
    <3>2. \A i \in 0..k : i = 0 \/ i \in 1..k
      OBVIOUS
    <3> QED
      BY <3>1, <3>2, PowerStep, Zenon
  <2>2. h[k + 1] = (g[k] * b) % Modulus
    OBVIOUS
  <2>3. h = [i \in 0..(k + 1) |-> h[i]]
    OBVIOUS
  <2> HIDE DEF h
  <2>4. ASSUME NEW i \in 0..(k + 1) PROVE h[i] = Value(i)
    <3>1. CASE i = k + 1
      BY <2>1, <2>2, <3>1
    <3>2. CASE i \in 0..k /\ i # 0
      <4>1. i - 1 \in 0..k
        BY <3>2
      <4> QED
        BY <2>1, <3>2, <4>1
    <3>3. CASE i = 0
      BY <2>1, <3>3
    <3> QED
      BY <3>1, <3>2, <3>3
  <2>5. IsPower(h, b, k + 1)
    BY <2>3, <2>4 DEF IsPower
  <2> QED
    BY <2>5
<1>3. \A i \in Nat : i \in A
  <2> HIDE DEF A
  <2> QED
    BY <1>1, <1>2, Induction
<1>4. IsPower(f, b, e)
  BY <1>3
<1>5. BN_mod_exp(b, e) = f[e]
  BY DEF BN_mod_exp, IsPower
<1> QED
  BY <1>4, <1>5

\* Two of them agree as far as both go.
LEMMA PowerIsOne ==
  ASSUME NEW b \in Nat, NEW g, NEW h, NEW d \in Nat, NEW e \in Nat,
         IsPower(g, b, d), IsPower(h, b, e)
  PROVE  \A i \in Nat : i <= d /\ i <= e => g[i] = h[i]
<1> DEFINE A == {i \in Nat : i <= d /\ i <= e => g[i] = h[i]}
<1>1. 0 \in A
  BY PowerStep
<1>2. ASSUME NEW i \in Nat, i \in A PROVE i + 1 \in A
  <2> SUFFICES ASSUME i + 1 <= d, i + 1 <= e PROVE g[i + 1] = h[i + 1]
    OBVIOUS
  <2>1. g[i] = h[i] /\ (i + 1) - 1 = i /\ i + 1 \in 1..d /\ i + 1 \in 1..e
    BY <1>2
  <2>2. g[i + 1] = (g[(i + 1) - 1] * b) % Modulus /\ h[i + 1] = (h[(i + 1) - 1] * b) % Modulus
    BY <2>1, PowerStep
  <2> QED
    BY <2>1, <2>2
<1>3. \A i \in Nat : i \in A
  <2> HIDE DEF A
  <2> QED
    BY <1>1, <1>2, Induction
<1> QED
  BY <1>3

\* BN_mod_exp follows the powers, and stays below the modulus.
LEMMA PowerProperties ==
  ASSUME NEW b \in Nat
  PROVE  /\ BN_mod_exp(b, 0) = 1 % Modulus
         /\ \A e \in Nat : BN_mod_exp(b, e + 1) = (BN_mod_exp(b, e) * b) % Modulus
         /\ \A e \in Nat : BN_mod_exp(b, e) \in 0..(Modulus - 1)
<1>1. BN_mod_exp(b, 0) = 1 % Modulus
  <2> PICK g : IsPower(g, b, 0) /\ BN_mod_exp(b, 0) = g[0]
    BY PowerRuns
  <2> QED
    BY PowerStep
<1>2. ASSUME NEW e \in Nat
      PROVE  BN_mod_exp(b, e + 1) = (BN_mod_exp(b, e) * b) % Modulus
  <2>1. PICK g : IsPower(g, b, e) /\ BN_mod_exp(b, e) = g[e]
    BY PowerRuns
  <2>2. PICK h : IsPower(h, b, e + 1) /\ BN_mod_exp(b, e + 1) = h[e + 1]
    BY PowerRuns
  <2>3. g[e] = h[e]
    BY <2>1, <2>2, PowerIsOne
  <2>4. e + 1 \in 1..(e + 1) /\ (e + 1) - 1 = e
    OBVIOUS
  <2>5. h[e + 1] = (h[(e + 1) - 1] * b) % Modulus
    BY <2>2, <2>4, PowerStep
  <2> QED
    BY <2>1, <2>2, <2>3, <2>4, <2>5
<1> DEFINE A == {e \in Nat : BN_mod_exp(b, e) \in 0..(Modulus - 1)}
<1>3. 0 \in A
  <2>1. 1 % Modulus \in 0..(Modulus - 1)
    BY KeyExchangeAssumption
  <2> QED
    BY <1>1, <2>1
<1>4. ASSUME NEW e \in Nat, e \in A PROVE e + 1 \in A
  <2>1. BN_mod_exp(b, e) * b \in Nat
    BY <1>4, KeyExchangeAssumption
  <2> DEFINE p == BN_mod_exp(b, e) * b
  <2>2. p % Modulus \in 0..(Modulus - 1)
    <3> HIDE DEF p
    <3> QED
      BY <2>1, KeyExchangeAssumption DEF p
  <2> QED
    BY <1>2, <2>2
<1>5. \A e \in Nat : e \in A
  <2> HIDE DEF A
  <2> QED
    BY <1>3, <1>4, Induction
<1> QED
  BY <1>1, <1>2, <1>5

\* The power of a sum is the product of the powers.
LEMMA PowerOfSum ==
  ASSUME NEW b \in Nat, NEW d \in Nat
  PROVE  \A e \in Nat : BN_mod_exp(b, d + e) = (BN_mod_exp(b, d) * BN_mod_exp(b, e)) % Modulus
<1> DEFINE P(i) == BN_mod_exp(b, i)
           A == {e \in Nat : P(d + e) = (P(d) * P(e)) % Modulus}
<1>1. /\ P(0) = 1 % Modulus
      /\ \A i \in Nat : P(i) \in 0..(Modulus - 1) /\ P(i + 1) = (P(i) * b) % Modulus
      /\ Modulus \in Nat \ {0}
  BY PowerProperties, KeyExchangeAssumption
<1> HIDE DEF P
<1>2. 0 \in A
  <2> DEFINE p == P(d)
  <2>1. p \in 0..(Modulus - 1) /\ p \in Nat
    BY <1>1
  <2> HIDE DEF p
  <2>2. 1 * p = p /\ p % Modulus = p /\ d + 0 = d
    <3>1. p % Modulus = p
      BY <2>1, KeyExchangeAssumption
    <3> QED
      BY <2>1, <3>1
  <2>3. (p * (1 % Modulus)) % Modulus = (1 * p) % Modulus
    BY <1>1, <2>1, FactorRemainder
  <2> QED
    BY <1>1, <2>2, <2>3 DEF p
<1>3. ASSUME NEW e \in Nat, e \in A PROVE e + 1 \in A
  <2>0. P(d) \in Nat /\ P(e) \in Nat
    BY <1>1
  <2>1. P(d) * P(e) \in Nat /\ P(e) * b \in Nat
        /\ (P(d) * P(e)) * b = (P(e) * b) * P(d) /\ d + (e + 1) = (d + e) + 1
    BY <2>0
  <2>2. P((d + e) + 1) = (P(d + e) * b) % Modulus
    BY <1>1
  <2>3. P(d + e) = (P(d) * P(e)) % Modulus
    BY <1>3
  <2>4. (((P(d) * P(e)) % Modulus) * b) % Modulus = ((P(d) * P(e)) * b) % Modulus
    BY <1>1, <2>0, <2>1, FactorRemainder
  <2>5. (P(d) * ((P(e) * b) % Modulus)) % Modulus = ((P(e) * b) * P(d)) % Modulus
    BY <1>1, <2>0, <2>1, FactorRemainder
  <2>6. P(e + 1) = (P(e) * b) % Modulus
    BY <1>1
  <2>7. P(d + (e + 1)) = (P(d) * P(e + 1)) % Modulus
    BY <2>1, <2>2, <2>3, <2>4, <2>5, <2>6
  <2> QED
    BY <2>7
<1>4. \A e \in Nat : e \in A
  <2> HIDE DEF A
  <2> QED
    BY <1>2, <1>3, Induction
<1> QED
  BY <1>4 DEF P

\* The power of a power is that of the product.
LEMMA PowerOfPower ==
  ASSUME NEW b \in Nat, NEW d \in Nat
  PROVE  \A e \in Nat : BN_mod_exp(BN_mod_exp(b, d), e) = BN_mod_exp(b, d * e)
<1> DEFINE c == BN_mod_exp(b, d)
           A == {e \in Nat : BN_mod_exp(c, e) = BN_mod_exp(b, d * e)}
<1>1. c \in Nat
  <2>1. c \in 0..(Modulus - 1)
    BY PowerProperties
  <2> QED
    BY <2>1, KeyExchangeAssumption
<1> HIDE DEF c
<1>2. 0 \in A
  <2>1. d * 0 = 0
    OBVIOUS
  <2> QED
    BY <1>1, <2>1, PowerProperties
<1>3. ASSUME NEW e \in Nat, e \in A PROVE e + 1 \in A
  <2>1. d * e \in Nat /\ d * (e + 1) = d * e + d
    OBVIOUS
  <2>2. BN_mod_exp(b, d * e + d) = (BN_mod_exp(b, d * e) * BN_mod_exp(b, d)) % Modulus
    BY <2>1, PowerOfSum
  <2>3. BN_mod_exp(c, e + 1) = (BN_mod_exp(c, e) * c) % Modulus
    BY <1>1, PowerProperties
  <2>4. BN_mod_exp(c, e) = BN_mod_exp(b, d * e)
    BY <1>3
  <2>5. BN_mod_exp(c, e + 1) = BN_mod_exp(b, d * (e + 1))
    BY <2>1, <2>2, <2>3, <2>4 DEF c
  <2> QED
    BY <2>5
<1>4. \A e \in Nat : e \in A
  <2> HIDE DEF A
  <2> QED
    BY <1>2, <1>3, Induction
<1> QED
  BY <1>4 DEF c

\* So the two halves agree, whoever computes the key.
LEMMA KeysAgree ==
  ASSUME NEW x \in Nat, NEW y \in Nat
  PROVE  /\ CBN_CalcKey(CBN_CreateLocalKey(x), y) = CBN_CalcKey(CBN_CreateLocalKey(y), x)
         /\ CBN_CalcKey(CBN_CreateLocalKey(x), y) \in 0..(Modulus - 1)
<1>1. /\ Generator \in Nat /\ BN_mod_exp(Generator, x) \in Nat
      /\ BN_mod_exp(Generator, y) \in Nat
  <2>1. /\ BN_mod_exp(Generator, x) \in 0..(Modulus - 1)
        /\ BN_mod_exp(Generator, y) \in 0..(Modulus - 1)
    BY PowerProperties, KeyExchangeAssumption
  <2> QED
    BY <2>1, KeyExchangeAssumption
<1>2. x * y = y * x
  OBVIOUS
<1>3. /\ BN_mod_exp(BN_mod_exp(Generator, x), y) = BN_mod_exp(Generator, x * y)
      /\ BN_mod_exp(BN_mod_exp(Generator, y), x) = BN_mod_exp(Generator, y * x)
  BY <1>1, PowerOfPower
<1>4. BN_mod_exp(BN_mod_exp(Generator, x), y) \in 0..(Modulus - 1)
  BY <1>1, PowerProperties
<1> QED
  BY <1>2, <1>3, <1>4 DEF CBN_CalcKey, CBN_CreateLocalKey
-----------------------------------------------------------------------------
(* FlattenSeq.                                                             *)

\* The runs of its recursion: the prefixes of s, joined.
Joins(s, g) == g[0] = <<>> /\ \A i \in 1..Len(s) : g[i] = g[i - 1] \o s[i]

\* There are such prefixes, of every sequence.
LEMMA JoinsExist ==
  ASSUME NEW s, Len(s) \in Nat
  PROVE  \E g : Joins(s, g)
<1> DEFINE IsRun(g, k) == g[0] = <<>> /\ \A i \in 1..k : g[i] = g[i - 1] \o s[i]
           A == {k \in Nat : \E g : IsRun(g, k)}
<1>1. 0 \in A
  <2>1. IsRun([i \in 0..0 |-> <<>>], 0)
    OBVIOUS
  <2> QED
    BY <2>1
<1>2. ASSUME NEW k \in Nat, k \in A PROVE k + 1 \in A
  <2> PICK g : IsRun(g, k)
    BY <1>2
  <2> DEFINE last == g[k] \o s[k + 1]
             h == [i \in 0..(k + 1) |-> IF i = k + 1 THEN last ELSE g[i]]
  <2>1. /\ \A i \in 0..k : h[i] = g[i]
        /\ h[k + 1] = last
    <3> HIDE DEF last
    <3> QED
      OBVIOUS
  <2> HIDE DEF h
  <2>2. h[0] = <<>>
    BY <2>1
  <2>3. ASSUME NEW i \in 1..(k + 1) PROVE h[i] = h[i - 1] \o s[i]
    <3>1. CASE i = k + 1
      <4>1. i - 1 = k /\ k \in 0..k
        BY <3>1
      <4>2. h[k] = g[k]
        BY <2>1, <4>1
      <4> QED
        BY <2>1, <3>1, <4>1, <4>2, Zenon
    <3>2. CASE i \in 1..k
      <4>1. i \in 0..k /\ i - 1 \in 0..k
        BY <3>2
      <4>2. h[i] = g[i] /\ h[i - 1] = g[i - 1]
        BY <2>1, <4>1
      <4> QED
        BY <3>2, <4>2, Zenon
    <3>3. i = k + 1 \/ i \in 1..k
      OBVIOUS
    <3> QED
      BY <3>1, <3>2, <3>3, Zenon
  <2>4. IsRun(h, k + 1)
    BY <2>2, <2>3, Zenon
  <2>5. \E f : IsRun(f, k + 1)
    BY <2>4, Zenon
  <2> HIDE DEF IsRun
  <2> QED
    BY <2>5
<1>3. \A k \in Nat : k \in A
  <2> HIDE DEF A
  <2> QED
    BY <1>1, <1>2, Induction
<1>4. Len(s) \in A
  BY <1>3
<1> QED
  BY <1>4 DEF Joins

\* They have the elements of the sequences joined.
LEMMA JoinsInSeq ==
  ASSUME NEW S, NEW s \in Seq(Seq(S)), NEW g, Joins(s, g)
  PROVE  \A i \in 0..Len(s) : g[i] \in Seq(S)
<1> DEFINE A == {i \in Nat : i <= Len(s) => g[i] \in Seq(S)}
<1>1. 0 \in A
  <2>1. g[0] \in Seq(S)
    BY EmptySeq DEF Joins
  <2> QED
    BY <2>1
<1>2. ASSUME NEW i \in Nat, i \in A PROVE i + 1 \in A
  <2> SUFFICES ASSUME i + 1 <= Len(s) PROVE g[i + 1] \in Seq(S)
    OBVIOUS
  <2>1. i + 1 \in 1..Len(s) /\ (i + 1) - 1 = i /\ g[i] \in Seq(S)
    BY <1>2
  <2>2. s[i + 1] \in Seq(S)
    BY <2>1, ElementOfSeq
  <2>3. g[i + 1] = g[i] \o s[i + 1]
    BY <2>1 DEF Joins
  <2> QED
    BY <2>1, <2>2, <2>3, ConcatProperties
<1>3. \A i \in Nat : i \in A
  <2> HIDE DEF A
  <2> QED
    BY <1>1, <1>2, Induction
<1> QED
  BY <1>3

\* The last of them is the same, however they are chosen.
LEMMA JoinsAreOne ==
  ASSUME NEW s, Len(s) \in Nat, NEW g, NEW h, Joins(s, g), Joins(s, h)
  PROVE  g[Len(s)] = h[Len(s)]
<1> DEFINE A == {i \in Nat : i <= Len(s) => g[i] = h[i]}
<1>1. 0 \in A
  BY Zenon DEF Joins
<1>2. ASSUME NEW i \in Nat, i \in A PROVE i + 1 \in A
  <2> SUFFICES ASSUME i + 1 <= Len(s) PROVE g[i + 1] = h[i + 1]
    OBVIOUS
  <2>1. i + 1 \in 1..Len(s) /\ (i + 1) - 1 = i /\ g[i] = h[i]
    BY <1>2
  <2> QED
    BY <2>1 DEF Joins
<1>3. \A i \in Nat : i \in A
  <2> HIDE DEF A
  <2> QED
    BY <1>1, <1>2, Induction
<1> QED
  BY <1>3

\* What FlattenSeq gives is the last of them.
LEMMA FlattenJoins ==
  ASSUME NEW S, NEW s \in Seq(Seq(S)), NEW g, Joins(s, g)
  PROVE  FlattenSeq(s) = g[Len(s)]
<1>1. CASE Len(s) = 0
  <2>1. FlattenSeq(s) = s /\ s = <<>>
    BY <1>1 DEF FlattenSeq
  <2> QED
    BY <1>1, <2>1 DEF Joins
<1>2. CASE Len(s) # 0
  <2> DEFINE IsRun(f) == f = [i \in 1..Len(s) |-> IF i = 1 THEN s[i] ELSE f[i - 1] \o s[i]]
             flatten == CHOOSE f : IsRun(f)
             f0 == [i \in 1..Len(s) |-> g[i]]
             h == [i \in 0..Len(s) |-> IF i = 0 THEN <<>> ELSE flatten[i]]
  <2>1. IsRun(f0)
    <3>1. \A i \in 1..Len(s) : f0[i] = g[i]
      OBVIOUS
    <3>2. f0 = [i \in 1..Len(s) |-> f0[i]]
      OBVIOUS
    <3> HIDE DEF f0
    <3>3. ASSUME NEW i \in 1..Len(s) PROVE f0[i] = IF i = 1 THEN s[i] ELSE f0[i - 1] \o s[i]
      <4>1. CASE i = 1
        <5>1. s[1] \in Seq(S)
          BY <4>1, ElementOfSeq
        <5>2. g[1] = g[1 - 1] \o s[1] /\ g[0] = <<>>
          <6>1. 1 \in 1..Len(s)
            BY <4>1
          <6> QED
            BY <6>1, Zenon DEF Joins
        <5>3. g[1] = s[1]
          <6>1. 1 - 1 = 0 /\ <<>> \o s[1] = s[1]
            BY <5>1, ConcatEmptySeq
          <6> QED
            BY <5>2, <6>1
        <5> QED
          BY <3>1, <4>1, <5>3
      <4>2. CASE i # 1
        <5>1. i - 1 \in 1..Len(s)
          BY <4>2
        <5> QED
          BY <3>1, <4>2, <5>1 DEF Joins
      <4> QED
        BY <4>1, <4>2
    <3> QED
      BY <3>2, <3>3
  <2>2. IsRun(flatten)
    BY <2>1
  <2>3. FlattenSeq(s) = flatten[Len(s)]
    BY <1>2 DEF FlattenSeq
  <2>4. \A i \in 1..Len(s) : flatten[i] = IF i = 1 THEN s[i] ELSE flatten[i - 1] \o s[i]
    <3> DEFINE k == [i \in 1..Len(s) |-> IF i = 1 THEN s[i] ELSE flatten[i - 1] \o s[i]]
    <3>1. \A i \in 1..Len(s) : k[i] = IF i = 1 THEN s[i] ELSE flatten[i - 1] \o s[i]
      BY Zenon
    <3>2. flatten = k
      BY <2>2
    <3> HIDE DEF flatten, k
    <3> QED
      BY <3>1, <3>2
  <2> HIDE DEF flatten
  <2>5. Joins(s, h)
    <3>1. h[0] = <<>> /\ \A i \in 1..Len(s) : h[i] = flatten[i]
      OBVIOUS
    <3> HIDE DEF h
    <3>2. ASSUME NEW i \in 1..Len(s) PROVE h[i] = h[i - 1] \o s[i]
      <4>1. CASE i = 1
        <5>1. s[1] \in Seq(S) /\ flatten[1] = s[1] /\ h[1] = flatten[1] /\ 1 - 1 = 0
          BY <2>4, <3>1, <4>1, ElementOfSeq
        <5>2. <<>> \o s[1] = s[1]
          BY <5>1, ConcatEmptySeq
        <5> QED
          BY <3>1, <4>1, <5>1, <5>2
      <4>2. CASE i # 1
        <5>1. i - 1 \in 1..Len(s)
          BY <4>2
        <5> QED
          BY <2>4, <3>1, <4>2, <5>1
      <4> QED
        BY <4>1, <4>2
    <3> QED
      BY <3>1, <3>2 DEF Joins
  <2>6. h[Len(s)] = flatten[Len(s)] /\ Len(s) \in Nat
    BY <1>2
  <2> HIDE DEF h
  <2> QED
    BY <2>3, <2>5, <2>6, JoinsAreOne
<1> QED
  BY <1>1, <1>2

\* What FlattenSeq gives has the elements of the sequences joined.
LEMMA FlattenInSeq ==
  ASSUME NEW S, NEW s \in Seq(Seq(S))
  PROVE  FlattenSeq(s) \in Seq(S)
<1>1. Len(s) \in Nat
  OBVIOUS
<1> PICK g : Joins(s, g)
  BY <1>1, JoinsExist
<1> QED
  BY <1>1, FlattenJoins, JoinsInSeq

\* Joining two lists of sequences one after the other joins what each gives.
LEMMA FlattenConcat ==
  ASSUME NEW S, NEW s \in Seq(Seq(S)), NEW t \in Seq(Seq(S))
  PROVE  FlattenSeq(s \o t) = FlattenSeq(s) \o FlattenSeq(t)
<1>1. Len(s) \in Nat /\ Len(t) \in Nat
  OBVIOUS
<1>2. /\ s \o t \in Seq(Seq(S)) /\ Len(s \o t) = Len(s) + Len(t)
      /\ \A i \in 1..(Len(s) + Len(t)) : (s \o t)[i] = IF i <= Len(s) THEN s[i] ELSE t[i - Len(s)]
  BY ConcatProperties
<1> PICK g : Joins(s, g)
  BY <1>1, JoinsExist
<1> PICK h : Joins(t, h)
  BY <1>1, JoinsExist
<1>3. /\ \A i \in 0..Len(s) : g[i] \in Seq(S)
      /\ \A i \in 0..Len(t) : h[i] \in Seq(S)
  BY JoinsInSeq
<1> DEFINE j == [i \in 0..(Len(s) + Len(t)) |->
                   IF i <= Len(s) THEN g[i] ELSE g[Len(s)] \o h[i - Len(s)]]
           u == s \o t
<1>4. /\ \A i \in 0..Len(s) : j[i] = g[i]
      /\ \A i \in (Len(s) + 1)..(Len(s) + Len(t)) : j[i] = g[Len(s)] \o h[i - Len(s)]
  <2>1. /\ \A i \in 0..Len(s) : i \in 0..(Len(s) + Len(t)) /\ i <= Len(s)
        /\ \A i \in (Len(s) + 1)..(Len(s) + Len(t)) :
             i \in 0..(Len(s) + Len(t)) /\ ~(i <= Len(s))
    BY <1>1
  <2> QED
    BY <2>1, Zenon
<1> HIDE DEF j, u
<1>5. ASSUME NEW i \in 1..Len(u) PROVE j[i] = j[i - 1] \o u[i]
  <2>1. i \in 1..(Len(s) + Len(t)) /\ u[i] = IF i <= Len(s) THEN s[i] ELSE t[i - Len(s)]
    BY <1>2 DEF u
  <2>2. CASE i <= Len(s)
    <3>1. i \in 1..Len(s) /\ i \in 0..Len(s) /\ i - 1 \in 0..Len(s)
      BY <1>1, <2>2
    <3> QED
      BY <1>4, <2>1, <2>2, <3>1 DEF Joins
  <2>3. CASE i > Len(s)
    <3> DEFINE k == i - Len(s)
    <3>1. k \in 1..Len(t) /\ i \in (Len(s) + 1)..(Len(s) + Len(t)) /\ Len(s) \in 0..Len(s)
          /\ k - 1 \in 0..Len(t) /\ ~(i <= Len(s))
      BY <1>1, <2>1, <2>3
    <3>2. h[k] = h[k - 1] \o t[k] /\ u[i] = t[k]
      BY <2>1, <3>1 DEF Joins
    <3>3. t[k] \in Seq(S) /\ h[k - 1] \in Seq(S) /\ g[Len(s)] \in Seq(S)
      BY <1>3, <3>1, ElementOfSeq
    <3>4. j[i] = (g[Len(s)] \o h[k - 1]) \o t[k]
      <4>1. j[i] = g[Len(s)] \o h[k]
        BY <1>4, <3>1
      <4>2. (g[Len(s)] \o h[k - 1]) \o t[k] = g[Len(s)] \o (h[k - 1] \o t[k])
        <5> DEFINE a == g[Len(s)]
                   b == h[k - 1]
                   c == t[k]
        <5>1. a \in Seq(S) /\ b \in Seq(S) /\ c \in Seq(S)
          BY <3>3
        <5> HIDE DEF a, b, c
        <5>2. (a \o b) \o c = a \o (b \o c)
          BY ONLY <5>1, SMTT(60)
        <5> QED
          BY <5>2 DEF a, b, c
      <4> QED
        BY <3>2, <4>1, <4>2, Zenon
    <3>5. j[i - 1] = g[Len(s)] \o h[k - 1]
      <4>1. CASE k = 1
        <5>1. i - 1 = Len(s) /\ k - 1 = 0 /\ h[0] = <<>>
          BY <1>1, <3>1, <4>1 DEF Joins
        <5> QED
          BY <1>4, <3>1, <3>3, <5>1, ConcatEmptySeq
      <4>2. CASE k # 1
        <5>1. i - 1 \in (Len(s) + 1)..(Len(s) + Len(t)) /\ (i - 1) - Len(s) = k - 1
          BY <1>1, <3>1, <4>2
        <5> QED
          BY <1>4, <5>1
      <4> QED
        BY <4>1, <4>2
    <3> QED
      BY <3>2, <3>4, <3>5
  <2>4. i <= Len(s) \/ i > Len(s)
    BY <1>1, <2>1
  <2> QED
    BY <2>2, <2>3, <2>4, Zenon
<1>6. Joins(u, j)
  <2>1. j[0] = <<>>
    BY <1>1, <1>4 DEF Joins
  <2> QED
    BY <1>5, <2>1 DEF Joins
<1>7. FlattenSeq(u) = j[Len(u)] /\ FlattenSeq(s) = g[Len(s)] /\ FlattenSeq(t) = h[Len(t)]
  BY <1>2, <1>6, FlattenJoins DEF u
<1>8. j[Len(u)] = g[Len(s)] \o h[Len(t)]
  <2>1. CASE Len(t) = 0
    <3>1. Len(u) = Len(s) /\ h[Len(t)] = <<>> /\ Len(s) \in 0..Len(s)
      BY <1>1, <1>2, <2>1 DEF u, Joins
    <3> QED
      BY <1>3, <1>4, <3>1, ConcatEmptySeq
  <2>2. CASE Len(t) # 0
    <3>1. Len(u) \in (Len(s) + 1)..(Len(s) + Len(t)) /\ Len(u) - Len(s) = Len(t)
      BY <1>1, <1>2, <2>2 DEF u
    <3> QED
      BY <1>4, <3>1
  <2> QED
    BY <2>1, <2>2
<1> QED
  BY <1>7, <1>8 DEF u
-----------------------------------------------------------------------------
(* The codes of a text.                                                    *)

TextByte == 0..99

\* The text that codes stand for, as Inflate gives it
Given(a) == FlattenSeq([i \in 1..Len(a) |-> TextOf(a[i])])

\* A code stands for one byte, for two or for none.
LEMMA TextOfCode ==
  ASSUME NEW c \in Byte
  PROVE  /\ TextOf(c) \in Seq(TextByte)
         /\ c \in TextByte => TextOf(c) = <<c>>
         /\ c - 100 \in TextByte => TextOf(c) = <<c - 100, c - 100>>
         /\ c >= 200 => TextOf(c) = <<>>
<1>1. c \in Int /\ 0 <= c /\ c <= 255
  BY DEF Byte
<1>2. CASE c < 100
  <2>1. TextOf(c) = <<c>> /\ c \in 0..99
    BY <1>1, <1>2 DEF TextOf
  <2> QED
    BY <1>1, <1>2, <2>1 DEF TextByte
<1>3. CASE c >= 100 /\ c < 200
  <2>1. TextOf(c) = <<c - 100, c - 100>> /\ c - 100 \in 0..99
    BY <1>1, <1>3 DEF TextOf
  <2> QED
    BY <1>1, <1>3, <2>1 DEF TextByte
<1>4. CASE c >= 200
  <2>1. TextOf(c) = <<>> /\ <<>> \in Seq(TextByte)
    BY <1>1, <1>4 DEF TextOf
  <2> QED
    BY <1>1, <1>4, <2>1 DEF TextByte
<1> QED
  BY <1>1, <1>2, <1>3, <1>4

\* The texts of the codes, one by one
LEMMA TextsOf ==
  ASSUME NEW a \in Seq(Byte)
  PROVE  [i \in 1..Len(a) |-> TextOf(a[i])] \in Seq(Seq(TextByte))
<1>1. Len(a) \in Nat /\ \A i \in 1..Len(a) : a[i] \in Byte
  BY ElementOfSeq
<1>2. \A i \in 1..Len(a) : TextOf(a[i]) \in Seq(TextByte)
  BY <1>1, TextOfCode
<1> QED
  BY <1>1, <1>2

\* What codes give is a text.
LEMMA GivenInSeq ==
  ASSUME NEW a \in Seq(Byte)
  PROVE  Given(a) \in Seq(TextByte)
  BY TextsOf, FlattenInSeq DEF Given

\* Codes one after the other give their texts one after the other.
LEMMA GivenConcat ==
  ASSUME NEW a \in Seq(Byte), NEW b \in Seq(Byte)
  PROVE  Given(a \o b) = Given(a) \o Given(b)
<1> DEFINE T(s) == [i \in 1..Len(s) |-> TextOf(s[i])]
<1>1. Len(a) \in Nat /\ Len(b) \in Nat
  OBVIOUS
<1>2. /\ a \o b \in Seq(Byte) /\ Len(a \o b) = Len(a) + Len(b)
      /\ \A i \in 1..(Len(a) + Len(b)) : (a \o b)[i] = IF i <= Len(a) THEN a[i] ELSE b[i - Len(a)]
  BY ConcatProperties
<1>3. /\ T(a) \in Seq(Seq(TextByte)) /\ T(b) \in Seq(Seq(TextByte))
      /\ T(a \o b) \in Seq(Seq(TextByte))
  BY <1>2, TextsOf
<1>4. /\ Len(T(a)) = Len(a) /\ Len(T(b)) = Len(b) /\ Len(T(a \o b)) = Len(a) + Len(b)
      /\ \A i \in 1..Len(a) : T(a)[i] = TextOf(a[i])
      /\ \A i \in 1..Len(b) : T(b)[i] = TextOf(b[i])
      /\ \A i \in 1..(Len(a) + Len(b)) : T(a \o b)[i] = TextOf((a \o b)[i])
  BY <1>1, <1>2
<1> HIDE DEF T
<1>5. /\ T(a) \o T(b) \in Seq(Seq(TextByte)) /\ Len(T(a) \o T(b)) = Len(a) + Len(b)
      /\ \A i \in 1..(Len(a) + Len(b)) :
           (T(a) \o T(b))[i] = IF i <= Len(a) THEN T(a)[i] ELSE T(b)[i - Len(a)]
  <2> DEFINE ta == T(a)
             tb == T(b)
             B == Seq(TextByte)
  <2>1. ta \in Seq(B) /\ tb \in Seq(B) /\ Len(ta) = Len(a) /\ Len(tb) = Len(b)
    BY <1>3, <1>4
  <2> HIDE DEF ta, tb, B
  <2>2. /\ ta \o tb \in Seq(B) /\ Len(ta \o tb) = Len(a) + Len(b)
        /\ \A i \in 1..(Len(a) + Len(b)) :
             (ta \o tb)[i] = IF i <= Len(a) THEN ta[i] ELSE tb[i - Len(a)]
    <3>1. /\ ta \o tb \in Seq(B) /\ Len(ta \o tb) = Len(ta) + Len(tb)
          /\ \A i \in 1..(Len(ta) + Len(tb)) :
               (ta \o tb)[i] = IF i <= Len(ta) THEN ta[i] ELSE tb[i - Len(ta)]
      BY ONLY <2>1, ConcatProperties
    <3> QED
      BY ONLY <2>1, <3>1
  <2> QED
    BY <2>2 DEF ta, tb, B
<1>6. ASSUME NEW i \in 1..(Len(a) + Len(b))
      PROVE  T(a \o b)[i] = (T(a) \o T(b))[i]
  <2>1. CASE i <= Len(a)
    <3>1. i \in 1..Len(a)
      BY <1>1, <2>1
    <3> QED
      BY <1>2, <1>4, <1>5, <2>1, <3>1
  <2>2. CASE i > Len(a)
    <3>1. i - Len(a) \in 1..Len(b) /\ ~(i <= Len(a))
      BY <1>1, <2>2
    <3> QED
      BY <1>2, <1>4, <1>5, <3>1
  <2> QED
    <3>1. i <= Len(a) \/ i > Len(a)
      BY <1>1
    <3> QED
      BY <2>1, <2>2, <3>1, Zenon
<1>7. T(a \o b) = T(a) \o T(b)
  BY <1>3, <1>4, <1>5, <1>6, SeqEqual
<1>8. FlattenSeq(T(a) \o T(b)) = FlattenSeq(T(a)) \o FlattenSeq(T(b))
  BY <1>3, FlattenConcat
<1> QED
  BY <1>7, <1>8 DEF Given, T

\* One code gives what it stands for.
LEMMA GivenOfOne ==
  ASSUME NEW c \in Byte
  PROVE  Given(<<c>>) = TextOf(c)
<1> DEFINE s == [i \in 1..Len(<<c>>) |-> TextOf(<<c>>[i])]
<1>1. <<c>> \in Seq(Byte) /\ Len(<<c>>) = 1 /\ <<c>>[1] = c
  OBVIOUS
<1>2. s \in Seq(Seq(TextByte)) /\ Len(s) = 1 /\ s[1] = TextOf(c)
  <2>1. s \in Seq(Seq(TextByte))
    BY <1>1, TextsOf, Zenon
  <2> QED
    BY <1>1, <2>1
<1> HIDE DEF s
<1>3. PICK g : Joins(s, g)
  BY <1>2, JoinsExist
<1>4. g[1] = TextOf(c)
  <2>1. 1 \in 1..Len(s) /\ 1 - 1 = 0 /\ <<>> \o TextOf(c) = TextOf(c)
    BY <1>2, TextOfCode, ConcatEmptySeq
  <2>2. g[1] = g[1 - 1] \o s[1] /\ g[0] = <<>>
    BY <1>3, <2>1, Zenon DEF Joins
  <2> QED
    BY <1>2, <2>1, <2>2
<1>5. FlattenSeq(s) = g[1]
  BY <1>2, <1>3, FlattenJoins
<1> QED
  BY <1>4, <1>5 DEF Given, s

\* No code gives no text.
LEMMA GivenOfNone == Given(<<>>) = <<>>
<1>1. <<>> \in Seq(Byte) /\ Len(<<>>) = 0
  OBVIOUS
<1> DEFINE s == [i \in 1..Len(<<>>) |-> TextOf(<<>>[i])]
<1>2. s = <<>>
  BY <1>1
<1>3. FlattenSeq(s) = s
  BY <1>2 DEF FlattenSeq
<1> QED
  BY <1>2, <1>3 DEF Given
-----------------------------------------------------------------------------
\* The codes of the pair at place p of a text
Piece(text, p) ==
  IF p + 1 <= Len(text) /\ text[p] = text[p + 1] THEN <<text[p + 1] + 100>>
  ELSE SubSeq(text, p, Least(p + 1, Len(text)))

\* The codes of a pair give the pair, and are no more than it.
LEMMA PieceProperties ==
  ASSUME NEW text \in Seq(TextByte), NEW p \in 1..Len(text)
  PROVE  /\ Piece(text, p) \in Seq(0..199)
         /\ Len(Piece(text, p)) <= Least(p + 1, Len(text)) - (p - 1)
         /\ Given(Piece(text, p)) = SubSeq(text, p, Least(p + 1, Len(text)))
<1>1. Len(text) \in Nat /\ p \in Nat /\ p >= 1 /\ p <= Len(text) /\ text[p] \in TextByte
  BY ElementOfSeq
<1>2. CASE p + 1 <= Len(text)
  <2> DEFINE c == text[p]
             d == text[p + 1]
             e == d + 100
  <2>1. Least(p + 1, Len(text)) = p + 1
    BY <1>1, <1>2 DEF Least
  <2>2. c \in TextByte /\ d \in TextByte
    <3>1. p + 1 \in 1..Len(text)
      BY <1>1, <1>2
    <3> QED
      BY <1>1, <3>1, ElementOfSeq
  <2>3. SubSeq(text, p, p + 1) = <<c, d>>
    <3>1. /\ SubSeq(text, p, p + 1) \in Seq(TextByte) /\ Len(SubSeq(text, p, p + 1)) = 2
          /\ SubSeq(text, p, p + 1)[1] = c /\ SubSeq(text, p, p + 1)[2] = d
      BY <1>1, <1>2
    <3> HIDE DEF c, d
    <3>2. <<c, d>> \in Seq(TextByte) /\ Len(<<c, d>>) = 2 /\ <<c, d>>[1] = c /\ <<c, d>>[2] = d
      BY <2>2
    <3> DEFINE s == SubSeq(text, p, p + 1)
               t == <<c, d>>
    <3> HIDE DEF s, t
    <3>3. s \in Seq(TextByte) /\ t \in Seq(TextByte) /\ Len(s) = 2 /\ Len(t) = 2
          /\ \A i \in 1..2 : s[i] = t[i]
      BY <3>1, <3>2 DEF s, t
    <3>4. s = t
      BY ONLY <3>3, SeqEqual
    <3> QED
      BY <3>4 DEF s, t
  <2>4. CASE c = d
    <3>1. Piece(text, p) = <<e>>
      BY <1>2, <2>4 DEF Piece
    <3> HIDE DEF c, d
    <3>2. e \in Byte /\ e - 100 = d /\ e - 100 \in TextByte /\ e \in 0..199
      BY <2>2 DEF TextByte, Byte
    <3> HIDE DEF e
    <3>3. Given(<<e>>) = <<d, d>> /\ <<e>> \in Seq(0..199) /\ Len(<<e>>) = 1
      BY <3>2, GivenOfOne, TextOfCode
    <3>4. Given(Piece(text, p)) = SubSeq(text, p, Least(p + 1, Len(text)))
      BY <2>1, <2>3, <2>4, <3>1, <3>3, Zenon
    <3>5. Len(Piece(text, p)) = 1 /\ Piece(text, p) \in Seq(0..199)
      BY <3>1, <3>3
    <3>6. 1 <= Least(p + 1, Len(text)) - (p - 1)
      BY <1>1, <2>1
    <3> QED
      BY <3>4, <3>5, <3>6
  <2>5. CASE c # d
    <3>1. Piece(text, p) = SubSeq(text, p, p + 1)
      BY <2>1, <2>5 DEF Piece
    <3> HIDE DEF c, d
    <3>2. c \in Byte /\ d \in Byte /\ c \in 0..199 /\ d \in 0..199
      BY <2>2 DEF TextByte, Byte
    <3>3. <<c>> \in Seq(Byte) /\ <<d>> \in Seq(Byte) /\ <<c>> \o <<d>> = <<c, d>>
      <4>1. <<c>> \in Seq(Byte) /\ <<d>> \in Seq(Byte)
        BY <3>2
      <4>2. <<c>> \o <<d>> = <<c, d>>
        <5> DEFINE u == <<c>> \o <<d>>
                   v == <<c, d>>
        <5>1. u \in Seq(Byte) /\ Len(u) = 2 /\ u[1] = c /\ u[2] = d
          BY <3>2
        <5>2. v \in Seq(Byte) /\ Len(v) = 2 /\ v[1] = c /\ v[2] = d
          BY <3>2
        <5> HIDE DEF u, v
        <5>3. Len(u) = Len(v) /\ \A i \in 1..Len(u) : u[i] = v[i]
          BY <5>1, <5>2
        <5>4. u = v
          BY ONLY <5>1, <5>2, <5>3, SeqEqual
        <5> QED
          BY <5>4 DEF u, v
      <4> QED
        BY <4>1, <4>2
    <3>4. Given(<<c>> \o <<d>>) = Given(<<c>>) \o Given(<<d>>)
      BY <3>3, GivenConcat
    <3>5. Given(<<c>>) = <<c>> /\ Given(<<d>>) = <<d>>
      BY <2>2, <3>2, GivenOfOne, TextOfCode
    <3>6. Given(<<c, d>>) = <<c, d>>
      BY <3>3, <3>4, <3>5, Zenon
    <3>7. <<c, d>> \in Seq(0..199) /\ Len(<<c, d>>) = 2
      BY <3>2
    <3>8. Piece(text, p) = <<c, d>> /\ SubSeq(text, p, Least(p + 1, Len(text))) = <<c, d>>
      BY <2>1, <2>3, <3>1
    <3>9. 2 <= Least(p + 1, Len(text)) - (p - 1)
      BY <1>1, <2>1
    <3> QED
      BY <3>6, <3>7, <3>8, <3>9
  <2> QED
    BY <2>4, <2>5, Zenon
<1>3. CASE p = Len(text)
  <2> DEFINE c == text[p]
  <2>1. Least(p + 1, Len(text)) = p /\ ~(p + 1 <= Len(text))
    BY <1>1, <1>3 DEF Least
  <2>2. SubSeq(text, p, p) = <<c>>
    <3> DEFINE s == SubSeq(text, p, p)
               t == <<c>>
    <3>1. s \in Seq(TextByte) /\ Len(s) = 1 /\ s[1] = c
      BY <1>1
    <3>2. t \in Seq(TextByte) /\ Len(t) = 1 /\ t[1] = c
      BY <1>1
    <3> HIDE DEF s, t
    <3>3. Len(s) = Len(t) /\ \A i \in 1..Len(s) : s[i] = t[i]
      BY <3>1, <3>2
    <3>4. s = t
      BY ONLY <3>1, <3>2, <3>3, SeqEqual
    <3> QED
      BY <3>4 DEF s, t
  <2>3. Piece(text, p) = SubSeq(text, p, p)
    BY <2>1 DEF Piece
  <2>4. c \in TextByte
    BY <1>1
  <2> HIDE DEF c
  <2>5. c \in Byte /\ c \in 0..199
    BY <2>4 DEF TextByte, Byte
  <2>6. Given(<<c>>) = <<c>> /\ <<c>> \in Seq(0..199) /\ Len(<<c>>) = 1
    BY <2>4, <2>5, GivenOfOne, TextOfCode
  <2>7. Given(Piece(text, p)) = SubSeq(text, p, Least(p + 1, Len(text)))
    BY <2>1, <2>2, <2>3, <2>6, Zenon
  <2>8. Len(Piece(text, p)) = 1 /\ Piece(text, p) \in Seq(0..199)
    BY <2>2, <2>3, <2>6
  <2>9. 1 <= Least(p + 1, Len(text)) - (p - 1)
    BY <1>1, <2>1
  <2> QED
    BY <2>7, <2>8, <2>9
<1> QED
  BY <1>1, <1>2, <1>3

Half(text) == (Len(text) + 1) \div 2
Pieces(text) == [i \in 1..Half(text) |-> Piece(text, 2 * i - 1)]
Body(text) == FlattenSeq(Pieces(text))

\* There are half as many pairs as bytes, the last of which may be one byte.
LEMMA HalfProperties ==
  ASSUME NEW text \in Seq(TextByte)
  PROVE  /\ Len(text) \in Nat /\ Half(text) \in Nat
         /\ 2 * Half(text) >= Len(text) /\ 2 * Half(text) <= Len(text) + 1
<1>1. Len(text) \in Nat
  OBVIOUS
<1> QED
  BY <1>1 DEF Half

\* The pieces of a text are those of its pairs.
LEMMA PiecesProperties ==
  ASSUME NEW text \in Seq(TextByte)
  PROVE  /\ Pieces(text) \in Seq(Seq(0..199)) /\ Len(Pieces(text)) = Half(text)
         /\ \A i \in 1..Half(text) :
              2 * i - 1 \in 1..Len(text) /\ Pieces(text)[i] = Piece(text, 2 * i - 1)
<1>1. /\ Len(text) \in Nat /\ Half(text) \in Nat
      /\ 2 * Half(text) >= Len(text) /\ 2 * Half(text) <= Len(text) + 1
  BY HalfProperties
<1>2. \A i \in 1..Half(text) : 2 * i - 1 \in 1..Len(text)
  BY <1>1
<1>3. \A i \in 1..Half(text) : Piece(text, 2 * i - 1) \in Seq(0..199)
  BY <1>2, PieceProperties
<1> DEFINE P == Seq(0..199)
<1>4. Pieces(text) \in [1..Half(text) -> P]
  <2> HIDE DEF P
  <2> QED
    BY <1>3 DEF Pieces, P
<1>5. Pieces(text) \in Seq(P) /\ Len(Pieces(text)) = Half(text)
  <2> HIDE DEF P
  <2> QED
    BY <1>1, <1>4
<1> QED
  BY <1>2, <1>5 DEF Pieces

\* CodesOf in terms of its pieces.
LEMMA CodesArePieces ==
  ASSUME NEW text \in Seq(TextByte)
  PROVE  CodesOf(text) = <<StartOfBlock>> \o Body(text) \o <<EndOfBlock>>
<1> DEFINE half == (Len(text) + 1) \div 2
           codes == [i \in 1..half |->
                       IF 2 * i <= Len(text) /\ text[2 * i - 1] = text[2 * i]
                       THEN <<text[2 * i] + 100>>
                       ELSE SubSeq(text, 2 * i - 1, Least(2 * i, Len(text)))]
<1>1. \A i \in 1..half : (2 * i - 1) + 1 = 2 * i
  OBVIOUS
<1>2. codes = Pieces(text)
  <2>1. \A i \in 1..half :
          Piece(text, 2 * i - 1) = IF 2 * i <= Len(text) /\ text[2 * i - 1] = text[2 * i]
                                   THEN <<text[2 * i] + 100>>
                                   ELSE SubSeq(text, 2 * i - 1, Least(2 * i, Len(text)))
    BY <1>1, Zenon DEF Piece
  <2>2. Pieces(text) = [i \in 1..half |-> Piece(text, 2 * i - 1)]
    BY DEF Pieces, Half
  <2> QED
    BY <2>1, <2>2, Zenon
<1> QED
  BY <1>2, Zenon DEF CodesOf, Body

\* They give back the text, and are no more than its bytes.
LEMMA BodyProperties ==
  ASSUME NEW text \in Seq(TextByte)
  PROVE  /\ Body(text) \in Seq(0..199) /\ Len(Body(text)) <= Len(text)
         /\ Given(Body(text)) = text
<1> DEFINE s == Pieces(text)
           h == Half(text)
           L == Len(text)
<1>1. /\ L \in Nat /\ h \in Nat /\ 2 * h >= L /\ 2 * h <= L + 1
      /\ s \in Seq(Seq(0..199)) /\ Len(s) = h
      /\ \A i \in 1..h : 2 * i - 1 \in 1..L /\ s[i] = Piece(text, 2 * i - 1)
  BY HalfProperties, PiecesProperties
<1> HIDE DEF s, h
<1> PICK g : Joins(s, g)
  BY <1>1, JoinsExist
<1> DEFINE Good(i) ==
      /\ g[i] \in Seq(0..199) /\ Len(g[i]) <= Least(2 * i, L)
      /\ Given(g[i]) = SubSeq(text, 1, Least(2 * i, L))
    A == {i \in Nat : i <= h => Good(i)}
<1>2. 0 \in A
  <2>1. g[0] = <<>> /\ Least(2 * 0, L) = 0 /\ SubSeq(text, 1, 0) = <<>> /\ <<>> \in Seq(0..199)
        /\ Len(<<>>) = 0
    BY <1>1, SubSeqEmpty DEF Joins, Least
  <2>2. Len(g[0]) <= Least(2 * 0, L) /\ g[0] \in Seq(0..199)
    BY <2>1
  <2>3. Given(g[0]) = SubSeq(text, 1, Least(2 * 0, L))
    BY <2>1, GivenOfNone, Zenon
  <2> QED
    BY <2>2, <2>3
<1>3. ASSUME NEW i \in Nat, i \in A PROVE i + 1 \in A
  <2> SUFFICES ASSUME i + 1 <= h PROVE Good(i + 1)
    OBVIOUS
  <2> DEFINE p == 2 * i + 1
             q == Least(p + 1, L)
  <2>1. /\ i + 1 \in 1..h /\ (i + 1) - 1 = i /\ 2 * (i + 1) - 1 = p /\ 2 * (i + 1) = p + 1
        /\ p \in 1..L /\ q \in p..L /\ q <= p + 1 /\ Least(2 * i, L) = p - 1
    <3>1. i + 1 \in 1..h /\ 2 * i + 1 <= L
      BY <1>1
    <3> QED
      BY <1>1, <3>1 DEF Least
  <2>2. /\ g[i] \in Seq(0..199) /\ Len(g[i]) <= p - 1
        /\ Given(g[i]) = SubSeq(text, 1, p - 1)
    <3>1. Good(i)
      BY <1>1, <1>3, <2>1
    <3> QED
      BY <2>1, <3>1
  <2> DEFINE u == Piece(text, p)
  <2> HIDE DEF p, q, A
  <2>3. /\ u \in Seq(0..199) /\ Len(u) <= q - (p - 1)
        /\ Given(u) = SubSeq(text, p, q)
    BY <2>1, PieceProperties DEF q
  <2>4. g[i + 1] = g[i] \o u
    BY <1>1, <2>1 DEF Joins
  <2> HIDE DEF u
  <2> DEFINE v == g[i]
  <2>5. v \in Seq(0..199) /\ Len(v) <= p - 1 /\ Given(v) = SubSeq(text, 1, p - 1)
    BY <2>2
  <2> HIDE DEF v
  <2>6. v \o u \in Seq(0..199) /\ Len(v \o u) = Len(v) + Len(u) /\ Len(u) \in Nat /\ Len(v) \in Nat
    BY ONLY <2>3, <2>5, ConcatProperties, LenProperties
  <2>7. u \in Seq(Byte) /\ v \in Seq(Byte)
    BY <2>3, <2>5, SeqMonotonic DEF Byte
  <2>8. Given(v \o u) = Given(v) \o Given(u)
    BY <2>7, GivenConcat
  <2>9. SubSeq(text, 1, p - 1) \o SubSeq(text, p, q) = SubSeq(text, 1, q)
    <3> DEFINE k == p - 1
    <3>1. 1 \in 1..(L + 1) /\ k \in (1 - 1)..L /\ q \in k..L /\ k + 1 = p
      BY <1>1, <2>1
    <3> HIDE DEF k
    <3>2. SubSeq(text, 1, k) \o SubSeq(text, k + 1, q) = SubSeq(text, 1, q)
      BY <3>1, ConcatAdjacentSubSeq
    <3> QED
      BY <3>1, <3>2 DEF k
  <2>10. Given(v \o u) = SubSeq(text, 1, q)
    BY <2>3, <2>5, <2>8, <2>9
  <2>11. Len(v \o u) <= q
    BY <2>1, <2>3, <2>5, <2>6
  <2>12. g[i + 1] = v \o u /\ Least(2 * (i + 1), L) = q
    BY <2>1, <2>4 DEF v, q
  <2> QED
    BY <2>6, <2>10, <2>11, <2>12
<1>4. \A i \in Nat : i \in A
  <2> HIDE DEF A
  <2> QED
    BY <1>2, <1>3, Induction
<1>5. Good(h) /\ Least(2 * h, L) = L
  BY <1>1, <1>4 DEF Least
<1>6. FlattenSeq(s) = g[h]
  BY <1>1, FlattenJoins
<1>7. Body(text) = g[h]
  BY <1>6 DEF Body, s
<1>8. SubSeq(text, 1, L) = text
  BY SubSeqFull
<1> QED
  BY <1>5, <1>7, <1>8

\* Two sequences, one after the other
LEMMA ConcatParts ==
  ASSUME NEW S, NEW s \in Seq(S), NEW t \in Seq(S), NEW u, u = s \o t
  PROVE  /\ u \in Seq(S) /\ Len(u) = Len(s) + Len(t) /\ Len(s) \in Nat /\ Len(t) \in Nat
         /\ \A i \in 1..Len(s) : u[i] = s[i]
         /\ \A i \in 1..Len(t) : u[Len(s) + i] = t[i]
<1>1. /\ u \in Seq(S) /\ Len(u) = Len(s) + Len(t) /\ Len(s) \in Nat /\ Len(t) \in Nat
      /\ \A i \in 1..(Len(s) + Len(t)) : u[i] = IF i <= Len(s) THEN s[i] ELSE t[i - Len(s)]
  BY ConcatProperties
<1>2. ASSUME NEW i \in 1..Len(s) PROVE u[i] = s[i]
  BY <1>1
<1>3. ASSUME NEW i \in 1..Len(t) PROVE u[Len(s) + i] = t[i]
  BY <1>1
<1> QED
  BY <1>1, <1>2, <1>3

\* A sequence with an element before it, and one behind
LEMMA Wrapped ==
  ASSUME NEW S, NEW x \in S, NEW y \in S, NEW b \in Seq(S), NEW c, c = <<x>> \o b \o <<y>>
  PROVE  /\ c \in Seq(S) /\ Len(b) \in Nat /\ Len(c) = Len(b) + 2
         /\ c[1] = x /\ c[Len(c)] = y
         /\ \A i \in 1..Len(b) : c[i + 1] = b[i]
<1> DEFINE d == <<x>> \o b
           X == <<x>>
           Y == <<y>>
<1>1. X \in Seq(S) /\ Y \in Seq(S) /\ Len(X) = 1 /\ Len(Y) = 1 /\ X[1] = x /\ Y[1] = y
  OBVIOUS
<1>2. d = X \o b /\ c = d \o Y
  OBVIOUS
<1> HIDE DEF d, X, Y
<1>3. /\ d \in Seq(S) /\ Len(d) = Len(X) + Len(b) /\ Len(b) \in Nat
      /\ \A i \in 1..Len(X) : d[i] = X[i]
      /\ \A i \in 1..Len(b) : d[Len(X) + i] = b[i]
  BY <1>1, <1>2, ConcatParts
<1>4. /\ c \in Seq(S) /\ Len(c) = Len(d) + Len(Y)
      /\ \A i \in 1..Len(d) : c[i] = d[i]
      /\ \A i \in 1..Len(Y) : c[Len(d) + i] = Y[i]
  BY <1>1, <1>2, <1>3, ConcatParts
<1> QED
  BY <1>1, <1>3, <1>4

\* The codes of a text: all but the last go on.
LEMMA CodesProperties ==
  ASSUME NEW text \in Seq(TextByte), NEW c, c = CodesOf(text), NEW N, N = Len(c)
  PROVE  /\ c \in Seq(Byte) /\ N \in Nat /\ N >= 2 /\ N <= Len(text) + 2
         /\ c[N] = EndOfBlock /\ \A i \in 1..(N - 1) : IsCode(c[i])
         /\ Given(c) = text
<1>1. Body(text) \in Seq(0..199) /\ Len(Body(text)) <= Len(text) /\ Given(Body(text)) = text
  BY BodyProperties
<1>2. PICK b : b = Body(text)
  OBVIOUS
<1>3. b \in Seq(Byte) /\ Len(b) \in Nat /\ \A i \in 1..Len(b) : b[i] \in 0..199
  <2>1. b \in Seq(0..199) /\ 0..199 \subseteq Byte
    BY <1>1, <1>2 DEF Byte
  <2>2. b \in Seq(Byte)
    BY <2>1, SeqMonotonic
  <2>3. Len(b) \in Nat /\ \A i \in 1..Len(b) : b[i] \in 0..199
    BY <2>1, ElementOfSeq, LenProperties
  <2> QED
    BY <2>2, <2>3
<1>4. StartOfBlock \in Byte /\ EndOfBlock \in Byte /\ StartOfBlock >= 200 /\ EndOfBlock >= 200
  BY DEF StartOfBlock, EndOfBlock, Byte
<1>5. c = <<StartOfBlock>> \o b \o <<EndOfBlock>>
  BY <1>2, CodesArePieces
<1>6. /\ c \in Seq(Byte) /\ Len(c) = Len(b) + 2
      /\ c[1] = StartOfBlock /\ c[Len(c)] = EndOfBlock
      /\ \A i \in 1..Len(b) : c[i + 1] = b[i]
  BY <1>3, <1>4, <1>5, Wrapped
<1>7. ASSUME NEW i \in 1..(N - 1) PROVE IsCode(c[i])
  <2>1. CASE i = 1
    BY <1>6, <2>1 DEF IsCode
  <2>2. CASE i # 1
    <3>1. PICK j \in 1..Len(b) : j + 1 = i
      <4>1. i - 1 \in 1..Len(b) /\ (i - 1) + 1 = i
        BY <1>3, <1>6, <2>2
      <4> QED
        BY <4>1
    <3>2. c[i] = b[j] /\ b[j] \in 0..199
      BY <1>3, <1>6, <3>1
    <3>3. PICK v \in 0..199 : v = c[i]
      BY <3>2
    <3>4. v < 200
      OBVIOUS
    <3> QED
      BY <3>3, <3>4 DEF IsCode
  <2> QED
    BY <2>1, <2>2
<1>8. Given(c) = text
  <2>1. Given(<<StartOfBlock>>) = <<>> /\ Given(<<EndOfBlock>>) = <<>>
    BY <1>4, GivenOfOne, TextOfCode
  <2>2. PICK s, e : s = <<StartOfBlock>> /\ e = <<EndOfBlock>>
    OBVIOUS
  <2>3. s \in Seq(Byte) /\ e \in Seq(Byte)
    BY <1>4, <2>2
  <2>4. PICK d : d = s \o b
    OBVIOUS
  <2>5. d \in Seq(Byte) /\ c = d \o e
    BY <1>3, <1>5, <2>2, <2>3, <2>4, ConcatProperties
  <2>6. Given(d) = Given(s) \o Given(b) /\ Given(c) = Given(d) \o Given(e)
    BY <1>3, <2>3, <2>4, <2>5, GivenConcat
  <2>7. <<>> \o text = text /\ text \o <<>> = text
    BY ConcatEmptySeq
  <2> QED
    BY <1>1, <1>2, <2>1, <2>2, <2>6, <2>7, Zenon
<1>9. N = Len(b) + 2 /\ c[N] = EndOfBlock
  BY <1>6
<1> QED
  BY <1>1, <1>2, <1>3, <1>6, <1>7, <1>8, <1>9

\* The text of the first codes is a prefix of it.
LEMMA GivenOfPrefix ==
  ASSUME NEW text \in Seq(TextByte), NEW c, c = CodesOf(text), NEW N, N = Len(c),
         NEW k \in 0..N, NEW t, t = Given(SubSeq(c, 1, k))
  PROVE  /\ t \in Seq(TextByte) /\ Len(t) \in Nat /\ Len(t) <= Len(text)
         /\ Len(t) = Len(text) => t = text
         /\ k = N => t = text
<1>1. c \in Seq(Byte) /\ N \in Nat /\ N >= 2 /\ Given(c) = text
  BY CodesProperties
<1> DEFINE u == SubSeq(c, 1, k)
           v == SubSeq(c, k + 1, N)
<1>2. u \o v = c
  <2>1. 1 \in 1..(Len(c) + 1) /\ k \in (1 - 1)..Len(c) /\ N \in k..Len(c)
    BY <1>1
  <2>2. u \o v = SubSeq(c, 1, N)
    BY <1>1, <2>1, ConcatAdjacentSubSeq
  <2> QED
    BY <1>1, <2>2, SubSeqFull
<1>3. u \in Seq(Byte) /\ v \in Seq(Byte)
  BY <1>1
<1> HIDE DEF u, v
<1>4. text = Given(u) \o Given(v) /\ Given(u) \in Seq(TextByte) /\ Given(v) \in Seq(TextByte)
  BY <1>1, <1>2, <1>3, GivenConcat, GivenInSeq
<1> DEFINE w == Given(v)
<1>5. t \in Seq(TextByte) /\ w \in Seq(TextByte) /\ text = t \o w
  BY <1>4 DEF u
<1> HIDE DEF w
<1>6. Len(text) = Len(t) + Len(w) /\ Len(t) \in Nat /\ Len(w) \in Nat
  BY ONLY <1>5, ConcatProperties, LenProperties
<1>7. Len(t) = Len(text) => t = text
  <2> SUFFICES ASSUME Len(t) = Len(text) PROVE t = text
    OBVIOUS
  <2>1. Len(w) = 0
    BY <1>6
  <2>2. w = <<>>
    BY <1>5, <2>1, EmptySeq
  <2>3. t \o <<>> = t
    BY <1>5, ConcatEmptySeq
  <2> QED
    BY <1>5, <2>2, <2>3
<1>8. k = N => t = text
  BY <1>1, SubSeqFull
<1> QED
  BY <1>5, <1>6, <1>7, <1>8

\* r: what inflate() returns for the m codes of c after the first k
RunInflated(r, c, k, m) ==
  /\ r.taken = m /\ r.given = Given(SubSeq(c, k + 1, k + m))
  /\ r.err = IF k + m = Len(c) THEN "STREAM_END" ELSE "OK"
  /\ Given(SubSeq(c, 1, k)) \o r.given = Given(SubSeq(c, 1, k + m))

\* inflate() on a run of the codes takes all of it, and sees the end of the stream in the last.
LEMMA InflateRun ==
  ASSUME NEW text \in Seq(TextByte), NEW k \in Nat, NEW m \in Nat \ {0},
         k + m <= Len(CodesOf(text))
  PROVE  RunInflated(Inflate(SubSeq(CodesOf(text), k + 1, k + m)), CodesOf(text), k, m)
<1> PICK c : c = CodesOf(text)
  OBVIOUS
<1> PICK N : N = Len(c)
  OBVIOUS
<1> PICK a : a = SubSeq(c, k + 1, k + m)
  OBVIOUS
<1>7. N \in Nat /\ k + m <= N /\ k \in 0..N
  <2>1. N \in Nat /\ k + m <= N
    BY CodesProperties
  <2> QED
    BY <2>1
<1>1. /\ c \in Seq(Byte) /\ N \in Nat /\ N >= 2 /\ Given(c) = text
      /\ c[N] = EndOfBlock /\ \A i \in 1..(N - 1) : IsCode(c[i])
  BY CodesProperties
<1>2. /\ a \in Seq(Byte) /\ Len(a) = m /\ \A i \in 1..m : a[i] = c[k + i]
  <2>1. k \in Nat /\ m \in Nat /\ k + m <= Len(c)
    BY <1>1
  <2>2. \A i \in (k + 1)..(k + m) : c[i] \in Byte
    BY <1>1, <2>1, ElementOfSeq
  <2>3. /\ SubSeq(c, k + 1, k + m) \in Seq(Byte) /\ Len(SubSeq(c, k + 1, k + m)) = m
        /\ \A i \in 1..m : SubSeq(c, k + 1, k + m)[i] = c[k + i]
    <3> DEFINE p == k + 1
               q == k + m
    <3>1. p \in Int /\ q \in Int /\ p <= q /\ q - p + 1 = m /\ \A i \in p..q : c[i] \in Byte
      BY <2>1, <2>2
    <3> HIDE DEF p, q
    <3>2. /\ SubSeq(c, p, q) \in Seq(Byte) /\ Len(SubSeq(c, p, q)) = q - p + 1
          /\ \A i \in 1..(q - p + 1) : SubSeq(c, p, q)[i] = c[p + i - 1]
      BY <3>1, SubSeqProperties
    <3>3. \A i \in 1..m : p + i - 1 = k + i
      BY <2>1 DEF p
    <3> QED
      BY <3>1, <3>2, <3>3 DEF p, q
  <2> QED
    BY <2>3
<1> DEFINE bad == {i \in 1..Len(a) : ~IsCode(a[i])}
<1>3. [i \in 1..m |-> TextOf(a[i])] = [i \in 1..Len(a) |-> TextOf(a[i])]
  BY <1>2
<1>4. Given(SubSeq(c, 1, k)) \o Given(a) = Given(SubSeq(c, 1, k + m))
  <2> DEFINE q == k + m
             u == SubSeq(c, 1, k)
  <2>1. 1 \in 1..(Len(c) + 1) /\ k \in (1 - 1)..Len(c) /\ q \in k..Len(c)
    BY <1>1
  <2>2. u \o a = SubSeq(c, 1, q)
    <3> HIDE DEF q
    <3>1. SubSeq(c, 1, k) \o SubSeq(c, k + 1, q) = SubSeq(c, 1, q)
      BY <1>1, <2>1, ConcatAdjacentSubSeq
    <3> QED
      BY <3>1 DEF q
  <2>3. u \in Seq(Byte)
    BY <1>1
  <2> HIDE DEF u
  <2>4. Given(u \o a) = Given(u) \o Given(a)
    BY <1>2, <2>3, GivenConcat
  <2> QED
    BY <2>2, <2>4 DEF u
<1>5. ASSUME k + m = N
      PROVE  Inflate(a).taken = m /\ Inflate(a).given = Given(a) /\ Inflate(a).err = "STREAM_END"
  <2>1. a[m] = EndOfBlock /\ ~IsCode(a[m])
    BY <1>1, <1>2, <1>5 DEF IsCode, EndOfBlock, StartOfBlock
  <2>2. \A i \in 1..m : i # m => IsCode(a[i])
    <3> SUFFICES ASSUME NEW i \in 1..m, i # m PROVE IsCode(a[i])
      OBVIOUS
    <3>1. k + i \in 1..(N - 1)
      BY <1>1, <1>5
    <3> QED
      BY <1>1, <1>2, <3>1
  <2>3. m \in bad /\ \A i \in bad : i = m
    <3>1. m \in 1..Len(a) /\ 1..Len(a) = 1..m
      BY <1>2
    <3> QED
      BY <2>1, <2>2, <3>1, Zenon
  <2> DEFINE taken == CHOOSE i \in bad : \A j \in bad : i <= j
  <2>4. bad # {}
    BY <2>3
  <2>5. Inflate(a) = [taken |-> taken,
                      given |-> FlattenSeq([i \in 1..taken |-> TextOf(a[i])]),
                      err |-> IF a[taken] = EndOfBlock THEN "STREAM_END" ELSE "DATA_ERROR"]
    BY <2>4, Zenon DEF Inflate
  <2> HIDE DEF bad
  <2>6. taken = m
    <3>1. \E i \in bad : \A j \in bad : i <= j
      BY <2>3
    <3>2. taken \in bad
      BY <3>1
    <3> QED
      BY <2>3, <3>2
  <2> HIDE DEF taken
  <2>7. Inflate(a) = [taken |-> m, given |-> Given(a), err |-> "STREAM_END"]
    BY <1>3, <2>1, <2>5, <2>6, Zenon DEF Given
  <2> QED
    BY <2>7
<1>6. ASSUME k + m # N
      PROVE  Inflate(a).taken = m /\ Inflate(a).given = Given(a) /\ Inflate(a).err = "OK"
  <2>1. \A i \in 1..m : IsCode(a[i])
    <3> SUFFICES ASSUME NEW i \in 1..m PROVE IsCode(a[i])
      OBVIOUS
    <3>1. k + i \in 1..(N - 1)
      BY <1>1, <1>6
    <3> QED
      BY <1>1, <1>2, <3>1
  <2>2. bad = {}
    BY <1>2, <2>1
  <2>3. a # <<>>
    BY <1>2
  <2>4. Inflate(a) = [taken |-> Len(a), given |-> Given(a), err |-> "OK"]
    <3>1. Inflate(a) = [taken |-> Len(a),
                        given |-> FlattenSeq([i \in 1..Len(a) |-> TextOf(a[i])]),
                        err |-> IF a = <<>> THEN "BUF_ERROR" ELSE "OK"]
      BY <2>2, Zenon DEF Inflate
    <3> QED
      BY <2>3, <3>1, Zenon DEF Given
  <2> QED
    BY <1>2, <2>4
<1>8. RunInflated(Inflate(a), c, k, m)
  <2>1. /\ Inflate(a).taken = m /\ Inflate(a).given = Given(a)
        /\ Inflate(a).err = IF k + m = N THEN "STREAM_END" ELSE "OK"
    BY <1>5, <1>6
  <2> QED
    BY <1>4, <2>1, Zenon DEF RunInflated
<1> QED
  BY <1>8, Zenon

MaxInt == 2147483647
-----------------------------------------------------------------------------
(* A gzip file.                                                            *)

\* The number that four bytes stand for
LongOf(p) == p[1] + 256 * p[2] + 65536 * p[3] + 16777216 * p[4]

\* putlong writes four bytes that stand for the number, if an int can hold it.
LEMMA PutlongProperties ==
  ASSUME NEW x \in Nat, x <= MaxInt, NEW p, p = Putlong(x)
  PROVE  /\ p \in Seq(Byte) /\ Len(p) = 4
         /\ p[1] \in Byte /\ p[2] \in Byte /\ p[3] \in Byte /\ p[4] \in 0..127
         /\ LongOf(p) = x
<1> DEFINE a == x % 256
           b == (x \div 256) % 256
           c == (x \div 65536) % 256
           d == x \div 16777216
<1>0. x \in Nat /\ x <= 2147483647
  BY SMT DEF MaxInt
<1> PICK q1 : q1 = x \div 256
  OBVIOUS
<1> PICK q2 : q2 = x \div 65536
  OBVIOUS
<1>7. q1 \in Nat /\ q2 \in Nat /\ d \in Nat /\ a \in 0..255 /\ x = 256 * q1 + a
  BY ONLY <1>0, q1 = x \div 256, q2 = x \div 65536, SMT
<1>8. b \in 0..255 /\ q1 = 256 * q2 + b
  BY ONLY <1>0, q1 = x \div 256, q2 = x \div 65536, SMT
<1>9. c \in 0..255 /\ q2 = 256 * d + c /\ d <= 127
  BY ONLY <1>0, q2 = x \div 65536, SMT
<1>1. a \in 0..255 /\ b \in 0..255 /\ c \in 0..255 /\ d \in 0..127
  BY ONLY <1>7, <1>8, <1>9, SMT
<1>2. a + 256 * b + 65536 * c + 16777216 * d = x
  BY ONLY <1>7, <1>8, <1>9, SMT
<1>3. p = <<a, b, c, d>>
  BY SMT DEF Putlong
<1> HIDE DEF a, b, c, d
<1>4. p \in Seq(Byte) /\ Len(p) = 4 /\ p[1] = a /\ p[2] = b /\ p[3] = c /\ p[4] = d
  BY <1>1, <1>3 DEF Byte
<1> QED
  BY <1>1, <1>2, <1>4, SMT DEF Byte, LongOf

\* The int of four bytes whose last is below 128 is the number they stand for.
LEMMA SignedIntOfBytes ==
  ASSUME NEW p, p[1] \in Byte, p[2] \in Byte, p[3] \in Byte, p[4] \in 0..127
  PROVE  SignedInt(p) = LongOf(p)
<1> DEFINE a == p[1]
           b == p[2]
           c == p[3]
           d == p[4]
<1>1. a \in Byte /\ b \in Byte /\ c \in Byte /\ d \in 0..127
  OBVIOUS
<1>2. SignedInt(p) = a + 256 * b + 65536 * c + 16777216 * (d % 128)
                     - (IF d < 128 THEN 0 ELSE 2147483647) - (IF d < 128 THEN 0 ELSE 1)
  BY SMT DEF SignedInt
<1> HIDE DEF a, b, c, d
<1>3. d % 128 = d /\ d < 128
  BY <1>1
<1>4. SignedInt(p) = a + 256 * b + 65536 * c + 16777216 * d
  BY <1>1, <1>2, <1>3, SMT DEF Byte
<1> QED
  BY <1>4, SMT DEF a, b, c, d, LongOf

\* A byte of a text is a number.
LEMMA TextIsNat == TextByte \subseteq Nat
  BY DEF TextByte

\* A checksum fits an int of four bytes.
LEMMA CrcRange ==
  ASSUME NEW text \in Seq(TextByte)
  PROVE  Crc32(text) \in Nat /\ Crc32(text) <= MaxInt
<1>1. CASE text = <<>>
  BY <1>1, SMT DEF Crc32, MaxInt
<1>2. CASE text # <<>>
  <2>1. Len(text) \in Nat /\ Len(text) >= 1
    BY <1>2, EmptySeq
  <2>2. text[1] \in TextByte /\ text[Len(text)] \in TextByte
    BY <2>1, ElementOfSeq
  <2>3. PICK x \in Nat : x = Len(text) * 257 + 5 * text[1] + 31 * text[Len(text)]
    <3>1. text[1] \in Nat /\ text[Len(text)] \in Nat
      BY <2>2, TextIsNat
    <3> QED
      BY ONLY <2>1, <3>1, SMT
  <2>4. Crc32(text) = x % 61441
    BY <1>2, <2>3, SMT DEF Crc32
  <2> QED
    BY ONLY <2>3, <2>4, SMT DEF MaxInt
<1> QED
  BY <1>1, <1>2

\* Four sequences, one after the other
LEMMA FourParts ==
  ASSUME NEW S, NEW s \in Seq(S), NEW t \in Seq(S), NEW u \in Seq(S), NEW v \in Seq(S),
         NEW m, m = s \o t \o u \o v
  PROVE  /\ m \in Seq(S) /\ Len(m) = Len(s) + Len(t) + Len(u) + Len(v)
         /\ \A i \in 1..Len(s) : m[i] = s[i]
         /\ \A i \in 1..Len(t) : m[Len(s) + i] = t[i]
         /\ \A i \in 1..Len(u) : m[Len(s) + Len(t) + i] = u[i]
         /\ \A i \in 1..Len(v) : m[Len(s) + Len(t) + Len(u) + i] = v[i]
<1>1. PICK st : st = s \o t
  OBVIOUS
<1>2. PICK stu : stu = st \o u
  OBVIOUS
<1>3. m = stu \o v
  BY <1>1, <1>2
<1>4. /\ st \in Seq(S) /\ Len(st) = Len(s) + Len(t) /\ Len(s) \in Nat /\ Len(t) \in Nat
      /\ \A i \in 1..Len(s) : st[i] = s[i]
      /\ \A i \in 1..Len(t) : st[Len(s) + i] = t[i]
  BY <1>1, ConcatParts
<1>5. /\ stu \in Seq(S) /\ Len(stu) = Len(st) + Len(u) /\ Len(u) \in Nat
      /\ \A i \in 1..Len(st) : stu[i] = st[i]
      /\ \A i \in 1..Len(u) : stu[Len(st) + i] = u[i]
  <2>1. st \in Seq(S) /\ u \in Seq(S)
    BY <1>4
  <2> QED
    BY ONLY <1>2, <2>1, ConcatParts
<1>6. /\ m \in Seq(S) /\ Len(m) = Len(stu) + Len(v) /\ Len(v) \in Nat
      /\ \A i \in 1..Len(stu) : m[i] = stu[i]
      /\ \A i \in 1..Len(v) : m[Len(stu) + i] = v[i]
  <2>1. stu \in Seq(S) /\ v \in Seq(S)
    BY <1>5
  <2> QED
    BY ONLY <1>3, <2>1, ConcatParts
<1>7. ASSUME NEW i \in 1..Len(s) PROVE m[i] = s[i]
  BY <1>4, <1>5, <1>6
<1>8. ASSUME NEW i \in 1..Len(t) PROVE m[Len(s) + i] = t[i]
  BY <1>4, <1>5, <1>6
<1>9. ASSUME NEW i \in 1..Len(u) PROVE m[Len(s) + Len(t) + i] = u[i]
  BY <1>4, <1>5, <1>6
<1> QED
  BY <1>4, <1>5, <1>6, <1>7, <1>8, <1>9

\* What comes before the codes
MemberHead(described) ==
  IF described THEN GzHead(26) \o <<97, 0>> \o <<98, 99, 0>> \o <<0, 7>> ELSE GzHead(0)
SizeOfHead(described) == IF described THEN 17 ELSE 10

\* The header of a file, with its optional fields or without.
LEMMA HeadProperties ==
  ASSUME NEW h, NEW described \in BOOLEAN, h = MemberHead(described)
  PROVE  /\ h \in Seq(Byte) /\ Len(h) = SizeOfHead(described)
         /\ h[1] = 31 /\ h[2] = 139 /\ h[4] = IF described THEN 26 ELSE 0
         /\ described => /\ h[11] = 97 /\ h[12] = 0 /\ h[13] = 98 /\ h[14] = 99 /\ h[15] = 0
<1>1. \A f \in Byte : /\ GzHead(f) \in Seq(Byte) /\ Len(GzHead(f)) = 10
                      /\ GzHead(f)[1] = 31 /\ GzHead(f)[2] = 139 /\ GzHead(f)[4] = f
  BY DEF GzHead, Byte
<1>2. CASE ~described
  <2>1. h = GzHead(0) /\ 0 \in Byte
    BY <1>2 DEF MemberHead, Byte
  <2> QED
    BY <1>1, <1>2, <2>1 DEF SizeOfHead
<1>3. CASE described
  <2>1. PICK s : s = GzHead(26)
    OBVIOUS
  <2>2. PICK t : t = <<97, 0>>
    OBVIOUS
  <2>3. PICK u : u = <<98, 99, 0>>
    OBVIOUS
  <2>4. PICK v : v = <<0, 7>>
    OBVIOUS
  <2>5. /\ s \in Seq(Byte) /\ Len(s) = 10 /\ s[1] = 31 /\ s[2] = 139 /\ s[4] = 26
    BY <1>1, <2>1 DEF Byte
  <2>6. /\ t \in Seq(Byte) /\ Len(t) = 2 /\ t[1] = 97 /\ t[2] = 0
        /\ u \in Seq(Byte) /\ Len(u) = 3 /\ u[1] = 98 /\ u[2] = 99 /\ u[3] = 0
        /\ v \in Seq(Byte) /\ Len(v) = 2
    BY <2>2, <2>3, <2>4 DEF Byte
  <2>7. h = s \o t \o u \o v
    BY <1>3, <2>1, <2>2, <2>3, <2>4, Zenon DEF MemberHead
  <2>8. /\ h \in Seq(Byte) /\ Len(h) = Len(s) + Len(t) + Len(u) + Len(v)
        /\ \A i \in 1..Len(s) : h[i] = s[i]
        /\ \A i \in 1..Len(t) : h[Len(s) + i] = t[i]
        /\ \A i \in 1..Len(u) : h[Len(s) + Len(t) + i] = u[i]
    <3>1. s \in Seq(Byte) /\ t \in Seq(Byte) /\ u \in Seq(Byte) /\ v \in Seq(Byte)
      BY <2>5, <2>6
    <3> QED
      BY ONLY <2>7, <3>1, FourParts
  <2>9. /\ Len(h) = 17 /\ h[1] = 31 /\ h[2] = 139 /\ h[4] = 26
        /\ h[11] = 97 /\ h[12] = 0 /\ h[13] = 98 /\ h[14] = 99 /\ h[15] = 0
    BY <2>5, <2>6, <2>8
  <2> QED
    BY <1>3, <2>8, <2>9 DEF SizeOfHead
<1> QED
  BY <1>2, <1>3

\* m: a head h of k bytes, the codes c, and a trailer that ends in the length of the text
MemberParts(m, h, k, c, text) ==
  /\ m \in Seq(Byte) /\ Len(m) = k + Len(c) + 8
  /\ \A i \in 1..k : m[i] = h[i]
  /\ \A i \in 1..Len(c) : m[k + i] = c[i]
  /\ \A i \in 1..4 : m[k + Len(c) + 4 + i] = Putlong(Len(text))[i]

\* A file has its header, its codes and its trailer one after the other.
LEMMA MemberProperties ==
  ASSUME NEW text \in Seq(TextByte), Len(text) <= MaxInt, NEW described \in BOOLEAN
  PROVE  MemberParts(Member(text, described), MemberHead(described), SizeOfHead(described),
                     CodesOf(text), text)
<1> PICK m : m = Member(text, described)
  OBVIOUS
<1> PICK h : h = MemberHead(described)
  OBVIOUS
<1> PICK skip : skip = SizeOfHead(described)
  OBVIOUS
<1> PICK c : c = CodesOf(text)
  OBVIOUS
<1>1. h \in Seq(Byte) /\ Len(h) = skip /\ skip \in Nat
  BY HeadProperties DEF SizeOfHead
<1>2. c \in Seq(Byte) /\ Len(c) \in Nat
  BY CodesProperties
<1>3. PICK p : p = Putlong(Crc32(text))
  OBVIOUS
<1>4. PICK q : q = Putlong(Len(text))
  OBVIOUS
<1>5. p \in Seq(Byte) /\ Len(p) = 4
  <2>1. Crc32(text) \in Nat /\ Crc32(text) <= MaxInt
    BY CrcRange, Zenon
  <2> QED
    BY <1>3, <2>1, PutlongProperties
<1>6. q \in Seq(Byte) /\ Len(q) = 4
  <2>1. Len(text) \in Nat /\ Len(text) <= MaxInt
    OBVIOUS
  <2> QED
    BY <1>4, <2>1, PutlongProperties
<1>7. m = h \o c \o p \o q
  BY <1>3, <1>4, Zenon DEF Member, MemberHead
<1>8. /\ m \in Seq(Byte) /\ Len(m) = Len(h) + Len(c) + Len(p) + Len(q)
      /\ \A i \in 1..Len(h) : m[i] = h[i]
      /\ \A i \in 1..Len(c) : m[Len(h) + i] = c[i]
      /\ \A i \in 1..Len(q) : m[Len(h) + Len(c) + Len(p) + i] = q[i]
  <2>1. h \in Seq(Byte) /\ c \in Seq(Byte) /\ p \in Seq(Byte) /\ q \in Seq(Byte)
    BY <1>1, <1>2, <1>5, <1>6
  <2> QED
    BY ONLY <1>7, <2>1, FourParts
<1>9. ASSUME NEW i \in 1..4 PROVE m[skip + Len(c) + 4 + i] = q[i]
  <2>1. i \in 1..Len(q) /\ Len(h) + Len(c) + Len(p) + i = skip + Len(c) + 4 + i
    BY <1>1, <1>2, <1>5, <1>6
  <2> QED
    BY <1>8, <2>1, Zenon
<1>10. MemberParts(m, h, skip, c, text)
  BY <1>1, <1>2, <1>4, <1>5, <1>6, <1>8, <1>9 DEF MemberParts
<1> QED
  BY <1>10, Zenon
-----------------------------------------------------------------------------
(* What UnCompressGZ finds in a file of one member.                        *)

\* A string ends at the first zero.
LEMMA StringEndsAtZero ==
  ASSUME NEW file, NEW from \in Nat, NEW e \in Nat, from <= e, Len(file) \in Nat, e < Len(file),
         file[e + 1] = 0, \A i \in from..(e - 1) : file[i + 1] # 0
  PROVE  StringLength(file, from) = e - from + 1
<1> DEFINE ends == {i \in from..(Len(file) - 1) : file[i + 1] = 0}
<1>1. e \in ends
  OBVIOUS
<1>2. \A j \in ends : e <= j
  <2> SUFFICES ASSUME NEW j \in ends, j < e PROVE FALSE
    OBVIOUS
  <2>1. j \in from..(e - 1) /\ file[j + 1] = 0
    OBVIOUS
  <2> QED
    BY <2>1
<1>3. \A i \in ends : (\A j \in ends : i <= j) => i = e
  BY <1>1, <1>2
<1>4. (CHOOSE i \in ends : \A j \in ends : i <= j) = e
  <2> HIDE DEF ends
  <2> QED
    BY <1>1, <1>2, <1>3
<1>5. ends # {}
  BY <1>1
<1>6. StringLength(file, from) = IF ends = {} THEN Len(file) - from
                                 ELSE (CHOOSE i \in ends : \A j \in ends : i <= j) - from + 1
  BY DEF StringLength
<1> HIDE DEF ends
<1> QED
  BY <1>4, <1>5, <1>6

\* The flags of the two headers
LEMMA Bits ==
  /\ ~HasBit(0, 1) /\ ~HasBit(0, 2) /\ ~HasBit(0, 8) /\ ~HasBit(0, 16)
  /\ ~HasBit(26, 1) /\ HasBit(26, 2) /\ HasBit(26, 8) /\ HasBit(26, 16)
  BY DEF HasBit

\* GetGZHead finds the compressed data of a file and the length of its text.
LEMMA HeadOfMember ==
  ASSUME NEW text \in Seq(TextByte), Len(text) <= MaxInt, NEW described \in BOOLEAN,
         NEW m, m = Member(text, described), NEW N, N = Len(CodesOf(text)),
         NEW g, g = GetGZHead(m)
  PROVE  /\ g.ok /\ g.destlen = Len(text) /\ g.srclen = N /\ g.start = SizeOfHead(described)
<1>1. PICK c : c = CodesOf(text)
  OBVIOUS
<1>2. PICK h : h = MemberHead(described)
  OBVIOUS
<1>3. PICK k : k = SizeOfHead(described)
  OBVIOUS
<1>4. c \in Seq(Byte) /\ N \in Nat /\ N >= 2
  BY <1>1, CodesProperties
<1>5. /\ Len(h) = k /\ h[1] = 31 /\ h[2] = 139 /\ h[4] = (IF described THEN 26 ELSE 0)
      /\ described => h[11] = 97 /\ h[12] = 0 /\ h[13] = 98 /\ h[14] = 99 /\ h[15] = 0
  BY <1>2, <1>3, HeadProperties
<1>6. k = IF described THEN 17 ELSE 10
  BY <1>3 DEF SizeOfHead
<1>7. /\ m \in Seq(Byte) /\ Len(m) = k + N + 8
      /\ \A i \in 1..k : m[i] = h[i]
      /\ \A i \in 1..4 : m[k + N + 4 + i] = Putlong(Len(text))[i]
  <2>1. N = Len(c)
    BY <1>1
  <2>2. MemberParts(m, h, k, c, text)
    BY <1>1, <1>2, <1>3, MemberProperties, Zenon
  <2> QED
    BY <2>1, <2>2 DEF MemberParts
<1>8. /\ m[1] = 31 /\ m[2] = 139 /\ m[4] = (IF described THEN 26 ELSE 0)
      /\ described => m[11] = 97 /\ m[12] = 0 /\ m[13] = 98 /\ m[14] = 99 /\ m[15] = 0
  <2>1. /\ 1 \in 1..k /\ 2 \in 1..k /\ 4 \in 1..k
        /\ described => 11 \in 1..k /\ 12 \in 1..k /\ 13 \in 1..k /\ 14 \in 1..k /\ 15 \in 1..k
    BY <1>6
  <2>2. m[1] = h[1] /\ m[2] = h[2] /\ m[4] = h[4]
    BY <1>7, <2>1, Zenon
  <2>3. described => /\ m[11] = h[11] /\ m[12] = h[12] /\ m[13] = h[13] /\ m[14] = h[14]
                     /\ m[15] = h[15]
    BY <1>7, <2>1, Zenon
  <2> QED
    BY <1>5, <2>2, <2>3, Zenon
<1> DEFINE total == Len(m)
           flags == m[4]
           s0 == IF HasBit(flags, 1) THEN 10 + m[11] + 2 ELSE 10
           s1 == IF HasBit(flags, 8) THEN s0 + StringLength(m, s0) ELSE s0
           s2 == IF HasBit(flags, 16) THEN s1 + StringLength(m, s1) ELSE s1
           skip == IF HasBit(flags, 2) THEN s2 + 2 ELSE s2
<1>9. skip = k
  <2>1. CASE ~described
    BY <1>6, <1>8, <2>1, Bits
  <2>2. CASE described
    <3>0. m[4] = 26 /\ m[11] = 97 /\ m[12] = 0 /\ m[13] = 98 /\ m[14] = 99 /\ m[15] = 0
      BY <1>8, <2>2, Zenon
    <3>1. flags = 26 /\ Len(m) \in Nat /\ Len(m) > 20
      <4>1. Len(m) = 17 + N + 8
        BY <1>6, <1>7, <2>2, Zenon
      <4> QED
        BY <1>4, <3>0, <4>1
    <3>2. StringLength(m, 10) = 2
      <4>1. \A i \in 10..10 : m[i + 1] # 0
        BY <3>0
      <4>2. m[11 + 1] = 0
        BY <3>0
      <4>3. StringLength(m, 10) = 11 - 10 + 1
        BY <3>1, <4>1, <4>2, StringEndsAtZero
      <4> QED
        BY <4>3
    <3>3. StringLength(m, 12) = 3
      <4>1. \A i \in 12..13 : m[i + 1] # 0
        BY <3>0
      <4>2. m[14 + 1] = 0
        BY <3>0
      <4>3. StringLength(m, 12) = 14 - 12 + 1
        BY <3>1, <4>1, <4>2, StringEndsAtZero
      <4> QED
        BY <4>3
    <3>4. s0 = 10
      BY <3>1, Bits
    <3>5. s1 = 12
      BY <3>1, <3>2, <3>4, Bits
    <3>6. s2 = 15
      BY <3>1, <3>3, <3>5, Bits
    <3>7. skip = s2 + 2
      BY <3>1, Bits, Zenon
    <3> HIDE DEF s2
    <3>8. skip = 17
      BY <3>6, <3>7
    <3> QED
      BY <1>6, <2>2, <3>8, Zenon
  <2> QED
    BY <2>1, <2>2
<1>10. g = IF total <= 10 \/ m[1] # 31 \/ m[2] # 139 \/ total <= skip + 8 THEN [ok |-> FALSE]
           ELSE [ok |-> TRUE, destlen |-> SignedInt(SubSeq(m, total - 3, total)),
                 srclen |-> total - skip - 8, start |-> skip]
  BY DEF GetGZHead
<1> HIDE DEF skip, total
<1>11. total = k + N + 8
  BY <1>7 DEF total
<1>12. ~(total <= 10 \/ m[1] # 31 \/ m[2] # 139 \/ total <= skip + 8)
  BY <1>4, <1>6, <1>8, <1>9, <1>11
<1>13. g = [ok |-> TRUE, destlen |-> SignedInt(SubSeq(m, total - 3, total)),
            srclen |-> total - skip - 8, start |-> skip]
  BY <1>10, <1>12
<1>14. total - skip - 8 = N
  BY <1>4, <1>6, <1>9, <1>11
<1>15. SignedInt(SubSeq(m, total - 3, total)) = Len(text)
  <2>1. PICK b : b = SubSeq(m, total - 3, total)
    OBVIOUS
  <2>2. PICK q : q = Putlong(Len(text))
    OBVIOUS
  <2>3. b[1] = m[total - 3] /\ b[2] = m[total - 2] /\ b[3] = m[total - 1] /\ b[4] = m[total]
    <3>1. total \in Nat /\ total > 10 /\ total = Len(m)
      BY <1>4, <1>6, <1>11 DEF total
    <3> QED
      BY <1>7, <2>1, <3>1
  <2>4. m[total - 3] = q[1] /\ m[total - 2] = q[2] /\ m[total - 1] = q[3] /\ m[total] = q[4]
    <3>1. /\ k + N + 4 + 1 = total - 3 /\ k + N + 4 + 2 = total - 2
          /\ k + N + 4 + 3 = total - 1 /\ k + N + 4 + 4 = total
      BY <1>4, <1>6, <1>11
    <3>2. 1 \in 1..4 /\ 2 \in 1..4 /\ 3 \in 1..4 /\ 4 \in 1..4
      OBVIOUS
    <3> QED
      BY <1>7, <2>2, <3>1, <3>2
  <2>5. Len(text) \in Nat
    OBVIOUS
  <2>6. /\ q[1] \in Byte /\ q[2] \in Byte /\ q[3] \in Byte /\ q[4] \in 0..127
        /\ LongOf(q) = Len(text)
    BY <2>2, <2>5, PutlongProperties
  <2>7. b[1] = q[1] /\ b[2] = q[2] /\ b[3] = q[3] /\ b[4] = q[4]
    BY <2>3, <2>4
  <2>8. SignedInt(b) = LongOf(b)
    BY <2>6, <2>7, SignedIntOfBytes, Zenon
  <2>9. LongOf(b) = LongOf(q)
    BY <2>7, SMT DEF LongOf
  <2> QED
    BY <2>1, <2>6, <2>8, <2>9, Zenon
<1> QED
  BY <1>3, <1>9, <1>13, <1>14, <1>15

\* What the loop reads of such a file is a run of its codes.
LEMMA WindowOfMember ==
  ASSUME NEW text \in Seq(TextByte), Len(text) <= MaxInt, NEW described \in BOOLEAN,
         NEW c, c = CodesOf(text), NEW s, s.file = Member(text, described),
         s.start = SizeOfHead(described),
         NEW k \in Nat, NEW m \in Nat, k + m <= Len(c)
  PROVE  BytesAt(s, k, m) = SubSeq(c, k + 1, k + m)
<1>1. PICK f : f = Member(text, described)
  OBVIOUS
<1>2. PICK start : start = SizeOfHead(described)
  OBVIOUS
<1>3. PICK pad : pad = [i \in 1..Z_BUFSIZE |-> NoByte]
  OBVIOUS
<1>4. PICK t : t = f \o pad
  OBVIOUS
<1>5. BytesAt(s, k, m) = SubSeq(t, start + k + 1, start + k + m)
  BY <1>1, <1>2, <1>3, <1>4, Zenon DEF BytesAt
<1>6. c \in Seq(Byte) /\ Len(c) \in Nat
  BY CodesProperties
<1>7. start \in Nat
  BY <1>2 DEF SizeOfHead
<1>8. /\ f \in Seq(Byte) /\ Len(f) = start + Len(c) + 8
      /\ \A i \in 1..Len(c) : f[start + i] = c[i]
  <2>1. MemberParts(f, MemberHead(described), start, c, text)
    BY <1>1, <1>2, MemberProperties, Zenon
  <2> QED
    BY <2>1 DEF MemberParts
<1>9. f \in Seq(Int) /\ pad \in Seq(Int)
  <2>1. Byte \subseteq Int
    BY DEF Byte
  <2>2. f \in Seq(Int)
    BY <1>8, <2>1, SeqMonotonic
  <2>3. pad \in Seq(Int)
    BY <1>3, GzipAssumption DEF NoByte
  <2> QED
    BY <2>2, <2>3
<1>10. /\ t \in Seq(Int) /\ Len(t) = Len(f) + Len(pad) /\ Len(pad) \in Nat
       /\ \A i \in 1..Len(f) : t[i] = f[i]
  BY ONLY <1>4, <1>9, ConcatParts
<1>11. ASSUME NEW i \in 1..m PROVE t[start + k + i] = c[k + i]
  <2>1. start + k + i \in 1..Len(f) /\ k + i \in 1..Len(c) /\ start + (k + i) = start + k + i
    BY <1>6, <1>7, <1>8
  <2> QED
    BY <1>8, <1>10, <2>1, Zenon
<1>12. PICK a : a = SubSeq(t, start + k + 1, start + k + m)
  OBVIOUS
<1>13. PICK b : b = SubSeq(c, k + 1, k + m)
  OBVIOUS
<1>14. /\ a \in Seq(Int) /\ Len(a) = m /\ \A i \in 1..m : a[i] = t[start + k + i]
  <2>1. start + k + m <= Len(t) /\ Len(t) \in Nat
    BY <1>6, <1>7, <1>8, <1>10
  <2>2. start + k + 1 \in 1..(start + k + m + 1) /\ start + k + m \in Nat
    BY <1>7
  <2> QED
    BY <1>7, <1>10, <1>12, <2>1, <2>2
<1>15. /\ b \in Seq(Byte) /\ Len(b) = m /\ \A i \in 1..m : b[i] = c[k + i]
  <2>1. k + 1 \in 1..(Len(c) + 1) /\ k + m \in 0..Len(c) /\ (k + m) - (k + 1) + 1 = m
    BY ONLY <1>6, k \in Nat, m \in Nat, k + m <= Len(c)
  <2> QED
    BY ONLY <1>6, <1>13, <2>1, k \in Nat, m \in Nat, k + m <= Len(c)
<1>16. a = b
  <2>1. Len(a) = Len(b) /\ \A i \in 1..Len(a) : a[i] = b[i]
    BY <1>11, <1>14, <1>15
  <2> QED
    BY <1>14, <1>15, <2>1, SeqEqual
<1> QED
  BY <1>5, <1>12, <1>13, <1>16
-----------------------------------------------------------------------------
(* The loop of UnCompressGZ on a file of one member.                       *)

GzRecord ==
  [pc : {"idle", "inflate", "end", "returned"}, file : Seq(Byte), start : Nat, gzlen : Nat,
   next_in : Nat, avail_in : Nat,
   total_in : Nat, avail_out : Nat, text : Seq(TextByte), from : Nat, turns : Nat,
   z_err : {"OK", "STREAM_END", "DATA_ERROR", "BUF_ERROR"}, z_eof : BOOLEAN,
   transparent : BOOLEAN, ret : {"OK", "ERRNO"}]

\* Before a turn: whole windows have been taken, and their text has been given.
Reading(s, text, described) ==
  /\ s \in GzRecord /\ s.pc = "inflate"
  /\ s.file = Member(text, described) /\ s.start = SizeOfHead(described)
  /\ s.gzlen = Len(CodesOf(text)) /\ s.from = 0 /\ ~s.z_eof /\ ~s.transparent
  /\ s.next_in = s.total_in /\ s.total_in < s.gzlen /\ s.total_in = s.turns * Z_BUFSIZE
  /\ s.avail_in = IF s.turns = 0 THEN Least(s.gzlen, Z_BUFSIZE) ELSE 0
  /\ s.text = Given(SubSeq(CodesOf(text), 1, s.total_in))
  /\ s.avail_out = Len(text) - Len(s.text) /\ text # <<>>

\* After the last turn
Finished(s, text) ==
  /\ s.pc = "end" /\ s.text = text /\ s.gzlen \in Nat /\ s.turns \in Nat
  /\ s.avail_in = 0 /\ s.next_in = s.gzlen /\ s.total_in = s.gzlen
  /\ s.turns <= (s.gzlen \div Z_BUFSIZE) + 1

Returned(s, text) ==
  /\ s.pc = "returned" /\ s.turns = 0 /\ s.gzlen = 0
  /\ (s.ret = "OK" /\ s.text = text) \/ (s.ret = "ERRNO" /\ text = <<>>)

\* gz on the file of a text
Unpressing(text, described) ==
  Reading(gz, text, described) \/ Finished(gz, text) \/ Returned(gz, text)

\* The least of two numbers is one of them.
LEMMA LeastProperties ==
  ASSUME NEW a \in Nat, NEW b \in Nat
  PROVE  /\ Least(a, b) \in Nat /\ Least(a, b) <= a /\ Least(a, b) <= b
         /\ Least(a, b) = a \/ Least(a, b) = b
  BY DEF Least

\* So many whole windows fit.
LEMMA WindowsFit ==
  ASSUME NEW turns \in Nat, NEW gzlen \in Nat, turns * Z_BUFSIZE <= gzlen
  PROVE  turns <= gzlen \div Z_BUFSIZE
<1> PICK q : q = gzlen \div Z_BUFSIZE
  OBVIOUS
<1> PICK r : r = gzlen % Z_BUFSIZE
  OBVIOUS
<1> PICK Z \in Nat \ {0} : Z = Z_BUFSIZE
  BY GzipAssumption
<1>1. Splits(gzlen, Z, q, r)
  BY Remainder
<1>2. q \in Nat /\ r \in Nat /\ gzlen = Z * q + r /\ r < Z
  BY <1>1 DEF Splits
<1>3. turns * Z = Z * turns
  OBVIOUS
<1>4. CASE q < turns
  <2>1. Z * q + Z <= Z * turns
    BY <1>2, <1>4, MultipleGrows
  <2>2. Z * turns \in Nat /\ Z * q \in Nat
    BY <1>2
  <2> QED
    BY <1>2, <1>3, <2>1, <2>2
<1> QED
  BY <1>2, <1>4

\* The window that a turn works on
LEMMA WindowRead ==
  ASSUME NEW text \in Seq(TextByte), NEW described \in BOOLEAN,
         Reading(gz, text, described), NEW w, w = Window(gz.total_in)
  PROVE  /\ w \in GzRecord /\ w.pc = "inflate" /\ w.file = gz.file /\ w.start = gz.start
         /\ w.gzlen = gz.gzlen /\ w.total_in = gz.total_in /\ w.next_in = gz.total_in
         /\ w.text = gz.text /\ w.avail_out = gz.avail_out /\ w.turns = gz.turns
         /\ w.from = 0 /\ ~w.z_eof /\ ~w.transparent
         /\ w.avail_in = Least(gz.gzlen - gz.total_in, Z_BUFSIZE)
         /\ w.avail_in \in Nat \ {0} /\ gz.total_in + w.avail_in <= gz.gzlen
<1>1. /\ gz \in GzRecord /\ gz.gzlen \in Nat /\ gz.total_in \in Nat /\ gz.total_in < gz.gzlen
      /\ gz.turns \in Nat /\ Z_BUFSIZE \in Nat \ {0}
  BY GzipAssumption DEF Reading, GzRecord
<1> PICK rest : rest = gz.gzlen - gz.total_in
  OBVIOUS
<1> PICK fill : fill = Least(rest, Z_BUFSIZE)
  OBVIOUS
<1>2. rest \in Nat \ {0} /\ gz.total_in + rest = gz.gzlen
  BY <1>1
<1>3. fill \in Nat \ {0} /\ fill <= rest
  BY <1>1, <1>2, LeastProperties
<1>4. Refill(gz) = fill
  BY DEF Refill
<1>5. CASE gz.turns = 0
  <2>1. gz.total_in = 0 /\ rest = gz.gzlen
    BY <1>1, <1>5 DEF Reading
  <2>2. gz.avail_in = fill
    BY <1>5, <2>1 DEF Reading
  <2>3. w = gz
    BY <1>3, <2>2 DEF Window
  <2>4. /\ gz.pc = "inflate" /\ gz.from = 0 /\ ~gz.transparent /\ ~gz.z_eof
        /\ gz.next_in = gz.total_in
    BY DEF Reading
  <2>5. fill = Least(gz.gzlen - gz.total_in, Z_BUFSIZE)
    OBVIOUS
  <2>6. gz.total_in + fill <= gz.gzlen
    BY <1>1, <1>2, <1>3
  <2> QED
    BY <1>1, <1>3, <2>2, <2>3, <2>4, <2>5, <2>6
<1>6. CASE gz.turns # 0
  <2>1. gz.avail_in = 0 /\ ~gz.z_eof
    BY <1>6 DEF Reading
  <2>2. (fill = 0) = FALSE
    BY <1>3
  <2>3. w = [gz EXCEPT !.avail_in = fill, !.next_in = gz.total_in, !.z_eof = FALSE]
    BY <1>4, <2>1, <2>2 DEF Window
  <2>4. gz.pc = "inflate" /\ gz.from = 0 /\ ~gz.transparent
    BY DEF Reading
  <2>5. w \in GzRecord
    BY <1>1, <1>3, <2>3 DEF GzRecord
  <2>6. /\ w.pc = gz.pc /\ w.file = gz.file /\ w.start = gz.start /\ w.gzlen = gz.gzlen
        /\ w.total_in = gz.total_in /\ w.next_in = gz.total_in /\ w.text = gz.text
        /\ w.avail_out = gz.avail_out /\ w.turns = gz.turns /\ w.from = gz.from
        /\ w.avail_in = fill /\ w.z_eof = FALSE /\ w.transparent = gz.transparent
    BY <1>1, <2>3 DEF GzRecord
  <2>7. fill = Least(gz.gzlen - gz.total_in, Z_BUFSIZE)
    OBVIOUS
  <2>8. gz.total_in + fill <= gz.gzlen
    BY <1>1, <1>2, <1>3
  <2> QED
    BY <1>3, <2>4, <2>5, <2>6, <2>7, <2>8
<1> QED
  BY <1>5, <1>6

\* After the last code there is no byte of the data left: what follows is taken for an error.
LEMMA NothingFollows ==
  ASSUME NEW t \in GzRecord, t.avail_in = 0, ~t.z_eof, t.total_in = t.gzlen,
         NEW e, e = EndOfMember(t)
  PROVE  /\ e.avail_in = 0 /\ e.next_in = t.next_in /\ e.total_in = t.gzlen /\ e.gzlen = t.gzlen
         /\ e.text = t.text /\ e.turns = t.turns /\ e.z_err = "DATA_ERROR"
         /\ e \in GzRecord
<1>1. t.gzlen \in Nat /\ t.next_in \in Nat /\ Z_BUFSIZE \in Nat \ {0}
  BY GzipAssumption DEF GzRecord
<1>2. Refill(t) = 0
  BY <1>1 DEF Refill, Least
<1>3. ByteAt(t, 1) = EOF /\ ByteAt(t, 4) = EOF
  BY <1>2 DEF ByteAt
<1> DEFINE crc == Crc32(SubSeq(t.text, t.from + 1, Len(t.text)))
<1>4. Putlong(crc)[1] # EOF
  <2>1. t.text \in Seq(TextByte) /\ t.from \in Nat
    BY DEF GzRecord
  <2>2. SubSeq(t.text, t.from + 1, Len(t.text)) \in Seq(TextByte)
    BY <2>1
  <2>3. crc \in Nat /\ crc <= MaxInt
    BY <2>2, CrcRange, Zenon
  <2> HIDE DEF crc
  <2>4. Putlong(crc)[1] \in Byte
    BY <2>3, PutlongProperties
  <2> QED
    BY <2>4 DEF Byte, EOF
<1>5. LongAt(t)[1] = EOF
  BY <1>3 DEF LongAt
<1>6. LongAt(t) # Putlong(crc)
  BY <1>4, <1>5
<1>7. Skip(t, 4) = [t EXCEPT !.avail_in = 0, !.next_in = @ + t.avail_in, !.z_eof = TRUE]
  BY <1>2 DEF Skip
<1>8. PICK u : u = [t EXCEPT !.avail_in = 0, !.next_in = @ + t.avail_in, !.z_eof = TRUE]
  OBVIOUS
<1>9. /\ u \in GzRecord /\ u.avail_in = 0 /\ u.next_in = t.next_in /\ u.total_in = t.gzlen
      /\ u.gzlen = t.gzlen /\ u.text = t.text /\ u.turns = t.turns
  <2>1. t.next_in + t.avail_in = t.next_in /\ t.next_in \in Nat
    BY <1>1
  <2>2. u = [t EXCEPT !.avail_in = 0, !.next_in = t.next_in, !.z_eof = TRUE]
    BY <1>8, <2>1
  <2>3. u \in GzRecord
    BY <2>1, <2>2 DEF GzRecord
  <2> QED
    BY <2>2, <2>3 DEF GzRecord
<1>10. GetLong(t) = [u EXCEPT !.z_err = "DATA_ERROR"]
  BY <1>3, <1>7, <1>8 DEF GetLong
<1>11. PICK v : v = [u EXCEPT !.z_err = "DATA_ERROR"]
  OBVIOUS
<1>12. /\ v \in GzRecord /\ v.avail_in = 0 /\ v.next_in = t.next_in /\ v.total_in = t.gzlen
       /\ v.gzlen = t.gzlen /\ v.text = t.text /\ v.turns = t.turns
  BY <1>9, <1>11 DEF GzRecord
<1>13. e = [[v EXCEPT !.z_err = "DATA_ERROR"] EXCEPT !.from = Len(t.text)]
  BY <1>6, <1>10, <1>11 DEF EndOfMember
<1>14. PICK z : z = [v EXCEPT !.z_err = "DATA_ERROR"]
  OBVIOUS
<1>15. /\ z \in GzRecord /\ z.avail_in = 0 /\ z.next_in = t.next_in /\ z.total_in = t.gzlen
       /\ z.gzlen = t.gzlen /\ z.text = t.text /\ z.turns = t.turns /\ z.z_err = "DATA_ERROR"
  BY <1>12, <1>14 DEF GzRecord
<1>16. Len(t.text) \in Nat
  BY DEF GzRecord
<1>17. e = [z EXCEPT !.from = Len(t.text)]
  BY <1>13, <1>14
<1>18. e \in GzRecord
  BY <1>15, <1>16, <1>17 DEF GzRecord
<1> QED
  BY <1>15, <1>17, <1>18 DEF GzRecord

\* A turn of the loop takes a window, or what is left, and gives its text.
LEMMA TurnReads ==
  ASSUME NEW text \in Seq(TextByte), Len(text) <= MaxInt, NEW described \in BOOLEAN,
         Reading(gz, text, described), InflateTurn
  PROVE  Reading(gz', text, described) \/ Finished(gz', text)
<1>1. PICK c : c = CodesOf(text)
  OBVIOUS
<1>2. PICK N : N = Len(c)
  OBVIOUS
<1>3. PICK w : w = Window(gz.total_in)
  OBVIOUS
<1>4. PICK k : k = gz.total_in
  OBVIOUS
<1>5. PICK m : m = w.avail_in
  OBVIOUS
<1>6. PICK a : a = BytesAt(w, w.next_in, w.avail_in)
  OBVIOUS
<1>7. PICK r : r = Inflate(a)
  OBVIOUS
<1>8. PICK g : g = gz'
  OBVIOUS
<1>9. /\ gz \in GzRecord /\ gz.file = Member(text, described) /\ gz.start = SizeOfHead(described)
      /\ gz.gzlen = N /\ k < N /\ k = gz.turns * Z_BUFSIZE /\ text # <<>>
      /\ gz.text = Given(SubSeq(c, 1, k)) /\ gz.avail_out = Len(text) - Len(gz.text)
  BY <1>1, <1>2, <1>4 DEF Reading
<1>10. k \in Nat /\ N \in Nat /\ gz.turns \in Nat /\ Z_BUFSIZE \in Nat \ {0}
  BY <1>4, <1>9, GzipAssumption DEF GzRecord
<1>11. /\ w \in GzRecord /\ w.pc = "inflate" /\ w.file = gz.file /\ w.start = gz.start
       /\ w.gzlen = N /\ w.total_in = k /\ w.next_in = k /\ w.text = gz.text
       /\ w.avail_out = gz.avail_out /\ w.turns = gz.turns /\ w.from = 0 /\ ~w.z_eof
       /\ ~w.transparent
       /\ m = Least(N - k, Z_BUFSIZE) /\ m \in Nat \ {0} /\ k + m <= N
  BY <1>3, <1>4, <1>5, <1>9, WindowRead
<1>12. a = SubSeq(c, k + 1, k + m)
  <2>1. w.file = Member(text, described) /\ w.start = SizeOfHead(described)
    BY <1>9, <1>11
  <2>2. BytesAt(w, k, m) = SubSeq(c, k + 1, k + m)
    BY <1>1, <1>2, <1>10, <1>11, <2>1, WindowOfMember
  <2> QED
    BY <1>5, <1>6, <1>11, <2>2
<1>13. /\ r.taken = m /\ r.given = Given(a)
       /\ r.err = (IF k + m = N THEN "STREAM_END" ELSE "OK")
       /\ Given(SubSeq(c, 1, k)) \o Given(a) = Given(SubSeq(c, 1, k + m))
  <2>1. k + m <= Len(CodesOf(text)) /\ m \in Nat \ {0}
    BY <1>1, <1>2, <1>11
  <2>2. RunInflated(r, c, k, m)
    BY <1>1, <1>7, <1>10, <1>12, <2>1, InflateRun, Zenon
  <2> QED
    BY <1>2, <1>12, <2>2, Zenon DEF RunInflated
<1>14. PICK given : given = Given(a)
  OBVIOUS
<1>15. PICK before : before = Given(SubSeq(c, 1, k))
  OBVIOUS
<1>16. PICK all : all = Given(SubSeq(c, 1, k + m))
  OBVIOUS
<1>17. given \in Seq(TextByte) /\ before \in Seq(TextByte) /\ all \in Seq(TextByte)
  <2>1. c \in Seq(Byte) /\ Len(c) = N
    BY <1>1, <1>2, CodesProperties
  <2>2. SubSeq(c, 1, k) \in Seq(Byte) /\ SubSeq(c, 1, k + m) \in Seq(Byte) /\ a \in Seq(Byte)
    <3>1. k <= N /\ k + m <= N /\ k + m \in Nat
      BY <1>10, <1>11
    <3>2. SubSeq(c, 1, k) \in Seq(Byte)
      BY <1>10, <2>1, <3>1
    <3>3. SubSeq(c, 1, k + m) \in Seq(Byte)
      <4>1. PICK q \in Nat : q = k + m /\ q <= N
        BY <3>1
      <4> QED
        BY <2>1, <4>1
    <3>4. a \in Seq(Byte)
      <4>1. PICK q \in Nat : q = k + m /\ q <= N
        BY <3>1
      <4>2. PICK p \in Nat : p = k + 1 /\ p >= 1
        BY <1>10
      <4> QED
        BY <1>12, <2>1, <4>1, <4>2
    <3> QED
      BY <3>2, <3>3, <3>4
  <2> QED
    BY <1>14, <1>15, <1>16, <2>2, GivenInSeq
<1>18. before \o given = all /\ Len(before) + Len(given) = Len(all)
       /\ Len(before) \in Nat /\ Len(given) \in Nat /\ Len(all) \in Nat
  <2>1. before \o given = all
    BY <1>13, <1>14, <1>15, <1>16
  <2> QED
    BY <1>17, <2>1
<1>19. Len(all) <= Len(text) /\ (k + m = N => all = text)
  <2>1. k + m \in 0..N
    BY <1>10, <1>11
  <2> QED
    BY <1>1, <1>2, <1>16, <2>1, GivenOfPrefix
<1>20. gz.text = before /\ r.given = given
  BY <1>9, <1>13, <1>14, <1>15
<1>21. PICK t : t = [w EXCEPT !.next_in = @ + r.taken, !.avail_in = @ - r.taken,
                     !.total_in = @ + r.taken, !.avail_out = @ - Len(r.given),
                     !.text = @ \o r.given, !.z_err = r.err, !.turns = @ + 1]
  OBVIOUS
<1>22. PICK left : left = Len(text) - Len(all)
  OBVIOUS
<1>23. PICK err : err = r.err
  OBVIOUS
<1>24. PICK km : km = k + m
  OBVIOUS
<1>25. t = [w EXCEPT !.next_in = km, !.avail_in = 0, !.total_in = km, !.avail_out = left,
                     !.text = all, !.z_err = err, !.turns = gz.turns + 1]
  <2>1. w.next_in + r.taken = km /\ w.avail_in - r.taken = 0 /\ w.total_in + r.taken = km
    BY <1>5, <1>10, <1>11, <1>13, <1>24
  <2>2. w.avail_out - Len(r.given) = left
    <3>1. Len(text) \in Nat
      OBVIOUS
    <3>2. w.avail_out = Len(text) - Len(before)
      BY <1>9, <1>11, <1>20
    <3>3. PICK A \in Nat, B \in Nat, C \in Nat : A = Len(before) /\ B = Len(given) /\ C = Len(all)
      BY <1>18
    <3>4. A + B = C /\ w.avail_out = Len(text) - A /\ Len(r.given) = B /\ left = Len(text) - C
      BY <1>18, <1>20, <1>22, <3>2, <3>3
    <3> QED
      BY ONLY <3>1, <3>4, A \in Nat, B \in Nat, C \in Nat
  <2>3. w.text \o r.given = all
    BY <1>11, <1>18, <1>20
  <2> QED
    BY <1>11, <1>21, <1>23, <2>1, <2>2, <2>3
<1>26. /\ km \in Nat /\ km <= N /\ left \in Nat
       /\ err \in {"OK", "STREAM_END"} /\ (err = "STREAM_END" <=> km = N)
  <2>1. Len(text) \in Nat
    OBVIOUS
  <2> QED
    BY <1>10, <1>11, <1>13, <1>18, <1>19, <1>22, <1>23, <1>24, <2>1
<1>27. t \in GzRecord
  <2>1. /\ w \in GzRecord /\ all \in Seq(TextByte) /\ gz.turns + 1 \in Nat /\ km \in Nat
        /\ left \in Nat
        /\ err \in {"OK", "STREAM_END", "DATA_ERROR", "BUF_ERROR"} /\ 0 \in Nat
    BY <1>10, <1>11, <1>17, <1>26
  <2> QED
    BY ONLY <1>25, <2>1 DEF GzRecord
<1>28. /\ t.pc = "inflate" /\ t.file = gz.file /\ t.start = gz.start /\ t.gzlen = N
       /\ t.from = 0 /\ ~t.z_eof /\ ~t.transparent /\ t.next_in = km /\ t.total_in = km
       /\ t.avail_in = 0 /\ t.avail_out = left /\ t.text = all /\ t.z_err = err
       /\ t.turns = gz.turns + 1
  BY <1>11, <1>25 DEF GzRecord
<1>29. PICK after : after = IF r.err = "STREAM_END" THEN EndOfMember(t) ELSE t
  OBVIOUS
<1>30. g = [after EXCEPT !.pc = IF LeavesLoop(after) THEN "end" ELSE @]
  <2> DEFINE r2 == Inflate(BytesAt(w, w.next_in, w.avail_in))
             t2 == [w EXCEPT !.next_in = @ + r2.taken, !.avail_in = @ - r2.taken,
                             !.total_in = @ + r2.taken, !.avail_out = @ - Len(r2.given),
                             !.text = @ \o r2.given, !.z_err = r2.err, !.turns = @ + 1]
             after2 == IF r2.err = "STREAM_END" THEN EndOfMember(t2) ELSE t2
  <2>1. gz' = Inflated(w, LeavesLoop)
    BY <1>3, Zenon DEF InflateTurn
  <2>2. Inflated(w, LeavesLoop) = [after2 EXCEPT !.pc = IF LeavesLoop(after2) THEN "end" ELSE @]
    BY Zenon DEF Inflated
  <2>3. r2 = r
    BY <1>6, <1>7, Zenon
  <2> HIDE DEF r2
  <2>4. t2 = t
    BY <1>21, <2>3, Zenon
  <2> HIDE DEF t2
  <2>5. after2 = after
    BY <1>29, <2>3, <2>4, Zenon
  <2> HIDE DEF after2
  <2> QED
    BY <1>8, <2>1, <2>2, <2>5, Zenon
<1>31. CASE km < N
  <2>1. after = t /\ t.z_err = "OK"
    BY <1>10, <1>23, <1>26, <1>28, <1>29, <1>31
  <2>2. ~LeavesLoop(after)
    BY <1>28, <2>1 DEF LeavesLoop
  <2>3. g = t
    BY <1>27, <1>28, <1>30, <2>1, <2>2 DEF GzRecord
  <2>4. km = (gz.turns + 1) * Z_BUFSIZE
    <3>1. m = Z_BUFSIZE
      BY <1>10, <1>11, <1>24, <1>31 DEF Least
    <3>2. PICK z \in Nat : z = Z_BUFSIZE
      BY <1>10
    <3>3. (gz.turns + 1) * z = gz.turns * z + z
      BY <1>10, <3>2
    <3> QED
      BY <1>9, <1>24, <3>1, <3>2, <3>3
  <2>5. gz.turns + 1 # 0
    BY <1>10
  <2>6. t.text = Given(SubSeq(c, 1, t.total_in))
    BY <1>16, <1>24, <1>28
  <2>7. Reading(t, text, described)
    BY <1>1, <1>2, <1>9, <1>22, <1>27, <1>28, <1>31, <2>4, <2>5, <2>6 DEF Reading
  <2> QED
    BY <1>8, <2>3, <2>7
<1>32. CASE km = N
  <2>1. after = EndOfMember(t)
    BY <1>23, <1>26, <1>29, <1>32
  <2>2. /\ after.avail_in = 0 /\ after.next_in = N /\ after.total_in = N /\ after.gzlen = N
        /\ after.text = text /\ after.turns = gz.turns + 1 /\ after.z_err = "DATA_ERROR"
        /\ after \in GzRecord
    BY <1>19, <1>24, <1>27, <1>28, <1>32, <2>1, NothingFollows
  <2>3. g = [after EXCEPT !.pc = "end"]
    BY <1>30, <2>2 DEF LeavesLoop
  <2>4. /\ g.pc = "end" /\ g.text = text /\ g.gzlen = N /\ g.turns = gz.turns + 1
        /\ g.avail_in = 0 /\ g.next_in = N /\ g.total_in = N
    BY <2>2, <2>3 DEF GzRecord
  <2>5. gz.turns <= N \div Z_BUFSIZE
    <3>1. gz.turns * Z_BUFSIZE <= N
      BY <1>9, <1>10
    <3> QED
      BY <1>10, <3>1, WindowsFit
  <2>6. N \div Z_BUFSIZE \in Nat
    BY <1>10
  <2>7. gz.turns + 1 <= (N \div Z_BUFSIZE) + 1
    BY ONLY <1>10, <2>5, <2>6
  <2> QED
    BY <1>8, <1>10, <2>4, <2>7 DEF Finished
<1> QED
  BY <1>10, <1>26, <1>31, <1>32

\* The state of UnCompressGZ before the call
LEMMA NoGzIsRecord == NoGz \in GzRecord
<1>1. <<>> \in Seq(Byte) /\ <<>> \in Seq(TextByte)
  OBVIOUS
<1> QED
  BY <1>1 DEF NoGz, GzRecord

\* The call begins the loop, or refuses the file of an empty text.
LEMMA CallReads ==
  ASSUME NEW text \in Seq(TextByte), Len(text) <= MaxInt, NEW described \in BOOLEAN,
         UnCompressGZ(Member(text, described), Len(text))
  PROVE  Unpressing(text, described)'
<1>1. PICK m : m = Member(text, described)
  OBVIOUS
<1>2. PICK c : c = CodesOf(text)
  OBVIOUS
<1>3. PICK N : N = Len(c)
  OBVIOUS
<1>4. PICK g : g = GetGZHead(m)
  OBVIOUS
<1>5. PICK k : k = SizeOfHead(described)
  OBVIOUS
<1>6. g.ok /\ g.destlen = Len(text) /\ g.srclen = N /\ g.start = k
  BY <1>1, <1>2, <1>3, <1>4, <1>5, HeadOfMember
<1>7. N \in Nat /\ N >= 2 /\ c \in Seq(Byte)
  BY <1>2, <1>3, CodesProperties
<1>8. k \in Nat /\ k >= 10
  BY <1>5 DEF SizeOfHead
<1>9. m \in Seq(Byte) /\ Len(m) = k + N + 8
  <2>1. MemberParts(m, MemberHead(described), k, c, text)
    BY <1>1, <1>2, <1>5, MemberProperties, Zenon
  <2> QED
    BY <1>3, <2>1 DEF MemberParts
<1>10. gz' = IF Len(m) <= 0 \/ Len(text) <= 0 \/ ~g.ok \/ g.destlen > Len(text)
             THEN [NoGz EXCEPT !.pc = "returned", !.ret = "ERRNO"]
             ELSE [NoGz EXCEPT !.pc = "inflate", !.file = m, !.start = g.start,
                               !.gzlen = g.srclen, !.avail_in = Least(g.srclen, Z_BUFSIZE),
                               !.avail_out = Len(text)]
  BY <1>1, <1>4, Zenon DEF UnCompressGZ
<1>11. Len(m) > 0 /\ Len(text) \in Nat /\ Z_BUFSIZE \in Nat \ {0}
  BY <1>7, <1>8, <1>9, GzipAssumption
<1>12. CASE text = <<>>
  <2>1. gz' = [NoGz EXCEPT !.pc = "returned", !.ret = "ERRNO"]
    BY <1>10, <1>12
  <2>2. Returned(gz', text)
    BY <1>12, <2>1 DEF Returned, NoGz
  <2> QED
    BY <2>2 DEF Unpressing
<1>13. CASE text # <<>>
  <2>1. Len(text) > 0
    BY <1>11, <1>13, EmptySeq
  <2>2. PICK fill \in Nat : fill = Least(N, Z_BUFSIZE)
    BY <1>7, <1>11, LeastProperties
  <2>3. PICK out \in Nat : out = Len(text)
    BY <1>11
  <2>4. gz' = [NoGz EXCEPT !.pc = "inflate", !.file = m, !.start = k,
                           !.gzlen = N, !.avail_in = fill, !.avail_out = out]
    BY <1>6, <1>10, <1>11, <2>1, <2>2, <2>3
  <2>5. gz' \in GzRecord
    BY <1>7, <1>8, <1>9, <2>4, NoGzIsRecord DEF GzRecord
  <2>6. /\ gz'.pc = "inflate" /\ gz'.file = m /\ gz'.start = k /\ gz'.gzlen = N
        /\ gz'.avail_in = fill /\ gz'.avail_out = out /\ gz'.from = 0 /\ ~gz'.z_eof
        /\ ~gz'.transparent /\ gz'.next_in = 0 /\ gz'.total_in = 0 /\ gz'.turns = 0
        /\ gz'.text = <<>>
    BY <2>4 DEF NoGz
  <2>7. Given(SubSeq(c, 1, 0)) = <<>>
    <3>1. SubSeq(c, 1, 0) = <<>>
      BY <1>7
    <3> QED
      BY <3>1, GivenOfNone
  <2>8. 0 = 0 * Z_BUFSIZE /\ 0 < N /\ out = Len(text) - Len(<<>>)
    BY <1>7, <1>11, <2>3
  <2>9. Reading(gz', text, described)
    BY <1>1, <1>2, <1>3, <1>5, <1>13, <2>2, <2>5, <2>6, <2>7, <2>8 DEF Reading
  <2> QED
    BY <2>9 DEF Unpressing
<1> QED
  BY <1>12, <1>13

\* The return after the last turn, or when the buffer is full, which is after the last byte
LEMMA ReturnReads ==
  ASSUME NEW text \in Seq(TextByte), NEW described \in BOOLEAN,
         Unpressing(text, described), UnCompressReturn
  PROVE  Returned(gz', text)
<1>1. gz' = [NoGz EXCEPT !.pc = "returned", !.text = gz.text, !.z_err = gz.z_err,
                         !.ret = IF gz.avail_in = 0 THEN "OK" ELSE "ERRNO"]
  BY DEF UnCompressReturn
<1>2. ~Returned(gz, text)
  BY DEF UnCompressReturn, Returned
<1>3. gz.text = text /\ gz.avail_in = 0
  <2>1. CASE Finished(gz, text)
    BY <2>1 DEF Finished
  <2>2. CASE Reading(gz, text, described)
    <3>1. gz.pc = "inflate" /\ gz.avail_out = 0
      BY <2>2 DEF Reading, UnCompressReturn
    <3>2. PICK k \in 0..Len(CodesOf(text)) : k = gz.total_in
      <4>1. Len(CodesOf(text)) \in Nat
        BY CodesProperties
      <4> QED
        BY <2>2, <4>1 DEF Reading, GzRecord
    <3>3. gz.text = Given(SubSeq(CodesOf(text), 1, k))
      BY <2>2, <3>2 DEF Reading
    <3>4. Len(gz.text) \in Nat /\ (Len(gz.text) = Len(text) => gz.text = text)
      BY <3>3, GivenOfPrefix
    <3>5. Len(gz.text) = Len(text)
      <4>1. Len(text) \in Nat /\ 0 = Len(text) - Len(gz.text)
        BY <2>2, <3>1 DEF Reading
      <4> QED
        BY <3>4, <4>1
    <3>6. gz.text = text
      BY <3>4, <3>5
    <3>7. gz.turns # 0
      <4> SUFFICES ASSUME gz.turns = 0 PROVE FALSE
        OBVIOUS
      <4>1. gz.total_in = 0
        BY <2>2, GzipAssumption DEF Reading
      <4>2. CodesOf(text) \in Seq(Byte)
        BY CodesProperties
      <4>3. SubSeq(CodesOf(text), 1, 0) = <<>>
        BY <4>2
      <4>4. gz.text = <<>>
        BY <3>2, <3>3, <4>1, <4>3, GivenOfNone
      <4> QED
        BY <2>2, <3>6, <4>4 DEF Reading
    <3>8. gz.avail_in = 0
      BY <2>2, <3>7 DEF Reading
    <3> QED
      BY <3>6, <3>8
  <2> QED
    BY <1>2, <2>1, <2>2 DEF Unpressing
<1>4. gz' = [NoGz EXCEPT !.pc = "returned", !.text = text, !.z_err = gz.z_err, !.ret = "OK"]
  BY <1>1, <1>3
<1> QED
  BY <1>4 DEF Returned, NoGz

\* Every step of UnCompressGZ on the file of a text
LEMMA StepReads ==
  ASSUME NEW text \in Seq(TextByte), Len(text) <= MaxInt, NEW described \in BOOLEAN,
         Unpressing(text, described), UnCompressStep
  PROVE  Unpressing(text, described)'
<1>1. CASE InflateTurn
  <2>1. Reading(gz, text, described)
    BY <1>1 DEF Unpressing, Finished, Returned, InflateTurn
  <2> QED
    BY <1>1, <2>1, TurnReads DEF Unpressing
<1>2. CASE CopyTurn
  BY <1>2 DEF Unpressing, Reading, Finished, Returned, CopyTurn
<1>3. CASE UnCompressReturn
  BY <1>3, ReturnReads DEF Unpressing
<1> QED
  BY <1>1, <1>2, <1>3 DEF UnCompressStep

\* Its reads and its turns are bounded by the file.
LEMMA BoundedWhileUnpressing ==
  ASSUME NEW text, NEW described \in BOOLEAN, Unpressing(text, described)
  PROVE  ReadsInsideFile /\ LoopEnds
<1>1. CASE Reading(gz, text, described)
  <2>1. /\ gz.gzlen \in Nat /\ gz.total_in \in Nat /\ gz.turns \in Nat /\ gz.next_in = gz.total_in
        /\ gz.total_in < gz.gzlen /\ gz.total_in = gz.turns * Z_BUFSIZE /\ gz.pc = "inflate"
        /\ gz.avail_in = (IF gz.turns = 0 THEN Least(gz.gzlen, Z_BUFSIZE) ELSE 0)
        /\ Z_BUFSIZE \in Nat \ {0}
    BY <1>1, GzipAssumption DEF Reading, GzRecord
  <2>2. gz.avail_in \in Nat /\ gz.total_in + gz.avail_in <= gz.gzlen
    <3>1. CASE gz.turns = 0
      <4>1. gz.total_in = 0
        BY <2>1, <3>1
      <4> QED
        BY <2>1, <3>1, <4>1, LeastProperties
    <3>2. CASE gz.turns # 0
      BY <2>1, <3>2
    <3> QED
      BY <3>1, <3>2
  <2>3. gz.turns <= gz.gzlen \div Z_BUFSIZE
    <3>1. gz.turns * Z_BUFSIZE <= gz.gzlen
      BY <2>1
    <3> QED
      BY <2>1, <3>1, WindowsFit
  <2>4. gz.gzlen \div Z_BUFSIZE \in Nat
    BY <2>1
  <2>5. LoopEnds
    BY ONLY <2>1, <2>3, <2>4 DEF LoopEnds
  <2> QED
    BY <2>1, <2>2, <2>5 DEF ReadsInsideFile
<1>2. CASE Finished(gz, text)
  <2>1. gz.gzlen \div Z_BUFSIZE \in Nat
    BY <1>2, GzipAssumption DEF Finished
  <2>2. LoopEnds
    BY ONLY <1>2, <2>1 DEF Finished, LoopEnds
  <2> QED
    BY <1>2, <2>2 DEF Finished, ReadsInsideFile
<1>3. CASE Returned(gz, text)
  BY <1>3, GzipAssumption DEF Returned, ReadsInsideFile, LoopEnds
<1> QED
  BY <1>1, <1>2, <1>3 DEF Unpressing
-----------------------------------------------------------------------------
(* CompressGZ                                                              *)

ZipRecord ==
  [pc : {"idle", "deflate", "finish", "trailer", "returned"}, source : Seq(TextByte),
   avail_in : Int, avail_out : Int, total_out : Int, done : BOOLEAN,
   err : {"OK", "STREAM_END", "ERRNO"}, file : Seq(Byte)]

\* zip on a text: once the last loop is done, all the codes are out.
Zipping(text) ==
  /\ zip \in ZipRecord /\ zip.source = text
  /\ \/ /\ zip.pc \in {"deflate", "finish", "trailer"}
        /\ zip.pc = "deflate" => ~zip.done
        /\ zip.pc = "trailer" => zip.done
        /\ zip.done => zip.err = "STREAM_END" /\ zip.total_out = Len(CodesOf(text))
     \/ zip.pc = "returned" /\ (zip.err = "ERRNO" \/ zip.file = Member(text, FALSE))

\* The state of CompressGZ before the call
LEMMA NoZipIsRecord == NoZip \in ZipRecord
<1>1. <<>> \in Seq(Byte) /\ <<>> \in Seq(TextByte)
  OBVIOUS
<1> QED
  BY <1>1 DEF NoZip, ZipRecord

\* The call of CompressGZ begins the first loop, or refuses a short text.
LEMMA CallZips ==
  ASSUME NEW text \in Seq(TextByte), CompressGZ(text)
  PROVE  Zipping(text)'
<1>1. Z_BUFSIZE \in Int /\ Len(text) \in Int
  BY GzipAssumption
<1>2. CASE Len(text) < GzMinimum
  <2>1. zip' = [NoZip EXCEPT !.pc = "returned", !.source = text, !.err = "ERRNO"]
    BY <1>2 DEF CompressGZ
  <2>2. zip' \in ZipRecord
    BY <2>1, NoZipIsRecord DEF ZipRecord
  <2>3. zip'.source = text /\ zip'.pc = "returned" /\ zip'.err = "ERRNO"
    BY <2>1 DEF NoZip
  <2> QED
    BY <2>2, <2>3 DEF Zipping
<1>3. CASE ~(Len(text) < GzMinimum)
  <2>1. PICK pc \in {"finish", "deflate"} : pc = IF text = <<>> THEN "finish" ELSE "deflate"
    OBVIOUS
  <2>2. zip' = [NoZip EXCEPT !.pc = pc, !.source = text, !.avail_in = Len(text),
                             !.avail_out = Z_BUFSIZE]
    BY <1>3, <2>1 DEF CompressGZ
  <2>3. zip' \in ZipRecord
    BY <1>1, <2>2, NoZipIsRecord DEF ZipRecord
  <2>4. zip'.source = text /\ zip'.pc = pc /\ ~zip'.done
    BY <2>2 DEF NoZip
  <2> QED
    BY <2>3, <2>4 DEF Zipping
<1> QED
  BY <1>2, <1>3

\* A turn of the first loop hands bytes over.
LEMMA DeflateZips ==
  ASSUME NEW text \in Seq(TextByte), Zipping(text), DeflateTurn
  PROVE  Zipping(text)'
<1> DEFINE room == IF zip.avail_out = 0 THEN Z_BUFSIZE ELSE zip.avail_out
<1>1. PICK r \in Deflate(zip, FALSE, room) :
        zip' = [zip EXCEPT
          !.pc = IF r.taken = Len(zip.source) THEN "finish" ELSE @,
          !.avail_in = Len(zip.source) - r.taken,
          !.avail_out = room - (r.total_out - zip.total_out),
          !.total_out = r.total_out]
  BY DEF DeflateTurn
<1>2. zip \in ZipRecord /\ zip.pc = "deflate" /\ ~zip.done /\ zip.source = text
  BY DEF Zipping, DeflateTurn
<1>3. room \in Int /\ Len(zip.source) \in Int /\ zip.total_out \in Int
  BY <1>2, GzipAssumption DEF ZipRecord
<1> HIDE DEF room
<1>4. r.taken \in Int /\ r.total_out \in Int
  BY DEF Deflate
<1>5. PICK pc \in {"finish", "deflate"} :
        pc = IF r.taken = Len(zip.source) THEN "finish" ELSE zip.pc
  BY <1>2
<1>6. PICK in \in Int : in = Len(zip.source) - r.taken
  BY <1>3, <1>4
<1>7. PICK out \in Int : out = room - (r.total_out - zip.total_out)
  BY <1>3, <1>4
<1>8. zip' = [zip EXCEPT !.pc = pc, !.avail_in = in, !.avail_out = out, !.total_out = r.total_out]
  BY <1>1, <1>5, <1>6, <1>7
<1>9. zip' \in ZipRecord
  BY <1>2, <1>4, <1>8 DEF ZipRecord
<1>10. zip'.source = text /\ zip'.pc = pc /\ ~zip'.done
  BY <1>2, <1>8 DEF ZipRecord
<1> QED
  BY <1>9, <1>10 DEF Zipping

\* The second loop is done once deflate() has put all the codes out.
LEMMA FinishZips ==
  ASSUME NEW text \in Seq(TextByte), Zipping(text), FinishTurn
  PROVE  Zipping(text)'
<1> DEFINE room == IF zip.avail_out # Z_BUFSIZE THEN Z_BUFSIZE ELSE zip.avail_out
<1>2. zip \in ZipRecord /\ zip.pc = "finish" /\ zip.source = text
  BY DEF Zipping, FinishTurn
<1>3. room \in Int /\ zip.total_out \in Int
  BY <1>2, GzipAssumption DEF ZipRecord
<1>4. CASE zip.done
  <2>1. zip' = [zip EXCEPT !.pc = "trailer", !.avail_out = room]
    BY <1>4 DEF FinishTurn
  <2> HIDE DEF room
  <2>2. zip' \in ZipRecord
    BY <1>2, <1>3, <2>1 DEF ZipRecord
  <2>3. /\ zip'.source = text /\ zip'.pc = "trailer" /\ zip'.done = zip.done
        /\ zip'.err = zip.err /\ zip'.total_out = zip.total_out
    BY <1>2, <2>1 DEF ZipRecord
  <2>4. zip.err = "STREAM_END" /\ zip.total_out = Len(CodesOf(text))
    BY <1>2, <1>4 DEF Zipping
  <2> QED
    BY <1>4, <2>2, <2>3, <2>4 DEF Zipping
<1>5. CASE ~zip.done
  <2>1. PICK r \in Deflate(zip, TRUE, room) :
          zip' = [zip EXCEPT !.avail_out = room - (r.total_out - zip.total_out),
                             !.total_out = r.total_out, !.err = r.err,
                             !.done = room - (r.total_out - zip.total_out) # 0
                                        \/ r.err = "STREAM_END"]
    BY <1>5 DEF FinishTurn
  <2> HIDE DEF room
  <2>2. PICK all : all = Len(CodesOf(text))
    OBVIOUS
  <2>3. all \in Int
    BY <2>2, CodesProperties
  <2>4. PICK most : most = Least(all, zip.total_out + room)
    OBVIOUS
  <2>5. most \in Int
    BY <1>3, <2>3, <2>4 DEF Least
  <2>6. /\ r.total_out = most /\ r.err \in {"OK", "STREAM_END"}
        /\ most = IF r.err = "OK" THEN zip.total_out + room ELSE all
    BY <1>2, <2>2, <2>4 DEF Deflate
  <2>7. PICK left \in Int : left = room - (r.total_out - zip.total_out)
    BY <1>3, <2>5, <2>6
  <2>8. PICK done \in BOOLEAN : done = (left # 0 \/ r.err = "STREAM_END")
    OBVIOUS
  <2>9. zip' = [zip EXCEPT !.avail_out = left, !.total_out = most, !.err = r.err, !.done = done]
    BY <2>1, <2>6, <2>7, <2>8
  <2>10. zip' \in ZipRecord
    BY <1>2, <2>5, <2>6, <2>9 DEF ZipRecord
  <2>11. /\ zip'.source = text /\ zip'.pc = "finish" /\ zip'.done = done
         /\ zip'.err = r.err /\ zip'.total_out = most
    BY <1>2, <2>9 DEF ZipRecord
  <2>12. done => r.err = "STREAM_END"
    <3>1. r.err = "OK" => left = 0
      BY <1>3, <2>5, <2>6, <2>7
    <3> QED
      BY <2>6, <2>8, <3>1
  <2>13. done => most = all
    BY <2>6, <2>12
  <2> QED
    BY <2>2, <2>10, <2>11, <2>12, <2>13 DEF Zipping
<1> QED
  BY <1>4, <1>5

\* So the file that CompressGZ returns is that of the text.
LEMMA ReturnZips ==
  ASSUME NEW text \in Seq(TextByte), Len(text) <= MaxInt, Zipping(text), CompressReturn
  PROVE  Zipping(text)'
<1>1. /\ zip \in ZipRecord /\ zip.source = text /\ zip.err = "STREAM_END"
      /\ zip.total_out = Len(CodesOf(text))
  BY DEF Zipping, CompressReturn
<1>2. PICK c : c = CodesOf(text)
  OBVIOUS
<1>3. SubSeq(c, 1, Len(c)) = c
  BY <1>2, CodesProperties
<1>4. PICK file : file = GzHead(0) \o SubSeq(CodesOf(zip.source), 1, zip.total_out)
                         \o Putlong(Crc32(zip.source)) \o Putlong(Len(zip.source))
  OBVIOUS
<1>5. file = Member(text, FALSE)
  BY <1>1, <1>2, <1>3, <1>4, Zenon DEF Member
<1>6. zip' = [NoZip EXCEPT !.pc = "returned", !.source = text, !.err = "STREAM_END",
                           !.file = file]
  BY <1>1, <1>4, Zenon DEF CompressReturn
<1>7. file \in Seq(Byte)
  <2>1. FALSE \in BOOLEAN
    OBVIOUS
  <2>2. MemberParts(file, MemberHead(FALSE), SizeOfHead(FALSE), c, text)
    BY <1>2, <1>5, <2>1, MemberProperties, Zenon
  <2> QED
    BY <2>2 DEF MemberParts
<1>8. zip' \in ZipRecord
  BY <1>6, <1>7, NoZipIsRecord DEF ZipRecord
<1>9. zip'.source = text /\ zip'.pc = "returned" /\ zip'.file = file
  BY <1>6 DEF NoZip
<1> QED
  BY <1>5, <1>8, <1>9 DEF Zipping

\* Every step of CompressGZ on a text
LEMMA StepZips ==
  ASSUME NEW text \in Seq(TextByte), Len(text) <= MaxInt, Zipping(text), CompressStep
  PROVE  Zipping(text)'
  BY DeflateZips, FinishZips, ReturnZips DEF CompressStep
-----------------------------------------------------------------------------
(* AES_cbc128_encrypt and AES_cbc128_decrypt                               *)

\* What is asked of the block cipher under a key: blocks to blocks, and back.
InvertibleUnder(key) ==
  \A b \in Block : /\ Encipher(key, b) \in Block /\ Decipher(key, b) \in Block
                    /\ Decipher(key, Encipher(key, b)) = b

Previous(r) == IF r = 0 THEN InitialVector ELSE cipher[r - 1]
Mixed(r) ==
  [col \in Columns |-> IF 16 * r + col < size THEN ByteXor(plain[r][col], Previous(r)[col])
                     ELSE Previous(r)[col]]
Chained(r) == cipher[r] = Encipher(ekey, Mixed(r))

CbcIInv ==
  /\ CbcTypeOK
  /\ cpc = "encrypt" => ivec = Previous(row) /\ \A r \in Rows : r < row => Chained(r)
  /\ cpc \in {"encrypted", "decrypt", "decrypted"} =>
       \A r \in Rows : 16 * r < size => Chained(r)
  /\ cpc = "decrypt" => ivec = Previous(row) /\ \A r \in Rows : r >= row => body[r] = cipher[r]
  /\ DecryptedIsPlain
-----------------------------------------------------------------------------
\* The initial vector is a block, and the zeroed buffers are memory.
LEMMA VectorIsBlock == InitialVector \in Block /\ Zeros \in Memory
  BY DEF InitialVector, Zeros, Memory, Block, Byte

\* Adding a byte twice gives back what it was added to.
LEMMA XorInByte == ASSUME NEW a \in Byte, NEW b \in Byte
                   PROVE  ByteXor(a, b) \in Byte /\ ByteXor(ByteXor(a, b), b) = a
  BY XorAssumption

\* The initial states satisfy the invariant: nothing has been written.
LEMMA InitIInv == CbcInit => CbcIInv
  <1> SUFFICES ASSUME CbcInit PROVE CbcIInv
    OBVIOUS
  <1>1. CbcTypeOK
    BY VectorIsBlock, CbcAssumption DEF CbcInit, CbcTypeOK
  <1> QED
    BY <1>1 DEF CbcInit, CbcIInv, DecryptedIsPlain

\* A call of the encryption starts the chain at the initial vector.
LEMMA CallEncryptIInv ==
  ASSUME CbcIInv, NEW p \in Memory, NEW count \in 0..(16 * MaxRows), NEW key \in Keys,
         CallEncrypt(p, count, key)
  PROVE  CbcIInv'
  <1>1. CbcTypeOK'
    BY VectorIsBlock, CbcAssumption DEF CbcIInv, CbcTypeOK, CallEncrypt, Rows
  <1> QED
    BY <1>1 DEF CbcIInv, CallEncrypt, DecryptedIsPlain, Previous, Rows

\* A turn of the encryption adds the row it enciphers to the chain.
LEMMA EncryptBlockIInv == ASSUME CbcIInv, InvertibleUnder(ekey), EncryptBlock PROVE CbcIInv'
  <1> DEFINE mixed == [col \in Columns |-> IF col < len THEN ByteXor(plain[row][col], ivec[col])
                                           ELSE ivec[col]]
             out == Encipher(ekey, mixed)
  <1>1. /\ cpc = "encrypt" /\ row \in Rows /\ len > 0 /\ len = size - 16 * row /\ len \in 0..size
        /\ ivec = Previous(row) /\ ivec \in Block /\ plain[row] \in Block
        /\ size \in 0..(16 * MaxRows) /\ ekey \in Keys
    BY DEF CbcIInv, CbcTypeOK, EncryptBlock, Memory
  <1> PICK k \in Rows : k = row
    BY <1>1
  <1>2. mixed \in Block
    BY <1>1, XorInByte DEF Block
  <1>3. out \in Block
    BY <1>1, <1>2 DEF InvertibleUnder
  <1>4. mixed = Mixed(k)
    BY <1>1 DEF Mixed, Columns, Rows
  <1>5. /\ cipher' = [cipher EXCEPT ![row] = out] /\ ivec' = out
        /\ UNCHANGED <<plain, size, body, ekey, dkey>>
    BY DEF EncryptBlock
  <1>6. /\ cipher' \in Memory /\ cipher'[k] = out
        /\ \A r \in Rows : r # k => cipher'[r] = cipher[r]
    BY <1>1, <1>3, <1>5 DEF CbcIInv, CbcTypeOK, Memory
  <1>7. ASSUME NEW r \in Rows, r <= k
        PROVE  Previous(r)' = Previous(r) /\ Mixed(r)' = Mixed(r)
    <2>1. r = 0 \/ (r - 1 \in Rows /\ r - 1 # k)
      BY <1>7, CbcAssumption DEF Rows
    <2>2. Previous(r)' = Previous(r)
      BY <1>6, <2>1 DEF Previous
    <2> QED
      BY <1>5, <2>2 DEF Mixed
  <1>8. Chained(k)'
    BY <1>4, <1>5, <1>6, <1>7 DEF Chained, Rows
  <1>9. ASSUME NEW r \in Rows, r < k PROVE Chained(r)'
    <2>1. Chained(r)
      BY <1>1, <1>9 DEF CbcIInv
    <2>2. cipher'[r] = cipher[r] /\ r <= k
      BY <1>6, <1>9 DEF Rows
    <2> QED
      BY <1>5, <1>7, <2>1, <2>2 DEF Chained
  <1>10. CASE len <= 16
    <2>1. cpc' = "encrypted" /\ UNCHANGED <<row, len>>
      BY <1>1, <1>10 DEF EncryptBlock
    <2>2. \A r \in Rows : 16 * r < size => r < k \/ r = k
      BY <1>1, <1>10 DEF Rows
    <2>3. CbcTypeOK'
      BY <1>1, <1>3, <1>5, <1>6, <2>1 DEF CbcIInv, CbcTypeOK
    <2> QED
      BY <1>5, <1>8, <1>9, <2>1, <2>2, <2>3 DEF CbcIInv, DecryptedIsPlain
  <1>11. CASE len > 16
    <2>1. cpc' = "encrypt" /\ row' = row + 1 /\ len' = len - 16
      BY <1>1, <1>11 DEF EncryptBlock
    <2>2. k + 1 \in Rows
      BY <1>1, <1>11, CbcAssumption DEF Rows
    <2>3. CbcTypeOK'
      <3>1. row \in Nat /\ size \in Nat /\ len \in Nat /\ size' = size
        BY <1>1, <1>5 DEF Rows
      <3>2. len' \in 0..size' /\ len' > 0 /\ len' = size' - 16 * row'
        BY <3>1, <1>1, <1>5, <1>11, <2>1
      <3> QED
        BY <1>1, <1>3, <1>5, <1>6, <2>1, <2>2, <3>2 DEF CbcIInv, CbcTypeOK, Rows
    <2>4. ivec' = Previous(k + 1)'
      BY <1>5, <1>6, <2>1 DEF Previous, Rows
    <2>5. \A r \in Rows : r < row' => Chained(r)'
      BY <1>1, <1>8, <1>9, <2>1 DEF Rows
    <2> QED
      BY <2>1, <2>3, <2>4, <2>5 DEF CbcIInv, DecryptedIsPlain, Previous
  <1> QED
    BY <1>1, <1>10, <1>11

\* The decryption starts on a copy of the ciphertext.
LEMMA CallDecryptIInv == ASSUME CbcIInv, NEW key \in Keys, CallDecrypt(key) PROVE CbcIInv'
  <1>1. CbcTypeOK'
    BY VectorIsBlock, CbcAssumption DEF CbcIInv, CbcTypeOK, CallDecrypt, Rows
  <1>2. \A r \in Rows : Chained(r)' <=> Chained(r)
    BY DEF CallDecrypt, Chained, Mixed, Previous
  <1> QED
    BY <1>1, <1>2 DEF CbcIInv, CallDecrypt, DecryptedIsPlain, Previous, Rows, Columns, CbcTypeOK

\* A turn of the decryption recovers the row, and keeps its ciphertext for the next one.
LEMMA DecryptBlockIInv == ASSUME CbcIInv, InvertibleUnder(dkey), DecryptBlock PROVE CbcIInv'
  <1> DEFINE tmp == Decipher(dkey, body[row])
             out == [col \in Columns |-> IF col < len THEN ByteXor(tmp[col], ivec[col])
                                         ELSE body[row][col]]
  <1>1. /\ cpc = "decrypt" /\ row \in Rows /\ len > 0 /\ len = size - 16 * row /\ len \in 0..size
        /\ ivec = Previous(row) /\ ivec \in Block /\ body[row] \in Block
        /\ body[row] = cipher[row] /\ plain[row] \in Block
        /\ size \in 0..(16 * MaxRows) /\ ekey \in Keys /\ dkey \in Keys
    BY DEF CbcIInv, CbcTypeOK, DecryptBlock, Memory, Rows
  <1> PICK k \in Rows : k = row
    BY <1>1
  <1>2. tmp \in Block
    BY <1>1 DEF InvertibleUnder
  <1>3. out \in Block
    BY <1>1, <1>2, XorInByte DEF Block
  <1>4. /\ body' = [body EXCEPT ![row] = out] /\ ivec' = body[row]
        /\ UNCHANGED <<plain, size, cipher, ekey, dkey>>
    BY DEF DecryptBlock
  <1>5. /\ body' \in Memory /\ body'[k] = out
        /\ \A r \in Rows : r # k => body'[r] = body[r]
    BY <1>1, <1>3, <1>4 DEF CbcIInv, CbcTypeOK, Memory
  <1>6. \A r \in Rows : Chained(r)' <=> Chained(r)
    BY <1>4 DEF Chained, Mixed, Previous
  <1>7. ASSUME dkey = ekey, NEW col \in Columns, 16 * row + col < size
        PROVE  out[col] = plain[row][col]
    <2>1. cipher[row] = Encipher(ekey, Mixed(row))
      BY <1>1 DEF CbcIInv, Chained, Rows
    <2>2. Mixed(row) \in Block
      BY <1>1, XorInByte DEF Mixed, Block
    <2>3. tmp = Mixed(row)
      BY <1>1, <1>7, <2>1, <2>2 DEF InvertibleUnder
    <2>4. tmp[col] = ByteXor(plain[row][col], ivec[col]) /\ col < len
      BY <1>1, <1>7, <2>3 DEF Mixed, Columns, Rows
    <2>5. plain[row][col] \in Byte /\ ivec[col] \in Byte
      BY <1>1 DEF Block
    <2> QED
      BY <2>4, <2>5, XorInByte
  <1>8. ASSUME dkey = ekey, NEW r \in Rows, r <= k, NEW col \in Columns, 16 * r + col < size
        PROVE  body'[r][col] = plain[r][col]
    <2>1. CASE r = k
      BY <1>5, <1>7, <1>8, <2>1
    <2>2. CASE r < k
      BY <1>1, <1>5, <1>8, <2>2 DEF CbcIInv, DecryptedIsPlain, Rows
    <2> QED
      BY <1>1, <1>8, <2>1, <2>2 DEF Rows
  <1>9. CASE len <= 16
    <2>1. cpc' = "decrypted" /\ UNCHANGED <<row, len>>
      BY <1>1, <1>9 DEF DecryptBlock
    <2>2. \A r \in Rows, col \in Columns : 16 * r + col < size => r <= k
      BY <1>1, <1>9 DEF Rows, Columns
    <2>3. CbcTypeOK'
      BY <1>1, <1>4, <1>5, <2>1 DEF CbcIInv, CbcTypeOK
    <2>4. DecryptedIsPlain'
      BY <1>4, <1>8, <2>1, <2>2 DEF DecryptedIsPlain
    <2> QED
      BY <1>1, <1>4, <1>6, <2>1, <2>3, <2>4 DEF CbcIInv
  <1>10. CASE len > 16
    <2>1. cpc' = "decrypt" /\ row' = row + 1 /\ len' = len - 16
      BY <1>1, <1>10 DEF DecryptBlock
    <2>2. k + 1 \in Rows
      BY <1>1, <1>10, CbcAssumption DEF Rows
    <2>3. CbcTypeOK'
      <3>1. row \in Nat /\ size \in Nat /\ len \in Nat /\ size' = size
        BY <1>1, <1>4 DEF Rows
      <3>2. len' \in 0..size' /\ len' > 0 /\ len' = size' - 16 * row'
        BY <3>1, <1>1, <1>4, <1>10, <2>1
      <3> QED
        BY <1>1, <1>4, <1>5, <2>1, <2>2, <3>2 DEF CbcIInv, CbcTypeOK, Rows
    <2>4. ivec' = Previous(k + 1)'
      BY <1>1, <1>4, <2>1 DEF Previous, Rows
    <2>5. \A r \in Rows : r >= row' => body'[r] = cipher'[r]
      BY <1>1, <1>4, <1>5, <2>1 DEF CbcIInv, Rows
    <2>6. DecryptedIsPlain'
      BY <1>1, <1>4, <1>8, <2>1, <2>5 DEF DecryptedIsPlain, Rows
    <2> QED
      BY <1>1, <1>4, <1>6, <2>1, <2>3, <2>4, <2>5, <2>6 DEF CbcIInv, Previous
  <1> QED
    BY <1>1, <1>9, <1>10

\* A step that leaves the cipher alone
LEMMA SameCbcIInv == ASSUME CbcIInv, UNCHANGED cbcVars PROVE CbcIInv'
  BY DEF cbcVars, CbcIInv, CbcTypeOK, DecryptedIsPlain, Chained, Mixed, Previous

\* A connection and a new answer start with nothing written.
LEMMA ResetIInv == ASSUME CbcReset PROVE CbcIInv'
  <1>1. CbcTypeOK'
    BY VectorIsBlock, CbcAssumption, DigestAssumption DEF CbcReset, CbcTypeOK
  <1> QED
    BY <1>1 DEF CbcReset, CbcIInv, DecryptedIsPlain

\* The bytes of a sequence, row by row
LEMMA RowsInMemory ==
  ASSUME NEW bytes \in Seq(Byte)
  PROVE  RowsOf(bytes) \in Memory
  <1>1. ASSUME NEW r \in Rows, NEW col \in Columns
        PROVE  (IF 16 * r + col < Len(bytes) THEN bytes[16 * r + col + 1] ELSE 0) \in Byte
    <2>1. CASE 16 * r + col < Len(bytes)
      <3>1. 16 * r + col + 1 \in 1..Len(bytes)
        BY <2>1, CbcAssumption DEF Rows, Columns
      <3> QED
        BY <2>1, <3>1, ElementOfSeq
    <2> QED
      BY <2>1 DEF Byte
  <1> QED
    BY <1>1 DEF RowsOf, Memory, Block

\* Once the decryption is done the body holds the bytes that were encrypted.
LEMMA BytesComeBack ==
  ASSUME CbcIInv, cpc = "decrypted", dkey = ekey, NEW bytes \in Seq(Byte),
         Len(bytes) <= 16 * MaxRows, plain = RowsOf(bytes), size = Len(bytes)
  PROVE  BytesOf(body, size) = bytes
  <1>1. PICK count \in Nat : count = Len(bytes)
    OBVIOUS
  <1>2. ASSUME NEW i \in 1..count
        PROVE  body[(i - 1) \div 16][(i - 1) % 16] = bytes[i]
    <2>1. PICK r : r = (i - 1) \div 16
      OBVIOUS
    <2>2. PICK col : col = (i - 1) % 16
      OBVIOUS
    <2>3. r \in Nat /\ col \in 0..15 /\ 16 * r + col = i - 1
      BY ONLY <1>1, <2>1, <2>2, i \in 1..count
    <2>4. r \in Rows /\ col \in Columns /\ 16 * r + col < size /\ 16 * r + col + 1 = i
      BY <1>1, <2>3, CbcAssumption DEF Rows, Columns
    <2>5. body[r][col] = plain[r][col]
      BY <2>4 DEF CbcIInv, DecryptedIsPlain
    <2>6. plain[r][col] = bytes[16 * r + col + 1]
      BY <2>4 DEF RowsOf
    <2> QED
      BY <2>1, <2>2, <2>4, <2>5, <2>6
  <1>3. BytesOf(body, size) = [i \in 1..count |-> bytes[i]]
    BY <1>1, <1>2 DEF BytesOf
  <1>4. bytes = [i \in 1..count |-> bytes[i]]
    BY <1>1
  <1> QED
    BY <1>3, <1>4
-----------------------------------------------------------------------------
(* The two functions on their own, whatever they are called with           *)

\* Whichever key they are called with, it inverts.
Invertible == \A key \in Keys : InvertibleUnder(key)

\* Every step of either function, and a stuttering one, preserves the invariant.
LEMMA NextIInv == ASSUME Invertible, CbcIInv, [CbcNext]_cbcVars PROVE CbcIInv'
<1> ekey \in Keys /\ dkey \in Keys
  BY DEF CbcIInv, CbcTypeOK
<1>1. CASE \E p \in Memory, m \in 0..(16 * MaxRows), key \in Keys : CallEncrypt(p, m, key)
  BY <1>1, CallEncryptIInv
<1>2. CASE EncryptBlock
  BY <1>2, EncryptBlockIInv DEF Invertible
<1>3. CASE \E key \in Keys : CallDecrypt(key)
  BY <1>3, CallDecryptIInv
<1>4. CASE DecryptBlock
  BY <1>4, DecryptBlockIInv DEF Invertible
<1>5. CASE UNCHANGED cbcVars
  BY <1>5, SameCbcIInv
<1> QED
  BY <1>1, <1>2, <1>3, <1>4, <1>5 DEF CbcNext

\* Both loops stay inside their buffers (the row they point at is a row whenever they turn) and
\* len, which is unsigned in the code, never goes below zero: it counts the bytes from the row on.
THEOREM CbcTypeCorrect == Invertible => (CbcSpec => []CbcTypeOK)
<1> SUFFICES ASSUME Invertible PROVE CbcSpec => []CbcTypeOK
  OBVIOUS
<1>1. CbcInit => CbcIInv
  BY InitIInv
<1>2. CbcIInv /\ [CbcNext]_cbcVars => CbcIInv'
  BY NextIInv
<1>3. CbcIInv => CbcTypeOK
  BY DEF CbcIInv
<1> QED
  BY <1>1, <1>2, <1>3, PTL DEF CbcSpec

\* Decrypting in place what AES_cbc128_encrypt wrote gives back the bytes that were encrypted, for
\* every length (the last block may be partial) and every cipher that its keys invert.
THEOREM DecryptionUndoesEncryption == Invertible => (CbcSpec => []DecryptedIsPlain)
<1> SUFFICES ASSUME Invertible PROVE CbcSpec => []DecryptedIsPlain
  OBVIOUS
<1>1. CbcInit => CbcIInv
  BY InitIInv
<1>2. CbcIInv /\ [CbcNext]_cbcVars => CbcIInv'
  BY NextIInv
<1>3. CbcIInv => DecryptedIsPlain
  BY DEF CbcIInv
<1> QED
  BY <1>1, <1>2, <1>3, PTL DEF CbcSpec
-----------------------------------------------------------------------------
(* The agreed key                                                          *)

\* The latest private half is that of the connection, its answer is in inbox until it is handled.
KeyInv ==
  /\ phase = "down" => inbox = {}
  /\ phase # "down" =>
       \E x \in Privates, y \in ServerPrivates :
         /\ mx = {x} /\ skey = Md5(CBN_CalcKey(CBN_CreateLocalKey(x), y))
         /\ inbox \subseteq {CBN_CreateLocalKey(y)}
  /\ SameKey

keyVars == <<mx, aesKey, skey, inbox>>

\* No connection has been made.
LEMMA InitKeys == Init => KeyInv
  BY DEF Init, KeyInv, SameKey

\* A connection draws both private halves and replaces the one of the client.
LEMMA ConnectKeys == ASSUME Connect PROVE KeyInv'
<1>1. PICK x \in Privates, y \in ServerPrivates :
        /\ mx' = {x} /\ skey' = Md5(CBN_CalcKey(CBN_CreateLocalKey(x), y))
        /\ inbox' = {CBN_CreateLocalKey(y)}
  BY DEF Connect, genPublicKey
<1>2. phase' = "up"
  BY DEF Connect
<1> QED
  BY <1>1, <1>2 DEF KeyInv, SameKey

\* genMD5 computes the key from the private half that is the latest.
LEMMA OnExchangeKeys == ASSUME KeyInv, OnExchange PROVE KeyInv'
<1>1. PICK gy \in inbox : \E z \in mx : aesKey' = Md5(CBN_CalcKey(gy, z))
  BY DEF OnExchange, genMD5
<1>2. inbox' = {} /\ UNCHANGED <<phase, mx, skey>> /\ phase # "down"
  BY <1>1 DEF OnExchange, genMD5, serverVars, KeyInv
<1>3. PICK x \in Privates, y \in ServerPrivates :
        /\ mx = {x} /\ skey = Md5(CBN_CalcKey(CBN_CreateLocalKey(x), y))
        /\ inbox \subseteq {CBN_CreateLocalKey(y)}
  BY <1>2 DEF KeyInv
<1>4. aesKey' = Md5(CBN_CalcKey(CBN_CreateLocalKey(y), x))
  BY <1>1, <1>3, Zenon
<1>5. x \in Nat /\ y \in Nat
  BY KeyExchangeAssumption, ResponseAssumption
<1>6. CBN_CalcKey(CBN_CreateLocalKey(x), y) = CBN_CalcKey(CBN_CreateLocalKey(y), x)
  BY <1>5, KeysAgree
<1>7. aesKey' = skey'
  BY <1>2, <1>3, <1>4, <1>6, Zenon
<1>8. \E v \in Privates, w \in ServerPrivates :
        /\ mx' = {v} /\ skey' = Md5(CBN_CalcKey(CBN_CreateLocalKey(v), w))
        /\ inbox' \subseteq {CBN_CreateLocalKey(w)}
  BY <1>2, <1>3, Zenon
<1> QED
  BY <1>2, <1>7, <1>8 DEF KeyInv, SameKey

\* The keys of a connection that goes on
LEMMA SameKeys ==
  ASSUME KeyInv, phase # "down", phase' # "down", UNCHANGED keyVars
  PROVE  KeyInv'
  BY DEF KeyInv, SameKey, keyVars

\* What the other actions leave alone
LEMMA OthersKeepKeys ==
  ASSUME Reply \/ ServerNext \/ Handle \/ Decrypt \/ Unpress \/ UnCompress \/ UnpressReturn
  PROVE  phase # "down" /\ phase' # "down" /\ UNCHANGED keyVars
<1>1. CASE Reply
  BY <1>1 DEF Reply, keyVars, serverVars
<1>2. CASE ServerNext
  BY <1>2 DEF ServerNext, Compress, Compressed, Encrypt, Post, keyVars, serverVars, responseVars
<1>3. CASE Handle
  BY <1>3 DEF Handle, keyVars, serverVars
<1>4. CASE Decrypt
  BY <1>4 DEF Decrypt, keyVars, serverVars
<1>5. CASE Unpress
  BY <1>5 DEF Unpress, keyVars, serverVars
<1>6. CASE UnCompress
  BY <1>6 DEF UnCompress, keyVars, serverVars, responseVars
<1>7. CASE UnpressReturn
  BY <1>7 DEF UnpressReturn, keyVars, serverVars
<1> QED
  BY <1>1, <1>2, <1>3, <1>4, <1>5, <1>6, <1>7

\* Every step preserves the invariant on the keys.
LEMMA NextKeys == ASSUME KeyInv, [Next]_vars PROVE KeyInv'
<1>1. CASE Connect
  BY <1>1, ConnectKeys
<1>2. CASE OnExchange
  BY <1>2, OnExchangeKeys
<1>3. CASE Reply \/ ServerNext \/ Handle \/ Decrypt \/ Unpress \/ UnCompress \/ UnpressReturn
  BY <1>3, OthersKeepKeys, SameKeys
<1>4. CASE UNCHANGED vars
  BY <1>4 DEF vars, serverVars, responseVars, KeyInv, SameKey
<1> QED
  BY <1>1, <1>2, <1>3, <1>4 DEF Next, ClientNext

\* Whatever private halves the two ends draw, on however many connections, and wherever in the
\* answers to them the program is: once the answer to the exchange is handled, genMD5 has given
\* the client the key of the server.
THEOREM KeysAgreed == Spec => []SameKey
<1>1. Init => KeyInv
  BY InitKeys
<1>2. KeyInv /\ [Next]_vars => KeyInv'
  BY NextKeys
<1>3. KeyInv => SameKey
  BY DEF KeyInv
<1> QED
  BY <1>1, <1>2, <1>3, PTL DEF Spec
-----------------------------------------------------------------------------
(* The life of a reply                                                     *)

\* What is asked of the cipher: that every key which may be agreed on inverts it.
CipherInverts == \A k \in 0..(Modulus - 1) : InvertibleUnder(Md5(k))

Posted == {"encrypt", "posted", "decrypt", "decrypted", "unpress", "done"}
Intact == {"none", "CompressGZ", "described"}

HeadRecord ==
  [text : Seq(TextByte), kind : ArchiveKinds, btCompressFlag : {0, 2}, bEncrypt : {0, 1},
   dwRawSize : Nat]

HeadInv ==
  /\ head \in HeadRecord /\ (head.kind # "none" => head.kind \in Archives)
  /\ phase = "compress" \/ phase \in Posted => head.text \in Replies /\ head.kind \in Archives
  /\ phase = "compress" =>
       /\ head.kind = "CompressGZ" /\ head.btCompressFlag = 2
       /\ head.dwRawSize = Len(head.text) /\ Zipping(head.text)

WireInv ==
  phase \in Posted =>
    /\ wire \in Seq(Byte) /\ Len(wire) <= 16 * MaxRows
    /\ head.kind \in Intact =>
         /\ head.dwRawSize = Len(head.text)
         /\ head.btCompressFlag = 2 =>
              \E described \in BOOLEAN : wire = Member(head.text, described)
         /\ head.btCompressFlag = 0 => wire = head.text

CipherInv ==
  /\ CbcIInv
  /\ cpc # "idle" =>
       /\ phase \in Posted /\ head.bEncrypt = 1 /\ ekey = skey
       /\ plain = RowsOf(wire) /\ size = Len(wire)
  /\ cpc \in {"decrypt", "decrypted"} => dkey = skey
  /\ phase = "posted" => cpc = IF head.bEncrypt = 1 THEN "encrypted" ELSE "idle"
  /\ phase = "decrypt" => head.bEncrypt = 1
  /\ phase \in {"decrypted", "unpress", "done"} =>
       cpc = IF head.bEncrypt = 1 THEN "decrypted" ELSE "idle"

GzInv ==
  head.kind \in Intact =>
    /\ gz = NoGz \/ \E described \in BOOLEAN : Unpressing(head.text, described)
    /\ phase = "unpress" => \E described \in BOOLEAN : Unpressing(head.text, described)
    /\ phase = "done" => response = head.text

ReplyInv == KeyInv /\ HeadInv /\ WireInv /\ CipherInv /\ GzInv
-----------------------------------------------------------------------------
(* Lemmas                                                                  *)

\* The texts of the server, and how long they are
LEMMA RepliesFit ==
  ASSUME NEW text \in Replies
  PROVE  /\ text \in Seq(TextByte) /\ Len(text) \in Nat /\ Len(text) <= MaxInt
         /\ Len(text) + 47 <= 16 * MaxRows
<1>1. text \in Seq(0..99) /\ Len(text) <= 2147483647 /\ Len(text) + 47 <= 16 * MaxRows
  BY ReplyAssumption, SMT
<1>2. 0..99 = TextByte
  BY DEF TextByte
<1>3. text \in Seq(TextByte) /\ Len(text) \in Nat
  BY <1>1, <1>2, SMT
<1> QED
  BY <1>1, <1>3, SMT DEF MaxInt

\* The key of a connection is one that may be agreed on.
LEMMA AgreedKey ==
  ASSUME KeyInv, phase # "down"
  PROVE  skey \in Keys /\ (CipherInverts => InvertibleUnder(skey))
<1>1. PICK x \in Privates, y \in ServerPrivates :
        skey = Md5(CBN_CalcKey(CBN_CreateLocalKey(x), y))
  BY DEF KeyInv
<1>2. x \in Nat /\ y \in Nat
  BY KeyExchangeAssumption, ResponseAssumption
<1>3. CBN_CalcKey(CBN_CreateLocalKey(x), y) \in 0..(Modulus - 1)
  BY <1>2, KeysAgree
<1> QED
  BY <1>1, <1>3, DigestAssumption, Zenon DEF CipherInverts

\* A file of one member, and how long it is
LEMMA MemberFits ==
  ASSUME NEW text \in Seq(TextByte), Len(text) <= MaxInt, NEW described \in BOOLEAN
  PROVE  /\ Member(text, described) \in Seq(Byte)
         /\ Len(Member(text, described)) <= Len(text) + 10 + SizeOfHead(described)
         /\ Len(Member(text, described)) \in Nat
<1>1. MemberParts(Member(text, described), MemberHead(described), SizeOfHead(described),
                  CodesOf(text), text)
  BY MemberProperties
<1>2. PICK m : m = Member(text, described)
  OBVIOUS
<1>3. PICK c : c = CodesOf(text)
  OBVIOUS
<1>4. PICK k : k = SizeOfHead(described)
  OBVIOUS
<1>5. m \in Seq(Byte) /\ Len(m) = k + Len(c) + 8
  BY <1>1, <1>2, <1>3, <1>4, Zenon DEF MemberParts
<1>6. Len(c) \in Nat /\ Len(c) <= Len(text) + 2
  BY <1>3, CodesProperties
<1>7. k \in Nat
  BY <1>4 DEF SizeOfHead
<1>8. Len(m) <= Len(text) + 10 + k /\ Len(m) \in Nat
  BY <1>5, <1>6, <1>7
<1> QED
  BY <1>2, <1>4, <1>5, <1>8

\* A text is a sequence of bytes.
LEMMA TextIsBytes ==
  ASSUME NEW text \in Seq(TextByte)
  PROVE  text \in Seq(Byte)
<1>1. TextByte \subseteq Byte
  BY DEF TextByte, Byte
<1> QED
  BY <1>1, SeqMonotonic

\* What the server sends fits the buffers of the cipher, whichever way it is compressed.
LEMMA ArchiveFits ==
  ASSUME NEW text \in Replies, NEW kind \in ArchiveKinds
  PROVE  Archive(text, kind) \in Seq(Byte) /\ Len(Archive(text, kind)) <= 16 * MaxRows
<1>1. /\ text \in Seq(TextByte) /\ Len(text) \in Nat /\ Len(text) <= MaxInt
      /\ Len(text) + 47 <= 16 * MaxRows
  BY RepliesFit
<1>2. MaxRows \in Nat /\ TRUE \in BOOLEAN /\ FALSE \in BOOLEAN
  BY CbcAssumption
<1>3. SizeOfHead(TRUE) = 17 /\ SizeOfHead(FALSE) = 10
  BY DEF SizeOfHead
<1>4. CASE kind = "described"
  <2>1. Archive(text, kind) = Member(text, TRUE)
    BY <1>4 DEF Archive
  <2>2. /\ Member(text, TRUE) \in Seq(Byte) /\ Len(Member(text, TRUE)) \in Nat
        /\ Len(Member(text, TRUE)) <= Len(text) + 10 + 17
    BY <1>1, <1>2, <1>3, MemberFits
  <2>3. Len(Member(text, TRUE)) <= 16 * MaxRows
    <3>1. PICK m : m = Len(Member(text, TRUE))
      OBVIOUS
    <3>2. PICK k : k = Len(text)
      OBVIOUS
    <3>3. k \in Nat /\ k + 47 <= 16 * MaxRows /\ m \in Nat /\ m <= k + 10 + 17
      BY <1>1, <2>2, <3>1, <3>2, Zenon
    <3>4. m <= 16 * MaxRows
      BY ONLY <1>2, <3>3
    <3> QED
      BY <3>1, <3>4
  <2> QED
    BY <2>1, <2>2, <2>3, Zenon
<1>5. CASE kind = "members"
  <2>1. PICK half : half = (Len(text) + 1) \div 2
    OBVIOUS
  <2>2. PICK a : a = SubSeq(text, 1, half)
    OBVIOUS
  <2>3. PICK b : b = SubSeq(text, half + 1, Len(text))
    OBVIOUS
  <2>4. half \in Nat /\ half <= Len(text)
    BY ONLY <1>1, <2>1
  <2>5. a \in Seq(TextByte) /\ Len(a) = half
    BY <1>1, <2>2, <2>4
  <2>6. b \in Seq(TextByte) /\ Len(b) = Len(text) - half
    BY <1>1, <2>3, <2>4
  <2>7. Len(a) <= MaxInt /\ Len(b) <= MaxInt
    <3>1. MaxInt \in Int
      BY SMT DEF MaxInt
    <3> QED
      BY <1>1, <2>4, <2>5, <2>6, <3>1
  <2>8. PICK u : u = Member(a, FALSE)
    OBVIOUS
  <2>9. PICK v : v = Member(b, TRUE)
    OBVIOUS
  <2>10. u \in Seq(Byte) /\ Len(u) <= Len(a) + 10 + 10
    BY <1>2, <1>3, <2>5, <2>7, <2>8, MemberFits
  <2>11. v \in Seq(Byte) /\ Len(v) <= Len(b) + 10 + 17
    BY <1>2, <1>3, <2>6, <2>7, <2>9, MemberFits
  <2>12. Archive(text, kind) = u \o v
    BY <1>5, <2>1, <2>2, <2>3, <2>8, <2>9 DEF Archive
  <2>13. u \o v \in Seq(Byte) /\ Len(u \o v) = Len(u) + Len(v) /\ Len(u) \in Nat /\ Len(v) \in Nat
    BY <2>10, <2>11
  <2>14. Len(u) + Len(v) <= Len(text) + 47
    BY <1>1, <2>4, <2>5, <2>6, <2>10, <2>11, <2>13
  <2> QED
    BY <1>1, <1>2, <2>12, <2>13, <2>14
<1>6. CASE kind = "padded"
  <2>1. PICK u : u = Member(text, FALSE)
    OBVIOUS
  <2>2. PICK v : v = [i \in 1..12 |-> 0]
    OBVIOUS
  <2>3. u \in Seq(Byte) /\ Len(u) \in Nat /\ Len(u) <= Len(text) + 10 + 10
    BY <1>1, <1>2, <1>3, <2>1, MemberFits
  <2>4. v \in Seq(Byte) /\ Len(v) = 12
    BY <2>2 DEF Byte
  <2>5. Archive(text, kind) = u \o v
    BY <1>6, <2>1, <2>2 DEF Archive
  <2>6. u \o v \in Seq(Byte) /\ Len(u \o v) = Len(u) + Len(v)
    <3>1. u \in Seq(Byte) /\ v \in Seq(Byte)
      BY <2>3, <2>4
    <3> QED
      BY ONLY <3>1, ConcatProperties
  <2> QED
    BY <1>1, <1>2, <2>3, <2>4, <2>5, <2>6
<1>7. CASE kind \in {"none", "CompressGZ"}
  <2>1. Archive(text, kind) = text
    BY <1>7 DEF Archive
  <2> QED
    BY <1>1, <1>2, <2>1, TextIsBytes
<1> QED
  BY <1>4, <1>5, <1>6, <1>7 DEF ArchiveKinds
-----------------------------------------------------------------------------
(* The initial states, and a connection                                    *)

\* The answer before there is one
LEMMA NoHeadIsHead == NoHead \in HeadRecord /\ NoHead.kind = "none"
<1>1. <<>> \in Seq(TextByte)
  OBVIOUS
<1> QED
  BY <1>1 DEF NoHead, HeadRecord, ArchiveKinds

\* The initial states satisfy the invariant.
LEMMA InitReply == Init => ReplyInv
<1> SUFFICES ASSUME Init PROVE ReplyInv
  OBVIOUS
<1>1. phase = "down" /\ head = NoHead /\ cpc = "idle" /\ gz = NoGz
  BY DEF Init, CbcInit, GzipInit
<1>2. KeyInv
  BY InitKeys
<1>3. HeadInv
  BY <1>1, NoHeadIsHead DEF HeadInv, Posted
<1>4. WireInv
  BY <1>1 DEF WireInv, Posted
<1>5. CipherInv
  <2>1. CbcIInv
    BY InitIInv DEF Init
  <2> QED
    BY <1>1, <2>1 DEF CipherInv, Posted
<1>6. GzInv
  BY <1>1 DEF GzInv
<1> QED
  BY <1>2, <1>3, <1>4, <1>5, <1>6 DEF ReplyInv

\* A connection forgets the last answer.
LEMMA ConnectReply == ASSUME ReplyInv, Connect PROVE ReplyInv'
<1>1. phase' = "up" /\ head' = NoHead /\ cpc' = "idle" /\ gz' = NoGz /\ CbcReset
  BY DEF Connect, CbcReset
<1>2. KeyInv'
  BY ConnectKeys
<1>3. HeadInv'
  BY <1>1, NoHeadIsHead DEF HeadInv, Posted
<1>4. WireInv'
  BY <1>1 DEF WireInv, Posted
<1>5. CipherInv'
  <2>1. CbcIInv'
    BY <1>1, ResetIInv
  <2> QED
    BY <1>1, <2>1 DEF CipherInv, Posted
<1>6. GzInv'
  BY <1>1 DEF GzInv
<1> QED
  BY <1>2, <1>3, <1>4, <1>5, <1>6 DEF ReplyInv
-----------------------------------------------------------------------------
(* The server                                                              *)

\* The answer of the server begins with nothing encrypted, and perhaps nothing compressed yet.
LEMMA ReplyReply == ASSUME ReplyInv, Reply PROVE ReplyInv'
<1>1. PICK text \in Replies, kind \in Archives, encrypt \in {0, 1} :
        /\ head' = [text |-> text, kind |-> kind, bEncrypt |-> encrypt,
                    dwRawSize |-> Len(text) + (IF kind = "padded" THEN 4 ELSE 0),
                    btCompressFlag |-> IF kind = "none" THEN 0 ELSE 2]
        /\ gz' = NoGz
        /\ \/ kind = "CompressGZ" /\ CompressGZ(text) /\ wire' = <<>> /\ phase' = "compress"
           \/ /\ kind # "CompressGZ"
              /\ wire' = Archive(text, kind) /\ phase' = "encrypt" /\ zip' = NoZip
  BY DEF Reply
<1>2. CbcReset /\ cpc' = "idle"
  BY DEF Reply, CbcReset
<1>3. kind \in ArchiveKinds
  BY ResponseAssumption
<1>4. text \in Seq(TextByte) /\ Len(text) \in Nat
  BY RepliesFit
<1>5. KeyInv'
  BY OthersKeepKeys, SameKeys DEF ReplyInv
<1>6. PICK size2 \in Nat : size2 = Len(text) + (IF kind = "padded" THEN 4 ELSE 0)
  BY <1>4
<1>7. PICK flag \in {0, 2} : flag = IF kind = "none" THEN 0 ELSE 2
  OBVIOUS
<1>8. head' = [text |-> text, kind |-> kind, bEncrypt |-> encrypt, dwRawSize |-> size2,
               btCompressFlag |-> flag]
  BY <1>1, <1>6, <1>7
<1>9. /\ head' \in HeadRecord /\ head'.text = text /\ head'.kind = kind
      /\ head'.dwRawSize = size2 /\ head'.btCompressFlag = flag
  BY <1>3, <1>4, <1>8 DEF HeadRecord
<1>10. kind # "padded" => size2 = Len(text)
  BY <1>4, <1>6
<1>11. HeadInv'
  <2>1. phase' = "compress" => kind = "CompressGZ" /\ flag = 2 /\ CompressGZ(text)
    BY <1>1, <1>7
  <2>2. CompressGZ(text) => Zipping(text)'
    BY <1>4, CallZips
  <2> QED
    BY <1>9, <1>10, <2>1, <2>2 DEF HeadInv
<1>12. WireInv'
  <2> SUFFICES ASSUME phase' \in Posted PROVE WireInv'
    BY DEF WireInv
  <2>1. wire' = Archive(text, kind) /\ kind # "CompressGZ"
    BY <1>1 DEF Posted
  <2>2. wire' \in Seq(Byte) /\ Len(wire') <= 16 * MaxRows
    BY <1>3, <2>1, ArchiveFits
  <2>3. kind = "described" => wire' = Member(text, TRUE)
    BY <2>1 DEF Archive
  <2>4. kind = "none" => wire' = text
    BY <2>1 DEF Archive
  <2>5. kind \in Intact => kind \in {"none", "described"}
    BY <2>1 DEF Intact
  <2>6. (flag = 2 => kind # "none") /\ (flag = 0 => kind = "none")
    BY <1>7
  <2>7. kind \in Intact => size2 = Len(text)
    BY <1>10 DEF Intact
  <2>8. kind \in Intact /\ flag = 2 => wire' = Member(text, TRUE)
    BY <2>3, <2>5, <2>6, Zenon
  <2>9. kind \in Intact /\ flag = 0 => wire' = text
    BY <2>4, <2>6, Zenon
  <2> QED
    BY <1>9, <2>2, <2>7, <2>8, <2>9 DEF WireInv
<1>13. CipherInv'
  <2>1. CbcIInv'
    BY <1>2, ResetIInv
  <2>2. phase' \in {"compress", "encrypt"}
    BY <1>1
  <2> QED
    BY <1>2, <2>1, <2>2 DEF CipherInv
<1>14. GzInv'
  <2>1. gz' = NoGz /\ phase' \in {"compress", "encrypt"}
    BY <1>1
  <2> QED
    BY <2>1 DEF GzInv
<1> QED
  BY <1>5, <1>11, <1>12, <1>13, <1>14 DEF ReplyInv

\* A step of CompressGZ
LEMMA CompressReply == ASSUME ReplyInv, Compress PROVE ReplyInv'
<1>1. /\ phase = "compress" /\ CompressStep
      /\ UNCHANGED <<cbcVars, mx, aesKey, serverVars, responseVars>>
  BY DEF Compress
<1>2. UNCHANGED <<gz, phase, inbox, head, wire, response, skey, mx, aesKey, cbcVars>>
  BY <1>1 DEF serverVars, responseVars, CompressStep, DeflateTurn, FinishTurn, CompressReturn
<1>3. KeyInv'
  <2>1. ServerNext
    BY DEF ServerNext
  <2> QED
    BY <2>1, OthersKeepKeys, SameKeys DEF ReplyInv
<1>4. HeadInv'
  <2>1. /\ head.text \in Replies /\ Zipping(head.text) /\ head.kind = "CompressGZ"
    BY <1>1 DEF ReplyInv, HeadInv
  <2>2. PICK text : text = head.text
    OBVIOUS
  <2>3. text \in Seq(TextByte) /\ Len(text) <= MaxInt
    BY <2>1, <2>2, RepliesFit
  <2>4. Zipping(text)'
    BY <1>1, <2>1, <2>2, <2>3, StepZips
  <2>5. Zipping(head.text)'
    BY <1>2, <2>2, <2>4, Zenon DEF Zipping
  <2> QED
    BY <1>2, <2>5 DEF ReplyInv, HeadInv
<1>5. WireInv'
  BY <1>2 DEF ReplyInv, WireInv
<1>6. CipherInv'
  <2>1. CbcIInv'
    BY <1>2, SameCbcIInv DEF ReplyInv, CipherInv
  <2> QED
    BY <1>2, <2>1 DEF ReplyInv, CipherInv, cbcVars
<1>7. GzInv'
  BY <1>1, <1>2 DEF ReplyInv, GzInv, Unpressing
<1> QED
  BY <1>3, <1>4, <1>5, <1>6, <1>7 DEF ReplyInv

\* What CompressGZ returns is sent, or the text as it is when CompressGZ refuses it.
LEMMA CompressedReply == ASSUME ReplyInv, Compressed PROVE ReplyInv'
<1>1. /\ phase = "compress" /\ zip.pc = "returned" /\ phase' = "encrypt"
      /\ \/ zip.err # "ERRNO" /\ wire' = zip.file /\ UNCHANGED head
         \/ zip.err = "ERRNO" /\ wire' = zip.source /\ head' = [head EXCEPT !.btCompressFlag = 0]
      /\ UNCHANGED <<cbcVars, gz, mx, aesKey, skey, inbox, response>>
  BY DEF Compressed, gzipVars, serverVars
<1>2. /\ head \in HeadRecord /\ head.text \in Replies /\ head.kind = "CompressGZ"
      /\ head.dwRawSize = Len(head.text) /\ Zipping(head.text) /\ head.kind \in Archives
  BY <1>1 DEF ReplyInv, HeadInv
<1>3. /\ head.text \in Seq(TextByte) /\ Len(head.text) <= MaxInt
      /\ Len(head.text) + 47 <= 16 * MaxRows /\ Len(head.text) \in Nat
  BY <1>2, RepliesFit
<1>4. /\ head' \in HeadRecord /\ head'.text = head.text /\ head'.kind = head.kind
      /\ head'.dwRawSize = head.dwRawSize /\ head'.bEncrypt = head.bEncrypt
  BY <1>1, <1>2 DEF HeadRecord
<1>5. KeyInv'
  <2>1. ServerNext
    BY DEF ServerNext
  <2> QED
    BY <2>1, OthersKeepKeys, SameKeys DEF ReplyInv
<1>6. HeadInv'
  BY <1>1, <1>2, <1>4 DEF HeadInv
<1>7. head.btCompressFlag = 2
  BY <1>1 DEF ReplyInv, HeadInv
<1>8. ASSUME zip.err # "ERRNO" PROVE WireInv'
  <2>1. wire' = Member(head.text, FALSE) /\ head' = head
    BY <1>1, <1>2, <1>8 DEF Zipping
  <2>2. PICK m : m = Member(head.text, FALSE)
    OBVIOUS
  <2>3. m \in Seq(Byte) /\ Len(m) <= Len(head.text) + 10 + 10 /\ Len(m) \in Nat
    <3>1. SizeOfHead(FALSE) = 10 /\ FALSE \in BOOLEAN
      BY DEF SizeOfHead
    <3> QED
      BY <1>3, <2>2, <3>1, MemberFits
  <2>4. Len(m) <= 16 * MaxRows
    BY <1>3, <2>3, CbcAssumption
  <2> QED
    <3>1. /\ wire' \in Seq(Byte) /\ Len(wire') <= 16 * MaxRows
          /\ wire' = Member(head'.text, FALSE) /\ FALSE \in BOOLEAN
      BY <2>1, <2>2, <2>3, <2>4
    <3>2. head'.dwRawSize = Len(head'.text) /\ head'.btCompressFlag = 2
      BY <1>2, <1>7, <2>1
    <3>3. \E described \in BOOLEAN : wire' = Member(head'.text, described)
      BY <3>1, Zenon
    <3>4. head'.btCompressFlag # 0
      BY <3>2
    <3> QED
      BY <3>1, <3>2, <3>3, <3>4, Zenon DEF WireInv
<1>9. ASSUME zip.err = "ERRNO" PROVE WireInv'
  <2>1. wire' = head.text /\ head' = [head EXCEPT !.btCompressFlag = 0]
    BY <1>1, <1>2, <1>9 DEF Zipping
  <2>2. head'.btCompressFlag = 0
    BY <1>2, <2>1 DEF HeadRecord
  <2>3. wire' \in Seq(Byte) /\ Len(wire') <= 16 * MaxRows
    BY <1>3, <2>1, TextIsBytes, CbcAssumption
  <2> QED
    BY <1>2, <1>4, <2>1, <2>2, <2>3 DEF WireInv
<1>10. WireInv'
  BY <1>8, <1>9
<1>11. CipherInv'
  <2>1. CbcIInv' /\ cpc = "idle" /\ cpc' = "idle"
    BY <1>1, SameCbcIInv DEF ReplyInv, CipherInv, Posted, cbcVars
  <2> QED
    BY <1>1, <2>1 DEF CipherInv
<1>12. GzInv'
  <2>1. head'.text = head.text /\ head'.kind = head.kind /\ gz' = gz
    BY <1>1, <1>4
  <2>2. PICK text : text = head.text
    OBVIOUS
  <2>3. head.kind \in Intact => gz = NoGz \/ \E described \in BOOLEAN : Unpressing(text, described)
    BY <2>2 DEF ReplyInv, GzInv
  <2>4. \A described \in BOOLEAN : Unpressing(text, described) => Unpressing(text, described)'
    BY <2>1 DEF Unpressing
  <2>5. \A described \in BOOLEAN : Unpressing(text, described)' => Unpressing(head.text, described)'
    BY <2>1, <2>2, Zenon DEF Unpressing
  <2> QED
    BY <1>1, <2>1, <2>3, <2>4, <2>5 DEF GzInv
<1> QED
  BY <1>5, <1>6, <1>10, <1>11, <1>12 DEF ReplyInv

\* A step that changes neither the answer nor what UnCompressGZ holds
LEMMA SameGz ==
  ASSUME GzInv, UNCHANGED <<head, gz>>, phase' \notin {"unpress", "done"}
  PROVE  GzInv'
<1> PICK text : text = head.text
  OBVIOUS
<1>1. head.kind \in Intact =>
        gz = NoGz \/ \E described \in BOOLEAN : Unpressing(text, described)
  BY DEF GzInv
<1>2. \A described \in BOOLEAN : Unpressing(text, described) => Unpressing(text, described)'
  BY DEF Unpressing
<1>3. head' = head /\ gz' = gz
  OBVIOUS
<1>4. head'.kind \in Intact =>
        gz' = NoGz \/ \E described \in BOOLEAN : Unpressing(text, described)'
  BY <1>1, <1>2, <1>3, Zenon
<1>5. head'.text = text
  OBVIOUS
<1> QED
  BY <1>4, <1>5 DEF GzInv, Unpressing

\* A step of the server, or of the client, that changes neither the answer nor what is sent
LEMMA SameWire ==
  ASSUME WireInv, phase \in Posted, UNCHANGED <<head, wire>>
  PROVE  WireInv'
  BY DEF WireInv

\* A step from the encryption on that leaves the answer alone
LEMMA SameHead ==
  ASSUME HeadInv, phase \in Posted, phase' \in Posted, UNCHANGED head
  PROVE  HeadInv'
  BY DEF HeadInv, Posted

\* The call of the encryption, or a turn of it, under the key of the server
LEMMA EncryptReply == ASSUME CipherInverts, ReplyInv, Encrypt PROVE ReplyInv'
<1>1. /\ phase = "encrypt" /\ head.bEncrypt = 1
      /\ CallEncrypt(RowsOf(wire), Len(wire), skey) \/ EncryptBlock
      /\ UNCHANGED <<gz, phase, inbox, head, wire, response, skey, mx, aesKey>>
  BY DEF Encrypt, serverVars, responseVars, gzipVars
<1>2. KeyInv'
  <2>1. ServerNext
    BY DEF ServerNext
  <2> QED
    BY <2>1, OthersKeepKeys, SameKeys DEF ReplyInv
<1>3. HeadInv' /\ WireInv' /\ GzInv'
  BY <1>1, SameHead, SameWire, SameGz DEF ReplyInv, Posted
<1>4. wire \in Seq(Byte) /\ Len(wire) <= 16 * MaxRows /\ Len(wire) \in Nat
  BY <1>1 DEF ReplyInv, WireInv, Posted
<1>5. skey \in Keys /\ InvertibleUnder(skey) /\ CbcIInv
  BY <1>1, AgreedKey DEF ReplyInv, CipherInv
<1>6. CASE CallEncrypt(RowsOf(wire), Len(wire), skey)
  <2>1. PICK p : p = RowsOf(wire)
    OBVIOUS
  <2>2. PICK count : count = Len(wire)
    OBVIOUS
  <2>3. p \in Memory /\ count \in 0..(16 * MaxRows)
    BY <1>4, <2>1, <2>2, RowsInMemory, CbcAssumption
  <2>4. CallEncrypt(p, count, skey)
    BY <1>6, <2>1, <2>2
  <2>5. CbcIInv'
    BY <1>5, <2>3, <2>4, CallEncryptIInv
  <2>6. /\ cpc' \in {"encrypt", "encrypted"} /\ ekey' = skey
        /\ plain' = p /\ size' = count
    BY <2>4 DEF CallEncrypt
  <2>7. plain' = RowsOf(wire') /\ size' = Len(wire')
    <3>1. wire' = wire
      BY <1>1
    <3> QED
      BY <2>1, <2>2, <2>6, <3>1, Zenon
  <2>8. CipherInv'
    BY <1>1, <2>5, <2>6, <2>7 DEF CipherInv, Posted
  <2> QED
    BY <1>2, <1>3, <2>8 DEF ReplyInv
<1>7. CASE EncryptBlock
  <2>1. /\ cpc = "encrypt" /\ cpc' \in {"encrypt", "encrypted"}
        /\ UNCHANGED <<plain, size, ekey, dkey>>
    BY <1>7 DEF EncryptBlock
  <2>2. ekey = skey /\ plain = RowsOf(wire) /\ size = Len(wire)
    BY <2>1 DEF ReplyInv, CipherInv
  <2>3. CbcIInv'
    BY <1>5, <1>7, <2>2, EncryptBlockIInv
  <2>4. plain' = RowsOf(wire') /\ size' = Len(wire')
    <3>1. wire' = wire
      BY <1>1
    <3> QED
      BY <2>1, <2>2, <3>1, Zenon
  <2>5. CipherInv'
    BY <1>1, <2>1, <2>2, <2>3, <2>4 DEF CipherInv, Posted
  <2> QED
    BY <1>2, <1>3, <2>5 DEF ReplyInv
<1> QED
  BY <1>1, <1>6, <1>7

\* The answer is posted once it is encrypted, if it is to be.
LEMMA PostReply == ASSUME ReplyInv, Post PROVE ReplyInv'
<1>1. /\ phase = "encrypt" /\ phase' = "posted" /\ (head.bEncrypt = 1 => cpc = "encrypted")
      /\ UNCHANGED <<cbcVars, gz, inbox, head, wire, response, skey, mx, aesKey>>
  BY DEF Post, serverVars, gzipVars
<1>2. KeyInv'
  <2>1. ServerNext
    BY DEF ServerNext
  <2> QED
    BY <2>1, OthersKeepKeys, SameKeys DEF ReplyInv
<1>3. HeadInv' /\ WireInv' /\ GzInv'
  BY <1>1, SameHead, SameWire, SameGz DEF ReplyInv, Posted
<1>4. CipherInv'
  <2>1. CbcIInv' /\ UNCHANGED <<cpc, plain, size, ekey, dkey>>
    BY <1>1, SameCbcIInv DEF ReplyInv, CipherInv, cbcVars
  <2>2. cpc = IF head.bEncrypt = 1 THEN "encrypted" ELSE "idle"
    BY <1>1 DEF ReplyInv, CipherInv
  <2>3. cpc # "idle" => plain' = RowsOf(wire') /\ size' = Len(wire')
    <3>1. wire' = wire
      BY <1>1
    <3>2. cpc # "idle" => plain = RowsOf(wire) /\ size = Len(wire)
      BY DEF ReplyInv, CipherInv
    <3> QED
      BY <2>1, <3>1, <3>2, Zenon
  <2> QED
    BY <1>1, <2>1, <2>2, <2>3 DEF ReplyInv, CipherInv, Posted
<1> QED
  BY <1>2, <1>3, <1>4 DEF ReplyInv
-----------------------------------------------------------------------------
(* The client                                                              *)

\* The answer to the exchange gives the client its key.
LEMMA OnExchangeReply == ASSUME ReplyInv, OnExchange PROVE ReplyInv'
<1>1. UNCHANGED <<cbcVars, gz, skey, phase, head, wire, response>>
  BY DEF OnExchange, serverVars, gzipVars
<1>2. KeyInv'
  BY OnExchangeKeys DEF ReplyInv
<1>3. HeadInv' /\ WireInv'
  <2>1. UNCHANGED zip
    BY DEF OnExchange, gzipVars
  <2> QED
    BY <1>1, <2>1 DEF ReplyInv, HeadInv, WireInv, Zipping
<1>4. CbcIInv' /\ UNCHANGED <<cpc, plain, size, ekey, dkey>>
  BY <1>1, SameCbcIInv DEF ReplyInv, CipherInv, cbcVars
<1>5. CipherInv'
  <2>1. cpc # "idle" => plain' = RowsOf(wire') /\ size' = Len(wire')
    <3>1. wire' = wire
      BY <1>1
    <3>2. cpc # "idle" => plain = RowsOf(wire) /\ size = Len(wire)
      BY DEF ReplyInv, CipherInv
    <3> QED
      BY <1>4, <3>1, <3>2, Zenon
  <2> QED
    BY <1>1, <1>4, <2>1 DEF ReplyInv, CipherInv
<1>6. GzInv'
  BY <1>1 DEF ReplyInv, GzInv, Unpressing
<1> QED
  BY <1>2, <1>3, <1>5, <1>6 DEF ReplyInv

\* Decryption starts under the key of the client, which is that of the server by then.
LEMMA HandleReply == ASSUME ReplyInv, Handle PROVE ReplyInv'
<1>1. /\ phase = "posted" /\ inbox = {}
      /\ \/ head.bEncrypt = 1 /\ CallDecrypt(aesKey) /\ phase' = "decrypt"
         \/ head.bEncrypt = 0 /\ UNCHANGED cbcVars /\ phase' = "decrypted"
      /\ UNCHANGED <<gz, inbox, head, wire, response, skey, mx, aesKey>>
  BY DEF Handle, serverVars, gzipVars
<1>2. KeyInv'
  BY OthersKeepKeys, SameKeys DEF ReplyInv
<1>3. HeadInv' /\ WireInv' /\ GzInv'
  BY <1>1, SameHead, SameWire, SameGz DEF ReplyInv, Posted
<1>4. CASE head.bEncrypt = 1
  <2>1. CallDecrypt(aesKey) /\ phase' = "decrypt"
    BY <1>1, <1>4
  <2>2. aesKey = skey
    BY <1>1 DEF ReplyInv, KeyInv, SameKey
  <2>3. skey \in Keys
    BY <1>1, AgreedKey DEF ReplyInv
  <2>4. CbcIInv'
    BY <2>1, <2>2, <2>3, CallDecryptIInv DEF ReplyInv, CipherInv
  <2>5. /\ cpc = "encrypted" /\ cpc' \in {"decrypt", "decrypted"} /\ dkey' = skey
        /\ UNCHANGED <<plain, size, ekey>>
    BY <2>1, <2>2 DEF CallDecrypt
  <2>6. plain' = RowsOf(wire') /\ size' = Len(wire')
    <3>1. wire' = wire
      BY <1>1
    <3>2. plain = RowsOf(wire) /\ size = Len(wire)
      BY <2>5 DEF ReplyInv, CipherInv
    <3> QED
      BY <2>5, <3>1, <3>2, Zenon
  <2>7. ekey = skey
    BY <2>5 DEF ReplyInv, CipherInv
  <2>8. CipherInv'
    BY <1>1, <1>4, <2>1, <2>4, <2>5, <2>6, <2>7 DEF CipherInv, Posted
  <2> QED
    BY <1>2, <1>3, <2>8 DEF ReplyInv
<1>5. CASE head.bEncrypt = 0
  <2>1. UNCHANGED cbcVars /\ phase' = "decrypted"
    BY <1>1, <1>5
  <2>2. CbcIInv' /\ UNCHANGED <<cpc, plain, size, ekey, dkey>>
    BY <2>1, SameCbcIInv DEF ReplyInv, CipherInv, cbcVars
  <2>3. cpc = "idle"
    BY <1>1, <1>5 DEF ReplyInv, CipherInv
  <2>4. CipherInv'
    BY <1>1, <1>5, <2>1, <2>2, <2>3 DEF CipherInv
  <2> QED
    BY <1>2, <1>3, <2>4 DEF ReplyInv
<1> QED
  BY <1>1, <1>4, <1>5

\* A turn of the decryption, or its end
LEMMA DecryptReply == ASSUME CipherInverts, ReplyInv, Decrypt PROVE ReplyInv'
<1>1. /\ phase = "decrypt"
      /\ \/ DecryptBlock /\ UNCHANGED phase
         \/ cpc = "decrypted" /\ phase' = "decrypted" /\ UNCHANGED cbcVars
      /\ UNCHANGED <<gz, inbox, head, wire, response, skey, mx, aesKey>>
  BY DEF Decrypt, serverVars, gzipVars
<1>2. KeyInv'
  BY OthersKeepKeys, SameKeys DEF ReplyInv
<1>3. HeadInv' /\ WireInv' /\ GzInv'
  BY <1>1, SameHead, SameWire, SameGz DEF ReplyInv, Posted
<1>4. InvertibleUnder(skey) /\ CbcIInv /\ head.bEncrypt = 1
  BY <1>1, AgreedKey DEF ReplyInv, CipherInv
<1>5. CASE DecryptBlock /\ UNCHANGED phase
  <2>1. /\ cpc = "decrypt" /\ cpc' \in {"decrypt", "decrypted"}
        /\ UNCHANGED <<plain, size, ekey, dkey>>
    BY <1>5 DEF DecryptBlock
  <2>2. /\ dkey = skey /\ ekey = skey /\ plain = RowsOf(wire) /\ size = Len(wire)
    BY <2>1 DEF ReplyInv, CipherInv
  <2>3. CbcIInv'
    BY <1>4, <1>5, <2>2, DecryptBlockIInv
  <2>4. plain' = RowsOf(wire') /\ size' = Len(wire')
    <3>1. wire' = wire
      BY <1>1
    <3> QED
      BY <2>1, <2>2, <3>1, Zenon
  <2>5. CipherInv'
    BY <1>1, <1>4, <1>5, <2>1, <2>2, <2>3, <2>4 DEF CipherInv, Posted
  <2> QED
    BY <1>2, <1>3, <2>5 DEF ReplyInv
<1>6. CASE cpc = "decrypted" /\ phase' = "decrypted" /\ UNCHANGED cbcVars
  <2>1. CbcIInv' /\ UNCHANGED <<cpc, plain, size, ekey, dkey>>
    BY <1>6, SameCbcIInv DEF ReplyInv, CipherInv, cbcVars
  <2>2. dkey = skey /\ ekey = skey /\ plain = RowsOf(wire) /\ size = Len(wire)
    BY <1>6 DEF ReplyInv, CipherInv
  <2>3. plain' = RowsOf(wire') /\ size' = Len(wire')
    <3>1. wire' = wire
      BY <1>1
    <3> QED
      BY <2>1, <2>2, <3>1, Zenon
  <2>4. CipherInv'
    BY <1>1, <1>4, <1>6, <2>1, <2>2, <2>3 DEF CipherInv, Posted
  <2> QED
    BY <1>2, <1>3, <2>4 DEF ReplyInv
<1> QED
  BY <1>1, <1>5, <1>6

\* The client has before it what the server compressed.
LEMMA BodyIsWire ==
  ASSUME ReplyInv, phase = "decrypted"
  PROVE  encryptBody = wire
<1>1. CASE head.bEncrypt = 1
  <2>1. /\ CbcIInv /\ cpc = "decrypted" /\ dkey = skey /\ ekey = skey
        /\ plain = RowsOf(wire) /\ size = Len(wire)
    BY <1>1 DEF ReplyInv, CipherInv
  <2>2. wire \in Seq(Byte) /\ Len(wire) <= 16 * MaxRows
    BY DEF ReplyInv, WireInv, Posted
  <2>3. BytesOf(body, size) = wire
    BY <2>1, <2>2, BytesComeBack
  <2> QED
    BY <1>1, <2>3 DEF encryptBody
<1>2. CASE head.bEncrypt # 1
  BY <1>2 DEF encryptBody
<1> QED
  BY <1>1, <1>2

\* The steps after decryption leave the cipher, the answer and what was sent alone.
LEMMA LateSteps ==
  ASSUME ReplyInv, phase \in {"decrypted", "unpress"}, phase' \in {"unpress", "done"},
         UNCHANGED <<cbcVars, inbox, head, wire, skey, mx, aesKey>>
  PROVE  KeyInv' /\ HeadInv' /\ WireInv' /\ CipherInv'
<1>1. KeyInv'
  BY SameKeys DEF ReplyInv, keyVars
<1>2. HeadInv' /\ WireInv'
  BY SameHead, SameWire DEF ReplyInv, Posted
<1>3. CipherInv'
  <2>1. CbcIInv' /\ UNCHANGED <<cpc, plain, size, ekey, dkey>>
    BY SameCbcIInv DEF ReplyInv, CipherInv, cbcVars
  <2>2. cpc # "idle" => plain' = RowsOf(wire') /\ size' = Len(wire')
    <3>1. wire' = wire
      OBVIOUS
    <3>2. cpc # "idle" => plain = RowsOf(wire) /\ size = Len(wire)
      BY DEF ReplyInv, CipherInv
    <3> QED
      BY <2>1, <3>1, <3>2, Zenon
  <2>3. cpc = IF head.bEncrypt = 1 THEN "decrypted" ELSE "idle"
    BY DEF ReplyInv, CipherInv
  <2> QED
    BY <2>1, <2>2, <2>3 DEF ReplyInv, CipherInv, Posted
<1> QED
  BY <1>1, <1>2, <1>3

\* UnCompressGZ is called on what the server compressed, or there is nothing to do.
LEMMA UnpressReply == ASSUME ReplyInv, Unpress PROVE ReplyInv'
<1>1. /\ phase = "decrypted"
      /\ \/ /\ head.btCompressFlag = 2 /\ UnCompressGZ(encryptBody, head.dwRawSize)
            /\ phase' = "unpress"
         \/ head.btCompressFlag # 2 /\ response' = encryptBody /\ phase' = "done" /\ gz' = gz
      /\ UNCHANGED <<cbcVars, inbox, head, wire, skey, mx, aesKey>>
  BY DEF Unpress, serverVars, gzipVars
<1>2. KeyInv' /\ HeadInv' /\ WireInv' /\ CipherInv'
  BY <1>1, LateSteps
<1>3. encryptBody = wire
  BY <1>1, BodyIsWire
<1>4. head \in HeadRecord /\ head.text \in Replies
  BY <1>1 DEF ReplyInv, HeadInv, Posted
<1>5. PICK text : text = head.text
  OBVIOUS
<1>6. text \in Seq(TextByte) /\ Len(text) <= MaxInt
  BY <1>4, <1>5, RepliesFit
<1>7. ASSUME head.kind \in Intact, head.btCompressFlag = 2 PROVE GzInv'
  <2>1. head.dwRawSize = Len(text)
    BY <1>1, <1>5, <1>7 DEF ReplyInv, WireInv, Posted
  <2>2. PICK described \in BOOLEAN : wire = Member(text, described)
    BY <1>1, <1>5, <1>7 DEF ReplyInv, WireInv, Posted
  <2>3. UnCompressGZ(Member(text, described), Len(text))
    BY <1>1, <1>3, <1>7, <2>1, <2>2
  <2>4. Unpressing(text, described)'
    BY <1>6, <2>3, CallReads
  <2>5. head' = head /\ phase' = "unpress"
    BY <1>1, <1>7
  <2>6. head'.text = text
    BY <1>5, <2>5
  <2> QED
    BY <2>4, <2>5, <2>6 DEF GzInv, Unpressing
<1>8. ASSUME head.kind \in Intact, head.btCompressFlag = 0 PROVE GzInv'
  <2>1. response' = head.text /\ phase' = "done" /\ gz' = gz /\ head' = head
    BY <1>1, <1>3, <1>8 DEF ReplyInv, WireInv, Posted
  <2> QED
    BY <1>8, <2>1 DEF ReplyInv, GzInv, Unpressing
<1>9. head.kind \notin Intact => GzInv'
  BY <1>1 DEF GzInv
<1>10. head.btCompressFlag \in {0, 2}
  BY <1>4 DEF HeadRecord
<1> QED
  BY <1>2, <1>7, <1>8, <1>9, <1>10 DEF ReplyInv

\* A step of UnCompressGZ
LEMMA UnCompressReply == ASSUME ReplyInv, UnCompress PROVE ReplyInv'
<1>1. /\ phase = "unpress" /\ UnCompressStep /\ phase' = phase
      /\ UNCHANGED <<cbcVars, inbox, head, wire, response, skey, mx, aesKey>>
  BY DEF UnCompress, serverVars, responseVars
<1>2. KeyInv' /\ HeadInv' /\ WireInv' /\ CipherInv'
  BY <1>1, LateSteps
<1>3. head.text \in Replies
  BY <1>1 DEF ReplyInv, HeadInv, Posted
<1>4. PICK text : text = head.text
  OBVIOUS
<1>5. text \in Seq(TextByte) /\ Len(text) <= MaxInt
  BY <1>3, <1>4, RepliesFit
<1>6. ASSUME head.kind \in Intact PROVE GzInv'
  <2>1. PICK described \in BOOLEAN : Unpressing(text, described)
    BY <1>1, <1>4, <1>6 DEF ReplyInv, GzInv
  <2>2. Unpressing(text, described)'
    BY <1>1, <1>5, <2>1, StepReads
  <2>3. head'.text = text /\ phase' = "unpress"
    BY <1>1, <1>4
  <2> QED
    BY <2>2, <2>3 DEF GzInv, Unpressing
<1>7. head.kind \notin Intact => GzInv'
  BY <1>1 DEF GzInv
<1> QED
  BY <1>2, <1>6, <1>7 DEF ReplyInv

\* The body is what UnCompressGZ has written.
LEMMA UnpressReturnReply == ASSUME ReplyInv, UnpressReturn PROVE ReplyInv'
<1>1. /\ phase = "unpress" /\ gz.pc = "returned" /\ phase' = "done" /\ gz' = gz
      /\ response' = IF gz.ret = "OK"
                     THEN gz.text \o [i \in 1..(head.dwRawSize - Len(gz.text)) |-> 0] ELSE <<>>
      /\ UNCHANGED <<cbcVars, inbox, head, wire, skey, mx, aesKey>>
  BY DEF UnpressReturn, serverVars, gzipVars
<1>2. KeyInv' /\ HeadInv' /\ WireInv' /\ CipherInv'
  BY <1>1, LateSteps
<1>3. head.text \in Replies
  BY <1>1 DEF ReplyInv, HeadInv, Posted
<1>4. PICK text : text = head.text
  OBVIOUS
<1>5. text \in Seq(TextByte) /\ Len(text) \in Nat
  BY <1>3, <1>4, RepliesFit
<1>6. ASSUME head.kind \in Intact PROVE GzInv'
  <2>1. PICK described \in BOOLEAN : Unpressing(text, described)
    BY <1>1, <1>4, <1>6 DEF ReplyInv, GzInv
  <2>2. Returned(gz, text)
    BY <1>1, <2>1 DEF Unpressing, Reading, Finished
  <2>3. head.dwRawSize = Len(text)
    BY <1>1, <1>4, <1>6 DEF ReplyInv, WireInv, Posted
  <2>4. response' = text
    <3>1. CASE gz.ret = "OK" /\ gz.text = text
      <4>1. PICK none : none = [i \in 1..(head.dwRawSize - Len(gz.text)) |-> 0]
        OBVIOUS
      <4>2. response' = text \o none
        BY <1>1, <3>1, <4>1, Zenon
      <4>3. head.dwRawSize - Len(gz.text) = 0
        BY <1>5, <2>3, <3>1
      <4>4. none = <<>>
        BY <4>1, <4>3
      <4> QED
        BY <1>5, <4>2, <4>4, ConcatEmptySeq
    <3>2. CASE gz.ret = "ERRNO" /\ text = <<>>
      BY <1>1, <3>2
    <3> QED
      BY <2>2, <3>1, <3>2 DEF Returned
  <2>5. head' = head /\ gz' = gz /\ phase' = "done"
    BY <1>1
  <2>6. Unpressing(text, described)'
    BY <2>1, <2>5 DEF Unpressing
  <2>7. head'.text = text
    BY <1>4, <2>5
  <2> QED
    BY <2>4, <2>5, <2>6, <2>7 DEF GzInv, Unpressing
<1>7. head.kind \notin Intact => GzInv'
  BY <1>1 DEF GzInv
<1> QED
  BY <1>2, <1>6, <1>7 DEF ReplyInv
-----------------------------------------------------------------------------
(* The theorems                                                            *)

\* Every step preserves the invariant.
LEMMA NextReply == ASSUME CipherInverts, ReplyInv, [Next]_vars PROVE ReplyInv'
<1>1. CASE Connect
  BY <1>1, ConnectReply
<1>2. CASE Reply
  BY <1>2, ReplyReply
<1>3. CASE ServerNext
  BY <1>3, CompressReply, CompressedReply, EncryptReply, PostReply DEF ServerNext
<1>4. CASE ClientNext
  BY <1>4, OnExchangeReply, HandleReply, DecryptReply, UnpressReply, UnCompressReply,
     UnpressReturnReply DEF ClientNext
<1>5. CASE UNCHANGED vars
  <2>1. UNCHANGED <<cbcVars, zip, gz, mx, aesKey, skey, phase, inbox, head, wire, response>>
    BY <1>5 DEF vars, gzipVars, serverVars, responseVars
  <2>2. KeyInv'
    BY <2>1 DEF ReplyInv, KeyInv, SameKey
  <2>3. HeadInv' /\ WireInv'
    BY <2>1 DEF ReplyInv, HeadInv, WireInv, Zipping
  <2>4. CipherInv'
    <3>1. CbcIInv' /\ UNCHANGED <<cpc, plain, size, ekey, dkey>>
      BY <2>1, SameCbcIInv DEF ReplyInv, CipherInv, cbcVars
    <3>2. cpc # "idle" => plain' = RowsOf(wire') /\ size' = Len(wire')
      <4>1. wire' = wire
        BY <2>1
      <4>2. cpc # "idle" => plain = RowsOf(wire) /\ size = Len(wire)
        BY DEF ReplyInv, CipherInv
      <4> QED
        BY <3>1, <4>1, <4>2, Zenon
    <3> QED
      BY <2>1, <3>1, <3>2 DEF ReplyInv, CipherInv
  <2>5. GzInv'
    BY <2>1 DEF ReplyInv, GzInv, Unpressing
  <2> QED
    BY <2>2, <2>3, <2>4, <2>5 DEF ReplyInv
<1> QED
  BY <1>1, <1>2, <1>3, <1>4, <1>5 DEF Next

\* The invariant holds in every state, when the cipher inverts.
LEMMA ReplyInvariant == CipherInverts => (Spec => []ReplyInv)
<1> SUFFICES ASSUME CipherInverts PROVE Spec => []ReplyInv
  OBVIOUS
<1>1. Init => ReplyInv
  BY InitReply
<1>2. ReplyInv /\ [Next]_vars => ReplyInv'
  BY NextReply
<1> QED
  BY <1>1, <1>2, PTL DEF Spec

\* The body of AbsResponse is the text that the server answered with, when unPress() is done:
\* for every text of the model of zlib, every size of the windows that UnCompressGZ feeds to
\* inflate() and every shortest text of CompressGZ, with a described header or without, encrypted or
\* not, on every connection.
THEOREM RepliesArrive == CipherInverts => (Spec => []BodyIsReply)
<1> SUFFICES ASSUME CipherInverts PROVE Spec => []BodyIsReply
  OBVIOUS
<1>1. ReplyInv => BodyIsReply
  BY DEF ReplyInv, GzInv, BodyIsReply, Intact
<1> QED
  BY <1>1, ReplyInvariant, PTL

\* In the life of a reply both loops of the cipher stay inside their buffers: the archive fits them,
\* whichever way it was written, and len never goes below zero.
THEOREM CipherInBuffers == CipherInverts => (Spec => []CbcTypeOK)
<1> SUFFICES ASSUME CipherInverts PROVE Spec => []CbcTypeOK
  OBVIOUS
<1>1. ReplyInv => CbcTypeOK
  BY DEF ReplyInv, CipherInv, CbcIInv
<1> QED
  BY <1>1, ReplyInvariant, PTL

\* Whatever the server encrypted, the client decrypts in place to the same bytes: under the key it
\* computed from the exchange, not the one the server holds.
THEOREM RepliesDecrypted == CipherInverts => (Spec => []DecryptedIsPlain)
<1> SUFFICES ASSUME CipherInverts PROVE Spec => []DecryptedIsPlain
  OBVIOUS
<1>1. ReplyInv => DecryptedIsPlain
  BY DEF ReplyInv, CipherInv, CbcIInv
<1> QED
  BY <1>1, ReplyInvariant, PTL

\* On files of one member that nothing follows, UnCompressGZ never looks outside the compressed
\* data of its file, and turns once a window and at most once more.
THEOREM UnCompressBounded ==
  CipherInverts /\ "padded" \notin Archives => (Spec => []BoundedByFile)
<1> SUFFICES ASSUME CipherInverts, "padded" \notin Archives PROVE Spec => []BoundedByFile
  OBVIOUS
<1>1. ReplyInv => BoundedByFile
  <2> SUFFICES ASSUME ReplyInv, head.kind # "members" PROVE ReadsInsideFile /\ LoopEnds
    BY DEF BoundedByFile
  <2>1. CASE head.kind \in Intact
    <3>1. CASE gz = NoGz
      BY <3>1, GzipAssumption DEF NoGz, ReadsInsideFile, LoopEnds
    <3>2. CASE \E described \in BOOLEAN : Unpressing(head.text, described)
      BY <3>2, BoundedWhileUnpressing
    <3> QED
      BY <2>1, <3>1, <3>2 DEF ReplyInv, GzInv
  <2>2. CASE head.kind \notin Intact
    <3>1. head.kind \in ArchiveKinds /\ head.kind \in Archives
      BY <2>2 DEF ReplyInv, HeadInv, HeadRecord, Intact
    <3> QED
      BY <2>2, <3>1 DEF ArchiveKinds, Intact
  <2> QED
    BY <2>1, <2>2
<1> QED
  BY <1>1, ReplyInvariant, PTL
=============================================================================
