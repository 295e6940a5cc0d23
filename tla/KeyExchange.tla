--------------------------- MODULE KeyExchange ---------------------------
(***************************************************************************)
(* GenerateKey.cpp and the entry points of native-jni.cpp that use it: the  *)
(* private half lives in a static variable of the library, from            *)
(* genPublicKey(), made on every connection, to genMD5(), when the other   *)
(* half arrives.                                                           *)
(***************************************************************************)
EXTENDS Integers

CONSTANTS
  Modulus,      \* m_pBN_Mod
  Generator,    \* m_pBN_G
  Privates,     \* what BN_rand may give
  Md5(_)        \* digest of the number that is agreed on

ASSUME KeyExchangeAssumption ==
  Modulus \in Nat \ {0} /\ Generator \in Nat /\ Privates \subseteq Nat

VARIABLES
  mx,           \* static mx: the private half of the latest genPublicKey()
  aesKey        \* Client.aesKey

NoKey == <<>>

BN_mod_exp(base, exponent) ==
  LET power[i \in 0..exponent] == IF i = 0 THEN 1 % Modulus ELSE (power[i - 1] * base) % Modulus
  IN power[exponent]

\* The public half of a private one; a new pair on every call
CBN_CreateLocalKey(x) == BN_mod_exp(Generator, x)
CBN_CalcKey(gy, x) == BN_mod_exp(gy, x)

\* Mutant: a private half is kept while there is one.
KeepsFirstHalf(x) ==
  /\ mx' = IF mx = {} THEN {x} ELSE mx
  /\ UNCHANGED aesKey

\* STradePacketKeyExchange, on onSocketConnectionSuccess
genPublicKey(x) ==
  /\ mx' = {x}
  /\ UNCHANGED aesKey

\* onReceivePacket of the exchange: aesKey = genMD5(gy)
genMD5(gy) ==
  /\ \E x \in mx : aesKey' = Md5(CBN_CalcKey(gy, x))
  /\ UNCHANGED mx
=============================================================================
