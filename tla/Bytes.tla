------------------------------ MODULE Bytes ------------------------------
(***************************************************************************)
(* Bytes and 32 bit words as the native code sees them.  A word is the     *)
(* tuple of its four bytes, the lowest first: GETU32 of a little-endian    *)
(* machine reads four bytes of memory in that order, and (w >> 8 * i) &    *)
(* 0xff is w[i + 1].                                                       *)
(***************************************************************************)
EXTENDS Integers, Sequences

Byte == 0..255
Bit(b, i) == (b \div 2^i) % 2

LOCAL XorBits(a, b) ==
  LET digit(i) == IF Bit(a, i) = Bit(b, i) THEN 0 ELSE 2^i
  IN digit(0) + digit(1) + digit(2) + digit(3) + digit(4) + digit(5) + digit(6) + digit(7)
XorTable == [a \in Byte |-> [b \in Byte |-> XorBits(a, b)]]

Xor(a, b) == XorTable[a][b]
Four(f(_)) == <<f(1), f(2), f(3), f(4)>>
WXor(v, w) == Four(LAMBDA i : Xor(v[i], w[i]))

\* ROTATE(w, 8 * n)
Rotate(w, n) == Four(LAMBDA i : w[((i - 1 - n) % 4) + 1])

Word(b) == <<b, 0, 0, 0>>

\* F(x), for a checker that would otherwise evaluate x anew, and deeper, wherever F uses it
Apply(F(_), x) == CHOOSE y \in {F(z) : z \in {x}} : TRUE
=============================================================================
