------------------------------ MODULE PKUCodec ------------------------------
(***************************************************************************)
(* SetPkey of the WASI build (src/pkuc/pku.c) over the full 32-bit int     *)
(* PKRU, for any of the 16 keys.  rdpkru and wrpkru are stubs the runtime  *)
(* replaces, so pkru is the register itself.                               *)
(*                                                                         *)
(* The int is kept as a TLC integer in [-2^31, 2^31); the bit operations   *)
(* work on its sign and its low 31 bits.  For key 15, 3 << 30 and          *)
(* prot << 30 overflow a signed int: undefined in C, and compiled by clang *)
(* to i32.shl, which wraps.  The wrap is the one outcome modelled.         *)
(***************************************************************************)
EXTENDS Integers, Bitwise

CONSTANTS
  Keys,           \* pkey arguments
  Prots           \* prot arguments (stray bits included)

ASSUME Keys \subseteq 0 .. 15 /\ Prots \subseteq Nat

VARIABLE pkru     \* the int rdpkru returns and wrpkru writes

PKEY_DISABLE_ACCESS == 1
PKEY_DISABLE_WRITE  == 2

Sign(x) == IF x < 0 THEN 1 ELSE 0
Low31(x) == IF x < 0 THEN (x + 2^30) + 2^30 ELSE x
Join(s, low) == IF s = 1 THEN (low - 2^30) - 2^30 ELSE low
And32(a, b) == Join(Sign(a) * Sign(b), Low31(a) & Low31(b))
Or32(a, b) == Join(IF Sign(a) + Sign(b) > 0 THEN 1 ELSE 0, Low31(a) | Low31(b))
Not32(x) == -x - 1

\* x << n in an int, for 0 <= x < 4 and n <= 30; bit 31 lands in the sign.
Shl32(x, n) ==
  IF n = 0 THEN x ELSE Join((x \div 2^(31 - n)) % 2, (x % 2^(31 - n)) * 2^n)

DefaultPkru == 1431655764            \* 0x55555554

\* The bits of prot that SetPkey keeps: its two if statements.
NewBits(prot) ==
  (IF (prot & PKEY_DISABLE_ACCESS) # 0 THEN PKEY_DISABLE_ACCESS ELSE 0)
  + (IF (prot & PKEY_DISABLE_WRITE) # 0 THEN PKEY_DISABLE_WRITE ELSE 0)

\* new_pkru_bits <<= pkey_shift; old_pkru = rdpkru(), 0x55555554 when 0;
\* old_pkru &= ~(3 << pkey_shift); the result wrpkru writes.
SetPkeyWord(old, pkey, prot) ==
  LET shift == pkey * 2
      base  == IF old = 0 THEN DefaultPkru ELSE old
  IN  Or32(And32(base, Not32(Shl32(3, shift))), Shl32(NewBits(prot), shift))

Init == pkru = DefaultPkru

SetPkey(pkey, prot) == pkru' = SetPkeyWord(pkru, pkey, prot)

Next == \E k \in Keys, p \in Prots : SetPkey(k, p)

Spec == Init /\ [][Next]_pkru

-----------------------------------------------------------------------------
(* Properties.                                                             *)

\* The 2-bit field of key k in the int.
Field(x, k) ==
  IF k = 15 THEN 2 * Sign(x) + ((Low31(x) \div 2^30) % 2)
  ELSE (Low31(x) \div 2^(2 * k)) % 4

Abs == INSTANCE PKUCodecAbs WITH fields <- [k \in 0 .. 15 |-> Field(pkru, k)]

\* Spec 4.1: every SetPkey(pkey, prot) is the abstract Encode of pkey with
\* prot's two flags: it rewrites that key's field and keeps the other
\* fifteen ("mask off any old bits in place").  Once every key has been
\* written with prot 0 rdpkru reads 0, and SetPkey starts from 0x55555554
\* instead, access-disabling every other key.
CodecRefinement == Abs!Spec

=============================================================================
