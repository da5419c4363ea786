------------------------------- MODULE SeqNum -------------------------------
(***************************************************************************)
(* Wrapping sequence-number arithmetic (src/tcp/seq.go).  The code works   *)
(* on uint32, so half of the number circle is 2^31; here it is the         *)
(* parameter Half, and every wrap-around case of the code exists for each  *)
(* value of Half, small or large.                                          *)
(***************************************************************************)
EXTENDS Integers

CONSTANT Half            \* 2^31 in the code

ASSUME HalfAssumption == Half \in Nat \ {0}

SeqMod == 2 * Half       \* 2^32 in the code

SeqNums == 0 .. (SeqMod - 1)

\* uint32 addition and subtraction.
SeqAdd(a, n) == (a + n) % SeqMod
SeqSub(a, b) == (a - b) % SeqMod

\* int32(a - b): the two's-complement reading of the wrapped difference.
SignedDiff(a, b) ==
  LET d == SeqSub(a, b) IN IF d < Half THEN d ELSE d - SeqMod

seqLT(a, b) == SignedDiff(a, b) < 0
seqLE(a, b) == SignedDiff(a, b) <= 0
\* Seeded fault: plain unsigned comparison, wrong across the wrap.
seqGT_Unsigned(a, b) == a > b

seqGT(a, b) == SignedDiff(a, b) > 0

=============================================================================
