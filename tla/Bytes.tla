-------------------------------- MODULE Bytes --------------------------------
(***************************************************************************)
(* Byte strings are sequences of 0 .. 255, positions in them count from 0  *)
(* as in the code, and numbers are big-endian.  A 32-bit number is the     *)
(* pair of its 16-bit halves.                                              *)
(***************************************************************************)
LOCAL INSTANCE Integers
LOCAL INSTANCE Sequences

Byte == {n \in Nat : n < 256}
Word == {n \in Nat : n < 65536}
Word24 == {n \in Nat : n < 16777216}

Zeros(n) == [k \in 1 .. n |-> 0]
Slice(b, from, to) == SubSeq(b, from + 1, to)

U16(n) == <<(n \div 256) % 256, n % 256>>
U24(n) == <<n \div 65536>> \o U16(n)
U32(pair) == U16(pair[1]) \o U16(pair[2])

Uint16(b, at) == b[at + 1] * 256 + b[at + 2]
Uint32(b, at) == <<Uint16(b, at), Uint16(b, at + 2)>>
PutUint16(b, at, n) == Slice(b, 0, at) \o U16(n) \o Slice(b, at + 2, Len(b))

\* Byte strings one behind the other.
Joined(parts) ==
  LET upTo[n \in 0 .. Len(parts)] == IF n = 0 THEN <<>> ELSE upTo[n - 1] \o parts[n]
  IN upTo[Len(parts)]

=============================================================================
