------------------------------ MODULE WireProofs ------------------------------
(***************************************************************************)
(* Proofs about what goes over the wire: the packets, and the handshake    *)
(* messages of TLS.                                                        *)
(*                                                                         *)
(* The packets, for any segments and echo requests that fit an IP packet,  *)
(* of any bytes and any length: the checksums verify, the Parse functions  *)
(* read back what the FlushToBytes functions wrote, whole, padded or cut,  *)
(* and the option loop finds the segment size that the RFC reads out of    *)
(* the options.  A checksum is a sum of weighted bytes.  The sums are      *)
(* recursive functions of the number of bytes; that they exist, are unique *)
(* and add up is proved by induction, which is the existence of a least    *)
(* counterexample in a set of numbers.  Where a field stands in a frame is *)
(* followed with StandsAt, and that what is received begins as what was    *)
(* sent with Agrees, which padding and cutting keep.                       *)
(*                                                                         *)
(* The messages, for any ClientHello and any contents of the server's      *)
(* messages that their fields can hold, of any length: the parsers read    *)
(* back what was written (the lemmas called ...Back), and whatever a       *)
(* parser accepts, of any bytes, is what the encoder writes for the values *)
(* it returns (the lemmas called ...Read).  Lists are joinings of the      *)
(* bytes of their entries, followed entry by entry.                        *)
(***************************************************************************)
EXTENDS Packets, TLSMessages, NaturalsInduction, SequenceTheorems, WellFoundedInduction, TLAPS

\* Every set of natural numbers that has a member has a least one.
LEMMA LeastOf ==
  ASSUME NEW T \in SUBSET Nat, T # {}
  PROVE  \E n \in T : \A m \in T : n <= m
<1>1. IsWellFoundedOn(OpToRel(<, Nat), Nat)
  BY NatLessThanWellFounded
<1>2. PICK n \in T : \A m \in T : ~(<<m, n>> \in OpToRel(<, Nat))
  BY <1>1, WFMin
<1>3. \A m \in T : ~(m < n)
  BY <1>2 DEF OpToRel
<1>4. QED
  BY <1>3

\* Induction, for sets.
LEMMA Induction ==
  ASSUME NEW N \in Nat, NEW T, 0 \in T, \A n \in 1 .. N : n - 1 \in T => n \in T
  PROVE  \A n \in 0 .. N : n \in T
<1> DEFINE U == {n \in 0 .. N : n \notin T}
<1> SUFFICES ASSUME U # {} PROVE FALSE OBVIOUS
<1>1. U \in SUBSET Nat OBVIOUS
<1>2. PICK n \in U : \A m \in U : n <= m BY <1>1, LeastOf
<1>3. n # 0 /\ n - 1 \in 0 .. N /\ n - 1 \notin U BY <1>2
<1> QED BY <1>2, <1>3

\* t is the running sums of c.
IsRunning(t, c, N) == t = [n \in 0 .. N |-> IF n = 0 THEN 0 ELSE t[n - 1] + c[n]]

\* Running sums of any function exist up to any number.
LEMMA RunningExists ==
  ASSUME NEW N \in Nat, NEW c
  PROVE  \E t : IsRunning(t, c, N)
<1> DEFINE T == {n \in Nat : \E t : IsRunning(t, c, n)}
<1>1. 0 \in T
  <2> DEFINE t == [n \in 0 .. 0 |-> 0]
  <2>1. t = [n \in 0 .. 0 |-> IF n = 0 THEN 0 ELSE t[n - 1] + c[n]] OBVIOUS
  <2>2. IsRunning(t, c, 0) BY <2>1 DEF IsRunning
  <2> QED BY <2>2
<1>2. ASSUME NEW n \in 1 .. N, n - 1 \in T PROVE n \in T
  <2>1. PICK t : IsRunning(t, c, n - 1) BY <1>2
  <2> DEFINE u == [k \in 0 .. n |-> IF k = n THEN t[n - 1] + c[n] ELSE t[k]]
  <2>2. \A k \in 0 .. n - 1 : u[k] = t[k] OBVIOUS
  <2>3. \A k \in 0 .. n - 1 : t[k] = IF k = 0 THEN 0 ELSE t[k - 1] + c[k] BY <2>1 DEF IsRunning
  <2>4. \A k \in 0 .. n : u[k] = IF k = 0 THEN 0 ELSE u[k - 1] + c[k] 
    <3> TAKE k \in 0 .. n
    <3>1. CASE k = n BY <3>1, <2>2
    <3>2. CASE k # n /\ k = 0 BY <3>2, <2>2, <2>3
    <3>3. CASE k # n /\ k # 0 
      <4>1. k \in 0 .. n - 1 /\ k - 1 \in 0 .. n - 1 BY <3>3
      <4> QED BY <4>1, <3>3, <2>2, <2>3
    <3> QED BY <3>1, <3>2, <3>3
  <2>5. u = [k \in 0 .. n |-> u[k]] OBVIOUS
  <2> HIDE DEF u
  <2>6. u = [k \in 0 .. n |-> IF k = 0 THEN 0 ELSE u[k - 1] + c[k]] BY <2>4, <2>5
  <2> QED BY <2>6 DEF IsRunning
<1> HIDE DEF T
<1>3. N \in T BY <1>1, <1>2, Induction
<1> QED BY <1>3 DEF T

\* There is only one function of running sums: a recursive function is it.
LEMMA RunningUnique ==
  ASSUME NEW N \in Nat, NEW c, NEW t, NEW u, IsRunning(t, c, N), IsRunning(u, c, N)
  PROVE  t = u
<1> DEFINE T == {n \in 0 .. N : t[n] = u[n]}
<1>1. \A n \in 0 .. N : t[n] = IF n = 0 THEN 0 ELSE t[n - 1] + c[n] BY DEF IsRunning
<1>2. \A n \in 0 .. N : u[n] = IF n = 0 THEN 0 ELSE u[n - 1] + c[n] BY DEF IsRunning
<1>3. 0 \in T BY <1>1, <1>2
<1>4. ASSUME NEW n \in 1 .. N, n - 1 \in T PROVE n \in T BY <1>1, <1>2, <1>4
<1> HIDE DEF T
<1>5. \A n \in 0 .. N : n \in T BY <1>3, <1>4, Induction
<1>6. \A n \in 0 .. N : t[n] = u[n] BY <1>5 DEF T
<1> QED BY <1>6 DEF IsRunning

\* The sum of c[1] .. c[N].
Total(c, N) == (CHOOSE t : IsRunning(t, c, N))[N]

\* How such a sum grows.
LEMMA TotalGrows ==
  ASSUME NEW N \in Nat, NEW c
  PROVE  /\ Total(c, 0) = 0
         /\ N > 0 => Total(c, N) = Total(c, N - 1) + c[N]
<1>1. ASSUME NEW n \in Nat, NEW t, IsRunning(t, c, n) PROVE Total(c, n) = t[n]
  BY <1>1, RunningUnique DEF Total
<1>2. Total(c, 0) = 0
  <2>1. PICK t : IsRunning(t, c, 0) BY RunningExists
  <2>2. t[0] = 0
    <3>1. t = [n \in 0 .. 0 |-> IF n = 0 THEN 0 ELSE t[n - 1] + c[n]] BY <2>1 DEF IsRunning
    <3>2. 0 \in 0 .. 0 OBVIOUS
    <3> QED BY <3>1, <3>2
  <2> QED BY <1>1, <2>1, <2>2
<1>3. ASSUME N > 0 PROVE Total(c, N) = Total(c, N - 1) + c[N]
  <2>1. PICK t : IsRunning(t, c, N) BY RunningExists
  <2>2. \A n \in 0 .. N : t[n] = IF n = 0 THEN 0 ELSE t[n - 1] + c[n] BY <2>1 DEF IsRunning
  <2> DEFINE u == [n \in 0 .. N - 1 |-> t[n]]
  <2>3. \A n \in 0 .. N - 1 : u[n] = IF n = 0 THEN 0 ELSE u[n - 1] + c[n]
    <3> TAKE n \in 0 .. N - 1
    <3>1. n \in 0 .. N /\ (n # 0 => n - 1 \in 0 .. N - 1) OBVIOUS
    <3> QED BY <3>1, <2>2
  <2>4. u = [n \in 0 .. N - 1 |-> u[n]] OBVIOUS
  <2>5. u[N - 1] = t[N - 1] BY <1>3
  <2> HIDE DEF u
  <2>6. IsRunning(u, c, N - 1) BY <2>3, <2>4 DEF IsRunning
  <2>7. N - 1 \in Nat BY <1>3
  <2> QED BY <1>1, <1>3, <2>1, <2>2, <2>5, <2>6, <2>7
<1> QED BY <1>2, <1>3

\* Its type.
LEMMA TotalType ==
  ASSUME NEW N \in Nat, NEW c, \A n \in 1 .. N : c[n] \in Nat
  PROVE  Total(c, N) \in Nat
<1> DEFINE T == {n \in 0 .. N : Total(c, n) \in Nat}
<1>1. 0 \in T BY TotalGrows
<1>2. ASSUME NEW n \in 1 .. N, n - 1 \in T PROVE n \in T
  <2>1. n \in Nat /\ n > 0 /\ c[n] \in Nat OBVIOUS
  <2>2. Total(c, n) = Total(c, n - 1) + c[n] BY <2>1, TotalGrows
  <2> QED BY <1>2, <2>1, <2>2
<1> HIDE DEF T
<1>3. N \in T BY <1>1, <1>2, Induction
<1> QED BY <1>3 DEF T

\* c is d, up to M, with e, up to N, behind it.
IsSplit(c, d, M, e, N) ==
  /\ M \in Nat /\ N \in Nat
  /\ \A n \in 1 .. M : c[n] = d[n] /\ c[n] \in Nat
  /\ \A n \in 1 .. N : c[M + n] = e[n] /\ e[n] \in Nat

\* The sum of such a c is the sum of the two.
LEMMA TotalSplits ==
  ASSUME NEW c, NEW d, NEW M, NEW e, NEW N, IsSplit(c, d, M, e, N)
  PROVE  Total(c, M + N) = Total(d, M) + Total(e, N)
<1> USE DEF IsSplit
<1>0. M \in Nat /\ N \in Nat OBVIOUS
<1>1. Total(c, M) = Total(d, M) /\ Total(c, M) \in Nat
  <2> DEFINE T == {n \in 0 .. M : Total(c, n) = Total(d, n)}
  <2>1. 0 \in T BY TotalGrows
  <2>2. ASSUME NEW n \in 1 .. M, n - 1 \in T PROVE n \in T
    <3>1. n \in Nat /\ n > 0 /\ c[n] = d[n] OBVIOUS
    <3>2. Total(c, n) = Total(c, n - 1) + c[n] /\ Total(d, n) = Total(d, n - 1) + d[n]
      BY <3>1, TotalGrows
    <3> QED BY <2>2, <3>1, <3>2
  <2> HIDE DEF T
  <2>3. M \in T BY <2>1, <2>2, Induction
  <2>4. Total(c, M) \in Nat BY TotalType
  <2> QED BY <2>3, <2>4 DEF T
<1> DEFINE T == {n \in 0 .. N : Total(c, M + n) = Total(d, M) + Total(e, n)}
<1>2. 0 \in T BY <1>1, TotalGrows
<1>3. ASSUME NEW n \in 1 .. N, n - 1 \in T PROVE n \in T
  <2>1. n \in Nat /\ n > 0 /\ c[M + n] = e[n] /\ e[n] \in Nat OBVIOUS
  <2>2. M + n \in Nat /\ M + n > 0 /\ (M + n) - 1 = M + (n - 1) BY <2>1
  <2>3. Total(c, M + n) = Total(c, M + (n - 1)) + c[M + n] BY <2>2, TotalGrows
  <2>4. Total(e, n) = Total(e, n - 1) + e[n] BY <2>1, TotalGrows
  <2>5. Total(e, n - 1) \in Nat
    <3>1. n - 1 \in Nat /\ \A k \in 1 .. n - 1 : e[k] \in Nat BY <2>1
    <3> QED BY <3>1, TotalType
  <2> QED BY <1>1, <1>3, <2>1, <2>3, <2>4, <2>5
<1> HIDE DEF T
<1>4. N \in T
  <2>1. \A n \in 0 .. N : n \in T BY <1>2, <1>3, Induction
  <2> QED BY <2>1
<1> QED BY <1>4 DEF T

------------------------------------------------------------------------------
(***************************************************************************)
(* Byte strings.                                                           *)
(***************************************************************************)

\* What a byte is.
LEMMA ByteAt ==
  ASSUME NEW b \in Seq(Byte), NEW n \in 1 .. Len(b)
  PROVE  b[n] \in Byte /\ b[n] \in Nat /\ b[n] < 256
<1>1. b[n] \in Byte BY ElementOfSeq
<1> QED BY <1>1 DEF Byte

\* What the helpers on byte strings return.
LEMMA SliceFacts ==
  ASSUME NEW b \in Seq(Byte), NEW from \in Nat, NEW to \in Nat, from <= to, to <= Len(b)
  PROVE  /\ Slice(b, from, to) \in Seq(Byte) /\ Len(Slice(b, from, to)) = to - from
         /\ \A i \in 1 .. to - from : Slice(b, from, to)[i] = b[from + i]
BY DEF Slice

\* A string of zeros.
LEMMA ZerosFacts ==
  ASSUME NEW n \in Nat
  PROVE  Zeros(n) \in Seq(Byte) /\ Len(Zeros(n)) = n /\ \A i \in 1 .. n : Zeros(n)[i] = 0
BY DEF Zeros, Byte

\* binary.BigEndian.PutUint16 keeps a number that fits sixteen bits.
LEMMA U16Facts ==
  ASSUME NEW n \in Nat
  PROVE  /\ U16(n) \in Seq(Byte) /\ Len(U16(n)) = 2
         /\ n < 65536 => U16(n)[1] * 256 + U16(n)[2] = n
BY DEF U16, Byte

\* PutUint32 of a number that is held as two halves.
LEMMA U32Facts ==
  ASSUME NEW p, p[1] \in Word, p[2] \in Word
  PROVE  /\ U32(p) \in Seq(Byte) /\ Len(U32(p)) = 4
         /\ U32(p)[1] * 256 + U32(p)[2] = p[1] /\ U32(p)[3] * 256 + U32(p)[4] = p[2]
<1>1. p[1] \in Nat /\ p[2] \in Nat /\ p[1] < 65536 /\ p[2] < 65536 BY DEF Word
<1>2. /\ U16(p[1]) \in Seq(Byte) /\ Len(U16(p[1])) = 2
      /\ U16(p[1])[1] * 256 + U16(p[1])[2] = p[1]
  BY <1>1, U16Facts
<1>3. /\ U16(p[2]) \in Seq(Byte) /\ Len(U16(p[2])) = 2
      /\ U16(p[2])[1] * 256 + U16(p[2])[2] = p[2]
  BY <1>1, U16Facts
<1> QED BY <1>2, <1>3 DEF U32

\* The weight of each byte in the sum of the words.
Weights(b) == [n \in 1 .. Len(b) |-> b[n] * (IF n % 2 = 1 THEN 256 ELSE 1)]
Weight(b) == Total(Weights(b), Len(b))

\* The weights of bytes are numbers.
LEMMA WeightsType ==
  ASSUME NEW b \in Seq(Byte)
  PROVE  \A n \in 1 .. Len(b) : Weights(b)[n] \in Nat
<1> TAKE n \in 1 .. Len(b)
<1>1. b[n] \in Nat BY ByteAt
<1>2. Weights(b)[n] = IF n % 2 = 1 THEN b[n] * 256 ELSE b[n] BY <1>1 DEF Weights
<1> QED BY <1>1, <1>2

\* Their sum is a number.
LEMMA WeightType ==
  ASSUME NEW b \in Seq(Byte)
  PROVE  Weight(b) \in Nat
BY WeightsType, TotalType DEF Weight

\* A receiver's check in terms of the weight.
LEMMA VerifiesByWeight ==
  ASSUME NEW b \in Seq(Byte)
  PROVE  Verifies(b) <=> Weight(b) > 0 /\ Weight(b) % 65535 = 0
<1> DEFINE c == Weights(b)
<1>1. Len(b) \in Nat OBVIOUS
<1>2. \A n \in 0 .. Len(b) : n # 0 => c[n] = b[n] * (IF n % 2 = 1 THEN 256 ELSE 1)
  BY <1>1 DEF Weights
<1> HIDE DEF c
<1>3. ASSUME NEW t
      PROVE  [n \in 0 .. Len(b) |->
                IF n = 0 THEN 0 ELSE t[n - 1] + b[n] * (IF n % 2 = 1 THEN 256 ELSE 1)]
             = [n \in 0 .. Len(b) |-> IF n = 0 THEN 0 ELSE t[n - 1] + c[n]]
  BY <1>2
<1>4. (CHOOSE t : t = [n \in 0 .. Len(b) |->
                IF n = 0 THEN 0 ELSE t[n - 1] + b[n] * (IF n % 2 = 1 THEN 256 ELSE 1)])
      = CHOOSE t : t = [n \in 0 .. Len(b) |-> IF n = 0 THEN 0 ELSE t[n - 1] + c[n]]
  BY <1>3
<1> DEFINE total == CHOOSE t : t = [n \in 0 .. Len(b) |->
                IF n = 0 THEN 0 ELSE t[n - 1] + b[n] * (IF n % 2 = 1 THEN 256 ELSE 1)]
<1>5. Verifies(b) <=> total[Len(b)] > 0 /\ total[Len(b)] % 65535 = 0 BY DEF Verifies
<1>6. total[Len(b)] = Weight(b) BY <1>4 DEF Weight, Total, IsRunning, c
<1> QED BY <1>5, <1>6

\* The code's sum over words is the weight.
LEMMA SumIsWeight ==
  ASSUME NEW b \in Seq(Byte)
  PROVE  Sum(b) = Weight(b)
<1> DEFINE half == Len(b) \div 2
           c == [n \in 1 .. half |-> Uint16(b, 2 * n - 2)]
           odd == IF Len(b) % 2 = 1 THEN b[Len(b)] * 256 ELSE 0
<1>1. Len(b) \in Nat /\ half \in Nat /\ 2 * half <= Len(b) OBVIOUS
<1>2. Sum(b) = Total(c, half) + odd
  <2>1. \A n \in 0 .. half : n # 0 => c[n] = Uint16(b, 2 * n - 2) BY <1>1
  <2> HIDE DEF c, half
  <2>2. ASSUME NEW t
        PROVE  [n \in 0 .. half |-> IF n = 0 THEN 0 ELSE t[n - 1] + Uint16(b, 2 * n - 2)]
               = [n \in 0 .. half |-> IF n = 0 THEN 0 ELSE t[n - 1] + c[n]]
    BY <2>1
  <2>3. (CHOOSE t : t = [n \in 0 .. half |-> IF n = 0 THEN 0 ELSE t[n - 1] + Uint16(b, 2 * n - 2)])
        = CHOOSE t : t = [n \in 0 .. half |-> IF n = 0 THEN 0 ELSE t[n - 1] + c[n]]
    BY <2>2
  <2> QED BY <2>3 DEF Sum, Total, IsRunning, half
<1> DEFINE w == Weights(b)
           T == {n \in 0 .. half : Total(c, n) = Total(w, 2 * n)}
<1>3. 0 \in T BY <1>1, TotalGrows
<1>4. ASSUME NEW n \in 1 .. half, n - 1 \in T PROVE n \in T
  <2>1. /\ 2 * n \in 1 .. Len(b) /\ 2 * n - 1 \in 1 .. Len(b) /\ n \in Nat /\ n > 0
        /\ 2 * (n - 1) = 2 * n - 2 /\ (2 * n - 1) - 1 = 2 * n - 2
        /\ (2 * n - 2) + 1 = 2 * n - 1 /\ (2 * n - 2) + 2 = 2 * n
        /\ (2 * n) % 2 = 0 /\ (2 * n - 1) % 2 = 1
    BY <1>1
  <2>2. Total(c, n) = Total(c, n - 1) + c[n] BY <2>1, TotalGrows
  <2>3. Total(w, 2 * n) = Total(w, 2 * n - 1) + w[2 * n] BY <2>1, TotalGrows
  <2>4. Total(w, 2 * n - 1) = Total(w, 2 * n - 2) + w[2 * n - 1]
    <3>1. 2 * n - 1 \in Nat /\ 2 * n - 1 > 0 BY <2>1
    <3> QED BY <2>1, <3>1, TotalGrows
  <2>5. b[2 * n] \in Nat /\ b[2 * n - 1] \in Nat BY <2>1, ByteAt
  <2>6. w[2 * n] = b[2 * n] * 1 /\ w[2 * n - 1] = b[2 * n - 1] * 256 BY <2>1 DEF Weights
  <2>7. c[n] = b[2 * n - 1] * 256 + b[2 * n] BY <2>1 DEF Uint16
  <2>8. Total(w, 2 * n - 2) \in Nat
    <3>1. 2 * n - 2 \in Nat BY <2>1
    <3>2. \A k \in 1 .. 2 * n - 2 : w[k] \in Nat BY <2>1, WeightsType
    <3> QED BY <3>1, <3>2, TotalType
  <2>9. Total(c, n - 1) = Total(w, 2 * n - 2) BY <1>4, <2>1
  <2> HIDE DEF c, w, half
  <2>10. Total(c, n) = Total(w, 2 * n)
    BY <2>2, <2>3, <2>4, <2>5, <2>6, <2>7, <2>8, <2>9
  <2> QED BY <2>10
<1> HIDE DEF T, c, half
<1>5. half \in T
  <2>1. half \in Nat /\ half \in 0 .. half BY <1>1
  <2>2. \A n \in 0 .. half : n \in T BY <1>3, <1>4, <2>1, Induction
  <2> QED BY <2>1, <2>2
<1>6. Total(c, half) = Total(w, 2 * half) BY <1>5 DEF T
<1>7. CASE Len(b) % 2 = 0
  <2>1. 2 * half = Len(b) BY <1>1, <1>7 DEF half
  <2>2. Weight(b) \in Nat BY WeightType
  <2> QED BY <1>2, <1>6, <1>7, <2>1, <2>2 DEF Weight
<1>8. CASE Len(b) % 2 = 1
  <2>1. 2 * half = Len(b) - 1 /\ Len(b) > 0 BY <1>1, <1>8 DEF half
  <2>2. Total(w, Len(b)) = Total(w, Len(b) - 1) + w[Len(b)] BY <1>1, <2>1, TotalGrows
  <2>3. w[Len(b)] = b[Len(b)] * 256 BY <1>1, <1>8, <2>1 DEF Weights
  <2> QED BY <1>2, <1>6, <1>8, <2>1, <2>2, <2>3 DEF Weight
<1> QED BY <1>1, <1>7, <1>8

\* Behind an even number of bytes a string weighs what it weighs alone.
LEMMA WeightOfConcat ==
  ASSUME NEW a \in Seq(Byte), NEW b \in Seq(Byte), Len(a) % 2 = 0
  PROVE  a \o b \in Seq(Byte) /\ Weight(a \o b) = Weight(a) + Weight(b)
<1>1. Len(a) \in Nat /\ Len(b) \in Nat OBVIOUS
<1>2. /\ a \o b \in Seq(Byte) /\ Len(a \o b) = Len(a) + Len(b)
      /\ \A i \in 1 .. Len(a) + Len(b) : (a \o b)[i] = IF i <= Len(a) THEN a[i] ELSE b[i - Len(a)]
  BY ConcatProperties
<1>3. ASSUME NEW n \in 1 .. Len(a)
      PROVE  Weights(a \o b)[n] = Weights(a)[n] /\ Weights(a \o b)[n] \in Nat
  <2>1. n \in 1 .. Len(a \o b) /\ (a \o b)[n] = a[n] BY <1>1, <1>2
  <2>2. Weights(a)[n] \in Nat BY WeightsType
  <2> QED BY <2>1, <2>2 DEF Weights
<1>4. ASSUME NEW n \in 1 .. Len(b)
      PROVE  Weights(a \o b)[Len(a) + n] = Weights(b)[n] /\ Weights(b)[n] \in Nat
  <2>1. Len(a) + n \in 1 .. Len(a \o b) /\ (a \o b)[Len(a) + n] = b[n] BY <1>1, <1>2
  <2>2. (Len(a) + n) % 2 = n % 2 BY <1>1
  <2>3. Weights(b)[n] \in Nat BY WeightsType
  <2> QED BY <2>1, <2>2, <2>3 DEF Weights
<1> DEFINE c == Weights(a \o b)
           d == Weights(a)
           e == Weights(b)
           M == Len(a)
           N == Len(b)
<1>5. /\ M \in Nat /\ N \in Nat
      /\ \A n \in 1 .. M : c[n] = d[n] /\ c[n] \in Nat
      /\ \A n \in 1 .. N : c[M + n] = e[n] /\ e[n] \in Nat
  BY <1>1, <1>3, <1>4
<1> HIDE DEF c, d, e, M, N
<1>6. Total(c, M + N) = Total(d, M) + Total(e, N)
  <2>1. IsSplit(c, d, M, e, N) BY <1>5 DEF IsSplit
  <2> QED BY <2>1, TotalSplits
<1> QED BY <1>2, <1>6 DEF Weight, c, d, e, M, N

\* A word of two bytes weighs what it says.
LEMMA WeightOfWord ==
  ASSUME NEW n \in Word
  PROVE  U16(n) \in Seq(Byte) /\ Len(U16(n)) = 2 /\ Weight(U16(n)) = n
<1> DEFINE b == U16(n)
<1>1. n \in Nat /\ n < 65536 BY DEF Word
<1>2. b \in Seq(Byte) /\ Len(b) = 2 /\ b[1] * 256 + b[2] = n BY <1>1, U16Facts
<1> HIDE DEF b
<1>3. Total(Weights(b), 0) = 0 /\ Total(Weights(b), 1) = 0 + Weights(b)[1]
  <2>1. 1 \in Nat /\ 1 > 0 /\ 1 - 1 = 0 OBVIOUS
  <2> QED BY <2>1, TotalGrows
<1>4. Total(Weights(b), 2) = Total(Weights(b), 1) + Weights(b)[2]
  <2>1. 2 \in Nat /\ 2 > 0 /\ 2 - 1 = 1 OBVIOUS
  <2> QED BY <2>1, TotalGrows
<1>5. Weights(b)[1] = b[1] * 256 /\ Weights(b)[2] = b[2] * 1 BY <1>2 DEF Weights
<1>6. b[1] \in Nat /\ b[2] \in Nat BY <1>2, ByteAt
<1>7. Weight(b) = n BY <1>2, <1>3, <1>4, <1>5, <1>6 DEF Weight
<1> QED BY <1>2, <1>7 DEF b

\* What is left when all carries have been added in.
Folded(s) == IF s = 0 THEN 0 ELSE ((s - 1) % 65535) + 1

\* One turn of the carry loop keeps what is left in the end, and goes down.
LEMMA FoldedStep ==
  ASSUME NEW s \in Nat
  PROVE  /\ Folded(s) \in Nat /\ Folded(s) < 65536
         /\ s > 65535 => /\ (s \div 65536) + (s % 65536) \in Nat
                         /\ (s \div 65536) + (s % 65536) < s
                         /\ Folded(s) = Folded((s \div 65536) + (s % 65536))
         /\ s <= 65535 => Folded(s) = s
<1>1. CASE s <= 65535 BY <1>1 DEF Folded
<1>2. CASE s > 65535
  <2> DEFINE q == s \div 65536
             r == s % 65536
             x == q + r - 1
  <2>1. q \in Nat /\ r \in Nat /\ s = 65536 * q + r /\ q > 0 BY <1>2
  <2>2. (s \div 65536) + (s % 65536) = q + r OBVIOUS
  <2> HIDE DEF q, r
  <2>3. x \in Nat /\ s - 1 = x + 65535 * q BY <2>1
  <2> HIDE DEF x
  <2>4. (s - 1) % 65535 = x % 65535 BY <2>1, <2>3
  <2>5. x % 65535 \in Nat /\ x % 65535 < 65535 BY <2>3
  <2>6. (q + r) - 1 = x BY <2>1 DEF x
  <2>7. Folded(q + r) = (x % 65535) + 1 BY <2>1, <2>6 DEF Folded
  <2>8. Folded(s) = (x % 65535) + 1 BY <1>2, <2>4 DEF Folded
  <2> QED BY <1>2, <2>1, <2>2, <2>5, <2>7, <2>8
<1> QED BY <1>1, <1>2

\* The loop of the carries ends with that.
LEMMA ComplementFacts ==
  ASSUME NEW sum \in Nat
  PROVE  /\ Complement(sum) = 65535 - Folded(sum)
         /\ Complement(sum) \in Word
         /\ sum + Complement(sum) > 0 /\ (sum + Complement(sum)) % 65535 = 0
<1> DEFINE Next(s) == (s \div 65536) + (s % 65536)
           IsFold(f) == f = [s \in Nat |-> IF s > 65535 THEN f[Next(s)] ELSE s]
           g == [s \in Nat |-> Folded(s)]
<1>1. IsFold(g)
  <2>1. ASSUME NEW s \in Nat PROVE g[s] = IF s > 65535 THEN g[Next(s)] ELSE s
    <3>1. g[s] = Folded(s) /\ \A n \in Nat : g[n] = Folded(n) OBVIOUS
    <3> HIDE DEF g
    <3> QED BY <3>1, FoldedStep
  <2>2. g = [s \in Nat |-> g[s]] OBVIOUS
  <2> HIDE DEF g, Next
  <2> QED BY <2>1, <2>2
<1>2. ASSUME NEW f, IsFold(f) PROVE f[sum] = Folded(sum)
  <2> DEFINE T == {s \in Nat : f[s] # Folded(s)}
  <2> SUFFICES ASSUME T # {} PROVE FALSE OBVIOUS
  <2>1. T \in SUBSET Nat OBVIOUS
  <2>2. PICK s \in T : \A m \in T : s <= m BY <2>1, LeastOf
  <2>3. f[s] = IF s > 65535 THEN f[Next(s)] ELSE s BY <1>2, <2>1
  <2>4. s \in Nat /\ f[s] # Folded(s) OBVIOUS
  <2>5. s > 65535 /\ Next(s) \in Nat /\ Next(s) < s /\ Folded(s) = Folded(Next(s))
    BY <2>3, <2>4, FoldedStep
  <2>6. Next(s) \notin T BY <2>2, <2>5
  <2> QED BY <2>3, <2>4, <2>5, <2>6
<1> DEFINE fold == CHOOSE f : IsFold(f)
<1>3. IsFold(fold) BY <1>1
<1> HIDE DEF fold, IsFold
<1>4. fold[sum] = Folded(sum) BY <1>2, <1>3
<1> USE DEF fold, IsFold
<1>5. Complement(sum) = 65535 - Folded(sum) BY <1>4 DEF Complement
<1> HIDE DEF fold, g
<1>6. Folded(sum) \in Nat /\ Folded(sum) < 65536 BY FoldedStep
<1>7. CASE sum = 0 BY <1>5, <1>7 DEF Folded, Word
<1>8. CASE sum > 0
  <2> DEFINE x == (sum - 1) % 65535
             q == (sum - 1) \div 65535
  <2>1. sum - 1 = 65535 * q + x /\ x \in Nat /\ q \in Nat /\ x < 65535 BY <1>8
  <2>2. Complement(sum) = 65535 - (x + 1) BY <1>5, <1>8 DEF Folded
  <2> HIDE DEF x, q
  <2>3. sum + Complement(sum) = 65535 * (q + 1) BY <2>1, <2>2
  <2>4. (65535 * (q + 1)) % 65535 = 0 /\ 65535 * (q + 1) > 0 BY <2>1
  <2> QED BY <1>5, <1>6, <2>3, <2>4 DEF Word
<1> QED BY <1>7, <1>8

\* Putting a word in changes its two bytes and no others.
LEMMA PutFacts ==
  ASSUME NEW b \in Seq(Byte), NEW at \in Nat, at + 2 <= Len(b), NEW n \in Word
  PROVE  /\ PutUint16(b, at, n) \in Seq(Byte) /\ Len(PutUint16(b, at, n)) = Len(b)
         /\ \A i \in 1 .. Len(b) : i # at + 1 /\ i # at + 2 => PutUint16(b, at, n)[i] = b[i]
<1>1. Len(b) \in Nat /\ at <= Len(b) /\ 0 <= at /\ 0 \in Nat /\ at + 2 \in Nat OBVIOUS
<1>2. /\ Slice(b, 0, at) \in Seq(Byte) /\ Len(Slice(b, 0, at)) = at - 0
      /\ \A i \in 1 .. at - 0 : Slice(b, 0, at)[i] = b[0 + i]
  BY <1>1, SliceFacts
<1>3. /\ Slice(b, at + 2, Len(b)) \in Seq(Byte) /\ Len(Slice(b, at + 2, Len(b))) = Len(b) - (at + 2)
      /\ \A i \in 1 .. Len(b) - (at + 2) : Slice(b, at + 2, Len(b))[i] = b[at + 2 + i]
  <2> DEFINE m == at + 2
             k == Len(b)
  <2>1. m \in Nat /\ k \in Nat /\ m <= k /\ k <= Len(b) BY <1>1
  <2> HIDE DEF m, k
  <2>2. /\ Slice(b, m, k) \in Seq(Byte) /\ Len(Slice(b, m, k)) = k - m
        /\ \A i \in 1 .. k - m : Slice(b, m, k)[i] = b[m + i]
    BY <2>1, SliceFacts
  <2> QED BY <2>2 DEF m, k
<1>4. U16(n) \in Seq(Byte) /\ Len(U16(n)) = 2 BY WeightOfWord
<1> DEFINE x == Slice(b, 0, at)
           y == U16(n)
           z == Slice(b, at + 2, Len(b))
<1> HIDE DEF x, y, z
<1>5. /\ x \in Seq(Byte) /\ y \in Seq(Byte) /\ z \in Seq(Byte)
      /\ Len(x) = at /\ Len(y) = 2 /\ Len(z) = Len(b) - (at + 2)
      /\ \A i \in 1 .. at : x[i] = b[i]
      /\ \A i \in 1 .. Len(b) - (at + 2) : z[i] = b[at + 2 + i]
  BY <1>2, <1>3, <1>4 DEF x, y, z
<1>6. /\ x \o y \in Seq(Byte) /\ Len(x \o y) = at + 2
      /\ \A i \in 1 .. at : (x \o y)[i] = b[i]
  <2>1. /\ x \o y \in Seq(Byte) /\ Len(x \o y) = Len(x) + Len(y)
        /\ \A i \in 1 .. Len(x) + Len(y) : (x \o y)[i] = IF i <= Len(x) THEN x[i] ELSE y[i - Len(x)]
    <3>1. x \in Seq(Byte) /\ y \in Seq(Byte) BY <1>5
    <3> QED BY <3>1, ConcatProperties
  <2> QED BY <1>5, <2>1
<1>7. /\ (x \o y) \o z \in Seq(Byte) /\ Len((x \o y) \o z) = Len(b)
      /\ \A i \in 1 .. Len(b) : ((x \o y) \o z)[i] = IF i <= at + 2 THEN (x \o y)[i] ELSE z[i - (at + 2)]
  BY <1>1, <1>5, <1>6, ConcatProperties
<1>8. PutUint16(b, at, n) = (x \o y) \o z BY DEF PutUint16, x, y, z
<1>9. ASSUME NEW i \in 1 .. Len(b), i # at + 1, i # at + 2 PROVE ((x \o y) \o z)[i] = b[i]
  <2>1. CASE i <= at BY <1>6, <1>7, <2>1
  <2>2. CASE i > at + 2
    <3>1. i - (at + 2) \in 1 .. Len(b) - (at + 2) /\ at + 2 + (i - (at + 2)) = i BY <1>1, <2>2
    <3> QED BY <1>5, <1>7, <2>2, <3>1
  <2>3. i <= at \/ i > at + 2 BY <1>9
  <2> QED BY <2>1, <2>2, <2>3
<1> QED BY <1>7, <1>8, <1>9

\* Concatenation and slices, for bytes.
LEMMA ConcatFacts ==
  ASSUME NEW a \in Seq(Byte), NEW b \in Seq(Byte)
  PROVE  /\ a \o b \in Seq(Byte) /\ Len(a \o b) = Len(a) + Len(b)
         /\ \A i \in 1 .. Len(a) : (a \o b)[i] = a[i]
         /\ \A i \in 1 .. Len(b) : (a \o b)[Len(a) + i] = b[i]
<1>1. Len(a) \in Nat /\ Len(b) \in Nat OBVIOUS
<1>2. /\ a \o b \in Seq(Byte) /\ Len(a \o b) = Len(a) + Len(b)
      /\ \A i \in 1 .. Len(a) + Len(b) : (a \o b)[i] = IF i <= Len(a) THEN a[i] ELSE b[i - Len(a)]
  BY ConcatProperties
<1> QED BY <1>1, <1>2

\* A zero word at an even place that is overwritten adds its weight.
LEMMA PutWeight ==
  ASSUME NEW b \in Seq(Byte), NEW at \in Nat, at % 2 = 0, at + 2 <= Len(b), NEW n \in Word,
         b[at + 1] = 0, b[at + 2] = 0
  PROVE  Weight(PutUint16(b, at, n)) = Weight(b) + n
<1> DEFINE x == Slice(b, 0, at)
           m == at + 2
           z == Slice(b, m, Len(b))
           o == U16(0)
           y == U16(n)
<1>1. Len(b) \in Nat /\ at <= Len(b) /\ 0 <= at /\ 0 \in Nat /\ m \in Nat /\ m <= Len(b) OBVIOUS
<1>2. x \in Seq(Byte) /\ Len(x) = at /\ \A i \in 1 .. at : x[i] = b[i]
  <2>1. /\ x \in Seq(Byte) /\ Len(x) = at - 0
        /\ \A i \in 1 .. at - 0 : x[i] = b[0 + i]
    BY <1>1, SliceFacts
  <2> QED BY <1>1, <2>1
<1> HIDE DEF m, x, z
<1>3. z \in Seq(Byte) /\ Len(z) = Len(b) - m /\ \A i \in 1 .. Len(b) - m : z[i] = b[m + i]
  <2> DEFINE k == Len(b)
  <2>1. m \in Nat /\ k \in Nat /\ m <= k /\ k <= Len(b) BY <1>1
  <2> HIDE DEF k
  <2>2. /\ Slice(b, m, k) \in Seq(Byte) /\ Len(Slice(b, m, k)) = k - m
        /\ \A i \in 1 .. k - m : Slice(b, m, k)[i] = b[m + i]
    BY <2>1, SliceFacts
  <2> QED BY <2>2 DEF z, k
<1>4. 0 \in Word BY DEF Word
<1>5. o \in Seq(Byte) /\ Len(o) = 2 /\ Weight(o) = 0 BY <1>4, WeightOfWord
<1>6. y \in Seq(Byte) /\ Len(y) = 2 /\ Weight(y) = n BY WeightOfWord
<1>7. o[1] = 0 /\ o[2] = 0 BY DEF U16
<1> HIDE DEF o, y
<1>8. /\ x \o o \in Seq(Byte) /\ Weight(x \o o) = Weight(x) + 0
      /\ Len(x \o o) = m /\ Len(x \o o) % 2 = 0
      /\ \A i \in 1 .. at : (x \o o)[i] = x[i]
      /\ \A i \in 1 .. 2 : (x \o o)[at + i] = o[i]
  <2>1. x \in Seq(Byte) /\ o \in Seq(Byte) /\ Len(x) = at /\ Len(o) = 2 /\ Len(x) % 2 = 0
    BY <1>2, <1>5
  <2>2. Weight(x \o o) = Weight(x) + Weight(o) BY <2>1, WeightOfConcat
  <2>3. /\ x \o o \in Seq(Byte) /\ Len(x \o o) = Len(x) + Len(o)
        /\ \A i \in 1 .. Len(x) : (x \o o)[i] = x[i]
        /\ \A i \in 1 .. Len(o) : (x \o o)[Len(x) + i] = o[i]
    BY <2>1, ConcatFacts
  <2>4. m % 2 = 0 /\ m = at + 2 BY DEF m
  <2> QED BY <1>5, <2>1, <2>2, <2>3, <2>4
<1>9. /\ x \o y \in Seq(Byte) /\ Weight(x \o y) = Weight(x) + n /\ Len(x \o y) % 2 = 0
  <2>1. x \in Seq(Byte) /\ y \in Seq(Byte) /\ Len(x) = at /\ Len(y) = 2 /\ Len(x) % 2 = 0
    BY <1>2, <1>6
  <2>2. Weight(x \o y) = Weight(x) + Weight(y) BY <2>1, WeightOfConcat
  <2>3. x \o y \in Seq(Byte) /\ Len(x \o y) = Len(x) + Len(y) BY <2>1, ConcatFacts
  <2> QED BY <1>6, <2>1, <2>2, <2>3
<1> DEFINE u == x \o o
           v == x \o y
<1> HIDE DEF u, v
<1>10. Weight(u \o z) = Weight(u) + Weight(z)
  <2>1. u \in Seq(Byte) /\ z \in Seq(Byte) /\ Len(u) % 2 = 0 BY <1>3, <1>8 DEF u
  <2> QED BY <2>1, WeightOfConcat
<1>11. Weight(v \o z) = Weight(v) + Weight(z)
  <2>1. v \in Seq(Byte) /\ z \in Seq(Byte) /\ Len(v) % 2 = 0 BY <1>3, <1>9 DEF v
  <2> QED BY <2>1, WeightOfConcat
<1>12. u \o z = b
  <2>1. /\ u \in Seq(Byte) /\ Len(u) = m
        /\ \A i \in 1 .. at : u[i] = b[i]
        /\ u[at + 1] = 0 /\ u[at + 2] = 0
    <3>1. /\ u \in Seq(Byte) /\ Len(u) = m /\ \A i \in 1 .. at : u[i] = x[i]
          /\ \A i \in 1 .. 2 : u[at + i] = o[i]
      BY <1>8 DEF u
    <3>2. 1 \in 1 .. 2 /\ 2 \in 1 .. 2 OBVIOUS
    <3>3. u[at + 1] = o[1] /\ u[at + 2] = o[2] BY <3>1, <3>2
    <3>4. \A i \in 1 .. at : u[i] = b[i] BY <1>2, <3>1
    <3> QED BY <1>7, <3>1, <3>3, <3>4
  <2>2. /\ u \o z \in Seq(Byte) /\ Len(u \o z) = Len(b)
        /\ \A i \in 1 .. m : (u \o z)[i] = u[i]
        /\ \A i \in 1 .. Len(b) - m : (u \o z)[m + i] = z[i]
    <3>1. u \in Seq(Byte) /\ z \in Seq(Byte) BY <1>3, <2>1
    <3>2. /\ u \o z \in Seq(Byte) /\ Len(u \o z) = Len(u) + Len(z)
          /\ \A i \in 1 .. Len(u) : (u \o z)[i] = u[i]
          /\ \A i \in 1 .. Len(z) : (u \o z)[Len(u) + i] = z[i]
      BY <3>1, ConcatFacts
    <3> QED BY <1>1, <1>3, <2>1, <3>2
  <2>3. ASSUME NEW i \in 1 .. Len(b) PROVE (u \o z)[i] = b[i]
    <3>1. CASE i <= at
      <4>1. i \in 1 .. m /\ i \in 1 .. at BY <1>1, <3>1 DEF m
      <4> QED BY <2>1, <2>2, <4>1
    <3>2. CASE i = at + 1 \/ i = at + 2
      <4>1. i \in 1 .. m BY <1>1, <3>2 DEF m
      <4> QED BY <2>1, <2>2, <3>2, <4>1
    <3>3. CASE i > m
      <4>1. i - m \in 1 .. Len(b) - m /\ m + (i - m) = i BY <1>1, <3>3
      <4> QED BY <1>3, <2>2, <4>1
    <3>4. i <= at \/ i = at + 1 \/ i = at + 2 \/ i > m BY <1>1 DEF m
    <3> QED BY <3>1, <3>2, <3>3, <3>4
  <2> DEFINE w == u \o z
  <2>4. w \in Seq(Byte) /\ Len(w) = Len(b) /\ \A i \in 1 .. Len(b) : w[i] = b[i] BY <2>2, <2>3
  <2> HIDE DEF w
  <2>5. w = b BY <2>4, SeqEqual
  <2> QED BY <2>5 DEF w
<1>13. PutUint16(b, at, n) = v \o z BY DEF PutUint16, v, x, y, z, m
<1>14. Weight(x) \in Nat /\ Weight(z) \in Nat BY <1>2, <1>3, WeightType
<1>15. n \in Nat BY DEF Word
<1>16. Weight(u) = Weight(x) + 0 /\ Weight(v) = Weight(x) + n BY <1>8, <1>9 DEF u, v
<1>17. Weight(b) = Weight(u) + Weight(z) BY <1>10, <1>12
<1>18. Weight(PutUint16(b, at, n)) = Weight(v) + Weight(z) BY <1>11, <1>13
<1> QED BY <1>14, <1>15, <1>16, <1>17, <1>18

\* The complement of a sum at its even place makes the whole verify, behind
\* whatever else, of even length, was summed with it.
LEMMA ChecksumVerifies ==
  ASSUME NEW a \in Seq(Byte), NEW b \in Seq(Byte), Len(a) % 2 = 0,
         NEW at \in Nat, at % 2 = 0, at + 2 <= Len(b), b[at + 1] = 0, b[at + 2] = 0
  PROVE  LET n == Complement(Sum(a) + Sum(b)) IN
         /\ n \in Word
         /\ Verifies(a \o PutUint16(b, at, n))
<1> DEFINE n == Complement(Sum(a) + Sum(b))
           c == PutUint16(b, at, n)
<1>1. Sum(a) = Weight(a) /\ Sum(b) = Weight(b) BY SumIsWeight
<1>2. Weight(a) \in Nat /\ Weight(b) \in Nat BY WeightType
<1>3. /\ n \in Word /\ (Weight(a) + Weight(b)) + n > 0
      /\ ((Weight(a) + Weight(b)) + n) % 65535 = 0
  BY <1>1, <1>2, ComplementFacts
<1> HIDE DEF n, c
<1>4. c \in Seq(Byte)
  <2>1. n \in Word BY <1>3
  <2> QED BY <2>1, PutFacts DEF c
<1>5. Weight(c) = Weight(b) + n
  <2>1. n \in Word BY <1>3
  <2> QED BY <2>1, PutWeight DEF c
<1>6. a \o c \in Seq(Byte) /\ Weight(a \o c) = Weight(a) + Weight(c) BY <1>4, WeightOfConcat
<1>7. Weight(a \o c) = (Weight(a) + Weight(b)) + n
  <2>1. n \in Nat BY <1>3 DEF Word
  <2> QED BY <1>2, <1>5, <1>6, <2>1
<1> DEFINE d == a \o c
<1>8. d \in Seq(Byte) /\ Weight(d) > 0 /\ Weight(d) % 65535 = 0 BY <1>3, <1>6, <1>7
<1> HIDE DEF d
<1>9. Verifies(d) BY <1>8, VerifiesByWeight
<1> QED BY <1>3, <1>9 DEF c, d, n

\* The same without anything before it.
LEMMA OwnChecksumVerifies ==
  ASSUME NEW b \in Seq(Byte), NEW at \in Nat, at % 2 = 0, at + 2 <= Len(b),
         b[at + 1] = 0, b[at + 2] = 0
  PROVE  /\ Complement(Sum(b)) \in Word
         /\ Verifies(PutUint16(b, at, Complement(Sum(b))))
<1> DEFINE n == Complement(Sum(b))
           c == PutUint16(b, at, n)
<1>1. Sum(b) = Weight(b) BY SumIsWeight
<1>2. Weight(b) \in Nat BY WeightType
<1>3. n \in Word /\ Weight(b) + n > 0 /\ (Weight(b) + n) % 65535 = 0
  BY <1>1, <1>2, ComplementFacts
<1> HIDE DEF n, c
<1>4. c \in Seq(Byte)
  <2>1. n \in Word BY <1>3
  <2> QED BY <2>1, PutFacts DEF c
<1>5. Weight(c) = Weight(b) + n
  <2>1. n \in Word BY <1>3
  <2> QED BY <2>1, PutWeight DEF c
<1>6. Weight(c) > 0 /\ Weight(c) % 65535 = 0 BY <1>3, <1>5
<1>7. Verifies(c) BY <1>4, <1>6, VerifiesByWeight
<1> QED BY <1>3, <1>7 DEF c, n

------------------------------------------------------------------------------
(***************************************************************************)
(* Where a part stands in a byte string.                                   *)
(***************************************************************************)

\* The bytes of s stand in b behind the first off bytes.
StandsAt(s, b, off) == off + Len(s) <= Len(b) /\ \A i \in 1 .. Len(s) : b[off + i] = s[i]

\* What is appended stands at the end, and everything before it where it was.
LEMMA Appended ==
  ASSUME NEW a \in Seq(Byte), NEW b \in Seq(Byte)
  PROVE  /\ a \o b \in Seq(Byte) /\ Len(a \o b) = Len(a) + Len(b)
         /\ StandsAt(b, a \o b, Len(a))
         /\ \A s \in Seq(Byte), off \in Nat : StandsAt(s, a, off) => StandsAt(s, a \o b, off)
<1>1. Len(a) \in Nat /\ Len(b) \in Nat OBVIOUS
<1>2. /\ a \o b \in Seq(Byte) /\ Len(a \o b) = Len(a) + Len(b)
      /\ \A i \in 1 .. Len(a) : (a \o b)[i] = a[i]
      /\ \A i \in 1 .. Len(b) : (a \o b)[Len(a) + i] = b[i]
  BY ConcatFacts
<1> DEFINE c == a \o b
<1> HIDE DEF c
<1>3. StandsAt(b, c, Len(a)) BY <1>1, <1>2 DEF StandsAt, c
<1>4. ASSUME NEW s \in Seq(Byte), NEW off \in Nat, StandsAt(s, a, off) PROVE StandsAt(s, c, off)
  <2>1. Len(s) \in Nat /\ off + Len(s) <= Len(a) BY <1>4 DEF StandsAt
  <2>2. ASSUME NEW i \in 1 .. Len(s) PROVE c[off + i] = s[i]
    <3>1. off + i \in 1 .. Len(a) BY <1>1, <2>1
    <3>2. c[off + i] = a[off + i] BY <1>2, <3>1 DEF c
    <3>3. a[off + i] = s[i] BY <1>4 DEF StandsAt
    <3> QED BY <3>2, <3>3
  <2>3. off + Len(s) <= Len(c) BY <1>1, <1>2, <2>1 DEF c
  <2> QED BY <2>2, <2>3 DEF StandsAt
<1> QED BY <1>2, <1>3, <1>4 DEF c

\* Three parts at once: d is c with x, y and z behind it.
IsJoined(d, c, x, y, z) ==
  /\ d \in Seq(Byte) /\ Len(d) = Len(c) + Len(x) + Len(y) + Len(z)
  /\ StandsAt(x, d, Len(c))
  /\ StandsAt(y, d, Len(c) + Len(x))
  /\ StandsAt(z, d, Len(c) + Len(x) + Len(y))
  /\ \A s \in Seq(Byte), off \in Nat : StandsAt(s, c, off) => StandsAt(s, d, off)

\* Appending three parts one after the other gives that.
LEMMA AppendedThree ==
  ASSUME NEW c \in Seq(Byte), NEW x \in Seq(Byte), NEW y \in Seq(Byte), NEW z \in Seq(Byte)
  PROVE  IsJoined(c \o x \o y \o z, c, x, y, z)
<1> DEFINE p == c \o x
           q == p \o y
           d == q \o z
<1>1. /\ p \in Seq(Byte) /\ Len(p) = Len(c) + Len(x) /\ StandsAt(x, p, Len(c))
      /\ \A s \in Seq(Byte), off \in Nat : StandsAt(s, c, off) => StandsAt(s, p, off)
  BY Appended
<1> HIDE DEF p
<1>2. /\ q \in Seq(Byte) /\ Len(q) = Len(p) + Len(y) /\ StandsAt(y, q, Len(p))
      /\ \A s \in Seq(Byte), off \in Nat : StandsAt(s, p, off) => StandsAt(s, q, off)
  <2>1. p \in Seq(Byte) BY <1>1
  <2> QED BY <2>1, Appended
<1> HIDE DEF q
<1>3. /\ d \in Seq(Byte) /\ Len(d) = Len(q) + Len(z) /\ StandsAt(z, d, Len(q))
      /\ \A s \in Seq(Byte), off \in Nat : StandsAt(s, q, off) => StandsAt(s, d, off)
  <2>1. q \in Seq(Byte) BY <1>2
  <2> QED BY <2>1, Appended
<1> HIDE DEF d
<1>4. Len(c) \in Nat /\ Len(x) \in Nat /\ Len(y) \in Nat /\ Len(z) \in Nat OBVIOUS
<1>5. StandsAt(x, q, Len(c)) BY <1>1, <1>2, <1>4
<1>6. StandsAt(x, d, Len(c)) BY <1>3, <1>4, <1>5
<1>7. Len(p) \in Nat BY <1>1, <1>4
<1>8. StandsAt(y, d, Len(p)) BY <1>2, <1>3, <1>7
<1>9. \A s \in Seq(Byte), off \in Nat : StandsAt(s, c, off) => StandsAt(s, d, off)
  BY <1>1, <1>2, <1>3
<1>10. Len(d) = Len(c) + Len(x) + Len(y) + Len(z) BY <1>1, <1>2, <1>3, <1>4
<1>11. IsJoined(d, c, x, y, z)
  BY <1>1, <1>2, <1>3, <1>4, <1>6, <1>8, <1>9, <1>10 DEF IsJoined
<1> QED BY <1>11 DEF d, q, p

\* A string stands at the beginning of itself.
LEMMA StandsAtItself ==
  ASSUME NEW b \in Seq(Byte)
  PROVE  StandsAt(b, b, 0)
<1>1. Len(b) \in Nat OBVIOUS
<1> QED BY <1>1 DEF StandsAt

\* What stands there is what a slice takes out.
LEMMA SliceOut ==
  ASSUME NEW b \in Seq(Byte), NEW s \in Seq(Byte), NEW from \in Nat, NEW to \in Nat,
         StandsAt(s, b, from), to = from + Len(s)
  PROVE  Slice(b, from, to) = s
<1>1. Len(s) \in Nat /\ Len(b) \in Nat /\ from <= to /\ to <= Len(b) /\ to - from = Len(s)
  BY DEF StandsAt
<1>2. /\ Slice(b, from, to) \in Seq(Byte) /\ Len(Slice(b, from, to)) = to - from
      /\ \A i \in 1 .. to - from : Slice(b, from, to)[i] = b[from + i]
  BY <1>1, SliceFacts
<1> DEFINE c == Slice(b, from, to)
<1> HIDE DEF c
<1>3. c \in Seq(Byte) /\ Len(c) = Len(s) BY <1>1, <1>2 DEF c
<1>4. \A i \in 1 .. Len(s) : c[i] = s[i] BY <1>1, <1>2 DEF c, StandsAt
<1>5. c = s BY <1>3, <1>4, SeqEqual
<1> QED BY <1>5 DEF c

\* A word of it as a number.
LEMMA WordAt ==
  ASSUME NEW b \in Seq(Byte), NEW n \in Word, NEW off \in Nat, StandsAt(U16(n), b, off)
  PROVE  Uint16(b, off) = n
<1> DEFINE s == U16(n)
<1>1. n \in Nat /\ n < 65536 BY DEF Word
<1>2. Len(s) = 2 /\ s[1] * 256 + s[2] = n BY <1>1, U16Facts
<1> HIDE DEF s
<1>3. b[off + 1] = s[1] /\ b[off + 2] = s[2]
  <2>1. 1 \in 1 .. Len(s) /\ 2 \in 1 .. Len(s) BY <1>2
  <2> QED BY <2>1 DEF StandsAt, s
<1> QED BY <1>2, <1>3 DEF Uint16

\* Another word in place of one leaves the rest standing.
LEMMA PutBeside ==
  ASSUME NEW b \in Seq(Byte), NEW at \in Nat, at + 2 <= Len(b), NEW n \in Word,
         NEW s \in Seq(Byte), NEW off \in Nat, StandsAt(s, b, off),
         off + Len(s) <= at \/ off >= at + 2
  PROVE  StandsAt(s, PutUint16(b, at, n), off)
<1> DEFINE c == PutUint16(b, at, n)
<1>1. /\ Len(c) = Len(b)
      /\ \A i \in 1 .. Len(b) : i # at + 1 /\ i # at + 2 => c[i] = b[i]
  BY PutFacts
<1> HIDE DEF c
<1>2. Len(s) \in Nat /\ Len(b) \in Nat /\ off + Len(s) <= Len(b) BY DEF StandsAt
<1>3. ASSUME NEW i \in 1 .. Len(s) PROVE c[off + i] = s[i]
  <2>1. off + i \in 1 .. Len(b) /\ off + i # at + 1 /\ off + i # at + 2 BY <1>2
  <2>2. c[off + i] = b[off + i] BY <1>1, <2>1
  <2>3. b[off + i] = s[i] BY DEF StandsAt
  <2> QED BY <2>2, <2>3
<1> QED BY <1>1, <1>2, <1>3 DEF StandsAt, c

------------------------------------------------------------------------------
(***************************************************************************)
(* What the layers build.                                                  *)
(***************************************************************************)

\* An IP packet of its header, with a checksum that verifies, and the payload.
IPFormed(b, ihl, protocol, S, D, P) ==
  /\ b \in Seq(Byte) /\ Len(b) = 4 * ihl + Len(P)
  /\ b[1] = 64 + ihl /\ b[10] = protocol /\ Uint16(b, 2) = Len(b)
  /\ StandsAt(S, b, 12) /\ StandsAt(D, b, 16) /\ StandsAt(P, b, 4 * ihl)
  /\ Verifies(Slice(b, 0, 4 * ihl))

\* Short strings.
LEMMA PairFacts ==
  ASSUME NEW x \in Byte, NEW y \in Byte
  PROVE  <<x, y>> \in Seq(Byte) /\ Len(<<x, y>>) = 2 /\ <<x, y>>[1] = x /\ <<x, y>>[2] = y
OBVIOUS

\* A byte of a part that stands somewhere.
LEMMA PairAt ==
  ASSUME NEW b \in Seq(Byte), NEW x \in Byte, NEW y \in Byte, NEW off \in Nat,
         StandsAt(<<x, y>>, b, off)
  PROVE  off + 2 <= Len(b) /\ b[off + 1] = x /\ b[off + 2] = y
<1> DEFINE s == <<x, y>>
<1>1. Len(s) = 2 /\ s[1] = x /\ s[2] = y BY PairFacts
<1> HIDE DEF s
<1>2. 1 \in 1 .. Len(s) /\ 2 \in 1 .. Len(s) BY <1>1
<1> QED BY <1>1, <1>2 DEF StandsAt, s

\* The header of an IP packet before its checksum is put in.
LEMMA IPHeader ==
  ASSUME NEW ihl, IsIHL(ihl), NEW length \in Word, NEW protocol \in Byte,
         NEW S \in Seq(Byte), NEW D \in Seq(Byte), Len(S) = 4, Len(D) = 4
  PROVE  LET h == <<64 + ihl, 0>> \o U16(length) \o U32(<<0, 0>>) \o <<64, protocol>> \o U16(0)
                    \o S \o D \o Zeros(ihl * 4 - 20)
         IN /\ h \in Seq(Byte) /\ Len(h) = 4 * ihl
            /\ StandsAt(<<64 + ihl, 0>>, h, 0) /\ StandsAt(U16(length), h, 2)
            /\ StandsAt(<<64, protocol>>, h, 8) /\ StandsAt(U16(0), h, 10)
            /\ StandsAt(S, h, 12) /\ StandsAt(D, h, 16)
<1> DEFINE a == <<64 + ihl, 0>>
           l == U16(length)
           i == U32(<<0, 0>>)
           t == <<64, protocol>>
           o == U16(0)
           z == Zeros(ihl * 4 - 20)
           c == a \o l \o i \o t
           d == c \o o \o S \o D
           h == d \o z
<1>1. ihl \in Nat /\ 5 <= ihl /\ ihl <= 15 /\ ihl * 4 - 20 \in Nat BY DEF IsIHL
<1>2. a \in Seq(Byte) /\ Len(a) = 2
  <2>1. 64 + ihl \in Byte /\ 0 \in Byte BY <1>1 DEF Byte
  <2> QED BY <2>1, PairFacts
<1>3. l \in Seq(Byte) /\ Len(l) = 2 BY WeightOfWord
<1>4. i \in Seq(Byte) /\ Len(i) = 4
  <2> DEFINE p == <<0, 0>>
  <2>1. p[1] \in Word /\ p[2] \in Word BY DEF Word
  <2> HIDE DEF p
  <2>2. U32(p) \in Seq(Byte) /\ Len(U32(p)) = 4 BY <2>1, U32Facts
  <2> QED BY <2>2 DEF p
<1>5. t \in Seq(Byte) /\ Len(t) = 2
  <2>1. 64 \in Byte BY DEF Byte
  <2> QED BY <2>1, PairFacts
<1>6. o \in Seq(Byte) /\ Len(o) = 2
  <2>1. 0 \in Word BY DEF Word
  <2> QED BY <2>1, WeightOfWord
<1>7. z \in Seq(Byte) /\ Len(z) = ihl * 4 - 20 BY <1>1, ZerosFacts
<1> HIDE DEF a, l, i, t, o, z
<1>8. /\ c \in Seq(Byte) /\ Len(c) = Len(a) + Len(l) + Len(i) + Len(t)
      /\ StandsAt(l, c, Len(a)) /\ StandsAt(t, c, Len(a) + Len(l) + Len(i))
      /\ \A s \in Seq(Byte), off \in Nat : StandsAt(s, a, off) => StandsAt(s, c, off)
  <2>1. a \in Seq(Byte) /\ l \in Seq(Byte) /\ i \in Seq(Byte) /\ t \in Seq(Byte)
    BY <1>2, <1>3, <1>4, <1>5
  <2>2. IsJoined(c, a, l, i, t) BY <2>1, AppendedThree
  <2> HIDE DEF c
  <2> QED BY <2>2 DEF IsJoined
<1> HIDE DEF c
<1>9. StandsAt(a, a, 0) 
  <2>1. a \in Seq(Byte) BY <1>2
  <2> QED BY <2>1, StandsAtItself
<1>10. /\ c \in Seq(Byte) /\ Len(c) = 10
       /\ StandsAt(a, c, 0) /\ StandsAt(l, c, 2) /\ StandsAt(t, c, 8)
  BY <1>2, <1>3, <1>4, <1>5, <1>8, <1>9
<1>11. /\ d \in Seq(Byte) /\ Len(d) = Len(c) + Len(o) + Len(S) + Len(D)
       /\ StandsAt(o, d, Len(c)) /\ StandsAt(S, d, Len(c) + Len(o))
       /\ StandsAt(D, d, Len(c) + Len(o) + Len(S))
       /\ \A s \in Seq(Byte), off \in Nat : StandsAt(s, c, off) => StandsAt(s, d, off)
  <2>1. c \in Seq(Byte) /\ o \in Seq(Byte) BY <1>6, <1>10
  <2>2. IsJoined(d, c, o, S, D) BY <2>1, AppendedThree
  <2> HIDE DEF d
  <2> QED BY <2>2 DEF IsJoined
<1> HIDE DEF d
<1>12. /\ d \in Seq(Byte) /\ Len(d) = 20
       /\ StandsAt(a, d, 0) /\ StandsAt(l, d, 2) /\ StandsAt(t, d, 8)
       /\ StandsAt(o, d, 10) /\ StandsAt(S, d, 12) /\ StandsAt(D, d, 16)
  BY <1>2, <1>3, <1>5, <1>6, <1>10, <1>11
<1>13. /\ h \in Seq(Byte) /\ Len(h) = Len(d) + Len(z)
       /\ \A s \in Seq(Byte), off \in Nat : StandsAt(s, d, off) => StandsAt(s, h, off)
  <2>1. d \in Seq(Byte) /\ z \in Seq(Byte) BY <1>7, <1>12
  <2> QED BY <2>1, Appended
<1> HIDE DEF h
<1>14. Len(h) = 4 * ihl BY <1>1, <1>7, <1>12, <1>13
<1>15. /\ StandsAt(a, h, 0) /\ StandsAt(l, h, 2) /\ StandsAt(t, h, 8)
       /\ StandsAt(o, h, 10) /\ StandsAt(S, h, 12) /\ StandsAt(D, h, 16)
  BY <1>2, <1>3, <1>5, <1>6, <1>12, <1>13
<1> QED BY <1>13, <1>14, <1>15 DEF h, d, c, a, l, i, t, o, z

\* What IPv4FlushToBytes builds.
LEMMA IPBuilt ==
  ASSUME NEW ihl, IsIHL(ihl), NEW protocol \in Byte, NEW P \in Seq(Byte), 4 * ihl + Len(P) < 65536,
         NEW S \in Seq(Byte), NEW D \in Seq(Byte), Len(S) = 4, Len(D) = 4
  PROVE  IPFormed(IPv4FlushToBytes([Version |-> 4, IHL |-> ihl, TTL |-> 64, Protocol |-> protocol,
                                    SrcIP |-> S, DstIP |-> D, Payload |-> P]),
                  ihl, protocol, S, D, P)
<1> DEFINE length == ihl * 4 + Len(P)
           h == <<64 + ihl, 0>> \o U16(length) \o U32(<<0, 0>>) \o <<64, protocol>> \o U16(0)
                  \o S \o D \o Zeros(ihl * 4 - 20)
           n == Complement(Sum(h))
           k == PutUint16(h, 10, n)
           b == k \o P
           a == <<64 + ihl, 0>>
           t == <<64, protocol>>
           l == U16(length)
<1>1. ihl \in Nat /\ 5 <= ihl /\ ihl <= 15 /\ Len(P) \in Nat /\ 20 <= 4 * ihl BY DEF IsIHL
<1>2. length \in Nat /\ length \in Word /\ length = 4 * ihl + Len(P) BY <1>1 DEF Word
<1> HIDE DEF length
<1>3. /\ h \in Seq(Byte) /\ Len(h) = 4 * ihl /\ StandsAt(a, h, 0) /\ StandsAt(l, h, 2)
      /\ StandsAt(t, h, 8) /\ StandsAt(U16(0), h, 10) /\ StandsAt(S, h, 12) /\ StandsAt(D, h, 16)
  <2>1. length \in Word BY <1>2
  <2> QED BY <2>1, IPHeader
<1>4. IPv4FlushToBytes([Version |-> 4, IHL |-> ihl, TTL |-> 64, Protocol |-> protocol,
                        SrcIP |-> S, DstIP |-> D, Payload |-> P]) = b
  BY DEF IPv4FlushToBytes, length
<1> HIDE DEF h, n, k, b
<1>5. h[11] = 0 /\ h[12] = 0
  <2> DEFINE o == U16(0)
  <2>1. Len(o) = 2 /\ o[1] = 0 /\ o[2] = 0 BY DEF U16
  <2> HIDE DEF o
  <2>2. 1 \in 1 .. Len(o) /\ 2 \in 1 .. Len(o) BY <2>1
  <2>3. StandsAt(o, h, 10) BY <1>3 DEF o
  <2>4. h[10 + 1] = 0 /\ h[10 + 2] = 0 BY <2>1, <2>2, <2>3 DEF StandsAt
  <2> QED BY <2>4
<1>6. 10 \in Nat /\ 10 % 2 = 0 /\ 10 + 2 <= Len(h) /\ h[10 + 1] = 0 /\ h[10 + 2] = 0
      /\ h \in Seq(Byte)
  BY <1>1, <1>3, <1>5
<1>7. n \in Word /\ Verifies(k) BY <1>6, OwnChecksumVerifies DEF n, k
<1>8. k \in Seq(Byte) /\ Len(k) = Len(h) BY <1>6, <1>7, PutFacts DEF k
<1>9. StandsAt(a, k, 0) /\ StandsAt(l, k, 2) /\ StandsAt(t, k, 8) /\ StandsAt(S, k, 12) /\ StandsAt(D, k, 16)
      /\ a \in Seq(Byte) /\ l \in Seq(Byte) /\ t \in Seq(Byte)
  <2>1. 64 + ihl \in Byte /\ 0 \in Byte /\ 64 \in Byte BY <1>1 DEF Byte
  <2>2. a \in Seq(Byte) /\ Len(a) = 2 /\ t \in Seq(Byte) /\ Len(t) = 2 BY <2>1, PairFacts
  <2>3. l \in Seq(Byte) /\ Len(l) = 2 BY <1>2, WeightOfWord
  <2> HIDE DEF a, l, t
  <2>4. h \in Seq(Byte) /\ 10 \in Nat /\ 10 + 2 <= Len(h) /\ n \in Word BY <1>6, <1>7
  <2>5. \A s \in Seq(Byte), off \in Nat :
          StandsAt(s, h, off) /\ (off + Len(s) <= 10 \/ off >= 10 + 2) => StandsAt(s, k, off)
    <3> TAKE s \in Seq(Byte), off \in Nat
    <3> HAVE StandsAt(s, h, off) /\ (off + Len(s) <= 10 \/ off >= 10 + 2)
    <3> DEFINE at == 10
    <3>1. /\ h \in Seq(Byte) /\ at \in Nat /\ at + 2 <= Len(h) /\ n \in Word
          /\ StandsAt(s, h, off) /\ (off + Len(s) <= at \/ off >= at + 2)
          /\ k = PutUint16(h, at, n)
      BY <2>4 DEF k
    <3> HIDE DEF at
    <3> QED BY <3>1, PutBeside
  <2>6. StandsAt(a, k, 0) /\ StandsAt(l, k, 2) /\ StandsAt(t, k, 8)
    <3>1. StandsAt(a, h, 0) /\ StandsAt(l, h, 2) /\ StandsAt(t, h, 8) BY <1>3
    <3>2. 0 + Len(a) <= 10 /\ 2 + Len(l) <= 10 /\ 8 + Len(t) <= 10 BY <2>2, <2>3
    <3>3. a \in Seq(Byte) /\ l \in Seq(Byte) /\ t \in Seq(Byte) /\ 0 \in Nat /\ 2 \in Nat /\ 8 \in Nat
      BY <2>2, <2>3
    <3>4. StandsAt(a, k, 0) BY <2>5, <3>1, <3>2, <3>3
    <3>5. StandsAt(l, k, 2) BY <2>5, <3>1, <3>2, <3>3
    <3>6. StandsAt(t, k, 8) BY <2>5, <3>1, <3>2, <3>3
    <3> QED BY <3>4, <3>5, <3>6
  <2>7. StandsAt(S, k, 12) /\ StandsAt(D, k, 16) BY <1>3, <2>5
  <2> QED BY <2>2, <2>3, <2>6, <2>7
<1> HIDE DEF a, l, t
<1>10. /\ b \in Seq(Byte) /\ Len(b) = Len(k) + Len(P) /\ StandsAt(P, b, Len(k))
       /\ \A s \in Seq(Byte), off \in Nat : StandsAt(s, k, off) => StandsAt(s, b, off)
  <2>1. k \in Seq(Byte) BY <1>8
  <2> QED BY <2>1, Appended DEF b
<1>11. /\ b \in Seq(Byte) /\ Len(b) = 4 * ihl + Len(P) /\ StandsAt(P, b, 4 * ihl)
  BY <1>3, <1>8, <1>10
<1>12. StandsAt(a, b, 0) /\ StandsAt(l, b, 2) /\ StandsAt(t, b, 8) /\ StandsAt(S, b, 12) /\ StandsAt(D, b, 16)
  BY <1>9, <1>10
<1>13. b[1] = 64 + ihl /\ b[10] = protocol
  <2>1. 64 + ihl \in Byte /\ 0 \in Byte /\ 64 \in Byte BY <1>1 DEF Byte
  <2>2. b[0 + 1] = 64 + ihl
    <3>1. StandsAt(<<64 + ihl, 0>>, b, 0) /\ 0 \in Nat /\ b \in Seq(Byte) BY <1>10, <1>12 DEF a
    <3> QED BY <2>1, <3>1, PairAt
  <2>3. b[8 + 2] = protocol
    <3>1. StandsAt(<<64, protocol>>, b, 8) /\ 8 \in Nat /\ b \in Seq(Byte) BY <1>10, <1>12 DEF t
    <3> QED BY <2>1, <3>1, PairAt
  <2> QED BY <2>2, <2>3
<1>14. Uint16(b, 2) = Len(b)
  <2>1. StandsAt(U16(length), b, 2) /\ 2 \in Nat /\ b \in Seq(Byte) /\ length \in Word
    BY <1>2, <1>10, <1>12 DEF l
  <2>2. Uint16(b, 2) = length BY <2>1, WordAt
  <2> QED BY <1>2, <1>11, <2>2
<1>15. Slice(b, 0, 4 * ihl) = k
  <2> DEFINE m == 4 * ihl
  <2>1. k \in Seq(Byte) /\ b \in Seq(Byte) /\ 0 \in Nat /\ m \in Nat /\ m = 0 + Len(k)
    BY <1>1, <1>3, <1>8, <1>10
  <2>2. StandsAt(k, b, 0)
    <3>1. StandsAt(k, k, 0) BY <2>1, StandsAtItself
    <3> QED BY <1>10, <2>1, <3>1
  <2> HIDE DEF m
  <2>3. Slice(b, 0, m) = k BY <2>1, <2>2, SliceOut
  <2> QED BY <2>3 DEF m
<1> QED BY <1>4, <1>7, <1>11, <1>12, <1>13, <1>14, <1>15 DEF IPFormed

\* A frame around an IP packet b.
Framed(f, b) ==
  f \in Seq(Byte) /\ Len(f) = 14 + Len(b) /\ Uint16(f, 12) = 2048 /\ StandsAt(b, f, 14)

\* What EthernetFlushToBytes builds.
LEMMA EthernetBuilt ==
  ASSUME NEW D \in Seq(Byte), NEW S \in Seq(Byte), NEW b \in Seq(Byte), Len(D) = 6, Len(S) = 6
  PROVE  Framed(EthernetFlushToBytes([DstMAC |-> D, SrcMAC |-> S, EtherType |-> 2048,
                                      Payload |-> b]), b)
<1> DEFINE t == U16(2048)
           f == D \o S \o t \o b
<1>1. EthernetFlushToBytes([DstMAC |-> D, SrcMAC |-> S, EtherType |-> 2048, Payload |-> b]) = f
  BY DEF EthernetFlushToBytes
<1>2. 2048 \in Word BY DEF Word
<1>3. t \in Seq(Byte) /\ Len(t) = 2 BY <1>2, WeightOfWord
<1> HIDE DEF t
<1>4. IsJoined(f, D, S, t, b) BY <1>3, AppendedThree
<1> HIDE DEF f
<1>5. Len(b) \in Nat OBVIOUS
<1>6. /\ f \in Seq(Byte) /\ Len(f) = 14 + Len(b)
      /\ StandsAt(t, f, 12) /\ StandsAt(b, f, 14)
  BY <1>3, <1>4, <1>5 DEF IsJoined
<1>7. Uint16(f, 12) = 2048 BY <1>2, <1>6, WordAt DEF t
<1> QED BY <1>1, <1>6, <1>7 DEF Framed

------------------------------------------------------------------------------
(***************************************************************************)
(* What the Parse functions make of it when it was padded or cut.          *)
(***************************************************************************)

\* r begins as b does, and may be shorter or longer.
Agrees(r, b) == r \in Seq(Byte) /\ \A i \in 1 .. Len(r) : i <= Len(b) => r[i] = b[i]

\* What stands in b stands in r if r is long enough.
LEMMA AgreesAt ==
  ASSUME NEW b \in Seq(Byte), NEW r, Agrees(r, b), NEW s \in Seq(Byte), NEW off \in Nat,
         StandsAt(s, b, off), off + Len(s) <= Len(r)
  PROVE  StandsAt(s, r, off)
<1>1. Len(s) \in Nat /\ Len(r) \in Nat /\ Len(b) \in Nat /\ off + Len(s) <= Len(b)
  BY DEF Agrees, StandsAt
<1>2. ASSUME NEW i \in 1 .. Len(s) PROVE r[off + i] = s[i]
  <2>1. off + i \in 1 .. Len(r) /\ off + i <= Len(b) BY <1>1
  <2>2. r[off + i] = b[off + i] BY <2>1 DEF Agrees
  <2>3. b[off + i] = s[i] BY DEF StandsAt
  <2> QED BY <2>2, <2>3
<1> QED BY <1>2 DEF StandsAt

\* The rest of r from where a part of b stands agrees with that part.
LEMMA AgreesBehind ==
  ASSUME NEW f \in Seq(Byte), NEW r, Agrees(r, f), NEW b \in Seq(Byte), NEW off \in Nat,
         StandsAt(b, f, off), Len(f) = off + Len(b), NEW end \in Nat, off <= end, end <= Len(r)
  PROVE  /\ Agrees(Slice(r, off, end), b)
         /\ Len(Slice(r, off, end)) = end - off
<1> DEFINE e == Slice(r, off, end)
<1>1. r \in Seq(Byte) /\ Len(r) \in Nat /\ Len(b) \in Nat /\ Len(f) \in Nat BY DEF Agrees
<1>2. /\ e \in Seq(Byte) /\ Len(e) = end - off
      /\ \A i \in 1 .. end - off : e[i] = r[off + i]
  BY <1>1, SliceFacts
<1> HIDE DEF e
<1>3. ASSUME NEW i \in 1 .. Len(e), i <= Len(b) PROVE e[i] = b[i]
  <2>1. i \in 1 .. end - off /\ off + i \in 1 .. Len(r) /\ off + i <= Len(f) /\ i \in 1 .. Len(b)
    BY <1>1, <1>2, <1>3
  <2>2. e[i] = r[off + i] BY <1>2, <2>1
  <2>3. r[off + i] = f[off + i] BY <2>1 DEF Agrees
  <2>4. f[off + i] = b[i] BY <2>1 DEF StandsAt
  <2> QED BY <2>2, <2>3, <2>4
<1>4. Agrees(e, b) BY <1>2, <1>3 DEF Agrees
<1> QED BY <1>2, <1>4 DEF e

\* A frame of which enough arrived, and one of which less did.
EthernetParsed(e, length, b) ==
  /\ length < 14 => e = NoPacket
  /\ length >= 14 =>
       /\ e.ok = TRUE /\ e.EtherType = 2048
       /\ e.DstMAC \in Seq(Byte) /\ Len(e.DstMAC) = 6
       /\ e.SrcMAC \in Seq(Byte) /\ Len(e.SrcMAC) = 6
       /\ Agrees(e.Payload, b) /\ Len(e.Payload) = length - 14

\* ParseEthernetFrame finds the packet in whatever begins as its frame.
LEMMA EthernetReceived ==
  ASSUME NEW b \in Seq(Byte), NEW f, Framed(f, b), NEW r, Agrees(r, f)
  PROVE  EthernetParsed(ParseEthernetFrame(r), Len(r), b)
<1>1. CASE Len(r) < 14
  <2>1. ParseEthernetFrame(r) = NoPacket BY <1>1 DEF ParseEthernetFrame
  <2>2. Len(r) \in Nat BY DEF Agrees
  <2> QED BY <1>1, <2>1, <2>2 DEF EthernetParsed
<1>2. CASE Len(r) >= 14
  <2>1. r \in Seq(Byte) /\ Len(r) \in Nat /\ f \in Seq(Byte) /\ Len(f) = 14 + Len(b) /\ Len(b) \in Nat
    BY DEF Agrees, Framed
  <2>2. Slice(r, 0, 6) \in Seq(Byte) /\ Len(Slice(r, 0, 6)) = 6 - 0 BY <1>2, <2>1 DEF Slice
  <2>3. Slice(r, 6, 12) \in Seq(Byte) /\ Len(Slice(r, 6, 12)) = 12 - 6 BY <1>2, <2>1 DEF Slice
  <2>4. Uint16(r, 12) = 2048
    <3>1. 13 \in 1 .. Len(r) /\ 14 \in 1 .. Len(r) /\ 13 <= Len(f) /\ 14 <= Len(f) BY <1>2, <2>1
    <3>2. r[13] = f[13] /\ r[14] = f[14] BY <3>1 DEF Agrees
    <3>3. f[12 + 1] * 256 + f[12 + 2] = 2048 BY DEF Framed, Uint16
    <3> QED BY <3>2, <3>3 DEF Uint16
  <2> DEFINE end == Len(r)
             off == 14
  <2>5. /\ off \in Nat /\ end \in Nat /\ off <= end /\ end <= Len(r) /\ Len(f) = off + Len(b)
        /\ StandsAt(b, f, off) /\ f \in Seq(Byte)
    BY <1>2, <2>1 DEF Framed
  <2> HIDE DEF end, off
  <2>6. Agrees(Slice(r, off, end), b) /\ Len(Slice(r, off, end)) = end - off
    BY <2>5, AgreesBehind
  <2>7. Agrees(Slice(r, 14, Len(r)), b) /\ Len(Slice(r, 14, Len(r))) = Len(r) - 14
    BY <2>6 DEF off, end
  <2>8. ParseEthernetFrame(r) =
          [ok |-> TRUE, DstMAC |-> Slice(r, 0, 6), SrcMAC |-> Slice(r, 6, 12),
           EtherType |-> Uint16(r, 12), Payload |-> Slice(r, 14, Len(r))]
    BY <1>2, <2>1 DEF ParseEthernetFrame
  <2> DEFINE e == ParseEthernetFrame(r)
  <2>9. /\ e.ok = TRUE /\ e.EtherType = 2048 /\ e.DstMAC = Slice(r, 0, 6)
        /\ e.SrcMAC = Slice(r, 6, 12) /\ e.Payload = Slice(r, 14, Len(r))
    BY <2>4, <2>8
  <2> HIDE DEF e
  <2>10. EthernetParsed(e, Len(r), b) BY <1>2, <2>1, <2>2, <2>3, <2>7, <2>9 DEF EthernetParsed
  <2> QED BY <2>10 DEF e
<1>3. Len(r) \in Nat BY DEF Agrees
<1> QED BY <1>1, <1>2, <1>3

\* The halves of a byte put together from two.
LEMMA HalfBytes ==
  ASSUME NEW n \in Nat, n < 16
  PROVE  /\ (64 + n) % 16 = n /\ (n * 16 + 0) \div 16 = n
         /\ n * 16 + 0 \in Nat /\ n * 16 + 0 < 256
OBVIOUS

\* The same for the IP packet in it.
IPParsed(p, length, ihl, protocol, S, D, P) ==
  /\ length < 4 * ihl => p = NoPacket
  /\ length >= 4 * ihl =>
       /\ p.ok = TRUE /\ p.Protocol = protocol /\ p.SrcIP = S /\ p.DstIP = D
       /\ Agrees(p.Payload, P) /\ Len(p.Payload) <= Len(P)
       /\ length >= 4 * ihl + Len(P) => Len(p.Payload) = Len(P)

\* ParseIPv4Packet finds what is sent in whatever begins as its packet.
LEMMA IPReceived ==
  ASSUME NEW ihl, IsIHL(ihl), NEW protocol \in Byte, NEW P \in Seq(Byte),
         NEW S \in Seq(Byte), NEW D \in Seq(Byte), Len(S) = 4, Len(D) = 4,
         NEW b, IPFormed(b, ihl, protocol, S, D, P), NEW r, Agrees(r, b)
  PROVE  IPParsed(ParseIPv4Packet(r), Len(r), ihl, protocol, S, D, P)
<1>1. /\ r \in Seq(Byte) /\ Len(r) \in Nat /\ b \in Seq(Byte) /\ Len(b) \in Nat
      /\ Len(b) = 4 * ihl + Len(P) /\ Len(P) \in Nat
      /\ ihl \in Nat /\ 5 <= ihl /\ ihl <= 15
  BY DEF Agrees, IPFormed, IsIHL
<1>2. CASE Len(r) < 20
  <2>1. ParseIPv4Packet(r) = NoPacket BY <1>2 DEF ParseIPv4Packet
  <2>2. Len(r) < 4 * ihl BY <1>1, <1>2
  <2> QED BY <1>1, <2>1, <2>2 DEF IPParsed
<1>3. CASE Len(r) >= 20
  <2>1. 1 \in 1 .. Len(r) /\ 3 \in 1 .. Len(r) /\ 4 \in 1 .. Len(r) /\ 10 \in 1 .. Len(r) /\ 20 <= Len(b)
    BY <1>1, <1>3
  <2>2. r[1] = b[1] /\ r[3] = b[3] /\ r[4] = b[4] /\ r[10] = b[10] BY <1>1, <2>1 DEF Agrees
  <2>3. r[1] = 64 + ihl /\ r[10] = protocol BY <2>2 DEF IPFormed
  <2>4. Uint16(r, 2) = Len(b)
    <3>1. b[2 + 1] * 256 + b[2 + 2] = Len(b) BY DEF IPFormed, Uint16
    <3> QED BY <2>2, <3>1 DEF Uint16
  <2>5. r[1] % 16 = ihl
    <3>1. (64 + ihl) % 16 = ihl BY <1>1, HalfBytes
    <3> QED BY <2>3, <3>1
  <2>6. CASE Len(r) < 4 * ihl
    <3>1. Len(r) < (r[1] % 16) * 4 BY <1>1, <2>5, <2>6
    <3>2. ParseIPv4Packet(r) = NoPacket BY <3>1 DEF ParseIPv4Packet
    <3> QED BY <1>1, <2>6, <3>2 DEF IPParsed
  <2>7. CASE Len(r) >= 4 * ihl
    <3> DEFINE off == 4 * ihl
               end == IF Len(b) > Len(r) THEN Len(r) ELSE Len(b)
    <3>1. ParseIPv4Packet(r) =
            [ok |-> TRUE, Version |-> r[1] \div 16, IHL |-> r[1] % 16, TTL |-> r[9],
             Protocol |-> r[10], SrcIP |-> Slice(r, 12, 16), DstIP |-> Slice(r, 16, 20),
             Payload |-> Slice(r, off, end)]
      <4>1. ~(Len(r) < 20 \/ Len(r) < (r[1] % 16) * 4) BY <1>1, <1>3, <2>5, <2>7
      <4>2. (r[1] % 16) * 4 = off /\ ~(Uint16(r, 2) < off) BY <1>1, <2>4, <2>5
      <4> HIDE DEF off
      <4> QED BY <2>4, <4>1, <4>2 DEF ParseIPv4Packet
    <3>2. /\ off \in Nat /\ end \in Nat /\ off <= end /\ end <= Len(r) /\ end - off <= Len(P)
          /\ Len(b) = off + Len(P) /\ StandsAt(P, b, off) /\ b \in Seq(Byte)
          /\ Len(r) >= Len(b) => end - off = Len(P)
      BY <1>1, <2>7 DEF IPFormed
    <3> HIDE DEF off, end
    <3>3. Agrees(Slice(r, off, end), P) /\ Len(Slice(r, off, end)) = end - off
      BY <3>2, AgreesBehind
    <3>4. Slice(r, 12, 16) = S
      <4> DEFINE x == 12
                 y == 16
      <4>1. x \in Nat /\ y \in Nat /\ y = x + Len(S) /\ StandsAt(S, b, x) /\ x + Len(S) <= Len(r)
        BY <1>1, <1>3 DEF IPFormed
      <4>2. b \in Seq(Byte) /\ r \in Seq(Byte) BY <1>1
      <4> HIDE DEF x, y
      <4>3. StandsAt(S, r, x) BY <4>1, <4>2, AgreesAt
      <4>4. Slice(r, x, y) = S BY <4>1, <4>2, <4>3, SliceOut
      <4> QED BY <4>4 DEF x, y
    <3>5. Slice(r, 16, 20) = D
      <4> DEFINE x == 16
                 y == 20
      <4>1. x \in Nat /\ y \in Nat /\ y = x + Len(D) /\ StandsAt(D, b, x) /\ x + Len(D) <= Len(r)
        BY <1>1, <1>3 DEF IPFormed
      <4>2. b \in Seq(Byte) /\ r \in Seq(Byte) BY <1>1
      <4> HIDE DEF x, y
      <4>3. StandsAt(D, r, x) BY <4>1, <4>2, AgreesAt
      <4>4. Slice(r, x, y) = D BY <4>1, <4>2, <4>3, SliceOut
      <4> QED BY <4>4 DEF x, y
    <3> DEFINE p == ParseIPv4Packet(r)
    <3>6. /\ p.ok = TRUE /\ p.Protocol = protocol /\ p.SrcIP = S /\ p.DstIP = D
          /\ p.Payload = Slice(r, off, end)
      BY <2>3, <3>1, <3>4, <3>5
    <3> HIDE DEF p
    <3>7. IPParsed(p, Len(r), ihl, protocol, S, D, P)
      <4>1. /\ Agrees(p.Payload, P) /\ Len(p.Payload) <= Len(P)
            /\ Len(r) >= Len(b) => Len(p.Payload) = Len(P)
        BY <3>2, <3>3, <3>6
      <4> QED BY <1>1, <2>7, <3>6, <4>1 DEF IPParsed
    <3> QED BY <3>7 DEF p
  <2> QED BY <1>1, <2>6, <2>7
<1> QED BY <1>1, <1>2, <1>3

\* Both: what is in a frame, whole or not.
InFrame(r, protocol, S, D, P, whole) ==
  LET e == ParseEthernetFrame(r)
      p == ParseIPv4Packet(e.Payload)
  IN \/ e = NoPacket /\ ~whole
     \/ e.ok = TRUE /\ p = NoPacket /\ ~whole
     \/ /\ e.ok = TRUE /\ e.EtherType = 2048
        /\ e.DstMAC \in Seq(Byte) /\ Len(e.DstMAC) = 6
        /\ e.SrcMAC \in Seq(Byte) /\ Len(e.SrcMAC) = 6
        /\ p.ok = TRUE /\ p.Protocol = protocol /\ p.SrcIP = S /\ p.DstIP = D
        /\ Agrees(p.Payload, P) /\ Len(p.Payload) <= Len(P)
        /\ whole => Len(p.Payload) = Len(P)

\* The two parsers one after the other.
LEMMA FrameReceived ==
  ASSUME NEW ihl, IsIHL(ihl), NEW protocol \in Byte, NEW P \in Seq(Byte),
         NEW S \in Seq(Byte), NEW D \in Seq(Byte), Len(S) = 4, Len(D) = 4,
         NEW b, IPFormed(b, ihl, protocol, S, D, P), NEW f, Framed(f, b), NEW r, Agrees(r, f)
  PROVE  InFrame(r, protocol, S, D, P, Len(r) >= Len(f))
<1> DEFINE e == ParseEthernetFrame(r)
           q == e.Payload
           g == ParseIPv4Packet(q)
<1>1. /\ b \in Seq(Byte) /\ Len(b) \in Nat /\ Len(f) = 14 + Len(b) /\ Len(r) \in Nat
      /\ Len(b) = 4 * ihl + Len(P) /\ Len(P) \in Nat /\ ihl \in Nat /\ 5 <= ihl
  BY DEF IPFormed, Framed, Agrees, IsIHL
<1>2. EthernetParsed(e, Len(r), b)
  <2>1. b \in Seq(Byte) BY <1>1
  <2> QED BY <2>1, EthernetReceived
<1>3. InFrame(r, protocol, S, D, P, Len(r) >= Len(f)) <=>
        \/ e = NoPacket /\ ~(Len(r) >= Len(f))
        \/ e.ok = TRUE /\ g = NoPacket /\ ~(Len(r) >= Len(f))
        \/ /\ e.ok = TRUE /\ e.EtherType = 2048
           /\ e.DstMAC \in Seq(Byte) /\ Len(e.DstMAC) = 6
           /\ e.SrcMAC \in Seq(Byte) /\ Len(e.SrcMAC) = 6
           /\ g.ok = TRUE /\ g.Protocol = protocol /\ g.SrcIP = S /\ g.DstIP = D
           /\ Agrees(g.Payload, P) /\ Len(g.Payload) <= Len(P)
           /\ Len(r) >= Len(f) => Len(g.Payload) = Len(P)
  BY DEF InFrame
<1> HIDE DEF e, g, q
<1>4. CASE Len(r) < 14
  <2>1. e = NoPacket BY <1>2, <1>4 DEF EthernetParsed
  <2>2. ~(Len(r) >= Len(f)) BY <1>1, <1>4
  <2> QED BY <1>3, <2>1, <2>2
<1>5. CASE Len(r) >= 14
  <2>1. /\ e.ok = TRUE /\ e.EtherType = 2048 /\ Agrees(q, b) /\ Len(q) = Len(r) - 14
        /\ e.DstMAC \in Seq(Byte) /\ Len(e.DstMAC) = 6
        /\ e.SrcMAC \in Seq(Byte) /\ Len(e.SrcMAC) = 6
    BY <1>2, <1>5 DEF EthernetParsed, q
  <2>2. IPParsed(g, Len(q), ihl, protocol, S, D, P)
    <3>1. Agrees(q, b) BY <2>1
    <3> QED BY <3>1, IPReceived DEF g
  <2>3. CASE Len(q) < 4 * ihl
    <3>1. g = NoPacket BY <2>2, <2>3 DEF IPParsed
    <3>2. ~(Len(r) >= Len(f)) BY <1>1, <2>1, <2>3
    <3> QED BY <1>3, <2>1, <3>1, <3>2
  <2>4. CASE Len(q) >= 4 * ihl
    <3>1. /\ g.ok = TRUE /\ g.Protocol = protocol /\ g.SrcIP = S /\ g.DstIP = D
          /\ Agrees(g.Payload, P) /\ Len(g.Payload) <= Len(P)
          /\ Len(q) >= 4 * ihl + Len(P) => Len(g.Payload) = Len(P)
      BY <2>2, <2>4 DEF IPParsed
    <3>2. Len(r) >= Len(f) => Len(q) >= 4 * ihl + Len(P) BY <1>1, <2>1
    <3> QED BY <1>3, <2>1, <3>1, <3>2
  <2>5. Len(q) < 4 * ihl \/ Len(q) >= 4 * ihl BY <1>1, <2>1
  <2> QED BY <2>3, <2>4, <2>5
<1> QED BY <1>1, <1>4, <1>5

------------------------------------------------------------------------------
(***************************************************************************)
(* Segments.                                                               *)
(***************************************************************************)

\* Two parts that stand side by side are one.
LEMMA StandTogether ==
  ASSUME NEW b \in Seq(Byte), NEW x \in Seq(Byte), NEW y \in Seq(Byte), NEW off \in Nat,
         StandsAt(x, b, off), NEW next \in Nat, next = off + Len(x), StandsAt(y, b, next)
  PROVE  StandsAt(x \o y, b, off)
<1> DEFINE c == x \o y
<1>1. /\ c \in Seq(Byte) /\ Len(c) = Len(x) + Len(y)
      /\ \A i \in 1 .. Len(x) : c[i] = x[i]
      /\ \A i \in 1 .. Len(y) : c[Len(x) + i] = y[i]
  BY ConcatFacts
<1> HIDE DEF c
<1>2. Len(x) \in Nat /\ Len(y) \in Nat /\ Len(b) \in Nat OBVIOUS
<1>3. ASSUME NEW i \in 1 .. Len(c) PROVE b[off + i] = c[i]
  <2>1. CASE i <= Len(x)
    <3>1. i \in 1 .. Len(x) BY <1>2, <2>1
    <3> QED BY <1>1, <3>1 DEF StandsAt
  <2>2. CASE i > Len(x)
    <3> DEFINE k == i - Len(x)
    <3>1. k \in 1 .. Len(y) /\ i = Len(x) + k /\ off + i = next + k BY <1>1, <1>2, <2>2
    <3> HIDE DEF k
    <3>2. c[i] = y[k] BY <1>1, <3>1
    <3>3. b[next + k] = y[k] BY <3>1 DEF StandsAt
    <3> QED BY <3>1, <3>2, <3>3
  <2> QED BY <1>1, <1>2, <2>1, <2>2
<1>4. off + Len(c) <= Len(b) BY <1>1, <1>2 DEF StandsAt
<1> QED BY <1>3, <1>4 DEF StandsAt, c

\* A 32-bit number of it.
LEMMA PairOfWordsAt ==
  ASSUME NEW b \in Seq(Byte), NEW pair, IsPair(pair), NEW off \in Nat, StandsAt(U32(pair), b, off)
  PROVE  Uint32(b, off) = pair
<1> DEFINE s == U32(pair)
<1>1. /\ s \in Seq(Byte) /\ Len(s) = 4
      /\ s[1] * 256 + s[2] = pair[1] /\ s[3] * 256 + s[4] = pair[2]
  BY U32Facts DEF IsPair
<1> HIDE DEF s
<1>2. 1 \in 1 .. Len(s) /\ 2 \in 1 .. Len(s) /\ 3 \in 1 .. Len(s) /\ 4 \in 1 .. Len(s) BY <1>1
<1>3. /\ b[off + 1] = s[1] /\ b[off + 2] = s[2] /\ b[off + 3] = s[3] /\ b[off + 4] = s[4]
  BY <1>2 DEF StandsAt, s
<1>4. off + 2 + 1 = off + 3 /\ off + 2 + 2 = off + 4 OBVIOUS
<1>5. Uint16(b, off) = pair[1] /\ Uint16(b, off + 2) = pair[2] BY <1>1, <1>3, <1>4 DEF Uint16
<1> QED BY <1>5 DEF Uint32, IsPair

\* The lengths in a TCP header.
LEMMA HeaderLengths ==
  ASSUME NEW n \in Nat, n <= 40
  PROVE  LET d == 5 + (n + 3) \div 4
             z == (4 - (n % 4)) % 4
         IN /\ d \in Nat /\ 5 <= d /\ d < 16
            /\ z \in Nat /\ d * 4 - 20 - n = z /\ 20 + n + z = 4 * d
OBVIOUS

\* t is the segment p up to its checksum.
Carries(t, p) ==
  /\ t \in Seq(Byte) /\ Len(t) = 4 * DataOffset(p.options) + Len(p.payload)
  /\ StandsAt(U32(p.seq), t, 4) /\ StandsAt(U32(p.ack), t, 8)
  /\ StandsAt(<<DataOffset(p.options) * 16 + 0, p.flags>>, t, 12) /\ StandsAt(U16(p.window), t, 14)
  /\ StandsAt(Filled(p.options), t, 20)
  /\ StandsAt(p.payload, t, 4 * DataOffset(p.options))

\* Types of what a segment is built from.
LEMMA SegmentTypes ==
  ASSUME NEW p, IsSegment(p)
  PROVE  LET d == DataOffset(p.options)
             z == Zeros((4 - (Len(p.options) % 4)) % 4)
         IN /\ d \in Nat /\ 5 <= d /\ d < 16 /\ d * 16 + 0 \in Byte /\ p.flags \in Byte
            /\ Len(p.options) \in Nat /\ Len(p.payload) \in Nat
            /\ p.options \in Seq(Byte) /\ p.payload \in Seq(Byte)
            /\ z \in Seq(Byte) /\ Len(z) = d * 4 - 20 - Len(p.options)
            /\ Filled(p.options) = p.options \o z /\ Filled(p.options) \in Seq(Byte)
            /\ Len(Filled(p.options)) = 4 * d - 20
            /\ Zeros(d * 4 - 20 - Len(p.options)) = z
            /\ U32(p.seq) \in Seq(Byte) /\ Len(U32(p.seq)) = 4
            /\ U32(p.ack) \in Seq(Byte) /\ Len(U32(p.ack)) = 4
            /\ U16(p.window) \in Seq(Byte) /\ Len(U16(p.window)) = 2
<1> DEFINE n == Len(p.options)
           d == DataOffset(p.options)
           k == (4 - (n % 4)) % 4
           z == Zeros(k)
           o == p.options
<1>1. p.options \in Seq(Byte) /\ p.payload \in Seq(Byte) /\ n \in Nat /\ n <= 40 /\ Len(p.payload) \in Nat
  BY DEF IsSegment
<1>2. d = 5 + (n + 3) \div 4 BY DEF DataOffset
<1> HIDE DEF d
<1>3. d \in Nat /\ 5 <= d /\ d < 16 /\ k \in Nat /\ d * 4 - 20 - n = k /\ 20 + n + k = 4 * d
  <2> HIDE DEF n
  <2> QED BY <1>1, <1>2, HeaderLengths
<1>4. Filled(o) = o \o z BY DEF Filled
<1> HIDE DEF k, n, o
<1>5. z \in Seq(Byte) /\ Len(z) = k BY <1>3, ZerosFacts
<1>6. Zeros(d * 4 - 20 - n) = z BY <1>3
<1> HIDE DEF z
<1>7. o \o z \in Seq(Byte) /\ Len(o \o z) = Len(o) + Len(z)
  <2>1. o \in Seq(Byte) /\ z \in Seq(Byte) BY <1>1, <1>5 DEF o
  <2> QED BY <2>1, ConcatFacts
<1>8. Filled(o) \in Seq(Byte) /\ Len(Filled(o)) = 4 * d - 20
  <2>1. Len(o) = n BY DEF o, n
  <2> QED BY <1>1, <1>3, <1>4, <1>5, <1>7, <2>1
<1>9. d * 16 + 0 \in Byte
  <2>1. d * 16 + 0 \in Nat /\ d * 16 + 0 < 256 BY <1>3, HalfBytes
  <2> QED BY <2>1 DEF Byte
<1>10. U32(p.seq) \in Seq(Byte) /\ Len(U32(p.seq)) = 4
  <2> DEFINE s == p.seq
  <2>1. s[1] \in Word /\ s[2] \in Word BY DEF IsSegment, IsPair
  <2> HIDE DEF s
  <2>2. U32(s) \in Seq(Byte) /\ Len(U32(s)) = 4 BY <2>1, U32Facts
  <2> QED BY <2>2 DEF s
<1>11. U32(p.ack) \in Seq(Byte) /\ Len(U32(p.ack)) = 4
  <2> DEFINE s == p.ack
  <2>1. s[1] \in Word /\ s[2] \in Word BY DEF IsSegment, IsPair
  <2> HIDE DEF s
  <2>2. U32(s) \in Seq(Byte) /\ Len(U32(s)) = 4 BY <2>1, U32Facts
  <2> QED BY <2>2 DEF s
<1>12. U16(p.window) \in Seq(Byte) /\ Len(U16(p.window)) = 2
  <2>1. p.window \in Word BY DEF IsSegment
  <2> QED BY <2>1, WeightOfWord
<1>13. p.flags \in Byte BY DEF IsSegment
<1> USE DEF d, n, o, k, z
<1> QED BY <1>1, <1>3, <1>4, <1>5, <1>6, <1>8, <1>9, <1>10, <1>11, <1>12, <1>13

\* What TCPFlushToBytes builds; the checksum is still 0.
LEMMA TCPBuilt ==
  ASSUME NEW p, IsSegment(p)
  PROVE  LET t == TCPFlushToBytes(TCPSegment(p)) IN
         Carries(t, p) /\ 18 <= Len(t) /\ t[16 + 1] = 0 /\ t[16 + 2] = 0
<1> DEFINE d == DataOffset(p.options)
           z == Zeros((4 - (Len(p.options) % 4)) % 4)
           c1 == U16(443)
           c2 == U16(50000)
           sq == U32(p.seq)
           ak == U32(p.ack)
           fl == <<d * 16 + 0, p.flags>>
           wi == U16(p.window)
           no == U16(0)
           op == p.options
           pl == p.payload
           j == c1 \o c2 \o sq \o ak
           k == j \o fl \o wi \o no
           l == k \o no \o op \o z
           t == l \o pl
<1>1. /\ d \in Nat /\ 5 <= d /\ d < 16 /\ d * 16 + 0 \in Byte /\ p.flags \in Byte
      /\ Len(op) \in Nat /\ Len(pl) \in Nat /\ op \in Seq(Byte) /\ pl \in Seq(Byte)
      /\ z \in Seq(Byte) /\ Len(z) = d * 4 - 20 - Len(op)
      /\ Filled(op) = op \o z
      /\ Zeros(d * 4 - 20 - Len(op)) = z
      /\ sq \in Seq(Byte) /\ Len(sq) = 4 /\ ak \in Seq(Byte) /\ Len(ak) = 4
      /\ wi \in Seq(Byte) /\ Len(wi) = 2
  BY SegmentTypes
<1>2. TCPFlushToBytes(TCPSegment(p)) = t
  <2> DEFINE g == TCPSegment(p)
  <2>1. /\ g.SourcePort = 443 /\ g.DestPort = 50000 /\ g.SeqNum = p.seq /\ g.AckNum = p.ack
        /\ g.DataOffset = d /\ g.Reserved = 0 /\ g.Flags = p.flags /\ g.Window = p.window
        /\ g.UrgPointer = 0 /\ g.Options = op /\ g.Payload = pl
    BY DEF TCPSegment
  <2> HIDE DEF g, d, z
  <2> DEFINE y == Zeros(g.DataOffset * 4 - 20 - Len(g.Options))
             x == <<g.DataOffset * 16 + g.Reserved, g.Flags>>
  <2>2. /\ U16(g.SourcePort) = c1 /\ U16(g.DestPort) = c2 /\ U32(g.SeqNum) = sq /\ U32(g.AckNum) = ak
        /\ x = fl /\ U16(g.Window) = wi /\ U16(g.UrgPointer) = no
        /\ g.Options = op /\ y = z /\ g.Payload = pl
    <3>1. Zeros(d * 4 - 20 - Len(op)) = z BY <1>1
    <3>2. y = z
      <4>1. g.DataOffset = d /\ g.Options = op BY <2>1
      <4> HIDE DEF op
      <4> QED BY <3>1, <4>1
    <3>3. x = fl
      <4>1. g.DataOffset = d /\ g.Reserved = 0 /\ g.Flags = p.flags BY <2>1
      <4> QED BY <4>1
    <3> HIDE DEF x, y
    <3>4. U16(g.SourcePort) = c1 /\ U16(g.DestPort) = c2 BY <2>1
    <3>5. U32(g.SeqNum) = sq /\ U32(g.AckNum) = ak BY <2>1
    <3>6. U16(g.Window) = wi /\ U16(g.UrgPointer) = no BY <2>1
    <3>7. g.Options = op /\ g.Payload = pl BY <2>1
    <3> QED BY <3>2, <3>3, <3>4, <3>5, <3>6, <3>7
  <2>3. TCPFlushToBytes(g) =
          U16(g.SourcePort) \o U16(g.DestPort) \o U32(g.SeqNum) \o U32(g.AckNum)
            \o x \o U16(g.Window) \o no \o U16(g.UrgPointer) \o g.Options \o y \o g.Payload
    BY Zenon DEF TCPFlushToBytes
  <2> HIDE DEF x, y, c1, c2, sq, ak, fl, wi, no, op, pl
  <2>4. TCPFlushToBytes(g) = c1 \o c2 \o sq \o ak \o fl \o wi \o no \o no \o op \o z \o pl
    BY <2>2, <2>3, Zenon
  <2> QED BY <2>4, Zenon DEF g
<1>3. fl \in Seq(Byte) /\ Len(fl) = 2
  <2> DEFINE a == d * 16 + 0
             b == p.flags
  <2>1. a \in Byte /\ b \in Byte BY <1>1
  <2> HIDE DEF a, b
  <2>2. <<a, b>> \in Seq(Byte) /\ Len(<<a, b>>) = 2 BY <2>1, PairFacts
  <2> QED BY <2>2 DEF a, b
<1>4. c1 \in Seq(Byte) /\ Len(c1) = 2 /\ c2 \in Seq(Byte) /\ Len(c2) = 2 /\ no \in Seq(Byte) /\ Len(no) = 2
  <2>1. 443 \in Word /\ 50000 \in Word /\ 0 \in Word BY DEF Word
  <2> QED BY <2>1, WeightOfWord
<1>5. no[1] = 0 /\ no[2] = 0 BY DEF U16
<1> HIDE DEF d, z, c1, c2, sq, ak, fl, wi, no, op, pl
<1>6. IsJoined(j, c1, c2, sq, ak)
  <2>1. c1 \in Seq(Byte) /\ c2 \in Seq(Byte) /\ sq \in Seq(Byte) /\ ak \in Seq(Byte) BY <1>1, <1>4
  <2> QED BY <2>1, AppendedThree
<1> HIDE DEF j
<1>7. j \in Seq(Byte) /\ Len(j) = 12 /\ StandsAt(sq, j, 4) /\ StandsAt(ak, j, 8)
  BY <1>1, <1>4, <1>6 DEF IsJoined
<1>8. IsJoined(k, j, fl, wi, no)
  <2>1. j \in Seq(Byte) /\ fl \in Seq(Byte) /\ wi \in Seq(Byte) /\ no \in Seq(Byte)
    BY <1>1, <1>3, <1>4, <1>7
  <2> QED BY <2>1, AppendedThree
<1> HIDE DEF k
<1>9. /\ k \in Seq(Byte) /\ Len(k) = 18 /\ StandsAt(fl, k, 12) /\ StandsAt(wi, k, 14)
      /\ StandsAt(no, k, 16) /\ StandsAt(sq, k, 4) /\ StandsAt(ak, k, 8)
  BY <1>1, <1>3, <1>4, <1>7, <1>8 DEF IsJoined
<1>10. IsJoined(l, k, no, op, z)
  <2>1. k \in Seq(Byte) /\ no \in Seq(Byte) /\ op \in Seq(Byte) /\ z \in Seq(Byte)
    BY <1>1, <1>4, <1>9
  <2> QED BY <2>1, AppendedThree
<1> HIDE DEF l
<1>11. /\ l \in Seq(Byte) /\ Len(l) = 4 * d
       /\ StandsAt(op, l, 20) /\ StandsAt(z, l, 20 + Len(op))
  BY <1>1, <1>4, <1>9, <1>10 DEF IsJoined
<1>12. /\ StandsAt(fl, l, 12) /\ StandsAt(wi, l, 14)
       /\ StandsAt(no, l, 16) /\ StandsAt(sq, l, 4) /\ StandsAt(ak, l, 8)
  <2>1. \A s \in Seq(Byte), off \in Nat : StandsAt(s, k, off) => StandsAt(s, l, off)
    BY <1>10 DEF IsJoined
  <2> QED BY <1>1, <1>3, <1>4, <1>9, <2>1
<1>13. StandsAt(Filled(op), l, 20)
  <2> DEFINE off == 20
             next == 20 + Len(op)
  <2>1. /\ off \in Nat /\ next \in Nat /\ next = off + Len(op) /\ l \in Seq(Byte)
        /\ StandsAt(op, l, off) /\ StandsAt(z, l, next) /\ op \in Seq(Byte) /\ z \in Seq(Byte)
    BY <1>1, <1>11
  <2> HIDE DEF off, next
  <2>2. StandsAt(op \o z, l, off) BY <2>1, StandTogether
  <2> QED BY <1>1, <2>2 DEF off
<1>14. /\ t \in Seq(Byte) /\ Len(t) = Len(l) + Len(pl) /\ StandsAt(pl, t, Len(l))
       /\ \A s \in Seq(Byte), off \in Nat : StandsAt(s, l, off) => StandsAt(s, t, off)
  <2>1. l \in Seq(Byte) /\ pl \in Seq(Byte) BY <1>1, <1>11
  <2> QED BY <2>1, Appended
<1> HIDE DEF t
<1>15. /\ StandsAt(fl, t, 12) /\ StandsAt(wi, t, 14)
       /\ StandsAt(no, t, 16) /\ StandsAt(sq, t, 4) /\ StandsAt(ak, t, 8)
  BY <1>1, <1>3, <1>4, <1>12, <1>14
<1>16. StandsAt(Filled(op), t, 20)
  <2>1. Filled(op) \in Seq(Byte) BY SegmentTypes DEF op
  <2> QED BY <1>13, <1>14, <2>1
<1>17. Len(t) = 4 * d + Len(pl) /\ 18 <= Len(t) /\ StandsAt(pl, t, 4 * d)
  BY <1>1, <1>11, <1>14
<1>18. t[16 + 1] = 0 /\ t[16 + 2] = 0
  <2>1. 1 \in 1 .. Len(no) /\ 2 \in 1 .. Len(no) BY <1>4
  <2> QED BY <1>5, <1>15, <2>1 DEF StandsAt
<1>19. Carries(t, p)
  BY <1>14, <1>15, <1>16, <1>17 DEF Carries, d, fl, wi, sq, ak, op, pl
<1> QED BY <1>2, <1>17, <1>18, <1>19

\* A checksum in it changes nothing else.
LEMMA CarriesChecksum ==
  ASSUME NEW p, IsSegment(p), NEW t, Carries(t, p), NEW n \in Word
  PROVE  Carries(PutUint16(t, 16, n), p)
<1> DEFINE d == DataOffset(p.options)
           a == d * 16 + 0
           b == p.flags
           fl == <<a, b>>
           u == PutUint16(t, 16, n)
           at == 16
<1>1. /\ d \in Nat /\ 5 <= d /\ Len(p.payload) \in Nat /\ p.payload \in Seq(Byte)
      /\ a \in Byte /\ b \in Byte
      /\ Filled(p.options) \in Seq(Byte) /\ Len(Filled(p.options)) = 4 * d - 20
      /\ U32(p.seq) \in Seq(Byte) /\ Len(U32(p.seq)) = 4
      /\ U32(p.ack) \in Seq(Byte) /\ Len(U32(p.ack)) = 4
      /\ U16(p.window) \in Seq(Byte) /\ Len(U16(p.window)) = 2
  BY SegmentTypes, Zenon
<1>2. fl \in Seq(Byte) /\ Len(fl) = 2
  <2>1. a \in Byte /\ b \in Byte BY <1>1
  <2> HIDE DEF a, b
  <2>2. <<a, b>> \in Seq(Byte) /\ Len(<<a, b>>) = 2 BY <2>1, PairFacts
  <2> QED BY <2>2
<1>3. u = PutUint16(t, at, n) OBVIOUS
<1>4. t \in Seq(Byte) /\ at \in Nat /\ at + 2 <= Len(t) /\ Len(t) = 4 * d + Len(p.payload)
  <2>1. t \in Seq(Byte) /\ Len(t) = 4 * d + Len(p.payload) BY Zenon DEF Carries
  <2>2. d \in Nat /\ 5 <= d /\ Len(p.payload) \in Nat BY <1>1, Zenon
  <2> DEFINE k == Len(p.payload)
             m == Len(t)
  <2>3. m = 4 * d + k /\ d \in Nat /\ 5 <= d /\ k \in Nat BY <2>1, <2>2, Zenon
  <2> HIDE DEF d, k, m
  <2>4. at \in Nat /\ at + 2 <= m BY <2>3
  <2> QED BY <2>1, <2>4, Zenon DEF m
<1> HIDE DEF at, u
<1>5. u \in Seq(Byte) /\ Len(u) = Len(t) BY <1>3, <1>4, PutFacts
<1>6. ASSUME NEW s \in Seq(Byte), NEW off \in Nat, StandsAt(s, t, off),
             off + Len(s) <= at \/ off >= at + 2
      PROVE  StandsAt(s, u, off)
  BY <1>3, <1>4, <1>6, PutBeside
<1> HIDE DEF d, fl
<1> DEFINE sq == U32(p.seq)
           ak == U32(p.ack)
           wi == U16(p.window)
           fi == Filled(p.options)
           pl == p.payload
<1>7. /\ StandsAt(sq, t, 4) /\ StandsAt(ak, t, 8) /\ StandsAt(fl, t, 12) /\ StandsAt(wi, t, 14)
      /\ StandsAt(fi, t, 20) /\ StandsAt(pl, t, 4 * d)
  BY DEF Carries, fl, d
<1>8. /\ 4 + 4 <= at /\ 8 + 4 <= at /\ 12 + 2 <= at /\ 14 + 2 <= at /\ 20 >= at + 2
      /\ 4 * d >= at + 2 /\ 4 * d \in Nat
  BY <1>1 DEF at
<1>9. sq \in Seq(Byte) /\ Len(sq) = 4 /\ ak \in Seq(Byte) /\ Len(ak) = 4 /\ wi \in Seq(Byte) /\ Len(wi) = 2
      /\ fi \in Seq(Byte) /\ pl \in Seq(Byte)
  BY <1>1
<1> HIDE DEF sq, ak, wi, fi, pl
<1>10. StandsAt(sq, u, 4) BY <1>6, <1>7, <1>8, <1>9
<1>11. StandsAt(ak, u, 8) BY <1>6, <1>7, <1>8, <1>9
<1>12. StandsAt(fl, u, 12) BY <1>2, <1>6, <1>7, <1>8
<1>13. StandsAt(wi, u, 14) BY <1>6, <1>7, <1>8, <1>9
<1>14. StandsAt(fi, u, 20) BY <1>6, <1>7, <1>8, <1>9
<1>15. StandsAt(pl, u, 4 * d) BY <1>6, <1>7, <1>8, <1>9
<1>16. Carries(u, p)
  BY <1>4, <1>5, <1>10, <1>11, <1>12, <1>13, <1>14, <1>15 DEF Carries, d, fl, sq, ak, wi, fi, pl
<1> QED BY <1>16 DEF u

\* A shorter string that agrees is a beginning, one of the same length is the
\* same.
LEMMA AgreesBegins ==
  ASSUME NEW t \in Seq(Byte), NEW s, Agrees(s, t), Len(s) <= Len(t)
  PROVE  Begins(s, t) /\ (Len(s) = Len(t) => s = t)
<1>1. s \in Seq(Byte) /\ Len(s) \in Nat /\ Len(t) \in Nat BY DEF Agrees
<1> DEFINE c == SubSeq(t, 1, Len(s))
<1>2. c \in Seq(Byte) /\ Len(c) = Len(s) /\ \A i \in 1 .. Len(s) : c[i] = t[i] BY <1>1
<1> HIDE DEF c
<1>3. \A i \in 1 .. Len(s) : s[i] = t[i] BY <1>1 DEF Agrees
<1>4. \A i \in 1 .. Len(s) : s[i] = c[i] BY <1>2, <1>3
<1>5. s = c BY <1>1, <1>2, <1>4, SeqEqual
<1>6. ASSUME Len(s) = Len(t) PROVE s = t BY <1>1, <1>3, <1>6, SeqEqual
<1> QED BY <1>5, <1>6 DEF Begins, c

\* The segment p as the receiver has it; all of it if the whole of it came.
Arrived(g, p, whole) ==
  \/ g = NoPacket /\ ~whole
  \/ /\ g.ok = TRUE /\ g.SeqNum = p.seq /\ g.AckNum = p.ack
     /\ g.Flags = p.flags /\ g.Window = p.window
     /\ g.Options = Filled(p.options) /\ Begins(g.Payload, p.payload)
     /\ whole => g.Payload = p.payload

\* ParseTCPSegment reads the fields back from a segment or its beginning.
LEMMA TCPReceived ==
  ASSUME NEW p, IsSegment(p), NEW t, Carries(t, p), NEW r, Agrees(r, t), Len(r) <= Len(t)
  PROVE  Arrived(ParseTCPSegment(r), p, Len(r) = Len(t))
<1> DEFINE d == DataOffset(p.options)
           a == d * 16 + 0
           b == p.flags
           sq == U32(p.seq)
           ak == U32(p.ack)
           wi == U16(p.window)
           fi == Filled(p.options)
           pl == p.payload
           fl == <<a, b>>
<1>1. /\ d \in Nat /\ 5 <= d /\ d < 16 /\ Len(pl) \in Nat /\ pl \in Seq(Byte)
      /\ a \in Byte /\ b \in Byte
      /\ fi \in Seq(Byte) /\ Len(fi) = 4 * d - 20
      /\ sq \in Seq(Byte) /\ Len(sq) = 4 /\ ak \in Seq(Byte) /\ Len(ak) = 4
      /\ wi \in Seq(Byte) /\ Len(wi) = 2
  BY SegmentTypes
<1>2. /\ StandsAt(sq, t, 4) /\ StandsAt(ak, t, 8) /\ StandsAt(fl, t, 12) /\ StandsAt(wi, t, 14)
      /\ StandsAt(fi, t, 20) /\ StandsAt(pl, t, 4 * d) /\ t \in Seq(Byte) /\ Len(t) = 4 * d + Len(pl)
  BY DEF Carries
<1>3. a \div 16 = d BY <1>1, HalfBytes
<1>4. r \in Seq(Byte) /\ Len(r) \in Nat /\ Len(t) \in Nat BY <1>2 DEF Agrees
<1>5. IsPair(p.seq) /\ IsPair(p.ack) /\ p.window \in Word BY DEF IsSegment
<1> HIDE DEF d, a, b, sq, ak, wi, fi, pl
<1>6. CASE Len(r) < 4 * d
  <2>1. ParseTCPSegment(r) = NoPacket
    <3>1. CASE Len(r) < 20 BY <3>1 DEF ParseTCPSegment
    <3>2. CASE Len(r) >= 20
      <4>1. r \in Seq(Byte) /\ t \in Seq(Byte) /\ 12 \in Nat /\ 12 + Len(fl) <= Len(r) BY <1>2, <1>4, <3>2
      <4>2. StandsAt(fl, r, 12)
        <5>1. fl \in Seq(Byte) /\ StandsAt(fl, t, 12) BY <1>1, <1>2, PairFacts
        <5> HIDE DEF fl
        <5> QED BY <4>1, <5>1, AgreesAt
      <4>3. r[12 + 1] = a BY <1>1, <4>1, <4>2, PairAt
      <4>4. Len(r) < (r[13] \div 16) * 4 BY <1>1, <1>3, <1>4, <1>6, <4>3
      <4> QED BY <4>4 DEF ParseTCPSegment
    <3> QED BY <1>4, <3>1, <3>2
  <2>2. Len(r) # Len(t) BY <1>1, <1>2, <1>4, <1>6
  <2> QED BY <2>1, <2>2 DEF Arrived
<1>7. CASE Len(r) >= 4 * d
  <2>1. fl \in Seq(Byte) /\ Len(fl) = 2 BY <1>1, PairFacts
  <2> HIDE DEF fl
  <2>2. ASSUME NEW s \in Seq(Byte), NEW off \in Nat, StandsAt(s, t, off), off + Len(s) <= Len(r)
        PROVE  StandsAt(s, r, off)
    <3>1. t \in Seq(Byte) BY <1>2
    <3> QED BY <2>2, <3>1, AgreesAt
  <2>3. 4 + 4 <= Len(r) /\ 8 + 4 <= Len(r) /\ 12 + 2 <= Len(r) /\ 14 + 2 <= Len(r) /\ 20 <= Len(r)
    BY <1>1, <1>4, <1>7
  <2>4. Uint32(r, 4) = p.seq
    <3>1. StandsAt(sq, r, 4) BY <1>1, <1>2, <2>2, <2>3
    <3> QED BY <1>4, <1>5, <3>1, PairOfWordsAt DEF sq
  <2>5. Uint32(r, 8) = p.ack
    <3>1. StandsAt(ak, r, 8) BY <1>1, <1>2, <2>2, <2>3
    <3> QED BY <1>4, <1>5, <3>1, PairOfWordsAt DEF ak
  <2>6. r[13] = a /\ r[14] = b
    <3>1. StandsAt(fl, r, 12) BY <1>2, <2>1, <2>2, <2>3
    <3>2. StandsAt(<<a, b>>, r, 12) /\ a \in Byte /\ b \in Byte /\ 12 \in Nat BY <1>1, <3>1 DEF fl
    <3>3. r[12 + 1] = a /\ r[12 + 2] = b BY <1>4, <3>2, PairAt
    <3> QED BY <3>3
  <2>7. Uint16(r, 14) = p.window
    <3>1. StandsAt(wi, r, 14) BY <1>1, <1>2, <2>2, <2>3
    <3> QED BY <1>4, <1>5, <3>1, WordAt DEF wi
  <2> DEFINE h == 4 * d
             o == IF h > 20 THEN Slice(r, 20, h) ELSE <<>>
  <2>8. o = fi
    <3>1. CASE h > 20
      <4> DEFINE x == 20
      <4>1. x \in Nat /\ h \in Nat /\ h = x + Len(fi) /\ x + Len(fi) <= Len(r) /\ StandsAt(fi, t, x)
            /\ fi \in Seq(Byte) /\ r \in Seq(Byte)
        BY <1>1, <1>2, <1>4, <1>7
      <4> HIDE DEF x, h
      <4>2. StandsAt(fi, r, x) BY <2>2, <4>1
      <4>3. Slice(r, x, h) = fi BY <4>1, <4>2, SliceOut
      <4> QED BY <3>1, <4>3 DEF x
    <3>2. CASE ~(h > 20)
      <4>1. fi \in Seq(Byte) /\ Len(fi) = 0 BY <1>1, <3>2
      <4>2. fi = <<>> BY <4>1, EmptySeq
      <4> QED BY <3>2, <4>2
    <3> QED BY <3>1, <3>2
  <2> DEFINE end == Len(r)
             y == Slice(r, h, end)
  <2>9. Agrees(y, pl) /\ Len(y) = end - h
    <3>1. /\ t \in Seq(Byte) /\ pl \in Seq(Byte) /\ h \in Nat /\ StandsAt(pl, t, h) /\ Len(t) = h + Len(pl)
          /\ end \in Nat /\ h <= end /\ end <= Len(r)
      BY <1>1, <1>2, <1>4, <1>7
    <3> HIDE DEF h, end
    <3> QED BY <3>1, AgreesBehind
  <2>10. Len(y) <= Len(pl) /\ (Len(r) = Len(t) => Len(y) = Len(pl)) /\ pl \in Seq(Byte)
    <3> HIDE DEF y
    <3> QED BY <1>1, <1>2, <1>4, <2>9
  <2>11. Begins(y, pl) /\ (Len(r) = Len(t) => y = pl)
    <3>1. Agrees(y, pl) BY <2>9
    <3> HIDE DEF y
    <3> QED BY <2>10, <3>1, AgreesBegins
  <2>12. ParseTCPSegment(r) =
           [ok |-> TRUE, SourcePort |-> Uint16(r, 0), DestPort |-> Uint16(r, 2),
            SeqNum |-> Uint32(r, 4), AckNum |-> Uint32(r, 8),
            DataOffset |-> r[13] \div 16, Reserved |-> r[13] % 16, Flags |-> r[14],
            Window |-> Uint16(r, 14), UrgPointer |-> Uint16(r, 18), Options |-> o, Payload |-> y]
    <3>1. (r[13] \div 16) * 4 = h BY <1>1, <1>3, <2>6
    <3>2. ~(Len(r) < 20 \/ Len(r) < h) BY <1>1, <1>4, <1>7, <2>3
    <3> HIDE DEF h
    <3> QED BY <3>1, <3>2 DEF ParseTCPSegment
  <2> DEFINE g == ParseTCPSegment(r)
  <2> HIDE DEF o, y
  <2>13. /\ g.ok = TRUE /\ g.SeqNum = p.seq /\ g.AckNum = p.ack
         /\ g.Flags = b /\ g.Window = p.window /\ g.Options = o /\ g.Payload = y
    BY <2>4, <2>5, <2>6, <2>7, <2>12
  <2> HIDE DEF g
  <2>14. Arrived(g, p, Len(r) = Len(t)) BY <2>8, <2>11, <2>13 DEF Arrived, fi, pl, b
  <2> QED BY <2>14 DEF g
<1> QED BY <1>1, <1>4, <1>6, <1>7

------------------------------------------------------------------------------
(***************************************************************************)
(* Whole frames.                                                           *)
(***************************************************************************)

\* The addresses.
LEMMA AddressTypes ==
  /\ LocalIP \in Seq(Byte) /\ Len(LocalIP) = 4 /\ RemoteIP \in Seq(Byte) /\ Len(RemoteIP) = 4
  /\ MACs.dst \in Seq(Byte) /\ Len(MACs.dst) = 6 /\ MACs.src \in Seq(Byte) /\ Len(MACs.src) = 6
<1>1. \A n \in {0, 1, 2, 10, 254, 255} : n \in Byte BY DEF Byte
<1>2. LocalIP \in Seq(Byte) /\ Len(LocalIP) = 4 BY <1>1 DEF LocalIP
<1>3. RemoteIP \in Seq(Byte) /\ Len(RemoteIP) = 4 BY <1>1 DEF RemoteIP
<1>4. MACs.dst \in Seq(Byte) /\ Len(MACs.dst) = 6 BY <1>1 DEF MACs
<1>5. MACs.src \in Seq(Byte) /\ Len(MACs.src) = 6 BY <1>1 DEF MACs
<1> QED BY <1>2, <1>3, <1>4, <1>5

\* The pseudo header has an even number of bytes, so that sums add up behind it.
LEMMA PseudoHeaderFacts ==
  ASSUME NEW n \in Word
  PROVE  /\ PseudoHeader(LocalIP, RemoteIP, n) \in Seq(Byte)
         /\ Len(PseudoHeader(LocalIP, RemoteIP, n)) = 12
<1> DEFINE l == U16(n)
           x == <<0, 6>>
           S == LocalIP
           D == RemoteIP
<1>1. l \in Seq(Byte) /\ Len(l) = 2 BY WeightOfWord
<1>2. x \in Seq(Byte) /\ Len(x) = 2
  <2>1. 0 \in Byte /\ 6 \in Byte BY DEF Byte
  <2> QED BY <2>1, PairFacts
<1>3. S \in Seq(Byte) /\ Len(S) = 4 /\ D \in Seq(Byte) /\ Len(D) = 4 BY AddressTypes
<1> HIDE DEF l, x, S, D
<1>4. IsJoined(S \o D \o x \o l, S, D, x, l) BY <1>1, <1>2, <1>3, AppendedThree
<1>5. PseudoHeader(LocalIP, RemoteIP, n) = S \o D \o x \o l BY DEF PseudoHeader, S, D, x, l
<1> QED BY <1>1, <1>2, <1>3, <1>4, <1>5 DEF IsJoined

\* A frame f around an IP packet with ihl words of header around P.
FrameOf(f, ihl, protocol, S, D, P) ==
  \E b : IPFormed(b, ihl, protocol, S, D, P) /\ Framed(f, b)

\* The program's and the peers' frames of an IP packet.
LEMMA FrameBuilt ==
  ASSUME NEW ihl, IsIHL(ihl), NEW protocol \in Byte, NEW P \in Seq(Byte), 4 * ihl + Len(P) < 65536,
         NEW S \in Seq(Byte), NEW D \in Seq(Byte), Len(S) = 4, Len(D) = 4,
         NEW X \in Seq(Byte), NEW Y \in Seq(Byte), Len(X) = 6, Len(Y) = 6
  PROVE  FrameOf(EthernetFlushToBytes([DstMAC |-> X, SrcMAC |-> Y, EtherType |-> 2048,
                   Payload |-> IPv4FlushToBytes([Version |-> 4, IHL |-> ihl, TTL |-> 64,
                     Protocol |-> protocol, SrcIP |-> S, DstIP |-> D, Payload |-> P])]),
                 ihl, protocol, S, D, P)
<1> DEFINE b == IPv4FlushToBytes([Version |-> 4, IHL |-> ihl, TTL |-> 64, Protocol |-> protocol,
                                  SrcIP |-> S, DstIP |-> D, Payload |-> P])
           f == EthernetFlushToBytes([DstMAC |-> X, SrcMAC |-> Y, EtherType |-> 2048, Payload |-> b])
<1>1. IPFormed(b, ihl, protocol, S, D, P) BY IPBuilt
<1> HIDE DEF b
<1>2. b \in Seq(Byte) BY <1>1 DEF IPFormed
<1>3. Framed(f, b) BY <1>2, EthernetBuilt
<1> HIDE DEF f
<1>4. FrameOf(f, ihl, protocol, S, D, P) BY <1>1, <1>3 DEF FrameOf
<1> QED BY <1>4 DEF f, b

\* The frame of a segment.
LEMMA SegmentFramed ==
  ASSUME NEW p, IsSegment(p)
  PROVE  \E t : /\ Carries(t, p) /\ FrameOf(TCPFrame(p, p.ihl), p.ihl, 6, LocalIP, RemoteIP, t)
                /\ Verifies(PseudoHeader(LocalIP, RemoteIP, Len(t)) \o t)
<1> DEFINE b == TCPFlushToBytes(TCPSegment(p))
           a == PseudoHeader(LocalIP, RemoteIP, Len(b))
           n == Complement(Sum(a) + Sum(b))
           at == 16
           t == PutUint16(b, at, n)
           l == Len(b)
<1>1. Carries(b, p) /\ 18 <= Len(b) /\ b[16 + 1] = 0 /\ b[16 + 2] = 0 BY TCPBuilt
<1>2. TCPFrame(p, p.ihl) =
        EthernetFlushToBytes([DstMAC |-> MACs.dst, SrcMAC |-> MACs.src, EtherType |-> 2048,
          Payload |-> IPv4FlushToBytes([Version |-> 4, IHL |-> p.ihl, TTL |-> 64,
                     Protocol |-> 6, SrcIP |-> LocalIP, DstIP |-> RemoteIP, Payload |-> t])])
  BY DEF TCPFrame, calculateTCPChecksum
<1> HIDE DEF b
<1>3. /\ b \in Seq(Byte) /\ l \in Nat /\ l < 65536 /\ l \in Word
      /\ IsIHL(p.ihl) /\ 4 * p.ihl + l < 65536
  <2>1. b \in Seq(Byte) /\ l = 4 * DataOffset(p.options) + Len(p.payload) /\ l \in Nat
    BY <1>1 DEF Carries
  <2>2. IsIHL(p.ihl) /\ 4 * p.ihl + 4 * DataOffset(p.options) + Len(p.payload) < 65536
    BY DEF IsSegment
  <2>3. p.ihl \in Nat BY <2>2 DEF IsIHL
  <2>4. DataOffset(p.options) \in Nat /\ Len(p.payload) \in Nat BY SegmentTypes
  <2>5. 4 * p.ihl + l < 65536 /\ l < 65536 BY <2>1, <2>2, <2>3, <2>4
  <2> QED BY <2>1, <2>2, <2>5 DEF Word
<1>4. a \in Seq(Byte) /\ Len(a) = 12 /\ Len(a) % 2 = 0
  <2>1. l \in Word BY <1>3
  <2> HIDE DEF l
  <2>2. PseudoHeader(LocalIP, RemoteIP, l) \in Seq(Byte) /\ Len(PseudoHeader(LocalIP, RemoteIP, l)) = 12
    BY <2>1, PseudoHeaderFacts
  <2> QED BY <2>2 DEF l
<1>5. n \in Word /\ Verifies(a \o t)
  <2>1. /\ a \in Seq(Byte) /\ b \in Seq(Byte) /\ Len(a) % 2 = 0 /\ at \in Nat /\ at % 2 = 0
        /\ at + 2 <= Len(b) /\ b[at + 1] = 0 /\ b[at + 2] = 0
    BY <1>1, <1>3, <1>4
  <2> HIDE DEF a, at
  <2> QED BY <2>1, ChecksumVerifies
<1>6. Carries(t, p)
  <2>1. n \in Word BY <1>5
  <2> HIDE DEF n
  <2> QED BY <1>1, <2>1, CarriesChecksum
<1>7. t \in Seq(Byte) /\ Len(t) = Len(b)
  <2>1. t \in Seq(Byte) /\ Len(t) = 4 * DataOffset(p.options) + Len(p.payload) BY <1>6 DEF Carries
  <2>2. Len(b) = 4 * DataOffset(p.options) + Len(p.payload) BY <1>1 DEF Carries
  <2> QED BY <2>1, <2>2
<1> HIDE DEF t
<1>8. FrameOf(TCPFrame(p, p.ihl), p.ihl, 6, LocalIP, RemoteIP, t)
  <2> DEFINE i == p.ihl
             o == 6
             X == MACs.dst
             Y == MACs.src
             S == LocalIP
             D == RemoteIP
  <2>1. /\ IsIHL(i) /\ o \in Byte /\ t \in Seq(Byte) /\ 4 * i + Len(t) < 65536
        /\ S \in Seq(Byte) /\ D \in Seq(Byte) /\ Len(S) = 4 /\ Len(D) = 4
        /\ X \in Seq(Byte) /\ Y \in Seq(Byte) /\ Len(X) = 6 /\ Len(Y) = 6
    BY <1>3, <1>7, AddressTypes DEF Byte
  <2> DEFINE f == EthernetFlushToBytes([DstMAC |-> X, SrcMAC |-> Y, EtherType |-> 2048,
                    Payload |-> IPv4FlushToBytes([Version |-> 4, IHL |-> i, TTL |-> 64,
                      Protocol |-> o, SrcIP |-> S, DstIP |-> D, Payload |-> t])])
  <2>2. TCPFrame(p, p.ihl) = f BY <1>2
  <2> HIDE DEF i, o, X, Y, S, D
  <2>3. FrameOf(f, i, o, S, D, t) BY <2>1, FrameBuilt
  <2> HIDE DEF f
  <2> QED BY <2>2, <2>3 DEF i, o, S, D
<1>9. Verifies(PseudoHeader(LocalIP, RemoteIP, Len(t)) \o t) BY <1>5, <1>7
<1> QED BY <1>6, <1>8, <1>9

\* What the receiver of a frame, padded, cut or as it was, makes of it.
LEMMA SegmentReceived ==
  ASSUME NEW p, IsSegment(p), NEW r, Agrees(r, TCPFrame(p, p.ihl))
  PROVE  Arrived(SegmentIn(r), p, Len(r) >= Len(TCPFrame(p, p.ihl)))
<1> DEFINE f == TCPFrame(p, p.ihl)
           e == ParseEthernetFrame(r)
           g == ParseIPv4Packet(e.Payload)
           whole == Len(r) >= Len(f)
<1>1. PICK t : Carries(t, p) /\ FrameOf(f, p.ihl, 6, LocalIP, RemoteIP, t) BY SegmentFramed
<1> HIDE DEF f
<1>2. PICK b : IPFormed(b, p.ihl, 6, LocalIP, RemoteIP, t) /\ Framed(f, b) BY <1>1 DEF FrameOf
<1>3. t \in Seq(Byte) BY <1>1 DEF Carries
<1>4. InFrame(r, 6, LocalIP, RemoteIP, t, whole)
  <2> DEFINE i == p.ihl
             o == 6
             S == LocalIP
             D == RemoteIP
  <2>1. /\ IsIHL(i) /\ o \in Byte /\ t \in Seq(Byte)
        /\ S \in Seq(Byte) /\ D \in Seq(Byte) /\ Len(S) = 4 /\ Len(D) = 4
        /\ IPFormed(b, i, o, S, D, t) /\ Framed(f, b) /\ Agrees(r, f)
    BY <1>2, <1>3, AddressTypes DEF IsSegment, Byte, f
  <2> HIDE DEF i, o, S, D
  <2>2. InFrame(r, o, S, D, t, Len(r) >= Len(f)) BY <2>1, FrameReceived
  <2> QED BY <2>2 DEF o, S, D
<1> DEFINE A == e = NoPacket /\ ~whole
           B == e.ok = TRUE /\ g = NoPacket /\ ~whole
           C == /\ e.ok = TRUE /\ e.EtherType = 2048 /\ g.ok = TRUE /\ g.Protocol = 6
                /\ Agrees(g.Payload, t) /\ Len(g.Payload) <= Len(t)
                /\ whole => Len(g.Payload) = Len(t)
<1>5. A \/ B \/ C BY <1>4 DEF InFrame
<1>6. SegmentIn(r) = IF ~e.ok \/ e.EtherType # 2048 THEN NoPacket
                     ELSE IF ~g.ok \/ g.Protocol # 6 THEN NoPacket
                     ELSE ParseTCPSegment(g.Payload)
  BY DEF SegmentIn
<1> HIDE DEF e, g, whole
<1>7. CASE A
  <2>1. e.ok = FALSE BY <1>7 DEF NoPacket
  <2>2. SegmentIn(r) = NoPacket BY <1>6, <2>1
  <2> QED BY <1>7, <2>2 DEF Arrived, whole, f
<1>8. CASE B
  <2>1. g.ok = FALSE BY <1>8 DEF NoPacket
  <2>2. SegmentIn(r) = NoPacket BY <1>6, <2>1
  <2> QED BY <1>8, <2>2 DEF Arrived, whole, f
<1>9. CASE C
  <2> DEFINE q == g.Payload
  <2>1. SegmentIn(r) = ParseTCPSegment(q) BY <1>6, <1>9
  <2>2. Agrees(q, t) /\ Len(q) <= Len(t) /\ (whole => Len(q) = Len(t)) BY <1>9
  <2> HIDE DEF q
  <2>3. Arrived(ParseTCPSegment(q), p, Len(q) = Len(t)) BY <1>1, <2>2, TCPReceived
  <2>4. Arrived(ParseTCPSegment(q), p, whole) BY <2>2, <2>3 DEF Arrived
  <2> QED BY <2>1, <2>4 DEF whole, f
<1> HIDE DEF A, B, C
<1> QED BY <1>5, <1>7, <1>8, <1>9

\* Header and rest of a frame that came whole: the header verifies, the rest
\* is what the IP packet carries.
LEMMA FrameParts ==
  ASSUME NEW ihl, IsIHL(ihl), NEW P \in Seq(Byte), NEW f, NEW protocol, NEW S, NEW D,
         FrameOf(f, ihl, protocol, S, D, P), NEW r, Agrees(r, f), Len(r) >= Len(f)
  PROVE  /\ Verifies(Slice(r, 14, 14 + 4 * (r[15] % 16)))
         /\ Slice(r, 14 + 4 * (r[15] % 16), 14 + Uint16(r, 16)) = P
<1>1. PICK b : IPFormed(b, ihl, protocol, S, D, P) /\ Framed(f, b) BY DEF FrameOf
<1>2. /\ b \in Seq(Byte) /\ Len(b) \in Nat /\ Len(b) = 4 * ihl + Len(P) /\ Len(P) \in Nat
      /\ b[1] = 64 + ihl /\ Uint16(b, 2) = Len(b) /\ StandsAt(P, b, 4 * ihl)
      /\ Verifies(Slice(b, 0, 4 * ihl))
  BY <1>1 DEF IPFormed
<1>3. f \in Seq(Byte) /\ Len(f) = 14 + Len(b) /\ StandsAt(b, f, 14) BY <1>1 DEF Framed
<1>4. r \in Seq(Byte) /\ Len(r) \in Nat /\ ihl \in Nat /\ 5 <= ihl /\ ihl < 16
  BY DEF Agrees, IsIHL
<1> DEFINE m == 14
<1>5. m \in Nat /\ StandsAt(b, f, m) /\ m + Len(b) <= Len(r) BY <1>2, <1>3, <1>4
<1> HIDE DEF m
<1>6. StandsAt(b, r, m) BY <1>2, <1>3, <1>5, AgreesAt
<1>7. \A i \in 1 .. Len(b) : r[m + i] = b[i] BY <1>6 DEF StandsAt
<1>8. r[15] = b[1] /\ r[17] = b[3] /\ r[18] = b[4]
  <2>1. 1 \in 1 .. Len(b) /\ 3 \in 1 .. Len(b) /\ 4 \in 1 .. Len(b) BY <1>2, <1>4
  <2>2. r[m + 1] = b[1] /\ r[m + 3] = b[3] /\ r[m + 4] = b[4] BY <1>7, <2>1
  <2> QED BY <2>2 DEF m
<1>9. r[15] % 16 = ihl
  <2>1. (64 + ihl) % 16 = ihl BY <1>4, HalfBytes
  <2> QED BY <1>2, <1>8, <2>1
<1>10. Uint16(r, 16) = Len(b)
  <2>1. b[2 + 1] * 256 + b[2 + 2] = Len(b) BY <1>2 DEF Uint16
  <2> QED BY <1>8, <2>1 DEF Uint16
<1> DEFINE k == m + 4 * ihl
           h == Slice(b, 0, 4 * ihl)
           n == m + Len(b)
<1>11. k \in Nat /\ n \in Nat /\ m <= k /\ k <= n /\ n <= Len(r) /\ k = m + 4 * ihl /\ n = k + Len(P)
  BY <1>2, <1>4, <1>5
<1>12. h \in Seq(Byte) /\ Len(h) = 4 * ihl /\ \A i \in 1 .. 4 * ihl : h[i] = b[i]
  BY <1>2, <1>4 DEF Slice
<1> HIDE DEF k, h, n
<1>13. StandsAt(h, r, m)
  <2>1. m + Len(h) <= Len(r) BY <1>2, <1>4, <1>5, <1>12
  <2>2. ASSUME NEW i \in 1 .. Len(h) PROVE r[m + i] = h[i]
    <3>1. i \in 1 .. 4 * ihl /\ i \in 1 .. Len(b) BY <1>2, <1>4, <1>12
    <3> QED BY <1>7, <1>12, <3>1
  <2> QED BY <2>1, <2>2 DEF StandsAt
<1>14. Slice(r, m, k) = h
  <2>1. h \in Seq(Byte) /\ r \in Seq(Byte) /\ m \in Nat /\ k \in Nat /\ k = m + Len(h)
    BY <1>4, <1>5, <1>11, <1>12
  <2> QED BY <1>13, <2>1, SliceOut
<1>15. StandsAt(P, r, k)
  <2>1. k + Len(P) <= Len(r) BY <1>11
  <2>2. ASSUME NEW i \in 1 .. Len(P) PROVE r[k + i] = P[i]
    <3>1. 4 * ihl + i \in 1 .. Len(b) /\ k + i = m + (4 * ihl + i) BY <1>2, <1>4, <1>5, <1>11
    <3>2. r[k + i] = b[4 * ihl + i] BY <1>7, <3>1
    <3>3. b[4 * ihl + i] = P[i] BY <1>2 DEF StandsAt
    <3> QED BY <3>2, <3>3
  <2> QED BY <2>1, <2>2 DEF StandsAt
<1>16. Slice(r, k, n) = P
  <2>1. r \in Seq(Byte) /\ k \in Nat /\ n \in Nat /\ n = k + Len(P) BY <1>4, <1>11
  <2> QED BY <1>15, <2>1, SliceOut
<1>17. 14 = m /\ 14 + 4 * (r[15] % 16) = k /\ 14 + Uint16(r, 16) = n BY <1>9, <1>10 DEF m, k, n
<1>18. Verifies(h) BY <1>2 DEF h
<1> QED BY <1>14, <1>16, <1>17, <1>18

\* The frame of an echo request.
LEMMA EchoFramed ==
  ASSUME NEW p, IsEcho(p)
  PROVE  \E q : /\ q \in Seq(Byte) /\ Len(q) = Len(p.icmp)
                /\ \A i \in 1 .. Len(q) : i # 3 /\ i # 4 => q[i] = p.icmp[i]
                /\ FrameOf(EchoFrame(p), p.ihl, 1, LocalIP, RemoteIP, q)
<1> DEFINE c == p.icmp
           n == Complement(Sum(c))
           at == 2
           q == PutUint16(c, at, n)
<1>1. c \in Seq(Byte) /\ Len(c) \in Nat /\ Len(c) >= 8 /\ IsIHL(p.ihl) /\ 4 * p.ihl + Len(c) < 65536
  BY DEF IsEcho
<1>2. EchoFrame(p) =
        EthernetFlushToBytes([DstMAC |-> MACs.dst, SrcMAC |-> MACs.src, EtherType |-> 2048,
          Payload |-> IPv4FlushToBytes([Version |-> 4, IHL |-> p.ihl, TTL |-> 64,
                     Protocol |-> 1, SrcIP |-> LocalIP, DstIP |-> RemoteIP, Payload |-> q])])
  BY DEF EchoFrame
<1> HIDE DEF c
<1>3. n \in Word
  <2>1. Sum(c) \in Nat BY <1>1, SumIsWeight, WeightType
  <2> QED BY <2>1, ComplementFacts
<1> HIDE DEF n
<1>4. /\ q \in Seq(Byte) /\ Len(q) = Len(c)
      /\ \A i \in 1 .. Len(c) : i # 3 /\ i # 4 => q[i] = c[i]
  <2>1. at \in Nat /\ at + 2 <= Len(c) /\ at + 1 = 3 /\ at + 2 = 4 BY <1>1
  <2> HIDE DEF at
  <2>2. /\ q \in Seq(Byte) /\ Len(q) = Len(c)
        /\ \A i \in 1 .. Len(c) : i # at + 1 /\ i # at + 2 => q[i] = c[i]
    BY <1>1, <1>3, <2>1, PutFacts
  <2> QED BY <2>1, <2>2
<1> HIDE DEF q
<1>5. FrameOf(EchoFrame(p), p.ihl, 1, LocalIP, RemoteIP, q)
  <2> DEFINE i == p.ihl
             o == 1
             X == MACs.dst
             Y == MACs.src
             S == LocalIP
             D == RemoteIP
  <2>1. /\ IsIHL(i) /\ o \in Byte /\ q \in Seq(Byte) /\ 4 * i + Len(q) < 65536
        /\ S \in Seq(Byte) /\ D \in Seq(Byte) /\ Len(S) = 4 /\ Len(D) = 4
        /\ X \in Seq(Byte) /\ Y \in Seq(Byte) /\ Len(X) = 6 /\ Len(Y) = 6
    BY <1>1, <1>4, AddressTypes DEF Byte
  <2> DEFINE f == EthernetFlushToBytes([DstMAC |-> X, SrcMAC |-> Y, EtherType |-> 2048,
                    Payload |-> IPv4FlushToBytes([Version |-> 4, IHL |-> i, TTL |-> 64,
                      Protocol |-> o, SrcIP |-> S, DstIP |-> D, Payload |-> q])])
  <2>2. EchoFrame(p) = f BY <1>2
  <2> HIDE DEF i, o, X, Y, S, D
  <2>3. FrameOf(f, i, o, S, D, q) BY <2>1, FrameBuilt
  <2> HIDE DEF f
  <2> QED BY <2>2, <2>3 DEF i, o, S, D
<1> QED BY <1>4, <1>5 DEF c

\* The reply to an echo request that came whole.
Answered(g, p) ==
  /\ g.ok = TRUE
  /\ \E s : /\ s \in Seq(Byte) /\ FrameOf(g.bytes, 5, 1, RemoteIP, LocalIP, s)
            /\ Verifies(s) /\ s[1] = 0
            /\ Slice(s, 4, Len(s)) = Slice(p.icmp, 4, Len(p.icmp))

\* The ICMP message of a reply.
LEMMA ReplyBuilt ==
  ASSUME NEW c \in Seq(Byte), Len(c) >= 8, NEW q \in Seq(Byte), Len(q) = Len(c),
         \A i \in 1 .. Len(q) : i # 3 /\ i # 4 => q[i] = c[i]
  PROVE  LET reply == <<0, 0, 0, 0>> \o Slice(q, 4, Len(q))
             s == PutUint16(reply, 2, Complement(Sum(reply)))
         IN /\ s \in Seq(Byte) /\ Len(s) = Len(c) /\ Verifies(s) /\ s[1] = 0
            /\ Slice(s, 4, Len(s)) = Slice(c, 4, Len(c))
<1> DEFINE z == <<0, 0, 0, 0>>
           x == Slice(q, 4, Len(q))
           w == Slice(c, 4, Len(c))
           reply == z \o x
           n == Complement(Sum(reply))
           at == 2
           s == PutUint16(reply, at, n)
<1>1. Len(c) \in Nat OBVIOUS
<1>2. z \in Seq(Byte) /\ Len(z) = 4 /\ z[1] = 0 /\ z[2] = 0 /\ z[3] = 0 /\ z[4] = 0
  <2>1. 0 \in Byte BY DEF Byte
  <2> QED BY <2>1
<1>3. x \in Seq(Byte) /\ Len(x) = Len(c) - 4 /\ \A i \in 1 .. Len(c) - 4 : x[i] = q[4 + i]
  BY <1>1 DEF Slice
<1>4. w \in Seq(Byte) /\ Len(w) = Len(c) - 4 /\ \A i \in 1 .. Len(c) - 4 : w[i] = c[4 + i]
  BY <1>1 DEF Slice
<1> HIDE DEF z, x, w
<1>5. x = w
  <2>1. ASSUME NEW i \in 1 .. Len(x) PROVE x[i] = w[i]
    <3>1. i \in 1 .. Len(c) - 4 /\ 4 + i \in 1 .. Len(q) /\ 4 + i # 3 /\ 4 + i # 4 BY <1>1, <1>3
    <3>2. q[4 + i] = c[4 + i] BY <3>1
    <3> QED BY <1>3, <1>4, <3>1, <3>2
  <2>2. x \in Seq(Byte) /\ w \in Seq(Byte) /\ Len(x) = Len(w) BY <1>3, <1>4
  <2> QED BY <2>1, <2>2, SeqEqual
<1>6. /\ reply \in Seq(Byte) /\ Len(reply) = Len(z) + Len(x)
      /\ \A i \in 1 .. Len(z) : reply[i] = z[i]
      /\ \A i \in 1 .. Len(x) : reply[Len(z) + i] = x[i]
  <2>1. z \in Seq(Byte) /\ x \in Seq(Byte) BY <1>2, <1>3
  <2> QED BY <2>1, ConcatFacts
<1> HIDE DEF reply
<1>7. Len(reply) = Len(c) BY <1>1, <1>2, <1>3, <1>6
<1>8. reply[1] = 0 /\ reply[3] = 0 /\ reply[4] = 0
  <2>1. 1 \in 1 .. Len(z) /\ 3 \in 1 .. Len(z) /\ 4 \in 1 .. Len(z) BY <1>2
  <2> QED BY <1>2, <1>6, <2>1
<1>9. /\ reply \in Seq(Byte) /\ at \in Nat /\ at % 2 = 0 /\ at + 2 <= Len(reply)
      /\ reply[at + 1] = 0 /\ reply[at + 2] = 0 /\ at + 1 = 3 /\ at + 2 = 4
  BY <1>1, <1>6, <1>7, <1>8
<1> HIDE DEF at
<1>10. n \in Word /\ Verifies(s) BY <1>9, OwnChecksumVerifies
<1> HIDE DEF n
<1>11. /\ s \in Seq(Byte) /\ Len(s) = Len(reply)
       /\ \A i \in 1 .. Len(reply) : i # at + 1 /\ i # at + 2 => s[i] = reply[i]
  <2>1. n \in Word BY <1>10
  <2> QED BY <1>9, <2>1, PutFacts
<1> HIDE DEF s
<1>12. s[1] = 0
  <2>1. 1 \in 1 .. Len(reply) /\ 1 # at + 1 /\ 1 # at + 2 BY <1>1, <1>7, <1>9
  <2>2. s[1] = reply[1] BY <1>11, <2>1
  <2> QED BY <1>8, <2>2
<1>13. Slice(s, 4, Len(s)) = x
  <2> DEFINE m == 4
             k == Len(s)
  <2>1. /\ s \in Seq(Byte) /\ x \in Seq(Byte) /\ m \in Nat /\ k \in Nat /\ k = m + Len(x)
    BY <1>1, <1>3, <1>7, <1>11
  <2>2. StandsAt(x, s, m)
    <3>1. ASSUME NEW i \in 1 .. Len(x) PROVE s[m + i] = x[i]
      <4>1. m + i \in 1 .. Len(reply) /\ m + i # at + 1 /\ m + i # at + 2 /\ m + i = Len(z) + i
        BY <1>1, <1>2, <1>3, <1>7, <1>9
      <4>2. s[m + i] = reply[m + i] BY <1>11, <4>1
      <4>3. reply[Len(z) + i] = x[i] BY <1>6
      <4> QED BY <4>1, <4>2, <4>3
    <3>2. m + Len(x) <= Len(s) BY <2>1
    <3> QED BY <3>1, <3>2 DEF StandsAt
  <2> HIDE DEF m, k
  <2>3. Slice(s, m, k) = x BY <2>1, <2>2, SliceOut
  <2> QED BY <2>3 DEF m, k
<1>14. Slice(s, 4, Len(s)) = Slice(c, 4, Len(c)) BY <1>5, <1>13 DEF w
<1>15. Len(s) = Len(c) BY <1>7, <1>11
<1> USE DEF s, n, at, reply, z, x
<1> QED BY <1>10, <1>11, <1>12, <1>14, <1>15

\* The echo server answers a whole request so.
LEMMA EchoAnswered ==
  ASSUME NEW p, IsEcho(p), NEW r, Agrees(r, EchoFrame(p)), Len(r) >= Len(EchoFrame(p))
  PROVE  Answered(EchoReply(r), p)
<1> DEFINE f == EchoFrame(p)
           e == ParseEthernetFrame(r)
           g == ParseIPv4Packet(e.Payload)
           c == p.icmp
<1>1. PICK q : /\ q \in Seq(Byte) /\ Len(q) = Len(c)
               /\ \A i \in 1 .. Len(q) : i # 3 /\ i # 4 => q[i] = c[i]
               /\ FrameOf(f, p.ihl, 1, LocalIP, RemoteIP, q)
  BY EchoFramed
<1>2. c \in Seq(Byte) /\ Len(c) \in Nat /\ Len(c) >= 8 /\ c[1] = 8 /\ IsIHL(p.ihl) /\ p.ihl \in Nat
      /\ 5 <= p.ihl /\ 4 * p.ihl + Len(c) < 65536
  BY DEF IsEcho, IsIHL
<1>3. Agrees(r, f) /\ Len(r) >= Len(f) OBVIOUS
<1> HIDE DEF f, c
<1>4. PICK b : IPFormed(b, p.ihl, 1, LocalIP, RemoteIP, q) /\ Framed(f, b) BY <1>1 DEF FrameOf
<1>5. InFrame(r, 1, LocalIP, RemoteIP, q, Len(r) >= Len(f))
  <2> DEFINE i == p.ihl
             o == 1
             S == LocalIP
             D == RemoteIP
  <2>1. /\ IsIHL(i) /\ o \in Byte /\ q \in Seq(Byte)
        /\ S \in Seq(Byte) /\ D \in Seq(Byte) /\ Len(S) = 4 /\ Len(D) = 4
        /\ IPFormed(b, i, o, S, D, q) /\ Framed(f, b) /\ Agrees(r, f)
    BY <1>1, <1>2, <1>3, <1>4, AddressTypes DEF Byte
  <2> HIDE DEF i, o, S, D
  <2>2. InFrame(r, o, S, D, q, Len(r) >= Len(f)) BY <2>1, FrameReceived
  <2> QED BY <2>2 DEF o, S, D
<1>6. /\ e.ok = TRUE /\ e.EtherType = 2048
      /\ e.DstMAC \in Seq(Byte) /\ Len(e.DstMAC) = 6 /\ e.SrcMAC \in Seq(Byte) /\ Len(e.SrcMAC) = 6
      /\ g.ok = TRUE /\ g.Protocol = 1 /\ g.SrcIP = LocalIP /\ g.DstIP = RemoteIP
      /\ Agrees(g.Payload, q) /\ Len(g.Payload) = Len(q)
  BY <1>3, <1>5 DEF InFrame
<1>7. g.Payload = q
  <2> DEFINE u == g.Payload
  <2>1. Agrees(u, q) /\ Len(u) <= Len(q) /\ Len(u) = Len(q) /\ q \in Seq(Byte) BY <1>1, <1>6
  <2> HIDE DEF u
  <2>2. u = q BY <2>1, AgreesBegins
  <2> QED BY <2>2 DEF u
<1> DEFINE reply == <<0, 0, 0, 0>> \o Slice(q, 4, Len(q))
           s == PutUint16(reply, 2, Complement(Sum(reply)))
           a == [Version |-> 4, IHL |-> 5, TTL |-> 64, Protocol |-> 1, SrcIP |-> RemoteIP,
                 DstIP |-> LocalIP, Payload |-> s]
           h == EthernetFlushToBytes([DstMAC |-> e.SrcMAC, SrcMAC |-> e.DstMAC, EtherType |-> 2048,
                                      Payload |-> IPv4FlushToBytes(a)])
<1>8. /\ s \in Seq(Byte) /\ Len(s) = Len(c) /\ Verifies(s) /\ s[1] = 0
      /\ Slice(s, 4, Len(s)) = Slice(c, 4, Len(c))
  BY <1>1, <1>2, ReplyBuilt, SMTT(30)
<1>9. EchoReply(r) = [ok |-> TRUE, bytes |-> h]
  <2>1. 1 \in 1 .. Len(q) /\ 1 # 3 /\ 1 # 4 BY <1>1, <1>2
  <2>2. q[1] = 8 BY <1>1, <1>2, <2>1
  <2>3. ~(Len(q) < 2) /\ ~(Len(q) < 8 \/ q[1] # 8) BY <1>1, <1>2, <2>2
  <2> HIDE DEF e, g
  <2> QED BY <1>6, <1>7, <2>3 DEF EchoReply, e, g
<1> HIDE DEF e, g, s
<1>10. FrameOf(h, 5, 1, RemoteIP, LocalIP, s)
  <2> DEFINE i == 5
             o == 1
             X == e.SrcMAC
             Y == e.DstMAC
             S == RemoteIP
             D == LocalIP
  <2>1. /\ IsIHL(i) /\ o \in Byte /\ s \in Seq(Byte) /\ 4 * i + Len(s) < 65536
        /\ S \in Seq(Byte) /\ D \in Seq(Byte) /\ Len(S) = 4 /\ Len(D) = 4
        /\ X \in Seq(Byte) /\ Y \in Seq(Byte) /\ Len(X) = 6 /\ Len(Y) = 6
    <3>1. IsIHL(i) BY DEF IsIHL
    <3>2. o \in Byte BY DEF Byte
    <3>3. s \in Seq(Byte) /\ 4 * i + Len(s) < 65536 BY <1>2, <1>8
    <3>4. S \in Seq(Byte) /\ D \in Seq(Byte) /\ Len(S) = 4 /\ Len(D) = 4 BY AddressTypes
    <3>5. X \in Seq(Byte) /\ Y \in Seq(Byte) /\ Len(X) = 6 /\ Len(Y) = 6 BY <1>6
    <3> QED BY <3>1, <3>2, <3>3, <3>4, <3>5
  <2> DEFINE k == EthernetFlushToBytes([DstMAC |-> X, SrcMAC |-> Y, EtherType |-> 2048,
                    Payload |-> IPv4FlushToBytes([Version |-> 4, IHL |-> i, TTL |-> 64,
                      Protocol |-> o, SrcIP |-> S, DstIP |-> D, Payload |-> s])])
  <2>2. h = k OBVIOUS
  <2> HIDE DEF i, o, X, Y, S, D, h
  <2>3. FrameOf(k, i, o, S, D, s) BY <2>1, FrameBuilt
  <2> HIDE DEF k
  <2> QED BY <2>2, <2>3 DEF i, o, S, D
<1> HIDE DEF h
<1>11. EchoReply(r).ok = TRUE /\ EchoReply(r).bytes = h BY <1>9
<1> QED BY <1>8, <1>10, <1>11 DEF Answered, c

------------------------------------------------------------------------------
(***************************************************************************)
(* The options of a SYN.                                                   *)
(***************************************************************************)

\* The parts of AdvertisedMSS.
Precedes(a, b, S) == a < b /\ \A c \in S : c <= a \/ b <= c
Tiled(opts, S) == \A a, b \in S : Precedes(a, b, S) => OneOption(Slice(opts, a, b))
Reached(opts, at) == \E S \in SUBSET (0 .. at) : {0, at} \subseteq S /\ Tiled(opts, S)
IsMSSAt(opts, at) == opts[at + 1] = 2 /\ opts[at + 2] = 4

\* The loop's place is reached by a cut into options, by no other cut is it
\* passed over, and no MSS option was passed on the way.
Walk(opts, at) ==
  /\ at \in Nat /\ at <= Len(opts)
  /\ Reached(opts, at)
  /\ \A n \in Nat, S \in SUBSET Nat :
       at <= n /\ n <= Len(opts) /\ S \subseteq 0 .. n /\ {0, n} \subseteq S /\ Tiled(opts, S)
         => at \in S
  /\ \A n \in Nat : n < at /\ n <= Len(opts) - 4 /\ IsMSSAt(opts, n) => ~Reached(opts, n)

\* The length of an option is in its second byte, if it has one.
LEMMA OptionLength ==
  ASSUME NEW opts \in Seq(Byte), NEW at \in Nat, NEW z \in Nat, at < z, z <= Len(opts)
  PROVE  OneOption(Slice(opts, at, z)) <=>
           \/ opts[at + 1] = 1 /\ z = at + 1
           \/ opts[at + 1] > 1 /\ z >= at + 2 /\ opts[at + 2] = z - at
<1> DEFINE o == Slice(opts, at, z)
<1>1. /\ o \in Seq(Byte) /\ Len(o) = z - at /\ \A i \in 1 .. z - at : o[i] = opts[at + i]
  <2>1. at <= z OBVIOUS
  <2> QED BY <2>1, SliceFacts
<1> HIDE DEF o
<1>2. o[1] = opts[at + 1]
  <2>1. 1 \in 1 .. z - at OBVIOUS
  <2> QED BY <1>1, <2>1
<1>3. opts[at + 1] \in Nat
  <2>1. at + 1 \in 1 .. Len(opts) OBVIOUS
  <2> QED BY <2>1, ByteAt
<1>4. CASE z = at + 1
  <2>1. Len(o) = 1 BY <1>1, <1>4
  <2>2. o = <<1>> <=> o[1] = 1
    <3>1. <<1>> \in Seq(Nat) /\ Len(<<1>>) = 1 /\ <<1>>[1] = 1 OBVIOUS
    <3>2. ASSUME o[1] = 1 PROVE o = <<1>>
      <4> DEFINE u == <<1>>
      <4>1. Len(u) = 1 /\ u[1] = 1 /\ u \in Seq(Nat) BY <3>1
      <4> HIDE DEF u
      <4>2. o \in Seq(Nat) BY <1>1 DEF Byte
      <4>3. \A i \in 1 .. Len(o) : o[i] = u[i] BY <2>1, <3>2, <4>1
      <4>4. o = u BY <2>1, <4>1, <4>2, <4>3, SeqEqual
      <4> QED BY <4>4 DEF u
    <3> QED BY <3>1, <3>2
  <2>3. ~(z >= at + 2) BY <1>4
  <2> QED BY <1>2, <1>4, <2>1, <2>2, <2>3 DEF OneOption, o
<1>5. CASE z >= at + 2
  <2>1. Len(o) = z - at /\ Len(o) >= 2 /\ z # at + 1 BY <1>1, <1>5
  <2>2. o # <<1>>
    <3> DEFINE u == <<1>>
    <3>1. Len(u) = 1 OBVIOUS
    <3> HIDE DEF u
    <3>2. ASSUME o = u PROVE FALSE
      <4>1. Len(o) = 1 BY <3>1, <3>2
      <4>2. Len(o) >= 2 BY <2>1
      <4> QED BY <4>1, <4>2
    <3> QED BY <3>2 DEF u
  <2>3. o[2] = opts[at + 2]
    <3>1. 2 \in 1 .. z - at BY <1>5
    <3> QED BY <1>1, <3>1
  <2> QED BY <1>2, <1>5, <2>1, <2>2, <2>3 DEF OneOption, o
<1> QED BY <1>4, <1>5

\* In a cut, what follows a place that is not the last is an option.
LEMMA NextPlace ==
  ASSUME NEW opts \in Seq(Byte), NEW at \in Nat, NEW n \in Nat, at < n, n <= Len(opts),
         NEW S \in SUBSET Nat, S \subseteq 0 .. n, at \in S, n \in S, Tiled(opts, S)
  PROVE  \E z \in S : /\ at < z /\ z <= n
                      /\ \/ opts[at + 1] = 1 /\ z = at + 1
                         \/ opts[at + 1] > 1 /\ z >= at + 2 /\ opts[at + 2] = z - at
<1> DEFINE U == {s \in S : at < s}
<1>1. U \in SUBSET Nat /\ U # {} OBVIOUS
<1>2. PICK z \in U : \A m \in U : z <= m BY <1>1, LeastOf
<1>3. z \in S /\ z \in Nat /\ at < z /\ z <= n OBVIOUS
<1>4. Precedes(at, z, S)
  <2>1. \A c \in S : c <= at \/ z <= c BY <1>2
  <2> QED BY <1>3, <2>1 DEF Precedes
<1>5. OneOption(Slice(opts, at, z)) BY <1>3, <1>4 DEF Tiled
<1>6. z <= Len(opts)
  <2>1. Len(opts) \in Nat OBVIOUS
  <2> QED BY <1>3, <2>1
<1>7. \/ opts[at + 1] = 1 /\ z = at + 1
      \/ opts[at + 1] > 1 /\ z >= at + 2 /\ opts[at + 2] = z - at
  BY <1>3, <1>5, <1>6, OptionLength
<1> QED BY <1>3, <1>7

\* The walk begins at 0.
LEMMA WalkBegins ==
  ASSUME NEW opts \in Seq(Byte)
  PROVE  Walk(opts, 0)
<1>1. Reached(opts, 0)
  <2>1. {0} \in SUBSET (0 .. 0) /\ {0, 0} \subseteq {0} OBVIOUS
  <2>2. Tiled(opts, {0}) BY DEF Tiled, Precedes
  <2> QED BY <2>1, <2>2 DEF Reached
<1>2. Len(opts) \in Nat /\ 0 <= Len(opts) OBVIOUS
<1> QED BY <1>1, <1>2 DEF Walk

\* It goes on over an option that is not an MSS option.
LEMMA WalkGoesOn ==
  ASSUME NEW opts \in Seq(Byte), NEW at, Walk(opts, at), NEW z \in Nat, at < z, z <= Len(opts),
         \/ opts[at + 1] = 1 /\ z = at + 1
         \/ opts[at + 1] > 1 /\ z >= at + 2 /\ opts[at + 2] = z - at,
         ~IsMSSAt(opts, at)
  PROVE  Walk(opts, z)
<1>1. at \in Nat /\ at <= Len(opts) /\ Len(opts) \in Nat BY DEF Walk
<1>2. OneOption(Slice(opts, at, z)) BY <1>1, OptionLength
<1>3. Reached(opts, z)
  <2>1. PICK S \in SUBSET (0 .. at) : {0, at} \subseteq S /\ Tiled(opts, S) BY DEF Walk, Reached
  <2> DEFINE U == S \cup {z}
  <2>2. U \in SUBSET (0 .. z) /\ {0, z} \subseteq U BY <1>1, <2>1
  <2>3. ASSUME NEW a \in U, NEW b \in U, Precedes(a, b, U) PROVE OneOption(Slice(opts, a, b))
    <3>1. a < b /\ \A c \in U : c <= a \/ b <= c BY <2>3 DEF Precedes
    <3>2. CASE b = z
      <4>1. a \in S /\ a \in Nat /\ a <= at BY <1>1, <3>1, <3>2
      <4>2. at <= a \/ z <= at BY <2>1, <3>1, <3>2
      <4>3. a = at BY <1>1, <4>1, <4>2
      <4> QED BY <1>2, <3>2, <4>3
    <3>3. CASE b # z
      <4>1. b \in S /\ b <= at /\ b \in Nat BY <1>1, <3>3
      <4>2. a # z BY <1>1, <3>1, <4>1
      <4>3. a \in S BY <4>2
      <4>4. Precedes(a, b, S) BY <3>1 DEF Precedes
      <4> QED BY <2>1, <4>1, <4>3, <4>4 DEF Tiled
    <3> QED BY <3>2, <3>3
  <2> HIDE DEF U
  <2>4. Tiled(opts, U) BY <2>3 DEF Tiled
  <2> QED BY <2>2, <2>4 DEF Reached
<1>4. ASSUME NEW n \in Nat, NEW S \in SUBSET Nat, at < n, n <= Len(opts),
             S \subseteq 0 .. n, {0, n} \subseteq S, Tiled(opts, S)
      PROVE  z \in S /\ z <= n
  <2>1. at \in S BY <1>1, <1>4 DEF Walk
  <2>2. PICK y \in S : /\ at < y /\ y <= n
                       /\ \/ opts[at + 1] = 1 /\ y = at + 1
                          \/ opts[at + 1] > 1 /\ y >= at + 2 /\ opts[at + 2] = y - at
    <3>1. n \in S BY <1>4
    <3> QED BY <1>1, <1>4, <2>1, <3>1, NextPlace
  <2>3. y \in Nat OBVIOUS
  <2>4. y = z
    <3>1. CASE opts[at + 1] = 1 BY <2>2, <3>1
    <3>2. CASE opts[at + 1] # 1
      <4>1. opts[at + 2] = y - at /\ opts[at + 2] = z - at BY <2>2, <3>2
      <4> QED BY <1>1, <2>3, <4>1
    <3> QED BY <3>1, <3>2
  <2> QED BY <2>2, <2>4
<1>5. ASSUME NEW n \in Nat, n < z, n <= Len(opts) - 4, IsMSSAt(opts, n) PROVE ~Reached(opts, n)
  <2>1. CASE n < at BY <1>5, <2>1 DEF Walk
  <2>2. CASE n = at BY <1>5, <2>2
  <2>3. CASE n > at
    <3> SUFFICES ASSUME Reached(opts, n) PROVE FALSE OBVIOUS
    <3>1. PICK S \in SUBSET (0 .. n) : {0, n} \subseteq S /\ Tiled(opts, S) BY DEF Reached
    <3>2. S \in SUBSET Nat /\ S \subseteq 0 .. n /\ at < n /\ n <= Len(opts) BY <1>1, <1>5, <2>3
    <3>3. z <= n BY <1>4, <3>1, <3>2
    <3> QED BY <1>5, <3>3
  <2> QED BY <1>1, <2>1, <2>2, <2>3
<1>6. ASSUME NEW n \in Nat, NEW S \in SUBSET Nat, z <= n, n <= Len(opts),
             S \subseteq 0 .. n, {0, n} \subseteq S, Tiled(opts, S)
      PROVE  z \in S
  <2>1. at < n BY <1>1, <1>6
  <2> QED BY <1>4, <1>6, <2>1
<1> QED BY <1>3, <1>5, <1>6 DEF Walk

\* The set that AdvertisedMSS looks at.
FoundMSS(opts) == {at \in 0 .. Len(opts) - 4 : IsMSSAt(opts, at) /\ Reached(opts, at)}

\* AdvertisedMSS in terms of that set.
LEMMA AdvertisedIs ==
  ASSUME NEW opts
  PROVE  AdvertisedMSS(opts) =
           IF FoundMSS(opts) = {} THEN defaultMSS
           ELSE Uint16(opts, (CHOOSE at \in FoundMSS(opts) : \A b \in FoundMSS(opts) : at <= b) + 2)
<1> DEFINE places == {at \in 0 .. Len(opts) - 4 : opts[at + 1] = 2 /\ opts[at + 2] = 4}
           precedes(a, b, S) == a < b /\ \A c \in S : c <= a \/ b <= c
           tiled(S) == \A a, b \in S : precedes(a, b, S) => OneOption(Slice(opts, a, b))
           reached(at) == \E S \in SUBSET (0 .. at) : {0, at} \subseteq S /\ tiled(S)
           found == {at \in places : reached(at)}
<1>1. AdvertisedMSS(opts) =
        IF found = {} THEN defaultMSS
        ELSE Uint16(opts, (CHOOSE at \in found : \A b \in found : at <= b) + 2)
  BY Zenon DEF AdvertisedMSS
<1>2. \A S : tiled(S) <=> Tiled(opts, S) BY DEF Tiled, Precedes
<1> HIDE DEF tiled
<1>3. \A at : reached(at) <=> Reached(opts, at) BY <1>2 DEF Reached
<1> HIDE DEF reached
<1>4. found = FoundMSS(opts) BY <1>3 DEF FoundMSS, IsMSSAt
<1> HIDE DEF found
<1> QED BY <1>1, <1>4

\* Where no option stands, nothing more is advertised.
LEMMA WalkEnds ==
  ASSUME NEW opts \in Seq(Byte), NEW at, Walk(opts, at),
         at > Len(opts) - 4 \/ ~IsMSSAt(opts, at),
         \A z \in Nat : at < z /\ z <= Len(opts) =>
           ~ \/ opts[at + 1] = 1 /\ z = at + 1
             \/ opts[at + 1] > 1 /\ z >= at + 2 /\ opts[at + 2] = z - at
  PROVE  AdvertisedMSS(opts) = defaultMSS
<1>1. at \in Nat /\ Len(opts) \in Nat BY DEF Walk
<1> SUFFICES FoundMSS(opts) = {} BY AdvertisedIs
<1> SUFFICES ASSUME NEW n \in FoundMSS(opts) PROVE FALSE OBVIOUS
<1>2. n \in Nat /\ n <= Len(opts) - 4 /\ IsMSSAt(opts, n) /\ Reached(opts, n) BY <1>1 DEF FoundMSS
<1>3. CASE n < at BY <1>2, <1>3 DEF Walk
<1>4. CASE n = at BY <1>1, <1>2, <1>4
<1>5. CASE n > at
  <2>1. PICK S \in SUBSET (0 .. n) : {0, n} \subseteq S /\ Tiled(opts, S) BY <1>2 DEF Reached
  <2>2. S \in SUBSET Nat /\ S \subseteq 0 .. n /\ n <= Len(opts) /\ n \in S BY <1>1, <1>2, <2>1
  <2>3. at \in S BY <1>1, <1>2, <1>5, <2>1, <2>2 DEF Walk
  <2>4. PICK z \in S : /\ at < z /\ z <= n
                       /\ \/ opts[at + 1] = 1 /\ z = at + 1
                          \/ opts[at + 1] > 1 /\ z >= at + 2 /\ opts[at + 2] = z - at
    BY <1>1, <1>2, <1>5, <2>1, <2>2, <2>3, NextPlace
  <2>5. z \in Nat /\ z <= Len(opts) BY <1>1, <2>2, <2>4
  <2> QED BY <2>4, <2>5
<1> QED BY <1>1, <1>2, <1>3, <1>4, <1>5

\* An MSS option where the loop stands is the one that is advertised.
LEMMA WalkFinds ==
  ASSUME NEW opts \in Seq(Byte), NEW at, Walk(opts, at), at <= Len(opts) - 4, IsMSSAt(opts, at)
  PROVE  AdvertisedMSS(opts) = Uint16(opts, at + 2)
<1>1. at \in Nat /\ Len(opts) \in Nat /\ Reached(opts, at) BY DEF Walk
<1> DEFINE F == FoundMSS(opts)
<1>2. at \in F BY <1>1 DEF FoundMSS
<1>3. ASSUME NEW n \in F PROVE n \in Nat /\ at <= n
  <2>1. n \in Nat /\ n <= Len(opts) - 4 /\ IsMSSAt(opts, n) /\ Reached(opts, n) BY <1>1 DEF FoundMSS
  <2>2. ~(n < at) BY <2>1 DEF Walk
  <2> QED BY <1>1, <2>1, <2>2
<1> HIDE DEF F
<1> DEFINE m == CHOOSE a \in F : \A b \in F : a <= b
<1>4. m \in F /\ \A b \in F : m <= b BY <1>2, <1>3
<1>5. m = at
  <2> HIDE DEF m
  <2>1. m \in Nat /\ at <= m /\ m <= at BY <1>2, <1>3, <1>4
  <2> QED BY <1>1, <2>1
<1>6. AdvertisedMSS(opts) = IF F = {} THEN defaultMSS ELSE Uint16(opts, m + 2)
  BY AdvertisedIs DEF F
<1> HIDE DEF m
<1> QED BY <1>2, <1>5, <1>6

\* handleSYN's and pumpSendLocked's choice of the chunk size.
LEMMA ChunkSizeIs ==
  ASSUME NEW peer \in Nat
  PROVE  chunkSize(peer) = IF peer = 0 THEN defaultMSS ELSE IF peer < ourMSS THEN peer ELSE ourMSS
<1>1. ourMSS \in Nat /\ ourMSS # 0 BY PacketsAssumption
<1> QED BY <1>1 DEF chunkSize

------------------------------------------------------------------------------
(***************************************************************************)
(* The way of a packet.                                                    *)
(***************************************************************************)

\* The frame that Send builds.
Sent(p) == IF p.kind = "icmp" THEN EchoFrame(p) ELSE TCPFrame(p, p.ihl)

\* What is on the wire begins as what was sent, and is at least as long if it
\* was not cut; what the receiver has was parsed from it; the option loop
\* walks over the options.
PacketIInv ==
  /\ packet \in Packets
  /\ phase \in {"send", "wire", "option", "done"}
  /\ phase \in {"send", "wire"} => got = NoPacket /\ optAt = 0
  /\ phase = "send" => how = "built"
  /\ phase # "send" => /\ Agrees(frame, Sent(packet))
                       /\ how # "cut" => Len(frame) >= Len(Sent(packet))
                       /\ how = "built" => frame = Sent(packet)
  /\ phase \in {"option", "done"} =>
       got = IF packet.kind = "tcp" THEN SegmentIn(frame) ELSE EchoReply(frame)
  /\ phase = "option" =>
       packet.kind = "tcp" /\ got.ok = TRUE /\ got.Flags = 2 /\ Walk(got.Options, optAt)
  /\ ChunkSizeNegotiated

\* The frame of a segment is the same with and without sendSegmentAt.
LEMMA SentTypes ==
  ASSUME NEW p \in Packets
  PROVE  /\ Sent(p) \in Seq(Byte)
         /\ p.kind \in {"tcp", "icmp"}
         /\ p.kind = "tcp" => IsSegment(p) /\ Sent(p) = TCPFrame(p, p.ihl)
         /\ p.kind = "icmp" => IsEcho(p) /\ Sent(p) = EchoFrame(p)
<1>1. CASE IsSegment(p)
  <2>1. p.kind = "tcp" BY <1>1 DEF IsSegment
  <2>2. Sent(p) = TCPFrame(p, p.ihl) BY <2>1 DEF Sent
  <2>3. PICK t : FrameOf(TCPFrame(p, p.ihl), p.ihl, 6, LocalIP, RemoteIP, t) BY <1>1, SegmentFramed
  <2>4. Sent(p) \in Seq(Byte) BY <2>2, <2>3 DEF FrameOf, Framed
  <2> QED BY <1>1, <2>1, <2>2, <2>4
<1>2. CASE IsEcho(p)
  <2>1. p.kind = "icmp" BY <1>2 DEF IsEcho
  <2>2. Sent(p) = EchoFrame(p) BY <2>1 DEF Sent
  <2>3. PICK q : FrameOf(EchoFrame(p), p.ihl, 1, LocalIP, RemoteIP, q) BY <1>2, EchoFramed
  <2>4. Sent(p) \in Seq(Byte) BY <2>2, <2>3 DEF FrameOf, Framed
  <2> QED BY <1>2, <2>1, <2>2, <2>4
<1> QED BY <1>1, <1>2, PacketsAssumption

\* What the receiver has of a segment.
LEMMA SegmentGot ==
  ASSUME NEW p \in Packets, p.kind = "tcp", NEW r, Agrees(r, Sent(p)), NEW whole,
         whole => Len(r) >= Len(Sent(p))
  PROVE  LET g == SegmentIn(r) IN
         /\ g = NoPacket \/ g.ok = TRUE
         /\ whole => g.ok = TRUE /\ g.Payload = p.payload
         /\ g.ok = TRUE =>
              /\ g.SeqNum = p.seq /\ g.AckNum = p.ack /\ g.Flags = p.flags /\ g.Window = p.window
              /\ g.Options = Filled(p.options) /\ g.Options \in Seq(Byte)
              /\ Begins(g.Payload, p.payload)
<1> DEFINE g == SegmentIn(r)
<1>1. IsSegment(p) /\ Sent(p) = TCPFrame(p, p.ihl) BY SentTypes
<1>2. Agrees(r, TCPFrame(p, p.ihl)) BY <1>1
<1>3. Arrived(g, p, Len(r) >= Len(TCPFrame(p, p.ihl))) BY <1>1, <1>2, SegmentReceived
<1>4. Filled(p.options) \in Seq(Byte) BY <1>1, SegmentTypes
<1> HIDE DEF g
<1>5. NoPacket.ok = FALSE BY DEF NoPacket
<1>6. g = NoPacket => g.ok = FALSE BY <1>5
<1> QED BY <1>1, <1>3, <1>4, <1>6 DEF Arrived, g

\* The inductive invariant holds before anything is sent.
LEMMA PacketInitInv == PacketInit => PacketIInv
<1> SUFFICES ASSUME PacketInit PROVE PacketIInv OBVIOUS
<1>1. /\ packet \in Packets /\ phase = "send" /\ how = "built" /\ got = NoPacket /\ optAt = 0
  BY DEF PacketInit
<1> QED BY <1>1 DEF PacketIInv, ChunkSizeNegotiated

\* The send step builds the frame.
LEMMA SendInv == PacketIInv /\ Send => PacketIInv'
<1> SUFFICES ASSUME PacketIInv, Send PROVE PacketIInv' OBVIOUS
<1>1. /\ phase = "send" /\ phase' = "wire" /\ packet' = packet /\ how' = how /\ got' = got
      /\ optAt' = optAt /\ mss' = mss
  BY DEF Send
<1>2. packet \in Packets /\ how = "built" /\ got = NoPacket /\ optAt = 0 BY <1>1 DEF PacketIInv
<1>3. frame' = Sent(packet)
  <2>1. CASE packet.kind = "icmp"
    <3>1. packet.kind # "tcp" BY <2>1
    <3> QED BY <2>1, <3>1 DEF Send, Sent
  <2>2. CASE packet.kind = "tcp"
    <3>1. packet.kind # "icmp" BY <2>2
    <3>2. frame' = IF packet.ihl = 5 THEN sendSegmentAt(packet) ELSE TCPFrame(packet, packet.ihl)
      BY <2>2, <3>1 DEF Send
    <3>3. packet.ihl = 5 => sendSegmentAt(packet) = TCPFrame(packet, packet.ihl) BY DEF sendSegmentAt
    <3> QED BY <3>1, <3>2, <3>3 DEF Sent
  <2> QED BY <1>2, <2>1, <2>2, SentTypes
<1>4. Sent(packet) \in Seq(Byte) /\ Len(Sent(packet)) \in Nat BY <1>2, SentTypes
<1>5. Agrees(frame', Sent(packet)) BY <1>3, <1>4 DEF Agrees
<1>6. Len(frame') >= Len(Sent(packet)) BY <1>3, <1>4
<1>7. ChunkSizeNegotiated' BY <1>1 DEF ChunkSizeNegotiated
<1> QED BY <1>1, <1>2, <1>3, <1>5, <1>6, <1>7 DEF PacketIInv

\* Padding adds bytes behind the frame only.
LEMMA PadFrameInv == PacketIInv /\ PadFrame => PacketIInv'
<1> SUFFICES ASSUME PacketIInv, PadFrame PROVE PacketIInv' OBVIOUS
<1> DEFINE f == Sent(packet)
           k == MinFrame - Len(frame)
           z == Zeros(k)
<1>1. /\ phase = "wire" /\ how = "built" /\ Len(frame) < MinFrame /\ frame' = frame \o z
      /\ how' = "padded" /\ packet' = packet /\ phase' = phase /\ got' = got /\ optAt' = optAt
  BY DEF PadFrame
<1>2. packet \in Packets /\ frame = f /\ got = NoPacket /\ optAt = 0 BY <1>1 DEF PacketIInv
<1>3. f \in Seq(Byte) BY <1>2, SentTypes
<1> HIDE DEF f
<1>4. k \in Nat BY <1>1, <1>2, <1>3, PacketsAssumption
<1> HIDE DEF k
<1>5. z \in Seq(Byte) BY <1>4, ZerosFacts
<1> HIDE DEF z
<1>6. /\ f \o z \in Seq(Byte) /\ Len(f \o z) = Len(f) + Len(z)
      /\ \A i \in 1 .. Len(f) : (f \o z)[i] = f[i]
  BY <1>3, <1>5, ConcatFacts
<1> DEFINE r == f \o z
<1> HIDE DEF r
<1>7. Agrees(r, f) /\ Len(r) >= Len(f)
  <2>1. Len(f) \in Nat /\ Len(z) \in Nat BY <1>3, <1>5
  <2>2. r \in Seq(Byte) /\ Len(r) = Len(f) + Len(z) /\ \A i \in 1 .. Len(f) : r[i] = f[i]
    BY <1>6 DEF r
  <2>3. \A i \in 1 .. Len(r) : i <= Len(f) => r[i] = f[i] BY <2>1, <2>2
  <2>4. Len(r) >= Len(f) BY <2>1, <2>2
  <2> QED BY <2>2, <2>3, <2>4 DEF Agrees
<1>8. frame' = r BY <1>1, <1>2 DEF r
<1>9. ChunkSizeNegotiated' BY <1>1 DEF ChunkSizeNegotiated
<1> QED BY <1>1, <1>2, <1>7, <1>8, <1>9 DEF PacketIInv, f

\* What is left of a cut frame begins as the frame did.
LEMMA CutFrameInv == ASSUME NEW n \in Cuts PROVE PacketIInv /\ CutFrame(n) => PacketIInv'
<1> SUFFICES ASSUME PacketIInv, CutFrame(n) PROVE PacketIInv' OBVIOUS
<1> DEFINE f == Sent(packet)
           r == Slice(f, 0, n)
<1>1. /\ phase = "wire" /\ how = "built" /\ n < Len(frame) /\ frame' = Slice(frame, 0, n)
      /\ how' = "cut" /\ packet' = packet /\ phase' = phase /\ got' = got /\ optAt' = optAt
  BY DEF CutFrame
<1>2. packet \in Packets /\ frame = f /\ got = NoPacket /\ optAt = 0 BY <1>1 DEF PacketIInv
<1>3. f \in Seq(Byte) BY <1>2, SentTypes
<1>4. frame' = r BY <1>1, <1>2
<1>5. n \in Nat BY PacketsAssumption
<1> HIDE DEF f
<1>6. Agrees(r, f)
  <2>1. Len(f) \in Nat /\ n <= Len(f) BY <1>1, <1>2, <1>3, <1>5
  <2>2. r \in Seq(Byte) /\ Len(r) = n /\ \A i \in 1 .. n : r[i] = f[i]
    BY <1>3, <1>5, <2>1 DEF Slice
  <2> HIDE DEF r
  <2> QED BY <2>2 DEF Agrees
<1> HIDE DEF r
<1>7. ChunkSizeNegotiated' BY <1>1 DEF ChunkSizeNegotiated
<1> QED BY <1>1, <1>2, <1>4, <1>6, <1>7 DEF PacketIInv, f

\* Receiving a segment parses it; the option loop starts for a SYN.
LEMMA ReceiveSegmentInv == PacketIInv /\ ReceiveSegment => PacketIInv'
<1> SUFFICES ASSUME PacketIInv, ReceiveSegment PROVE PacketIInv' OBVIOUS
<1> DEFINE g == SegmentIn(frame)
<1>1. /\ phase = "wire" /\ packet.kind = "tcp" /\ got' = g
      /\ phase' = (IF got'.ok /\ got'.Flags = 2 THEN "option" ELSE "done")
      /\ packet' = packet /\ frame' = frame /\ how' = how /\ optAt' = optAt /\ mss' = mss
  BY DEF ReceiveSegment
<1>2. /\ packet \in Packets /\ optAt = 0 /\ Agrees(frame, Sent(packet))
      /\ how # "cut" => Len(frame) >= Len(Sent(packet))
      /\ how = "built" => frame = Sent(packet)
  BY <1>1 DEF PacketIInv
<1>3. (g = NoPacket \/ g.ok = TRUE) /\ (g.ok = TRUE => g.Options \in Seq(Byte))
  <2> DEFINE whole == FALSE
  <2>1. whole => Len(frame) >= Len(Sent(packet)) OBVIOUS
  <2> QED BY <1>1, <1>2, <2>1, SegmentGot
<1> HIDE DEF g
<1>4. CASE g.ok = TRUE /\ g.Flags = 2
  <2>1. phase' = "option" BY <1>1, <1>4
  <2>2. Walk(got'.Options, optAt')
    <3> DEFINE o == g.Options
    <3>1. o \in Seq(Byte) BY <1>3, <1>4
    <3> HIDE DEF o
    <3>2. Walk(o, 0) BY <3>1, WalkBegins
    <3> QED BY <1>1, <1>2, <3>2 DEF o
  <2>3. ChunkSizeNegotiated' BY <2>1 DEF ChunkSizeNegotiated
  <2> QED BY <1>1, <1>2, <1>4, <2>1, <2>2, <2>3 DEF PacketIInv, g
<1>5. CASE ~(g.ok = TRUE /\ g.Flags = 2)
  <2>1. ~(g.ok /\ g.Flags = 2)
    <3>1. NoPacket.ok = FALSE BY DEF NoPacket
    <3> QED BY <1>3, <1>5, <3>1
  <2>2. phase' = "done" BY <1>1, <2>1
  <2>3. ChunkSizeNegotiated' BY <1>1, <2>1 DEF ChunkSizeNegotiated
  <2> QED BY <1>1, <1>2, <2>2, <2>3 DEF PacketIInv, g
<1> QED BY <1>4, <1>5

\* Receiving an echo request answers it.
LEMMA ReceiveEchoInv == PacketIInv /\ ReceiveEcho => PacketIInv'
<1> SUFFICES ASSUME PacketIInv, ReceiveEcho PROVE PacketIInv' OBVIOUS
<1>1. /\ phase = "wire" /\ packet.kind = "icmp" /\ packet.kind # "tcp" /\ got' = EchoReply(frame)
      /\ phase' = "done"
      /\ packet' = packet /\ frame' = frame /\ how' = how /\ optAt' = optAt
  BY DEF ReceiveEcho
<1>2. ChunkSizeNegotiated' BY <1>1 DEF ChunkSizeNegotiated
<1> QED BY <1>1, <1>2 DEF PacketIInv

\* A turn of the option loop walks on, or ends with the size advertised.
LEMMA parseMSSOptionInv == PacketIInv /\ parseMSSOption => PacketIInv'
<1> SUFFICES ASSUME PacketIInv, parseMSSOption PROVE PacketIInv' OBVIOUS
<1> DEFINE opts == got.Options
           kind == opts[optAt + 1]
           length == opts[optAt + 2]
<1>1. /\ phase = "option" /\ packet' = packet /\ frame' = frame /\ how' = how /\ got' = got
  BY DEF parseMSSOption
<1>2. /\ packet \in Packets /\ packet.kind = "tcp" /\ got.ok = TRUE /\ got.Flags = 2
      /\ Walk(opts, optAt) /\ got = SegmentIn(frame)
      /\ Agrees(frame, Sent(packet))
      /\ how # "cut" => Len(frame) >= Len(Sent(packet))
      /\ how = "built" => frame = Sent(packet)
  BY <1>1 DEF PacketIInv
<1>3. opts \in Seq(Byte)
  <2> DEFINE whole == FALSE
  <2>1. whole => Len(frame) >= Len(Sent(packet)) OBVIOUS
  <2> QED BY <1>2, <2>1, SegmentGot
<1>4. optAt \in Nat /\ optAt <= Len(opts) /\ Len(opts) \in Nat BY <1>2, <1>3 DEF Walk
<1>5. \/ optAt >= Len(opts) /\ OptionsEnd(defaultMSS)
      \/ optAt < Len(opts) /\ kind = 0 /\ OptionsEnd(defaultMSS)
      \/ optAt < Len(opts) /\ kind = 1 /\ SkipTo(optAt + 1)
      \/ optAt < Len(opts) /\ kind > 1 /\ optAt + 1 >= Len(opts) /\ OptionsEnd(defaultMSS)
      \/ /\ optAt < Len(opts) /\ kind > 1 /\ optAt + 1 < Len(opts)
         /\ IF BadLength(opts, length) THEN OptionsEnd(defaultMSS)
            ELSE IF kind = 2 /\ length = 4 THEN OptionsEnd(Uint16(opts, optAt + 2))
            ELSE SkipTo(optAt + length)
  BY DEF parseMSSOption
<1> HIDE DEF opts
<1>6. optAt < Len(opts) => kind \in Nat
  <2>1. optAt < Len(opts) => optAt + 1 \in 1 .. Len(opts) BY <1>4
  <2> QED BY <1>3, <2>1, ByteAt
<1>7. optAt + 1 < Len(opts) => length \in Nat /\ length < 256
  <2>1. optAt + 1 < Len(opts) => optAt + 2 \in 1 .. Len(opts) BY <1>4
  <2> QED BY <1>3, <2>1, ByteAt
<1>8. ASSUME NEW peer \in Nat, OptionsEnd(peer), AdvertisedMSS(opts) = peer PROVE PacketIInv'
  <2>1. mss' = chunkSize(peer) /\ phase' = "done" BY <1>8 DEF OptionsEnd
  <2>2. chunkSize(peer) = IF peer = 0 THEN defaultMSS ELSE IF peer < ourMSS THEN peer ELSE ourMSS
    BY ChunkSizeIs
  <2>3. AdvertisedMSS(got'.Options) = peer BY <1>1, <1>8 DEF opts
  <2>4. ChunkSizeNegotiated'
    <3> DEFINE q == AdvertisedMSS(got'.Options)
    <3>1. mss' = IF q = 0 THEN defaultMSS ELSE IF q < ourMSS THEN q ELSE ourMSS BY <2>1, <2>2, <2>3
    <3> QED BY <3>1 DEF ChunkSizeNegotiated
  <2> QED BY <1>1, <1>2, <2>1, <2>4 DEF PacketIInv
<1>9. ASSUME NEW z \in Nat, SkipTo(z), optAt < z, z <= Len(opts), ~IsMSSAt(opts, optAt),
             \/ kind = 1 /\ z = optAt + 1
             \/ kind > 1 /\ z >= optAt + 2 /\ length = z - optAt
      PROVE  PacketIInv'
  <2>1. Walk(opts, z) BY <1>2, <1>3, <1>9, WalkGoesOn
  <2>2. optAt' = z /\ phase' = phase BY <1>9 DEF SkipTo
  <2>3. Walk(got'.Options, optAt') BY <1>1, <2>1, <2>2 DEF opts
  <2>4. ChunkSizeNegotiated' BY <1>1, <2>2 DEF ChunkSizeNegotiated
  <2> QED BY <1>1, <1>2, <2>2, <2>3, <2>4 DEF PacketIInv
<1>10. ASSUME OptionsEnd(defaultMSS), optAt > Len(opts) - 4 \/ ~IsMSSAt(opts, optAt),
              \A z \in Nat : optAt < z /\ z <= Len(opts) =>
                ~ \/ kind = 1 /\ z = optAt + 1
                  \/ kind > 1 /\ z >= optAt + 2 /\ length = z - optAt
       PROVE  PacketIInv'
  <2>1. AdvertisedMSS(opts) = defaultMSS BY <1>2, <1>3, <1>10, WalkEnds
  <2>2. defaultMSS \in Nat BY PacketsAssumption
  <2> QED BY <1>8, <1>10, <2>1, <2>2
<1>11. CASE optAt >= Len(opts) /\ OptionsEnd(defaultMSS)
  <2>1. optAt > Len(opts) - 4 /\ \A z \in Nat : ~(optAt < z /\ z <= Len(opts)) BY <1>4, <1>11
  <2> QED BY <1>10, <1>11, <2>1
<1>12. CASE optAt < Len(opts) /\ kind = 0 /\ OptionsEnd(defaultMSS)
  <2>1. ~IsMSSAt(opts, optAt) BY <1>12 DEF IsMSSAt
  <2>2. kind # 1 /\ ~(kind > 1) BY <1>12
  <2> QED BY <1>10, <1>12, <2>1, <2>2
<1>13. CASE optAt < Len(opts) /\ kind = 1 /\ SkipTo(optAt + 1)
  <2>1. ~IsMSSAt(opts, optAt) BY <1>13 DEF IsMSSAt
  <2>2. optAt + 1 \in Nat /\ optAt < optAt + 1 /\ optAt + 1 <= Len(opts) BY <1>4, <1>13
  <2> QED BY <1>9, <1>13, <2>1, <2>2
<1>14. CASE optAt < Len(opts) /\ kind > 1 /\ optAt + 1 >= Len(opts) /\ OptionsEnd(defaultMSS)
  <2>1. optAt > Len(opts) - 4 BY <1>4, <1>14
  <2>2. \A z \in Nat : optAt < z /\ z <= Len(opts) => ~(z >= optAt + 2) BY <1>4, <1>14
  <2>3. kind # 1 BY <1>6, <1>14
  <2> QED BY <1>10, <1>14, <2>1, <2>2, <2>3
<1>15. CASE /\ optAt < Len(opts) /\ kind > 1 /\ optAt + 1 < Len(opts)
            /\ IF BadLength(opts, length) THEN OptionsEnd(defaultMSS)
               ELSE IF kind = 2 /\ length = 4 THEN OptionsEnd(Uint16(opts, optAt + 2))
               ELSE SkipTo(optAt + length)
  <2>1. kind # 1 /\ kind \in Nat /\ length \in Nat BY <1>6, <1>7, <1>15
  <2>2. IsMSSAt(opts, optAt) <=> kind = 2 /\ length = 4 BY DEF IsMSSAt
  <2>3. BadLength(opts, length) <=> length < 2 \/ optAt + length > Len(opts) BY DEF BadLength
  <2>4. CASE BadLength(opts, length)
    <3>1. OptionsEnd(defaultMSS) BY <1>15, <2>4
    <3>2. optAt > Len(opts) - 4 \/ ~IsMSSAt(opts, optAt) BY <1>4, <2>2, <2>3, <2>4
    <3>3. ASSUME NEW z \in Nat, optAt < z, z <= Len(opts), z >= optAt + 2, length = z - optAt
          PROVE  FALSE
      BY <1>4, <2>1, <2>3, <2>4, <3>3
    <3> QED BY <1>10, <2>1, <3>1, <3>2, <3>3
  <2>5. CASE ~BadLength(opts, length) /\ kind = 2 /\ length = 4
    <3> DEFINE m == Uint16(opts, optAt + 2)
    <3>1. OptionsEnd(m) BY <1>15, <2>5
    <3>2. optAt <= Len(opts) - 4 /\ IsMSSAt(opts, optAt) BY <1>4, <2>2, <2>3, <2>5
    <3>3. AdvertisedMSS(opts) = m BY <1>2, <1>3, <3>2, WalkFinds
    <3>4. m \in Nat
      <4>1. optAt + 2 + 1 \in 1 .. Len(opts) /\ optAt + 2 + 2 \in 1 .. Len(opts) BY <1>4, <3>2
      <4>2. opts[optAt + 2 + 1] \in Nat /\ opts[optAt + 2 + 2] \in Nat BY <1>3, <4>1, ByteAt
      <4> QED BY <4>2 DEF Uint16
    <3> HIDE DEF m
    <3> QED BY <1>8, <3>1, <3>3, <3>4
  <2>6. CASE ~BadLength(opts, length) /\ ~(kind = 2 /\ length = 4)
    <3> DEFINE z == optAt + length
    <3>1. SkipTo(z) BY <1>15, <2>6
    <3>2. z \in Nat /\ optAt < z /\ z <= Len(opts) /\ z >= optAt + 2 /\ length = z - optAt
      BY <1>4, <2>1, <2>3, <2>6
    <3>3. ~IsMSSAt(opts, optAt) BY <2>2, <2>6
    <3> HIDE DEF z, kind, length
    <3>4. kind > 1 BY <1>15
    <3> QED BY <1>9, <3>1, <3>2, <3>3, <3>4
  <2> QED BY <2>4, <2>5, <2>6
<1> QED BY <1>5, <1>11, <1>12, <1>13, <1>14, <1>15

\* The inductive invariant holds in every reachable state.
THEOREM PacketInvariant == PacketSpec => []PacketIInv
<1>1. PacketInit => PacketIInv BY PacketInitInv
<1>2. PacketIInv /\ [PacketNext]_packetVars => PacketIInv'
  <2> SUFFICES ASSUME PacketIInv, [PacketNext]_packetVars PROVE PacketIInv' OBVIOUS
  <2>1. CASE Send BY <2>1, SendInv
  <2>2. CASE PadFrame BY <2>2, PadFrameInv
  <2>3. ASSUME NEW n \in Cuts, CutFrame(n) PROVE PacketIInv' BY <2>3, CutFrameInv
  <2>4. CASE ReceiveSegment BY <2>4, ReceiveSegmentInv
  <2>5. CASE ReceiveEcho BY <2>5, ReceiveEchoInv
  <2>6. CASE parseMSSOption BY <2>6, parseMSSOptionInv
  <2>7. CASE UNCHANGED packetVars
    <3>1. /\ packet' = packet /\ frame' = frame /\ how' = how /\ phase' = phase /\ got' = got
          /\ optAt' = optAt /\ mss' = mss
      BY <2>7 DEF packetVars
    <3>2. ChunkSizeNegotiated' BY <3>1 DEF PacketIInv, ChunkSizeNegotiated
    <3> QED BY <3>1, <3>2 DEF PacketIInv
  <2> QED BY <2>1, <2>2, <2>3, <2>4, <2>5, <2>6, <2>7 DEF PacketNext
<1> QED BY <1>1, <1>2, PTL DEF PacketSpec

\* After a SYN, whatever bytes its options are, parseMSSOption, handleSYN and
\* pumpSendLocked use the size the RFC reads out of them.
THEOREM ChunkSizeSafe == PacketSpec => []ChunkSizeNegotiated
<1>1. PacketIInv => ChunkSizeNegotiated BY DEF PacketIInv
<1> QED BY <1>1, PacketInvariant, PTL

\* Every segment that fits an IP packet comes out of the Parse functions as it
\* went into the FlushToBytes functions, padded or not; a cut one is refused or
\* shortened in its payload only.
THEOREM PacketsArrive == PacketSpec => []PacketArrives
<1>1. ASSUME PacketIInv PROVE PacketArrives
  <2> SUFFICES ASSUME packet.kind = "tcp", phase \in {"option", "done"}
               PROVE  /\ how # "cut" => got.ok /\ got.Payload = packet.payload
                      /\ got.ok => /\ got.SeqNum = packet.seq /\ got.AckNum = packet.ack
                                   /\ got.Flags = packet.flags /\ got.Window = packet.window
                                   /\ got.Options = Filled(packet.options)
                                   /\ Begins(got.Payload, packet.payload)
    BY DEF PacketArrives
  <2> DEFINE whole == how # "cut"
  <2>1. phase # "send" OBVIOUS
  <2>2. /\ packet \in Packets /\ Agrees(frame, Sent(packet)) /\ got = SegmentIn(frame)
        /\ whole => Len(frame) >= Len(Sent(packet))
    BY <1>1, <2>1 DEF PacketIInv
  <2> HIDE DEF whole
  <2>3. /\ got = NoPacket \/ got.ok = TRUE
        /\ whole => got.ok = TRUE /\ got.Payload = packet.payload
        /\ got.ok = TRUE =>
              /\ got.SeqNum = packet.seq /\ got.AckNum = packet.ack
              /\ got.Flags = packet.flags /\ got.Window = packet.window
              /\ got.Options = Filled(packet.options) /\ Begins(got.Payload, packet.payload)
    BY <2>2, SegmentGot
  <2>4. NoPacket.ok = FALSE BY DEF NoPacket
  <2>5. got.ok <=> got.ok = TRUE BY <2>3, <2>4
  <2> QED BY <2>3, <2>5 DEF whole
<1> QED BY <1>1, PacketInvariant, PTL

\* Every receiver's check of the checksums that IPv4FlushToBytes,
\* calculateTCPChecksum and the echo server compute succeeds, whatever the
\* bytes and however many there are, and a reply carries the request's data.
THEOREM ChecksumsSafe == PacketSpec => []ChecksumsVerify
<1>1. ASSUME PacketIInv PROVE ChecksumsVerify
  <2> DEFINE f == IF packet.kind = "icmp" /\ got.ok THEN got.bytes ELSE frame
             header == Slice(f, 14, 14 + 4 * (f[15] % 16))
             rest == Slice(f, 14 + 4 * (f[15] % 16), 14 + Uint16(f, 16))
  <2>1. packet \in Packets BY <1>1 DEF PacketIInv
  <2>2. /\ packet.kind \in {"tcp", "icmp"}
        /\ packet.kind = "tcp" => IsSegment(packet) /\ Sent(packet) = TCPFrame(packet, packet.ihl)
        /\ packet.kind = "icmp" => IsEcho(packet) /\ Sent(packet) = EchoFrame(packet)
    BY <2>1, SentTypes
  <2>3. ASSUME phase = "wire", how # "cut"
        PROVE  /\ Verifies(header)
               /\ packet.kind = "tcp" => Verifies(PseudoHeader(LocalIP, RemoteIP, Len(rest)) \o rest)
    <3>1. got = NoPacket /\ Agrees(frame, Sent(packet)) /\ Len(frame) >= Len(Sent(packet))
      BY <1>1, <2>3 DEF PacketIInv
    <3>2. f = frame
      <4>1. NoPacket.ok = FALSE BY DEF NoPacket
      <4> QED BY <3>1, <4>1
    <3> HIDE DEF f
    <3>3. CASE packet.kind = "tcp"
      <4> DEFINE i == packet.ihl
                 s == TCPFrame(packet, packet.ihl)
      <4>1. IsSegment(packet) /\ IsIHL(i) /\ Agrees(f, s) /\ Len(f) >= Len(s)
        BY <2>2, <3>1, <3>2, <3>3 DEF IsSegment
      <4>2. PICK t : /\ Carries(t, packet) /\ FrameOf(s, i, 6, LocalIP, RemoteIP, t)
                     /\ Verifies(PseudoHeader(LocalIP, RemoteIP, Len(t)) \o t)
        BY <4>1, SegmentFramed
      <4>3. t \in Seq(Byte) BY <4>2 DEF Carries
      <4> HIDE DEF i, s
      <4>4. Verifies(header) /\ rest = t BY <4>1, <4>2, <4>3, FrameParts
      <4> QED BY <4>2, <4>4
    <3>4. CASE packet.kind = "icmp"
      <4> DEFINE i == packet.ihl
                 s == EchoFrame(packet)
      <4>1. IsEcho(packet) /\ IsIHL(i) /\ Agrees(f, s) /\ Len(f) >= Len(s)
        BY <2>2, <3>1, <3>2, <3>4 DEF IsEcho
      <4>2. PICK q : q \in Seq(Byte) /\ FrameOf(s, i, 1, LocalIP, RemoteIP, q) BY <4>1, EchoFramed
      <4> HIDE DEF i, s
      <4>3. Verifies(header) BY <4>1, <4>2, FrameParts
      <4>4. packet.kind # "tcp" BY <3>4
      <4> QED BY <4>3, <4>4
    <3> QED BY <2>2, <3>3, <3>4
  <2>4. ASSUME phase = "done", packet.kind = "icmp", how # "cut"
        PROVE  /\ got.ok /\ Verifies(header) /\ Verifies(rest)
               /\ rest[1] = 0 /\ Slice(rest, 4, Len(rest)) = Slice(packet.icmp, 4, Len(packet.icmp))
    <3>1. packet.kind # "tcp" BY <2>4
    <3>2. got = EchoReply(frame) /\ Agrees(frame, Sent(packet)) /\ Len(frame) >= Len(Sent(packet))
      BY <1>1, <2>4, <3>1 DEF PacketIInv
    <3>3. IsEcho(packet) /\ Agrees(frame, EchoFrame(packet)) /\ Len(frame) >= Len(EchoFrame(packet))
      BY <2>2, <2>4, <3>2
    <3>4. Answered(got, packet) BY <3>2, <3>3, EchoAnswered
    <3>5. got.ok = TRUE BY <3>4 DEF Answered
    <3>6. f = got.bytes BY <2>4, <3>5
    <3> HIDE DEF f
    <3>7. PICK s : /\ s \in Seq(Byte) /\ FrameOf(f, 5, 1, RemoteIP, LocalIP, s)
                   /\ Verifies(s) /\ s[1] = 0
                   /\ Slice(s, 4, Len(s)) = Slice(packet.icmp, 4, Len(packet.icmp))
      BY <3>4, <3>6 DEF Answered
    <3>8. Agrees(f, f) /\ Len(f) >= Len(f)
      <4>1. f \in Seq(Byte) BY <3>7 DEF FrameOf, Framed
      <4>2. Len(f) \in Nat BY <4>1
      <4> QED BY <4>1, <4>2 DEF Agrees
    <3> DEFINE i == 5
    <3>9. IsIHL(i) BY DEF IsIHL
    <3>10. FrameOf(f, i, 1, RemoteIP, LocalIP, s) BY <3>7
    <3> HIDE DEF i
    <3>11. Verifies(header) /\ rest = s BY <3>7, <3>8, <3>9, <3>10, FrameParts
    <3> QED BY <3>5, <3>7, <3>11
  <2> QED BY <2>3, <2>4 DEF ChecksumsVerify
<1> QED BY <1>1, PacketInvariant, PTL

------------------------------------------------------------------------------
(***************************************************************************)
(* Byte strings one behind the other.                                      *)
(***************************************************************************)

\* Concatenation under a name, which the provers leave alone.
a ++ b == a \o b

\* t[n] is the first n parts, joined.
IsJoining(t, p, N) == t = [n \in 0 .. N |-> IF n = 0 THEN <<>> ELSE t[n - 1] ++ p[n]]

\* The joining of any parts exists up to any number of them.
LEMMA JoiningExists ==
  ASSUME NEW N \in Nat, NEW p
  PROVE  \E t : IsJoining(t, p, N)
<1> DEFINE T == {n \in Nat : \E t : IsJoining(t, p, n)}
<1>1. 0 \in T
  <2> DEFINE t == [n \in 0 .. 0 |-> <<>>]
  <2>1. t = [n \in 0 .. 0 |-> IF n = 0 THEN <<>> ELSE t[n - 1] ++ p[n]] OBVIOUS
  <2>2. IsJoining(t, p, 0) BY <2>1 DEF IsJoining
  <2> QED BY <2>2
<1>2. ASSUME NEW n \in 1 .. N, n - 1 \in T PROVE n \in T
  <2>1. PICK t : IsJoining(t, p, n - 1) BY <1>2
  <2> DEFINE u == [k \in 0 .. n |-> IF k = n THEN t[n - 1] ++ p[n] ELSE t[k]]
  <2>2. \A k \in 0 .. n - 1 : u[k] = t[k] OBVIOUS
  <2>3. \A k \in 0 .. n - 1 : t[k] = IF k = 0 THEN <<>> ELSE t[k - 1] ++ p[k] BY <2>1 DEF IsJoining
  <2>4. \A k \in 0 .. n : u[k] = IF k = 0 THEN <<>> ELSE u[k - 1] ++ p[k]
    <3> TAKE k \in 0 .. n
    <3>1. CASE k = n BY <3>1, <2>2
    <3>2. CASE k # n /\ k = 0 BY <3>2, <2>2, <2>3
    <3>3. CASE k # n /\ k # 0
      <4>1. k \in 0 .. n - 1 /\ k - 1 \in 0 .. n - 1 BY <3>3
      <4> QED BY <4>1, <3>3, <2>2, <2>3
    <3> QED BY <3>1, <3>2, <3>3
  <2>5. u = [k \in 0 .. n |-> u[k]] OBVIOUS
  <2> HIDE DEF u
  <2>6. u = [k \in 0 .. n |-> IF k = 0 THEN <<>> ELSE u[k - 1] ++ p[k]] BY <2>4, <2>5
  <2> QED BY <2>6 DEF IsJoining
<1> HIDE DEF T
<1>3. N \in T BY <1>1, <1>2, Induction
<1> QED BY <1>3 DEF T

\* There is only one.
LEMMA JoiningUnique ==
  ASSUME NEW N \in Nat, NEW p, NEW t, NEW u, IsJoining(t, p, N), IsJoining(u, p, N)
  PROVE  t = u
<1> DEFINE T == {n \in 0 .. N : t[n] = u[n]}
<1>1. \A n \in 0 .. N : t[n] = IF n = 0 THEN <<>> ELSE t[n - 1] ++ p[n] BY DEF IsJoining
<1>2. \A n \in 0 .. N : u[n] = IF n = 0 THEN <<>> ELSE u[n - 1] ++ p[n] BY DEF IsJoining
<1>3. 0 \in T BY <1>1, <1>2
<1>4. ASSUME NEW n \in 1 .. N, n - 1 \in T PROVE n \in T BY <1>1, <1>2, <1>4
<1> HIDE DEF T
<1>5. \A n \in 0 .. N : n \in T BY <1>3, <1>4, Induction
<1>6. \A n \in 0 .. N : t[n] = u[n] BY <1>5 DEF T
<1> QED BY <1>6 DEF IsJoining

\* The first N parts, joined.
JoinedTo(p, N) == (CHOOSE t : IsJoining(t, p, N))[N]

\* Joined is all of them.
LEMMA JoinedIs ==
  ASSUME NEW p
  PROVE  Joined(p) = JoinedTo(p, Len(p))
BY DEF Joined, JoinedTo, IsJoining, ++

\* How a joining grows.
LEMMA JoinGrows ==
  ASSUME NEW N \in Nat, NEW p
  PROVE  /\ JoinedTo(p, 0) = <<>>
         /\ N > 0 => JoinedTo(p, N) = JoinedTo(p, N - 1) ++ p[N]
<1>1. ASSUME NEW n \in Nat, NEW t, IsJoining(t, p, n) PROVE JoinedTo(p, n) = t[n]
  BY <1>1, JoiningUnique DEF JoinedTo
<1>2. JoinedTo(p, 0) = <<>>
  <2>1. PICK t : IsJoining(t, p, 0) BY JoiningExists
  <2>2. t[0] = <<>>
    <3>1. t = [n \in 0 .. 0 |-> IF n = 0 THEN <<>> ELSE t[n - 1] ++ p[n]] BY <2>1 DEF IsJoining
    <3>2. 0 \in 0 .. 0 OBVIOUS
    <3> QED BY <3>1, <3>2
  <2> QED BY <1>1, <2>1, <2>2
<1>3. ASSUME N > 0 PROVE JoinedTo(p, N) = JoinedTo(p, N - 1) ++ p[N]
  <2>1. PICK t : IsJoining(t, p, N) BY JoiningExists
  <2>2. \A n \in 0 .. N : t[n] = IF n = 0 THEN <<>> ELSE t[n - 1] ++ p[n] BY <2>1 DEF IsJoining
  <2> DEFINE u == [n \in 0 .. N - 1 |-> t[n]]
  <2>3. \A n \in 0 .. N - 1 : u[n] = IF n = 0 THEN <<>> ELSE u[n - 1] ++ p[n]
    <3> TAKE n \in 0 .. N - 1
    <3>1. n \in 0 .. N /\ (n # 0 => n - 1 \in 0 .. N - 1) OBVIOUS
    <3> QED BY <3>1, <2>2
  <2>4. u = [n \in 0 .. N - 1 |-> u[n]] OBVIOUS
  <2>5. u[N - 1] = t[N - 1] BY <1>3
  <2> HIDE DEF u
  <2>6. IsJoining(u, p, N - 1) BY <2>3, <2>4 DEF IsJoining
  <2>7. N - 1 \in Nat BY <1>3
  <2> QED BY <1>1, <1>3, <2>1, <2>2, <2>5, <2>6, <2>7
<1> QED BY <1>2, <1>3

\* The type of a joining.
LEMMA JoinType ==
  ASSUME NEW N \in Nat, NEW p, \A n \in 1 .. N : p[n] \in Seq(Byte)
  PROVE  JoinedTo(p, N) \in Seq(Byte)
<1> DEFINE T == {n \in 0 .. N : JoinedTo(p, n) \in Seq(Byte)}
<1>1. 0 \in T
  <2>1. JoinedTo(p, 0) = <<>> BY JoinGrows
  <2>2. <<>> \in Seq(Byte) OBVIOUS
  <2>3. JoinedTo(p, 0) \in Seq(Byte) BY <2>1, <2>2, Zenon
  <2> QED BY <2>3
<1>2. ASSUME NEW n \in 1 .. N, n - 1 \in T PROVE n \in T
  <2>1. n \in Nat /\ n > 0 /\ p[n] \in Seq(Byte) OBVIOUS
  <2>2. JoinedTo(p, n) = JoinedTo(p, n - 1) ++ p[n] BY <2>1, JoinGrows
  <2>3. JoinedTo(p, n - 1) \in Seq(Byte) BY <1>2
  <2>4. JoinedTo(p, n - 1) \o p[n] \in Seq(Byte) BY <2>1, <2>3, ConcatProperties
  <2>5. JoinedTo(p, n) \in Seq(Byte) BY <2>2, <2>4 DEF ++
  <2> QED BY <2>5
<1> HIDE DEF T
<1>3. \A n \in 0 .. N : n \in T BY <1>1, <1>2, Induction
<1> QED BY <1>3 DEF T

\* A joining depends on the joined parts only.
LEMMA JoinSame ==
  ASSUME NEW N \in Nat, NEW p, NEW q, \A n \in 1 .. N : p[n] = q[n]
  PROVE  JoinedTo(p, N) = JoinedTo(q, N)
<1> DEFINE T == {n \in 0 .. N : JoinedTo(p, n) = JoinedTo(q, n)}
<1>1. 0 \in T BY JoinGrows
<1>2. ASSUME NEW n \in 1 .. N, n - 1 \in T PROVE n \in T
  <2>1. n \in Nat /\ n > 0 /\ p[n] = q[n] OBVIOUS
  <2>2. JoinedTo(p, n) = JoinedTo(p, n - 1) ++ p[n] BY <2>1, JoinGrows
  <2>3. JoinedTo(q, n) = JoinedTo(q, n - 1) ++ q[n] BY <2>1, JoinGrows
  <2>4. JoinedTo(p, n) = JoinedTo(q, n) BY <1>2, <2>1, <2>2, <2>3
  <2> QED BY <2>4
<1> HIDE DEF T
<1>3. \A n \in 0 .. N : n \in T BY <1>1, <1>2, Induction
<1> QED BY <1>3 DEF T

\* A joining begins with every shorter one.
LEMMA JoinRest ==
  ASSUME NEW N \in Nat, NEW p, \A n \in 1 .. N : p[n] \in Seq(Byte), NEW j \in 0 .. N
  PROVE  \E s \in Seq(Byte) : JoinedTo(p, N) = JoinedTo(p, j) ++ s
<1> DEFINE M == N - j
           T == {n \in 0 .. M : \E s \in Seq(Byte) : JoinedTo(p, j + n) = JoinedTo(p, j) ++ s}
<1>0. M \in Nat /\ j \in Nat /\ j + M = N OBVIOUS
<1>t. JoinedTo(p, j) \in Seq(Byte)
  <2>1. j \in Nat /\ \A n \in 1 .. j : p[n] \in Seq(Byte) OBVIOUS
  <2> QED BY <2>1, JoinType
<1>1. 0 \in T
  <2>1. JoinedTo(p, j) = JoinedTo(p, j) ++ <<>> BY <1>t, ConcatEmptySeq DEF ++
  <2>2. j + 0 = j BY <1>0
  <2>3. <<>> \in Seq(Byte) OBVIOUS
  <2>4. JoinedTo(p, j + 0) = JoinedTo(p, j) ++ <<>> BY <2>1, <2>2
  <2>5. 0 \in 0 .. M BY <1>0
  <2> HIDE DEF M
  <2> QED BY <2>3, <2>4, <2>5, Zenon
<1>2. ASSUME NEW n \in 1 .. M, n - 1 \in T PROVE n \in T
  <2>1. PICK s \in Seq(Byte) : JoinedTo(p, j + (n - 1)) = JoinedTo(p, j) ++ s BY <1>2
  <2>2. j + n \in Nat /\ j + n > 0 /\ (j + n) - 1 = j + (n - 1) /\ j + n \in 1 .. N BY <1>0
  <2>3. JoinedTo(p, j + n) = JoinedTo(p, j + (n - 1)) ++ p[j + n] BY <2>2, JoinGrows
  <2>4. p[j + n] \in Seq(Byte) BY <2>2
  <2> DEFINE a == JoinedTo(p, j)
             b == p[j + n]
  <2>5. a \in Seq(Byte) /\ b \in Seq(Byte) BY <1>t, <2>4
  <2>6. JoinedTo(p, j + n) = (a ++ s) ++ b BY <2>1, <2>3
  <2> HIDE DEF a, b
  <2>7. (a \o s) \o b = a \o (s \o b) /\ s \o b \in Seq(Byte)
    BY <2>5, ConcatAssociative, ConcatProperties
  <2>8. JoinedTo(p, j + n) = a ++ (s \o b) BY <2>6, <2>7 DEF ++
  <2>9. JoinedTo(p, j + n) = JoinedTo(p, j) ++ (s \o b) BY <2>8 DEF a
  <2>10. n \in 0 .. M BY <1>0
  <2> HIDE DEF M
  <2> QED BY <2>7, <2>9, <2>10, Zenon
<1> HIDE DEF T, M
<1>3. \A n \in 0 .. M : n \in T BY <1>0, <1>1, <1>2, Induction
<1>4. \E s \in Seq(Byte) : JoinedTo(p, j + M) = JoinedTo(p, j) ++ s
  <2>1. M \in T BY <1>0, <1>3
  <2> QED BY <2>1 DEF T
<1> QED BY <1>0, <1>4

\* Concatenation of byte strings.
LEMMA CatFacts ==
  ASSUME NEW a \in Seq(Byte), NEW b \in Seq(Byte)
  PROVE  a ++ b \in Seq(Byte) /\ Len(a ++ b) = Len(a) + Len(b) /\ Len(a) \in Nat /\ Len(b) \in Nat
BY ConcatFacts DEF ++

\* It is associative.
LEMMA CatAssociative ==
  ASSUME NEW a \in Seq(Byte), NEW b \in Seq(Byte), NEW c \in Seq(Byte)
  PROVE  (a ++ b) ++ c = a ++ (b ++ c)
BY ConcatAssociative DEF ++

\* The empty string is neutral.
LEMMA CatEmpty ==
  ASSUME NEW a \in Seq(Byte)
  PROVE  a ++ <<>> = a /\ <<>> ++ a = a /\ <<>> \in Seq(Byte) /\ Len(<<>>) = 0
<1>1. a ++ <<>> = a /\ <<>> ++ a = a BY ConcatEmptySeq DEF ++
<1> QED BY <1>1

\* What stands behind the same string can be told.
LEMMA CatCancel ==
  ASSUME NEW a \in Seq(Byte), NEW b \in Seq(Byte), NEW c \in Seq(Byte), a ++ b = a ++ c
  PROVE  b = c
BY ConcatSimplifications DEF ++

\* Only the empty string has no bytes.
LEMMA NoBytes ==
  ASSUME NEW a \in Seq(Byte)
  PROVE  Len(a) \in Nat /\ (Len(a) = 0 <=> a = <<>>)
BY EmptySeq

\* Where a concatenation was put together, it can be cut.
LEMMA CatCut ==
  ASSUME NEW a \in Seq(Byte), NEW b \in Seq(Byte)
  PROVE  /\ Slice(a ++ b, 0, Len(a)) = a /\ Slice(a ++ b, Len(a), Len(a ++ b)) = b
         /\ \A i \in 1 .. Len(a) : (a ++ b)[i] = a[i]
         /\ \A i \in 1 .. Len(b) : (a ++ b)[Len(a) + i] = b[i]
<1> DEFINE c == a ++ b
           z == 0
           m == Len(a)
           n == Len(c)
           x == Slice(c, z, m)
           y == Slice(c, m, n)
<1>1. /\ c \in Seq(Byte) /\ n = m + Len(b)
      /\ \A i \in 1 .. m : c[i] = a[i]
      /\ \A i \in 1 .. Len(b) : c[m + i] = b[i]
  BY ConcatFacts DEF ++
<1> HIDE DEF c
<1>2. /\ z \in Nat /\ m \in Nat /\ n \in Nat /\ z <= m /\ m <= n /\ m <= Len(c) /\ n <= Len(c)
      /\ m - z = m /\ n - m = Len(b) /\ \A i \in 1 .. m : z + i = i
  BY <1>1
<1>3. m = Len(a) /\ n = Len(c) OBVIOUS
<1> HIDE DEF z, m, n
<1>c. c \in Seq(Byte) BY <1>1
<1>4. x \in Seq(Byte) /\ Len(x) = m - z /\ \A i \in 1 .. m - z : x[i] = c[z + i]
  <2>1. z \in Nat /\ m \in Nat /\ z <= m /\ m <= Len(c) BY <1>2
  <2> QED BY <1>c, <2>1, SliceFacts
<1>5. y \in Seq(Byte) /\ Len(y) = n - m /\ \A i \in 1 .. n - m : y[i] = c[m + i]
  <2>1. m \in Nat /\ n \in Nat /\ m <= n /\ n <= Len(c) BY <1>2
  <2> QED BY <1>c, <2>1, SliceFacts
<1> HIDE DEF x, y
<1>6. x = a
  <2>1. Len(x) = Len(a) /\ \A i \in 1 .. Len(a) : x[i] = a[i] BY <1>1, <1>2, <1>3, <1>4
  <2> QED BY <1>4, <2>1, SeqEqual
<1>7. y = b
  <2>1. Len(y) = Len(b) /\ \A i \in 1 .. Len(b) : y[i] = b[i] BY <1>1, <1>2, <1>5
  <2> QED BY <1>5, <2>1, SeqEqual
<1> QED BY <1>1, <1>3, <1>6, <1>7 DEF c, x, y, z, m, n

\* The parts p, none of them empty, up to L of them.
IsParts(p, L) == L \in Nat /\ \A k \in 1 .. L : p[k] \in Seq(Byte) /\ Len(p[k]) > 0

\* Behind the first N parts stands the next one, until there is none.
LEMMA RestOfParts ==
  ASSUME NEW p, NEW L, IsParts(p, L), NEW N \in 0 .. L, NEW c \in Seq(Byte),
         JoinedTo(p, L) = JoinedTo(p, N) ++ c
  PROVE  /\ N = L <=> c = <<>>
         /\ N # L => \E s \in Seq(Byte) : c = p[N + 1] ++ s /\ JoinedTo(p, L) = JoinedTo(p, N + 1) ++ s
<1> DEFINE j == N + 1
           P == JoinedTo(p, N)
           w == p[j]
<1>0. L \in Nat /\ N \in Nat /\ \A k \in 1 .. L : p[k] \in Seq(Byte) /\ Len(p[k]) > 0 BY DEF IsParts
<1>1. P \in Seq(Byte)
  <2>1. \A k \in 1 .. N : p[k] \in Seq(Byte) BY <1>0
  <2> QED BY <1>0, <2>1, JoinType
<1>2. ASSUME N = L PROVE c = <<>>
  <2>1. P = P ++ c BY <1>2
  <2> HIDE DEF P
  <2>2. P ++ <<>> = P BY <1>1, CatEmpty
  <2>3. <<>> \in Seq(Byte) /\ P ++ c = P ++ <<>>
    <3>1. <<>> \in Seq(Byte) OBVIOUS
    <3> QED BY <2>1, <2>2, <3>1, Zenon
  <2> QED BY <1>1, <2>3, CatCancel, Zenon
<1>3. ASSUME N # L
      PROVE  c # <<>> /\ \E s \in Seq(Byte) : c = w ++ s /\ JoinedTo(p, L) = JoinedTo(p, j) ++ s
  <2>1. j \in 1 .. L /\ j \in 0 .. L /\ j \in Nat /\ j > 0 /\ j - 1 = N BY <1>0, <1>3
  <2>2. w \in Seq(Byte) /\ Len(w) > 0 BY <1>0, <2>1
  <2>3. JoinedTo(p, j) = P ++ w
    <3> HIDE DEF j
    <3> QED BY <2>1, JoinGrows
  <2>4. PICK s \in Seq(Byte) : JoinedTo(p, L) = JoinedTo(p, j) ++ s
    <3>1. \A k \in 1 .. L : p[k] \in Seq(Byte) BY <1>0
    <3> HIDE DEF j
    <3> QED BY <1>0, <2>1, <3>1, JoinRest
  <2>5. P ++ c = (P ++ w) ++ s BY <2>3, <2>4
  <2> HIDE DEF P, w
  <2>6. (P ++ w) ++ s = P ++ (w ++ s) BY <1>1, <2>2, CatAssociative
  <2>7. w ++ s \in Seq(Byte) /\ Len(w ++ s) = Len(w) + Len(s) /\ Len(w) \in Nat /\ Len(s) \in Nat
    BY <2>2, CatFacts
  <2>8. P ++ c = P ++ (w ++ s) BY <2>5, <2>6
  <2>9. c = w ++ s
    <3> DEFINE d == w ++ s
    <3>1. d \in Seq(Byte) /\ P ++ c = P ++ d BY <2>7, <2>8
    <3> HIDE DEF d
    <3>2. c = d BY <1>1, <3>1, CatCancel
    <3> QED BY <3>2 DEF d
  <2>10. Len(c) > 0
    <3>1. Len(w ++ s) > 0 BY <2>2, <2>7
    <3> QED BY <2>9, <3>1
  <2>11. c # <<>> BY <2>10, NoBytes
  <2> QED BY <2>4, <2>9, <2>11
<1> QED BY <1>2, <1>3

------------------------------------------------------------------------------
(***************************************************************************)
(* Reading undoes writing.                                                 *)
(***************************************************************************)

\* The fields of a result.
LEMMA ReadFields ==
  ASSUME NEW v, NEW r
  PROVE  Read(v, r).ok /\ Read(v, r).v = v /\ Read(v, r).rest = r /\ ~Failed.ok
BY DEF Read, Failed

\* readBytes of bytes that are there.
LEMMA ReadBytesBack ==
  ASSUME NEW b \in Seq(Byte), NEW r \in Seq(Byte)
  PROVE  readBytes(b ++ r, Len(b)) = Read(b, r)
<1> DEFINE c == b ++ r
<1>1. /\ Len(c) = Len(b) + Len(r) /\ Len(b) \in Nat /\ Len(r) \in Nat BY CatFacts
<1>2. Slice(c, 0, Len(b)) = b /\ Slice(c, Len(b), Len(c)) = r BY CatCut
<1> HIDE DEF c
<1>3. ~(Len(c) < Len(b)) BY <1>1
<1>4. readBytes(c, Len(b)) = Read(b, r) BY <1>2, <1>3, Zenon DEF readBytes
<1> QED BY <1>4 DEF c

\* readU8 of a byte.
LEMMA ReadU8Back ==
  ASSUME NEW n \in Byte, NEW r \in Seq(Byte)
  PROVE  readU8(<<n>> ++ r) = Read(n, r) /\ <<n>> \in Seq(Byte) /\ Len(<<n>>) = 1
<1> DEFINE b == <<n>>
           c == b ++ r
<1>1. b \in Seq(Byte) /\ Len(b) = 1 /\ b[1] = n OBVIOUS
<1> HIDE DEF b
<1>2. /\ c \in Seq(Byte) /\ Len(c) = Len(b) + Len(r) BY <1>1, CatFacts
<1>3. /\ Slice(c, Len(b), Len(c)) = r /\ \A i \in 1 .. Len(b) : c[i] = b[i] BY <1>1, CatCut
<1> HIDE DEF c
<1>4. Len(r) \in Nat /\ c # <<>> /\ ~(Len(c) < 1) /\ c[1] = n BY <1>1, <1>2, <1>3
<1>5. Tail(c) = r
  <2>1. Tail(c) = SubSeq(c, 2, Len(c)) BY <1>2, <1>4, TailIsSubSeq
  <2>2. Slice(c, Len(b), Len(c)) = SubSeq(c, 2, Len(c)) BY <1>1 DEF Slice
  <2> QED BY <1>3, <2>1, <2>2
<1>6. readU8(c) = Read(n, r) BY <1>4, <1>5, Zenon DEF readU8
<1> QED BY <1>1, <1>6 DEF b, c

\* readU16 of a number of sixteen bits.
LEMMA ReadU16Back ==
  ASSUME NEW n \in Word, NEW r \in Seq(Byte)
  PROVE  readU16(U16(n) ++ r) = Read(n, r) /\ U16(n) \in Seq(Byte) /\ Len(U16(n)) = 2
<1> DEFINE b == U16(n)
           c == b ++ r
<1>1. b \in Seq(Byte) /\ Len(b) = 2 /\ b[1] * 256 + b[2] = n
  <2>1. n \in Nat /\ n < 65536 BY DEF Word
  <2> QED BY <2>1, U16Facts
<1> HIDE DEF b
<1>2. /\ c \in Seq(Byte) /\ Len(c) = Len(b) + Len(r) BY <1>1, CatFacts
<1>3. /\ Slice(c, Len(b), Len(c)) = r /\ \A i \in 1 .. Len(b) : c[i] = b[i] BY <1>1, CatCut
<1> HIDE DEF c
<1>4. Len(r) \in Nat /\ ~(Len(c) < 2) /\ c[1] = b[1] /\ c[2] = b[2] BY <1>1, <1>2, <1>3
<1>5. Uint16(c, 0) = n /\ Slice(c, 2, Len(c)) = r BY <1>1, <1>3, <1>4 DEF Uint16
<1>6. readU16(c) = Read(n, r) BY <1>4, <1>5, Zenon DEF readU16
<1> QED BY <1>1, <1>6 DEF b, c

\* readVector of a vector with a length of one byte.
LEMMA ReadVector1Back ==
  ASSUME NEW b \in Seq(Byte), Len(b) \in Byte, NEW r \in Seq(Byte)
  PROVE  /\ readVector(appendU8Vector(b) ++ r, 1) = Read(b, r)
         /\ appendU8Vector(b) \in Seq(Byte) /\ Len(appendU8Vector(b)) = 1 + Len(b)
<1> DEFINE n == Len(b)
           x == <<n>>
           d == b ++ r
           c == x ++ d
<1>1. n \in Byte /\ d \in Seq(Byte) BY CatFacts
<1>2. readBytes(d, n) = Read(b, r) BY ReadBytesBack
<1>3. appendU8Vector(b) = x ++ b BY DEF appendU8Vector, ++
<1> HIDE DEF n, d
<1>4. readU8(c) = Read(n, d) /\ x \in Seq(Byte) /\ Len(x) = 1 BY <1>1, ReadU8Back
<1> HIDE DEF x
<1>5. (x ++ b) ++ r = c BY <1>4, CatAssociative, Zenon DEF d
<1>6. x ++ b \in Seq(Byte) /\ Len(x ++ b) = 1 + Len(b) BY <1>4, CatFacts
<1> HIDE DEF c
<1>7. readVector(c, 1) = Read(b, r) BY <1>2, <1>4, ReadFields DEF readVector
<1> QED BY <1>3, <1>5, <1>6, <1>7, Zenon

\* readVector of a vector with a length of two bytes.
LEMMA ReadVector2Back ==
  ASSUME NEW b \in Seq(Byte), Len(b) \in Word, NEW r \in Seq(Byte)
  PROVE  /\ readVector(appendU16Vector(b) ++ r, 2) = Read(b, r)
         /\ appendU16Vector(b) \in Seq(Byte) /\ Len(appendU16Vector(b)) = 2 + Len(b)
<1> DEFINE n == Len(b)
           x == U16(n)
           d == b ++ r
           c == x ++ d
<1>1. n \in Word /\ d \in Seq(Byte) BY CatFacts
<1>2. readBytes(d, n) = Read(b, r) BY ReadBytesBack
<1>3. appendU16Vector(b) = x ++ b BY DEF appendU16Vector, ++
<1> HIDE DEF n, d
<1>4. readU16(c) = Read(n, d) /\ x \in Seq(Byte) /\ Len(x) = 2 BY <1>1, ReadU16Back
<1> HIDE DEF x
<1>5. (x ++ b) ++ r = c BY <1>4, CatAssociative, Zenon DEF d
<1>6. x ++ b \in Seq(Byte) /\ Len(x ++ b) = 2 + Len(b) BY <1>4, CatFacts
<1> HIDE DEF c
<1>7. readVector(c, 2) = Read(b, r) BY <1>2, <1>4, ReadFields DEF readVector
<1> QED BY <1>3, <1>5, <1>6, <1>7, Zenon

\* A vector that is all there is.
LEMMA WholeBack ==
  ASSUME NEW b \in Seq(Byte)
  PROVE  /\ Len(b) \in Byte => Whole(appendU8Vector(b), 1) = Read(b, <<>>)
         /\ Len(b) \in Word => Whole(appendU16Vector(b), 2) = Read(b, <<>>)
<1> DEFINE e == <<>>
<1>e. e \in Seq(Byte) /\ e = <<>> OBVIOUS
<1> HIDE DEF e
<1>1. ASSUME Len(b) \in Byte PROVE Whole(appendU8Vector(b), 1) = Read(b, e)
  <2> DEFINE a == appendU8Vector(b)
  <2>1. readVector(a ++ e, 1) = Read(b, e) /\ a \in Seq(Byte) BY <1>e, <1>1, ReadVector1Back, Zenon
  <2> HIDE DEF a
  <2>2. a ++ e = a BY <1>e, <2>1, CatEmpty
  <2>3. Whole(a, 1) = Read(b, e) BY <1>e, <2>1, <2>2, ReadFields DEF Whole
  <2> QED BY <2>3 DEF a
<1>2. ASSUME Len(b) \in Word PROVE Whole(appendU16Vector(b), 2) = Read(b, e)
  <2> DEFINE a == appendU16Vector(b)
  <2>1. readVector(a ++ e, 2) = Read(b, e) /\ a \in Seq(Byte) BY <1>e, <1>2, ReadVector2Back, Zenon
  <2> HIDE DEF a
  <2>2. a ++ e = a BY <1>e, <2>1, CatEmpty
  <2>3. Whole(a, 2) = Read(b, e) BY <1>e, <2>1, <2>2, ReadFields DEF Whole
  <2> QED BY <2>3 DEF a
<1> QED BY <1>e, <1>1, <1>2

------------------------------------------------------------------------------
(***************************************************************************)
(* What is read was written.                                               *)
(***************************************************************************)

\* A cut string, put together.
LEMMA CutString ==
  ASSUME NEW c \in Seq(Byte), NEW n \in Nat, n <= Len(c)
  PROVE  /\ Slice(c, 0, n) \in Seq(Byte) /\ Len(Slice(c, 0, n)) = n
         /\ Slice(c, n, Len(c)) \in Seq(Byte) /\ Len(Slice(c, n, Len(c))) = Len(c) - n
         /\ c = Slice(c, 0, n) ++ Slice(c, n, Len(c))
<1> DEFINE z == 0
           m == Len(c)
           x == Slice(c, z, n)
           y == Slice(c, n, m)
           w == x ++ y
<1>1. z \in Nat /\ z <= n /\ n - z = n /\ m \in Nat /\ n <= m /\ m <= Len(c) /\ m = Len(c)
      /\ \A i \in 1 .. n : z + i = i OBVIOUS
<1> HIDE DEF z, m
<1>2. x \in Seq(Byte) /\ Len(x) = n - z /\ \A i \in 1 .. n - z : x[i] = c[z + i]
  BY <1>1, SliceFacts
<1>3. y \in Seq(Byte) /\ Len(y) = m - n /\ \A i \in 1 .. m - n : y[i] = c[n + i]
  BY <1>1, SliceFacts
<1> HIDE DEF x, y
<1>4. w \in Seq(Byte) /\ Len(w) = Len(x) + Len(y) BY <1>2, <1>3, CatFacts
<1>5. /\ \A i \in 1 .. Len(x) : w[i] = x[i]
      /\ \A i \in 1 .. Len(y) : w[Len(x) + i] = y[i] BY <1>2, <1>3, CatCut
<1> HIDE DEF w
<1>6. \A i \in 1 .. Len(c) : w[i] = c[i]
  <2> TAKE i \in 1 .. Len(c)
  <2>1. CASE i <= n BY <1>1, <1>2, <1>5, <2>1
  <2>2. CASE i > n
    <3>1. i - n \in 1 .. m - n /\ n + (i - n) = i BY <1>1, <2>2
    <3>2. Len(x) = n BY <1>1, <1>2
    <3>3. w[n + (i - n)] = y[i - n] BY <1>3, <1>5, <3>1, <3>2
    <3>4. y[i - n] = c[n + (i - n)] BY <1>3, <3>1
    <3> QED BY <3>1, <3>3, <3>4
  <2>3. i <= n \/ i > n OBVIOUS
  <2> QED BY <2>1, <2>2, <2>3
<1>7. Len(w) = Len(c) BY <1>1, <1>2, <1>3, <1>4
<1>8. w = c BY <1>4, <1>6, <1>7, SeqEqual
<1>9. Len(x) = n /\ Len(y) = Len(c) - n BY <1>1, <1>2, <1>3
<1> QED BY <1>1, <1>2, <1>3, <1>8, <1>9 DEF w, x, y, z, m

\* The bytes of a word.
LEMMA U16Of ==
  ASSUME NEW a \in Byte, NEW b \in Byte
  PROVE  U16(a * 256 + b) = <<a, b>> /\ a * 256 + b \in Word
<1>1. a \in Nat /\ b \in Nat /\ a < 256 /\ b < 256 BY DEF Byte
<1>2. a * 256 + b \in Nat /\ a * 256 + b < 65536 BY <1>1
<1>3. (a * 256 + b) % 256 = b /\ (a * 256 + b) \div 256 = a BY <1>1
<1>4. a % 256 = a BY <1>1
<1> QED BY <1>2, <1>3, <1>4 DEF U16, Word

\* r read w and left the rest of c.
Took(r, c, w) ==
  r = Read(r.v, r.rest) /\ r.rest \in Seq(Byte) /\ w \in Seq(Byte) /\ c = w ++ r.rest

\* Bytes that were read.
LEMMA BytesRead ==
  ASSUME NEW c \in Seq(Byte), NEW n \in Nat, readBytes(c, n).ok
  PROVE  /\ readBytes(c, n).v \in Seq(Byte) /\ Len(readBytes(c, n).v) = n
         /\ Took(readBytes(c, n), c, readBytes(c, n).v)
<1> DEFINE x == Slice(c, 0, n)
           y == Slice(c, n, Len(c))
<1>1. ~(Len(c) < n) BY ReadFields DEF readBytes
<1>2. readBytes(c, n) = Read(x, y) BY <1>1 DEF readBytes
<1>3. Len(c) \in Nat /\ n <= Len(c) BY <1>1
<1>4. x \in Seq(Byte) /\ Len(x) = n /\ y \in Seq(Byte) /\ c = x ++ y BY <1>3, CutString
<1> HIDE DEF x, y
<1>5. readBytes(c, n).v = x /\ readBytes(c, n).rest = y BY <1>2, ReadFields
<1> QED BY <1>2, <1>4, <1>5, Zenon DEF Took

\* A byte that was read.
LEMMA U8Read ==
  ASSUME NEW c \in Seq(Byte), readU8(c).ok
  PROVE  readU8(c).v \in Byte /\ Took(readU8(c), c, <<readU8(c).v>>)
<1> DEFINE n == 1
           x == Slice(c, 0, n)
           y == Slice(c, n, Len(c))
<1>1. ~(Len(c) < 1) BY ReadFields DEF readU8
<1>2. readU8(c) = Read(c[1], Tail(c)) BY <1>1 DEF readU8
<1>3. Len(c) \in Nat /\ Len(c) >= 1 /\ c # <<>> BY <1>1
<1>4. Tail(c) = y BY <1>3, TailIsSubSeq DEF Slice
<1>5. n \in Nat /\ n <= Len(c) /\ n = 1 BY <1>3
<1> HIDE DEF n
<1>6. x \in Seq(Byte) /\ Len(x) = n /\ y \in Seq(Byte) /\ c = x ++ y BY <1>5, CutString
<1> HIDE DEF x, y
<1>7. x[1] = c[1]
  <2>1. \A i \in 1 .. Len(x) : (x ++ y)[i] = x[i] BY <1>6, CatCut
  <2>2. 1 \in 1 .. Len(x) BY <1>5, <1>6
  <2> QED BY <1>6, <2>1, <2>2
<1>8. x[1] \in Byte
  <2>1. 1 \in 1 .. Len(x) BY <1>5, <1>6
  <2> QED BY <1>6, <2>1, ElementOfSeq
<1>9. x = <<x[1]>> BY <1>5, <1>6
<1> DEFINE v == c[1]
<1>10. x = <<v>> /\ v \in Byte BY <1>7, <1>8, <1>9
<1> HIDE DEF v
<1>11. readU8(c) = Read(v, y) BY <1>2, <1>4 DEF v
<1>12. readU8(c).v = v /\ readU8(c).rest = y BY <1>11, ReadFields
<1> QED BY <1>6, <1>10, <1>11, <1>12, Zenon DEF Took

\* A word that was read.
LEMMA U16Read ==
  ASSUME NEW c \in Seq(Byte), readU16(c).ok
  PROVE  readU16(c).v \in Word /\ Took(readU16(c), c, U16(readU16(c).v))
<1> DEFINE n == 2
           x == Slice(c, 0, n)
           y == Slice(c, n, Len(c))
<1>1. ~(Len(c) < 2) BY ReadFields DEF readU16
<1>2. readU16(c) = Read(c[1] * 256 + c[2], y) BY <1>1 DEF readU16, Uint16
<1>3. Len(c) \in Nat /\ Len(c) >= 2 BY <1>1
<1>5. n \in Nat /\ n <= Len(c) /\ n = 2 BY <1>3
<1> HIDE DEF n
<1>6. x \in Seq(Byte) /\ Len(x) = n /\ y \in Seq(Byte) /\ c = x ++ y BY <1>5, CutString
<1> HIDE DEF x, y
<1>7. x[1] = c[1] /\ x[2] = c[2]
  <2>1. \A i \in 1 .. Len(x) : (x ++ y)[i] = x[i] BY <1>6, CatCut
  <2>2. 1 \in 1 .. Len(x) /\ 2 \in 1 .. Len(x) BY <1>5, <1>6
  <2> QED BY <1>6, <2>1, <2>2
<1>8. x[1] \in Byte /\ x[2] \in Byte
  <2>1. 1 \in 1 .. Len(x) /\ 2 \in 1 .. Len(x) BY <1>5, <1>6
  <2> QED BY <1>6, <2>1, ElementOfSeq
<1>9. x = <<x[1], x[2]>> BY <1>5, <1>6
<1> DEFINE v == c[1] * 256 + c[2]
<1>10. x = U16(v) /\ v \in Word
  <2> DEFINE a == x[1]
             b == x[2]
  <2>1. a \in Byte /\ b \in Byte /\ x = <<a, b>> /\ v = a * 256 + b BY <1>7, <1>8, <1>9
  <2> HIDE DEF a, b, v
  <2>2. U16(a * 256 + b) = <<a, b>> /\ a * 256 + b \in Word BY <2>1, U16Of
  <2> QED BY <2>1, <2>2
<1> HIDE DEF v
<1>11. readU16(c) = Read(v, y) BY <1>2 DEF v
<1>12. readU16(c).v = v /\ readU16(c).rest = y BY <1>11, ReadFields
<1> QED BY <1>6, <1>10, <1>11, <1>12, Zenon DEF Took

\* A vector with a length of one byte that was read.
LEMMA Vector1Read ==
  ASSUME NEW c \in Seq(Byte), readVector(c, 1).ok
  PROVE  /\ readVector(c, 1).v \in Seq(Byte) /\ Len(readVector(c, 1).v) \in Byte
         /\ Took(readVector(c, 1), c, appendU8Vector(readVector(c, 1).v))
<1> DEFINE n == readU8(c)
           b == readBytes(n.rest, n.v)
<1>1. n.ok /\ readVector(c, 1) = b BY ReadFields DEF readVector
<1>2. n.v \in Byte /\ n.rest \in Seq(Byte) /\ <<n.v>> \in Seq(Byte) /\ c = <<n.v>> ++ n.rest
  BY <1>1, U8Read DEF Took
<1> DEFINE k == n.v
           r == n.rest
<1>3. k \in Nat BY <1>2 DEF Byte
<1>4. k \in Byte /\ r \in Seq(Byte) /\ <<k>> \in Seq(Byte) /\ c = <<k>> ++ r /\ readBytes(r, k).ok
      /\ readVector(c, 1) = readBytes(r, k)
  BY <1>1, <1>2
<1> HIDE DEF n, k, r
<1> DEFINE v == readBytes(r, k).v
           s == readBytes(r, k).rest
<1>5. v \in Seq(Byte) /\ Len(v) = k /\ s \in Seq(Byte) /\ r = v ++ s /\ readBytes(r, k) = Read(v, s)
  BY <1>3, <1>4, BytesRead DEF Took
<1> HIDE DEF v, s
<1>6. c = (<<k>> ++ v) ++ s
  <2>0. <<k>> \in Seq(Byte) /\ v \in Seq(Byte) /\ s \in Seq(Byte) BY <1>4, <1>5
  <2>1. (<<k>> ++ v) ++ s = <<k>> ++ (v ++ s) BY <2>0, CatAssociative
  <2> QED BY <1>4, <1>5, <2>1, Zenon
<1>7. appendU8Vector(v) = <<k>> ++ v BY <1>5 DEF appendU8Vector, ++
<1>8. <<k>> ++ v \in Seq(Byte) BY <1>4, <1>5, CatFacts
<1>9. readVector(c, 1) = Read(v, s) /\ readVector(c, 1).v = v /\ readVector(c, 1).rest = s
  BY <1>4, <1>5, ReadFields
<1> QED BY <1>4, <1>5, <1>6, <1>7, <1>8, <1>9, Zenon DEF Took

\* A vector with a length of two bytes that was read.
LEMMA Vector2Read ==
  ASSUME NEW c \in Seq(Byte), readVector(c, 2).ok
  PROVE  /\ readVector(c, 2).v \in Seq(Byte) /\ Len(readVector(c, 2).v) \in Word
         /\ Took(readVector(c, 2), c, appendU16Vector(readVector(c, 2).v))
<1> DEFINE n == readU16(c)
           b == readBytes(n.rest, n.v)
<1>1. n.ok /\ readVector(c, 2) = b BY ReadFields DEF readVector
<1>2. n.v \in Word /\ n.rest \in Seq(Byte) /\ U16(n.v) \in Seq(Byte) /\ c = U16(n.v) ++ n.rest
  BY <1>1, U16Read DEF Took
<1> DEFINE k == n.v
           r == n.rest
           x == U16(k)
<1>3. k \in Nat BY <1>2 DEF Word
<1>4. k \in Word /\ r \in Seq(Byte) /\ x \in Seq(Byte) /\ c = x ++ r /\ readBytes(r, k).ok
      /\ readVector(c, 2) = readBytes(r, k)
  BY <1>1, <1>2
<1> HIDE DEF n, k, r
<1> DEFINE v == readBytes(r, k).v
           s == readBytes(r, k).rest
<1>5. v \in Seq(Byte) /\ Len(v) = k /\ s \in Seq(Byte) /\ r = v ++ s /\ readBytes(r, k) = Read(v, s)
  BY <1>3, <1>4, BytesRead DEF Took
<1> HIDE DEF v, s
<1>7. appendU16Vector(v) = x ++ v BY <1>5 DEF appendU16Vector, ++
<1> HIDE DEF x
<1>6. c = (x ++ v) ++ s
  <2>0. x \in Seq(Byte) /\ v \in Seq(Byte) /\ s \in Seq(Byte) BY <1>4, <1>5
  <2>1. (x ++ v) ++ s = x ++ (v ++ s) BY <2>0, CatAssociative
  <2> QED BY <1>4, <1>5, <2>1, Zenon
<1>8. x ++ v \in Seq(Byte) BY <1>4, <1>5, CatFacts
<1>9. readVector(c, 2) = Read(v, s) /\ readVector(c, 2).v = v /\ readVector(c, 2).rest = s
  BY <1>4, <1>5, ReadFields
<1> QED BY <1>4, <1>5, <1>6, <1>7, <1>8, <1>9, Zenon DEF Took

------------------------------------------------------------------------------
(***************************************************************************)
(* Lists of words.                                                         *)
(***************************************************************************)

\* The bytes of a list of words.
LEMMA U16sFacts ==
  ASSUME NEW ns \in Seq(Word)
  PROVE  /\ U16s(ns) \in Seq(Byte) /\ Len(U16s(ns)) = 2 * Len(ns)
         /\ \A k \in 1 .. Len(ns) : /\ U16s(ns)[2 * k - 1] = U16(ns[k])[1]
                                    /\ U16s(ns)[2 * k] = U16(ns[k])[2]
<1> DEFINE N == Len(ns)
           p == [k \in DOMAIN ns |-> U16(ns[k])]
<1>1. N \in Nat /\ DOMAIN ns = 1 .. N /\ \A k \in 1 .. N : ns[k] \in Word BY ElementOfSeq
<1>2. Len(p) = N /\ \A k \in 1 .. N : p[k] = U16(ns[k]) BY <1>1
<1>3. \A k \in 1 .. N : p[k] \in Seq(Byte) /\ Len(p[k]) = 2
  <2> TAKE k \in 1 .. N
  <2>1. ns[k] \in Nat BY <1>1 DEF Word
  <2> QED BY <1>2, <2>1, U16Facts
<1>4. U16s(ns) = JoinedTo(p, N) BY <1>2, JoinedIs DEF U16s
<1> HIDE DEF N, p
<1> DEFINE J(n) == JoinedTo(p, n)
           Good(n) == /\ J(n) \in Seq(Byte) /\ Len(J(n)) = 2 * n
                      /\ \A k \in 1 .. n : J(n)[2 * k - 1] = p[k][1] /\ J(n)[2 * k] = p[k][2]
           T == {n \in 0 .. N : Good(n)}
<1>5. 0 \in T
  <2>1. J(0) = <<>> BY JoinGrows
  <2>2. <<>> \in Seq(Byte) /\ Len(<<>>) = 0 OBVIOUS
  <2>3. J(0) \in Seq(Byte) /\ Len(J(0)) = 0 BY <2>1, <2>2
  <2> HIDE DEF J
  <2> QED BY <1>1, <2>3
<1>6. ASSUME NEW n \in 1 .. N, n - 1 \in T PROVE n \in T
  <2>1. n \in Nat /\ n > 0 /\ n - 1 \in Nat BY <1>1
  <2>2. J(n) = J(n - 1) ++ p[n] BY <2>1, JoinGrows
  <2>3. Good(n - 1) BY <1>6
  <2> DEFINE a == J(n - 1)
             b == p[n]
             c == J(n)
  <2>4. /\ a \in Seq(Byte) /\ Len(a) = 2 * (n - 1) /\ b \in Seq(Byte) /\ Len(b) = 2
        /\ \A k \in 1 .. n - 1 : a[2 * k - 1] = p[k][1] /\ a[2 * k] = p[k][2]
        /\ c = a ++ b
    BY <1>3, <2>2, <2>3
  <2> HIDE DEF a, b, c, J
  <2>5. c \in Seq(Byte) /\ Len(c) = Len(a) + Len(b) BY <2>4, CatFacts
  <2>6. /\ \A i \in 1 .. Len(a) : c[i] = a[i]
        /\ \A i \in 1 .. Len(b) : c[Len(a) + i] = b[i] BY <2>4, CatCut
  <2>7. Len(c) = 2 * n BY <2>1, <2>4, <2>5
  <2>8. ASSUME NEW k \in 1 .. n PROVE c[2 * k - 1] = p[k][1] /\ c[2 * k] = p[k][2]
    <3>1. CASE k = n
      <4>1. 1 \in 1 .. Len(b) /\ 2 \in 1 .. Len(b) /\ Len(a) + 1 = 2 * k - 1 /\ Len(a) + 2 = 2 * k
        BY <2>1, <2>4, <3>1
      <4> QED BY <2>6, <3>1, <4>1 DEF b
    <3>2. CASE k # n
      <4>1. k \in 1 .. n - 1 /\ 2 * k \in 1 .. Len(a) /\ 2 * k - 1 \in 1 .. Len(a)
        BY <2>1, <2>4, <3>2
      <4> QED BY <2>4, <2>6, <4>1
    <3> QED BY <3>1, <3>2
  <2>9. Good(n) BY <2>5, <2>7, <2>8 DEF c
  <2> HIDE DEF Good
  <2> QED BY <2>9
<1> HIDE DEF T
<1>7. \A n \in 0 .. N : n \in T BY <1>1, <1>5, <1>6, Induction
<1>8. Good(N)
  <2>1. N \in 0 .. N BY <1>1
  <2> HIDE DEF Good
  <2> QED BY <1>7, <2>1 DEF T
<1>9. /\ U16s(ns) \in Seq(Byte) /\ Len(U16s(ns)) = 2 * N
      /\ \A k \in 1 .. N : U16s(ns)[2 * k - 1] = p[k][1] /\ U16s(ns)[2 * k] = p[k][2]
  BY <1>4, <1>8
<1>10. \A k \in 1 .. N : p[k] = U16(ns[k]) BY <1>2
<1> QED BY <1>9, <1>10 DEF N

\* parseU16Vector reads the words back.
LEMMA U16sBack ==
  ASSUME NEW ns \in Seq(Word), NEW r
  PROVE  parseU16Vector(Read(U16s(ns), r)) = Read(ns, <<>>)
<1> DEFINE v == U16s(ns)
           N == Len(ns)
           f == [k \in 1 .. Len(v) \div 2 |-> Uint16(v, 2 * k - 2)]
<1>1. /\ v \in Seq(Byte) /\ Len(v) = 2 * N
      /\ \A k \in 1 .. N : v[2 * k - 1] = U16(ns[k])[1] /\ v[2 * k] = U16(ns[k])[2]
  BY U16sFacts
<1>2. N \in Nat /\ ns = [k \in 1 .. N |-> ns[k]] /\ \A k \in 1 .. N : ns[k] \in Word
  BY ElementOfSeq
<1> HIDE DEF v, N
<1>3. Len(v) \div 2 = N /\ Len(v) % 2 = 0 BY <1>1, <1>2
<1>4. ASSUME NEW k \in 1 .. N PROVE Uint16(v, 2 * k - 2) = ns[k]
  <2>1. (2 * k - 2) + 1 = 2 * k - 1 /\ (2 * k - 2) + 2 = 2 * k BY <1>2
  <2>2. ns[k] \in Nat /\ ns[k] < 65536 BY <1>2 DEF Word
  <2>3. U16(ns[k])[1] * 256 + U16(ns[k])[2] = ns[k] BY <2>2, U16Facts
  <2> QED BY <1>1, <2>1, <2>3 DEF Uint16
<1>5. f = ns BY <1>2, <1>3, <1>4
<1> HIDE DEF f
<1> DEFINE b == Read(v, r)
<1>6. b.ok /\ b.v = v BY ReadFields
<1> HIDE DEF b
<1>7. parseU16Vector(b) = Read(f, <<>>) BY <1>3, <1>6 DEF parseU16Vector, f
<1> QED BY <1>5, <1>7 DEF b, v

\* The words that parseU16Vector reads have the bytes that it read.
LEMMA U16sRead ==
  ASSUME NEW b, b.v \in Seq(Byte), parseU16Vector(b).ok
  PROVE  /\ b.ok /\ parseU16Vector(b).v \in Seq(Word)
         /\ U16s(parseU16Vector(b).v) = b.v /\ Len(b.v) = 2 * Len(parseU16Vector(b).v)
<1> DEFINE v == b.v
           N == Len(v) \div 2
           f == [k \in 1 .. N |-> Uint16(v, 2 * k - 2)]
<1>1. b.ok /\ Len(v) % 2 = 0 BY ReadFields DEF parseU16Vector
<1>2. parseU16Vector(b) = Read(f, <<>>) BY <1>1 DEF parseU16Vector
<1>v. v \in Seq(Byte) OBVIOUS
<1> HIDE DEF v
<1>3. Len(v) \in Nat /\ N \in Nat /\ Len(v) = 2 * N BY <1>1, <1>v
<1> HIDE DEF N
<1>4. ASSUME NEW k \in 1 .. N
      PROVE  /\ f[k] \in Word /\ U16(f[k])[1] = v[2 * k - 1] /\ U16(f[k])[2] = v[2 * k]
  <2>1. /\ (2 * k - 2) + 1 = 2 * k - 1 /\ (2 * k - 2) + 2 = 2 * k
        /\ 2 * k - 1 \in 1 .. Len(v) /\ 2 * k \in 1 .. Len(v) BY <1>3
  <2> DEFINE x == v[2 * k - 1]
             y == v[2 * k]
  <2>2. x \in Byte /\ y \in Byte BY <1>v, <2>1, ElementOfSeq
  <2>3. f[k] = x * 256 + y BY <2>1 DEF Uint16
  <2> HIDE DEF x, y, f
  <2>4. U16(x * 256 + y) = <<x, y>> /\ x * 256 + y \in Word BY <2>2, U16Of
  <2>5. U16(f[k])[1] = x /\ U16(f[k])[2] = y /\ f[k] \in Word BY <2>3, <2>4
  <2> QED BY <2>5 DEF x, y
<1>5. f \in Seq(Word) /\ Len(f) = N
  <2>1. f = [k \in 1 .. N |-> f[k]] OBVIOUS
  <2>2. f \in [1 .. N -> Word] BY <1>4, <2>1
  <2>3. Len(f) = N BY <1>3
  <2> HIDE DEF f
  <2> QED BY <1>3, <2>2, <2>3, IsASeq
<1> HIDE DEF f
<1> DEFINE w == U16s(f)
<1>6. /\ w \in Seq(Byte) /\ Len(w) = 2 * Len(f)
      /\ \A k \in 1 .. Len(f) : w[2 * k - 1] = U16(f[k])[1] /\ w[2 * k] = U16(f[k])[2]
  BY <1>5, U16sFacts
<1> HIDE DEF w
<1>7. ASSUME NEW i \in 1 .. Len(v) PROVE w[i] = v[i]
  <2> DEFINE k == (i + 1) \div 2
  <2>1. k \in 1 .. N /\ (i = 2 * k - 1 \/ i = 2 * k) BY <1>3
  <2> HIDE DEF k
  <2>2. w[2 * k - 1] = v[2 * k - 1] /\ w[2 * k] = v[2 * k] BY <1>4, <1>5, <1>6, <2>1
  <2> QED BY <2>1, <2>2
<1>8. w = v BY <1>v, <1>3, <1>5, <1>6, <1>7, SeqEqual
<1>9. parseU16Vector(b).v = f BY <1>2, ReadFields
<1> QED BY <1>1, <1>3, <1>5, <1>8, <1>9 DEF w, v

------------------------------------------------------------------------------
(***************************************************************************)
(* Lists of entries.                                                       *)
(***************************************************************************)

\* A part more, joined.
LEMMA JoinedAppend ==
  ASSUME NEW p, NEW q, Len(p) \in Nat, Len(q) = Len(p) + 1, \A k \in 1 .. Len(p) : q[k] = p[k]
  PROVE  Joined(q) = Joined(p) ++ q[Len(q)]
<1> DEFINE n == Len(p)
           m == Len(q)
<1>1. m \in Nat /\ m > 0 /\ m - 1 = n /\ n \in Nat /\ \A k \in 1 .. n : q[k] = p[k] OBVIOUS
<1>2. Joined(p) = JoinedTo(p, n) /\ Joined(q) = JoinedTo(q, m) BY JoinedIs
<1> HIDE DEF n, m
<1>3. JoinedTo(q, m) = JoinedTo(q, n) ++ q[m] BY <1>1, JoinGrows
<1>4. JoinedTo(q, n) = JoinedTo(p, n) BY <1>1, JoinSame
<1> QED BY <1>2, <1>3, <1>4 DEF m

\* The first i members of c.
Upto(c, i) == [k \in 1 .. i |-> c[k]]

\* What they are.
LEMMA UptoFacts ==
  ASSUME NEW c, NEW i \in Nat
  PROVE  /\ Len(Upto(c, i)) = i /\ DOMAIN Upto(c, i) = 1 .. i
         /\ \A k \in 1 .. i : Upto(c, i)[k] = c[k]
         /\ Upto(c, 0) = <<>>
         /\ Append(Upto(c, i), c[i + 1]) = Upto(c, i + 1)
<1>1. Upto(c, 0) = <<>> BY DEF Upto
<1>2. Len(Upto(c, i)) = i /\ DOMAIN Upto(c, i) = 1 .. i /\ \A k \in 1 .. i : Upto(c, i)[k] = c[k]
  BY DEF Upto
<1>3. Append(Upto(c, i), c[i + 1]) = Upto(c, i + 1) BY DEF Upto
<1> QED BY <1>1, <1>2, <1>3

\* The length of an entry's type.
TypeLen(x) == IF x = serverName THEN 1 ELSE 2

\* An entry of extension x.
IsEntry(x, e) ==
  /\ e = <<e[1], e[2]>> /\ e[1] \in (IF x = serverName THEN Byte ELSE Word)
  /\ e[2] \in Seq(Byte) /\ Len(e[2]) \in Word

\* The loop reads an entry back.
LEMMA EntryBack ==
  ASSUME NEW x, NEW e, IsEntry(x, e), NEW v, NEW s \in Seq(Byte), NEW last
  PROVE  /\ EncodeEntry(x, e) \in Seq(Byte) /\ Len(EncodeEntry(x, e)) > 0
         /\ nextEntry(Read(v, EncodeEntry(x, e) ++ s), TypeLen(x), last)
              = Read(Append(v, e), IF e[1] = last THEN <<>> ELSE s)
<1> DEFINE n == e[1]
           b == e[2]
           h == IF x = serverName THEN <<n>> ELSE U16(n)
           a == appendU16Vector(b)
           d == a ++ s
           w == h ++ a
           c == w ++ s
           typ == IF TypeLen(x) = 1 THEN readU8(c) ELSE readU16(c)
<1>1. e = <<n, b>> /\ n \in (IF x = serverName THEN Byte ELSE Word) /\ b \in Seq(Byte) /\ Len(b) \in Word
  BY DEF IsEntry
<1>2. EncodeEntry(x, e) = w BY DEF EncodeEntry, ++
<1> HIDE DEF n, b
<1>3. a \in Seq(Byte) /\ Len(a) = 2 + Len(b) /\ readVector(d, 2) = Read(b, s)
  BY <1>1, ReadVector2Back
<1> HIDE DEF a
<1>4. d \in Seq(Byte) BY <1>3, CatFacts
<1>5. /\ h \in Seq(Byte) /\ Len(h) > 0
      /\ (IF TypeLen(x) = 1 THEN readU8(h ++ d) ELSE readU16(h ++ d)) = Read(n, d)
  <2>1. CASE x = serverName
    <3>1. n \in Byte BY <1>1, <2>1
    <3> HIDE DEF d
    <3>2. readU8(<<n>> ++ d) = Read(n, d) /\ <<n>> \in Seq(Byte) /\ Len(<<n>>) = 1
      BY <1>4, <3>1, ReadU8Back
    <3>3. h = <<n>> /\ TypeLen(x) = 1 BY <2>1 DEF TypeLen
    <3> DEFINE g == <<n>>
    <3>4. readU8(g ++ d) = Read(n, d) /\ h = g BY <3>2, <3>3
    <3>9. g \in Seq(Byte) /\ Len(g) = 1 BY <3>2
    <3>10. h = g BY <3>3
    <3>5. TypeLen(x) = 1 BY <3>3
    <3> HIDE DEF g, h
    <3>6. h \in Seq(Byte) /\ Len(h) > 0 BY <3>9, <3>10
    <3>7. readU8(h ++ d) = Read(n, d) BY <3>4
    <3>8. (IF TypeLen(x) = 1 THEN readU8(h ++ d) ELSE readU16(h ++ d)) = Read(n, d) BY <3>5, <3>7
    <3> QED BY <3>6, <3>8, Zenon
  <2>2. CASE x # serverName
    <3>1. n \in Word BY <1>1, <2>2
    <3> HIDE DEF d
    <3>2. readU16(U16(n) ++ d) = Read(n, d) /\ U16(n) \in Seq(Byte) /\ Len(U16(n)) = 2
      BY <1>4, <3>1, ReadU16Back
    <3>3. h = U16(n) /\ TypeLen(x) = 2 BY <2>2 DEF TypeLen
    <3> DEFINE g == U16(n)
    <3>4. readU16(g ++ d) = Read(n, d) /\ h = g BY <3>2, <3>3
    <3>9. g \in Seq(Byte) /\ Len(g) = 2 BY <3>2
    <3>10. h = g BY <3>3
    <3>5. TypeLen(x) = 2 BY <3>3
    <3> HIDE DEF g, h
    <3>6. h \in Seq(Byte) /\ Len(h) > 0 BY <3>9, <3>10
    <3>7. readU16(h ++ d) = Read(n, d) BY <3>4
    <3>8. (IF TypeLen(x) = 1 THEN readU8(h ++ d) ELSE readU16(h ++ d)) = Read(n, d) BY <3>5, <3>7
    <3> QED BY <3>6, <3>8, Zenon
  <2> QED BY <2>1, <2>2
<1> HIDE DEF h
<1>6. c = h ++ d BY <1>3, <1>5, CatAssociative
<1>7. w \in Seq(Byte) /\ Len(w) = Len(h) + Len(a) /\ Len(h) \in Nat /\ Len(a) \in Nat
  BY <1>3, <1>5, CatFacts
<1> HIDE DEF w
<1>8. c \in Seq(Byte) /\ Len(c) = Len(w) + Len(s) /\ Len(s) \in Nat BY <1>7, CatFacts
<1>9. typ = Read(n, d) BY <1>5, <1>6
<1> HIDE DEF c, d
<1>10. c # <<>> BY <1>5, <1>7, <1>8, NoBytes
<1> HIDE DEF typ
<1>11. nextEntry(Read(v, c), TypeLen(x), last) = Read(Append(v, <<n, b>>), IF n = last THEN <<>> ELSE s)
  <2> DEFINE r == Read(v, c)
  <2>1. r.ok /\ r.rest = c /\ r.v = v BY ReadFields
  <2>2. typ.ok /\ typ.v = n /\ typ.rest = d BY <1>9, ReadFields
  <2>3. readVector(d, 2).ok /\ readVector(d, 2).v = b /\ readVector(d, 2).rest = s
    BY <1>3, ReadFields DEF d
  <2>4. typ = IF TypeLen(x) = 1 THEN readU8(r.rest) ELSE readU16(r.rest) BY <2>1 DEF typ
  <2> HIDE DEF r
  <2>5. nextEntry(r, TypeLen(x), last)
          = Read(Append(r.v, <<typ.v, readVector(typ.rest, 2).v>>),
                 IF typ.v = last THEN <<>> ELSE readVector(typ.rest, 2).rest)
    BY <1>10, <2>1, <2>2, <2>3, <2>4 DEF nextEntry
  <2>6. nextEntry(r, TypeLen(x), last) = Read(Append(v, <<n, b>>), IF n = last THEN <<>> ELSE s)
    BY <2>1, <2>2, <2>3, <2>5
  <2> QED BY <2>6 DEF r
<1>12. Len(w) > 0 BY <1>5, <1>7
<1> QED BY <1>1, <1>2, <1>7, <1>11, <1>12 DEF n, c

\* An entry that was read, without a last one, was written.
LEMMA EntryRead ==
  ASSUME NEW r, r.ok, r.rest \in Seq(Byte), r.rest # <<>>, nextEntry(r, 2, -1).ok
  PROVE  \E e : /\ IsEntry(keyShare, e)
                /\ nextEntry(r, 2, -1) = Read(Append(r.v, e), nextEntry(r, 2, -1).rest)
                /\ nextEntry(r, 2, -1).rest \in Seq(Byte)
                /\ EncodeEntry(keyShare, e) \in Seq(Byte) /\ Len(EncodeEntry(keyShare, e)) > 0
                /\ r.rest = EncodeEntry(keyShare, e) ++ nextEntry(r, 2, -1).rest
<1> DEFINE c == r.rest
           typ == readU16(c)
           body == readVector(typ.rest, 2)
           n == typ.v
           b == body.v
           s == body.rest
<1>1. /\ typ.ok /\ body.ok
      /\ nextEntry(r, 2, -1) = Read(Append(r.v, <<n, b>>), IF n = -1 THEN <<>> ELSE s)
  BY ReadFields DEF nextEntry
<1>2. n \in Word /\ typ.rest \in Seq(Byte) /\ U16(n) \in Seq(Byte) /\ c = U16(n) ++ typ.rest
  BY <1>1, U16Read DEF Took
<1>3. /\ b \in Seq(Byte) /\ Len(b) \in Word /\ s \in Seq(Byte) /\ appendU16Vector(b) \in Seq(Byte)
      /\ typ.rest = appendU16Vector(b) ++ s
  BY <1>1, <1>2, Vector2Read DEF Took
<1>4. n # -1 BY <1>2 DEF Word
<1>5. nextEntry(r, 2, -1) = Read(Append(r.v, <<n, b>>), s) /\ nextEntry(r, 2, -1).rest = s
  <2> DEFINE u == Append(r.v, <<n, b>>)
  <2>1. nextEntry(r, 2, -1) = Read(u, s) BY <1>1, <1>4
  <2> HIDE DEF u, s
  <2>2. nextEntry(r, 2, -1).rest = s BY <2>1, ReadFields
  <2> QED BY <2>1, <2>2 DEF u
<1> DEFINE e == <<n, b>>
           x == U16(n)
           a == appendU16Vector(b)
<1>6. c = x ++ (a ++ s) /\ x \in Seq(Byte) /\ a \in Seq(Byte) BY <1>2, <1>3
<1>7. EncodeEntry(keyShare, e) = x ++ a BY DEF EncodeEntry, ++, keyShare, serverName
<1>8. IsEntry(keyShare, e) BY <1>2, <1>3 DEF IsEntry, keyShare, serverName
<1> HIDE DEF c, n, b, s, e, x, a
<1>9. c = (x ++ a) ++ s BY <1>3, <1>6, CatAssociative
<1>10. EncodeEntry(keyShare, e) \in Seq(Byte) /\ Len(EncodeEntry(keyShare, e)) > 0
  <2>1. <<>> \in Seq(Byte) OBVIOUS
  <2> QED BY <1>8, <2>1, EntryBack
<1>11. r.rest = EncodeEntry(keyShare, e) ++ nextEntry(r, 2, -1).rest BY <1>5, <1>7, <1>9 DEF c
<1>12. nextEntry(r, 2, -1) = Read(Append(r.v, e), nextEntry(r, 2, -1).rest) /\ nextEntry(r, 2, -1).rest \in Seq(Byte)
  BY <1>3, <1>5 DEF e
<1> QED BY <1>8, <1>10, <1>11, <1>12, Zenon

\* t[n] is what the loop has after n turns.
IsReading(t, list, len, last, N) ==
  t = [n \in 0 .. N |-> IF n = 0 THEN Read(<<>>, list) ELSE nextEntry(t[n - 1], len, last)]

\* The loop can be run.
LEMMA ReadingExists ==
  ASSUME NEW N \in Nat, NEW list, NEW len, NEW last
  PROVE  \E t : IsReading(t, list, len, last, N)
<1> DEFINE s0 == Read(<<>>, list)
           step(r) == nextEntry(r, len, last)
           Is(t, n) == t = [k \in 0 .. n |-> IF k = 0 THEN s0 ELSE step(t[k - 1])]
           T == {n \in Nat : \E t : Is(t, n)}
<1>i. \A t, n : IsReading(t, list, len, last, n) <=> Is(t, n) BY DEF IsReading
<1> HIDE DEF s0, step
<1>1. 0 \in T
  <2> DEFINE t == [n \in 0 .. 0 |-> s0]
  <2>1. t = [k \in 0 .. 0 |-> IF k = 0 THEN s0 ELSE step(t[k - 1])] OBVIOUS
  <2> QED BY <2>1
<1>2. ASSUME NEW n \in 1 .. N, n - 1 \in T PROVE n \in T
  <2>1. PICK t : Is(t, n - 1) BY <1>2
  <2> DEFINE u == [k \in 0 .. n |-> IF k = n THEN step(t[n - 1]) ELSE t[k]]
  <2>2. \A k \in 0 .. n - 1 : u[k] = t[k] OBVIOUS
  <2>3. \A k \in 0 .. n - 1 : t[k] = IF k = 0 THEN s0 ELSE step(t[k - 1]) BY <2>1
  <2>4. \A k \in 0 .. n : u[k] = IF k = 0 THEN s0 ELSE step(u[k - 1])
    <3> TAKE k \in 0 .. n
    <3>1. CASE k = n BY <3>1, <2>2
    <3>2. CASE k # n /\ k = 0 BY <3>2, <2>2, <2>3
    <3>3. CASE k # n /\ k # 0
      <4>1. k \in 0 .. n - 1 /\ k - 1 \in 0 .. n - 1 BY <3>3
      <4> QED BY <4>1, <3>3, <2>2, <2>3
    <3> QED BY <3>1, <3>2, <3>3
  <2>5. u = [k \in 0 .. n |-> u[k]] OBVIOUS
  <2> HIDE DEF u
  <2>6. Is(u, n) BY <2>4, <2>5
  <2>7. n \in Nat OBVIOUS
  <2> HIDE DEF Is
  <2> QED BY <2>6, <2>7, Zenon
<1> HIDE DEF T
<1>3. \A n \in 0 .. N : n \in T BY <1>1, <1>2, Induction
<1>4. N \in T BY <1>3
<1>5. \E t : Is(t, N) BY <1>4 DEF T
<1> HIDE DEF Is
<1> QED BY <1>i, <1>5, Zenon

\* Entries is what it has in the end.
LEMMA EntriesRun ==
  ASSUME NEW list \in Seq(Byte), NEW len, NEW last
  PROVE  \E t : /\ Entries(list, len, last) = t[Len(list)]
                /\ t[0] = Read(<<>>, list)
                /\ \A n \in 1 .. Len(list) : t[n] = nextEntry(t[n - 1], len, last)
<1> DEFINE N == Len(list)
           t == CHOOSE t : IsReading(t, list, len, last, N)
<1>1. N \in Nat OBVIOUS
<1>2. Entries(list, len, last) = t[N] BY DEF Entries, IsReading
<1> HIDE DEF N
<1>3. IsReading(t, list, len, last, N) BY <1>1, ReadingExists
<1> HIDE DEF t
<1>4. \A n \in 0 .. N : t[n] = IF n = 0 THEN Read(<<>>, list) ELSE nextEntry(t[n - 1], len, last)
  BY <1>3 DEF IsReading
<1>5. t[0] = Read(<<>>, list) /\ \A n \in 1 .. N : t[n] = nextEntry(t[n - 1], len, last)
  BY <1>1, <1>4
<1> QED BY <1>2, <1>5 DEF N

\* When nothing is left to be read, or something could not be, nothing changes.
LEMMA NextIdle ==
  ASSUME NEW r, NEW len, NEW last, ~r.ok \/ r.rest = <<>>
  PROVE  nextEntry(r, len, last) = r
BY DEF nextEntry

\* What the loop has after n turns over list, in terms of what was written:
\* i entries, and nothing behind a last one.
HasRead(r, list, x, content, last, n, i) ==
  /\ r = Read(Upto(content, i), r.rest) /\ r.rest \in Seq(Byte)
  /\ i \in 0 .. Len(content) /\ \A k \in 1 .. i - 1 : content[k][1] # last
  /\ \/ /\ list = JoinedTo([k \in DOMAIN content |-> EncodeEntry(x, content[k])], i) ++ r.rest
        /\ i > 0 => content[i][1] # last
     \/ r.rest = <<>> /\ i > 0 /\ content[i][1] = last
  /\ Len(r.rest) = 0 \/ Len(r.rest) + n <= Len(list)

\* A list of entries.
IsList(x, content) ==
  /\ Len(content) \in Nat /\ DOMAIN content = 1 .. Len(content)
  /\ \A k \in 1 .. Len(content) : IsEntry(x, content[k])

\* One more turn.
LEMMA ReadsOn ==
  ASSUME NEW x, NEW content, IsList(x, content), NEW last, NEW n \in Nat,
         NEW list, list = Joined([k \in DOMAIN content |-> EncodeEntry(x, content[k])]),
         NEW r, NEW i, HasRead(r, list, x, content, last, n, i)
  PROVE  \E j : HasRead(nextEntry(r, TypeLen(x), last), list, x, content, last, n + 1, j)
<1> DEFINE p == [k \in DOMAIN content |-> EncodeEntry(x, content[k])]
           N == Len(content)
           q == nextEntry(r, TypeLen(x), last)
<1>1. N \in Nat /\ Len(p) = N /\ \A k \in 1 .. N : p[k] = EncodeEntry(x, content[k]) BY DEF IsList
<1>3. list = JoinedTo(p, N) BY <1>1, JoinedIs
<1>p. p = [k \in DOMAIN content |-> EncodeEntry(x, content[k])] OBVIOUS
<1> HIDE DEF p
<1>2. \A k \in 1 .. N : p[k] \in Seq(Byte) /\ Len(p[k]) > 0
  <2> TAKE k \in 1 .. N
  <2> DEFINE w == EncodeEntry(x, content[k])
  <2>1. IsEntry(x, content[k]) BY DEF IsList
  <2>2. <<>> \in Seq(Byte) OBVIOUS
  <2>3. w \in Seq(Byte) /\ Len(w) > 0 BY <2>1, <2>2, EntryBack
  <2>4. p[k] = w BY <1>1
  <2> HIDE DEF w
  <2> QED BY <2>3, <2>4
<1>4. /\ r = Read(Upto(content, i), r.rest) /\ r.rest \in Seq(Byte)
      /\ i \in 0 .. N /\ \A k \in 1 .. i - 1 : content[k][1] # last
      /\ \/ list = JoinedTo(p, i) ++ r.rest /\ (i > 0 => content[i][1] # last)
         \/ r.rest = <<>> /\ i > 0 /\ content[i][1] = last
      /\ Len(r.rest) = 0 \/ Len(r.rest) + n <= Len(list)
  BY <1>p DEF HasRead
<1>5. CASE r.rest = <<>>
  <2>1. q = r BY <1>5, NextIdle
  <2>2. Len(r.rest) = 0 BY <1>5
  <2>3. HasRead(r, list, x, content, last, n + 1, i) BY <1>4, <1>p, <2>2 DEF HasRead
  <2> QED BY <2>1, <2>3
<1>6. CASE r.rest # <<>>
  <2> DEFINE c == r.rest
             j == i + 1
             e == content[j]
             w == p[j]
  <2>0. c \in Seq(Byte) /\ c # <<>> /\ Len(c) \in Nat /\ Len(c) # 0 BY <1>4, <1>6, NoBytes
  <2>1. list = JoinedTo(p, i) ++ c /\ (i > 0 => content[i][1] # last) /\ Len(c) + n <= Len(list)
    BY <1>4, <1>6, <2>0
  <2>2. JoinedTo(p, N) = JoinedTo(p, i) ++ c /\ IsParts(p, N) BY <1>1, <1>2, <1>3, <2>1 DEF IsParts
  <2>3. i # N /\ \E s \in Seq(Byte) : c = p[j] ++ s /\ JoinedTo(p, N) = JoinedTo(p, j) ++ s
    <3> HIDE DEF c, N
    <3> QED BY <1>4, <2>0, <2>2, RestOfParts
  <2>4. i \in Nat /\ j \in 1 .. N /\ j \in Nat /\ j > 0 /\ j - 1 = i BY <1>1, <1>4, <2>3
  <2>6. PICK s \in Seq(Byte) : c = w ++ s /\ list = JoinedTo(p, j) ++ s BY <1>3, <2>3
  <2>7. IsEntry(x, e) /\ w = EncodeEntry(x, e) /\ w \in Seq(Byte) /\ Len(w) > 0
    BY <1>1, <1>2, <2>4 DEF IsList
  <2> DEFINE Q == JoinedTo(p, j)
  <2>9. list = Q ++ s BY <2>6
  <2>10. c = w ++ s BY <2>6
  <2>l. list \in Seq(Byte)
    <3>1. \A k \in 1 .. N : p[k] \in Seq(Byte) BY <1>2
    <3> HIDE DEF N
    <3>2. JoinedTo(p, N) \in Seq(Byte) BY <1>1, <3>1, JoinType
    <3> QED BY <1>3, <3>2
  <2> HIDE DEF Q, w, e, c, j
  <2>11. Len(c) = Len(w) + Len(s) /\ Len(w) \in Nat /\ Len(s) \in Nat
    <3>1. Len(w ++ s) = Len(w) + Len(s) /\ Len(w) \in Nat /\ Len(s) \in Nat BY <2>7, CatFacts
    <3> QED BY <2>10, <3>1
  <2> DEFINE f == IF e[1] = last THEN <<>> ELSE s
             V == Upto(content, i)
  <2>12. q = Read(Append(V, e), f)
    <3>1. r = Read(V, w ++ s) BY <1>4, <2>10 DEF c
    <3> HIDE DEF V
    <3>2. nextEntry(Read(V, EncodeEntry(x, e) ++ s), TypeLen(x), last) = Read(Append(V, e), f)
      BY <2>7, EntryBack
    <3>3. nextEntry(Read(V, w ++ s), TypeLen(x), last) = Read(Append(V, e), f) BY <2>7, <3>2
    <3> QED BY <3>1, <3>3
  <2>13. Append(V, e) = Upto(content, j) BY <2>4, UptoFacts DEF j, e
  <2> HIDE DEF V
  <2>14. q = Read(Upto(content, j), f) BY <2>12, <2>13
  <2>15. q.rest = f BY <2>14, ReadFields
  <2>16. f \in Seq(Byte) OBVIOUS
  <2>17. \A k \in 1 .. j - 1 : content[k][1] # last
    <3>1. \A k \in 1 .. j - 1 : k \in 1 .. i - 1 \/ (k = i /\ i > 0) BY <2>4
    <3> QED BY <1>4, <2>1, <3>1
  <2>18. \/ list = JoinedTo(p, j) ++ f /\ content[j][1] # last
         \/ f = <<>> /\ content[j][1] = last
    BY <2>9 DEF Q, e
  <2>19. Len(f) = 0 \/ Len(f) + (n + 1) <= Len(list)
    <3>1. CASE e[1] = last BY <3>1
    <3>2. CASE e[1] # last
      <4>1. f = s BY <3>2
      <4>2. Len(c) + n <= Len(list) BY <2>1 DEF c
      <4>3. Len(list) \in Nat BY <2>l
      <4> HIDE DEF f
      <4>4. Len(s) + (n + 1) <= Len(list) BY <2>7, <2>11, <4>2, <4>3
      <4> QED BY <4>1, <4>4
    <3> QED BY <3>1, <3>2
  <2> HIDE DEF f
  <2>20. HasRead(q, list, x, content, last, n + 1, j)
    <3>1. q = Read(Upto(content, j), q.rest) /\ q.rest \in Seq(Byte) BY <2>14, <2>15, <2>16
    <3>2. j \in 0 .. Len(content) /\ j > 0 BY <2>4
    <3>3. \/ list = JoinedTo(p, j) ++ q.rest /\ content[j][1] # last
          \/ q.rest = <<>> /\ content[j][1] = last BY <2>15, <2>18
    <3>4. Len(q.rest) = 0 \/ Len(q.rest) + (n + 1) <= Len(list) BY <2>15, <2>19
    <3> HIDE DEF q
    <3> QED BY <1>p, <2>17, <3>1, <3>2, <3>3, <3>4 DEF HasRead
  <2> QED BY <2>20
<1> QED BY <1>5, <1>6

\* The bytes of a list of entries.
LEMMA ListBytes ==
  ASSUME NEW x, NEW content, IsList(x, content)
  PROVE  Joined([k \in DOMAIN content |-> EncodeEntry(x, content[k])]) \in Seq(Byte)
<1> DEFINE p == [k \in DOMAIN content |-> EncodeEntry(x, content[k])]
           N == Len(content)
<1>1. N \in Nat /\ Len(p) = N /\ \A k \in 1 .. N : p[k] = EncodeEntry(x, content[k]) BY DEF IsList
<1>2. Joined(p) = JoinedTo(p, N) BY <1>1, JoinedIs
<1> HIDE DEF p
<1>3. ASSUME NEW k \in 1 .. N PROVE p[k] \in Seq(Byte)
  <2>1. IsEntry(x, content[k]) BY DEF IsList
  <2>2. <<>> \in Seq(Byte) OBVIOUS
  <2>3. EncodeEntry(x, content[k]) \in Seq(Byte) BY <2>1, <2>2, EntryBack
  <2> QED BY <1>1, <2>3
<1> HIDE DEF N
<1>4. JoinedTo(p, N) \in Seq(Byte) BY <1>1, <1>3, JoinType
<1> QED BY <1>2, <1>4 DEF p

\* A list of entries is read back, up to the first last one.
LEMMA EntriesBack ==
  ASSUME NEW x, NEW content, IsList(x, content), NEW last
  PROVE  \E i \in 0 .. Len(content) :
           /\ Entries(Joined([k \in DOMAIN content |-> EncodeEntry(x, content[k])]), TypeLen(x), last)
                = Read(Upto(content, i), <<>>)
           /\ \A k \in 1 .. i - 1 : content[k][1] # last
           /\ \/ i = Len(content) /\ (i > 0 => content[i][1] # last)
              \/ i > 0 /\ content[i][1] = last
<1> DEFINE p == [k \in DOMAIN content |-> EncodeEntry(x, content[k])]
           list == Joined(p)
           N == Len(content)
           M == Len(list)
           len == TypeLen(x)
<1>1. N \in Nat /\ Len(p) = N /\ \A k \in 1 .. N : p[k] = EncodeEntry(x, content[k]) BY DEF IsList
<1>2. list \in Seq(Byte) /\ list = JoinedTo(p, N)
  <2>1. list \in Seq(Byte) BY ListBytes
  <2> QED BY <1>1, <2>1, JoinedIs
<1>p. p = [k \in DOMAIN content |-> EncodeEntry(x, content[k])] /\ list = Joined(p) OBVIOUS
<1> HIDE DEF p, list
<1>3. PICK t : /\ Entries(list, len, last) = t[M] /\ t[0] = Read(<<>>, list)
               /\ \A n \in 1 .. M : t[n] = nextEntry(t[n - 1], len, last)
  <2>1. \E t : /\ Entries(list, len, last) = t[Len(list)] /\ t[0] = Read(<<>>, list)
               /\ \A n \in 1 .. Len(list) : t[n] = nextEntry(t[n - 1], len, last)
    BY <1>2, EntriesRun
  <2> QED BY <2>1
<1> DEFINE T == {n \in 0 .. M : \E i : HasRead(t[n], list, x, content, last, n, i)}
<1>4. M \in Nat BY <1>2
<1>5. 0 \in T
  <2> DEFINE r == t[0]
             z == 0
  <2>1. r = Read(<<>>, list) /\ r.rest = list BY <1>3, ReadFields
  <2>2. JoinedTo(p, 0) = <<>> /\ Upto(content, 0) = <<>> BY JoinGrows, UptoFacts
  <2>3. <<>> ++ list = list BY <1>2, CatEmpty
  <2>4. r = Read(Upto(content, z), r.rest) /\ r.rest \in Seq(Byte) /\ list = JoinedTo(p, z) ++ r.rest
    BY <1>2, <2>1, <2>2, <2>3
  <2>5. z \in 0 .. N /\ ~(z > 0) /\ (\A k \in 1 .. z - 1 : content[k][1] # last)
        /\ Len(list) + z <= Len(list) BY <1>1, <1>4
  <2> HIDE DEF r, z
  <2>6. HasRead(r, list, x, content, last, z, z) BY <1>p, <2>1, <2>4, <2>5 DEF HasRead
  <2>7. HasRead(t[0], list, x, content, last, 0, 0) BY <2>6 DEF r, z
  <2> QED BY <1>4, <2>7
<1>6. ASSUME NEW n \in 1 .. M, n - 1 \in T PROVE n \in T
  <2> DEFINE m == n - 1
  <2>1. m \in Nat /\ m + 1 = n /\ n \in 0 .. M BY <1>4
  <2>2. PICK i : HasRead(t[m], list, x, content, last, m, i) BY <1>6
  <2>3. t[n] = nextEntry(t[m], len, last) BY <1>3
  <2> HIDE DEF m
  <2>4. \E j : HasRead(nextEntry(t[m], len, last), list, x, content, last, m + 1, j)
    BY <1>p, <2>1, <2>2, ReadsOn
  <2>5. \E j : HasRead(t[n], list, x, content, last, n, j) BY <2>1, <2>3, <2>4
  <2> QED BY <2>1, <2>5
<1> HIDE DEF T
<1>7. \A n \in 0 .. M : n \in T
  <2> HIDE DEF M
  <2> QED BY <1>4, <1>5, <1>6, Induction
<1>8. M \in T BY <1>4, <1>7
<1>9. PICK i : HasRead(t[M], list, x, content, last, M, i) BY <1>8 DEF T
<1> DEFINE r == t[M]
<1>10. /\ r = Read(Upto(content, i), r.rest) /\ r.rest \in Seq(Byte)
       /\ i \in 0 .. N /\ \A k \in 1 .. i - 1 : content[k][1] # last
       /\ \/ list = JoinedTo(p, i) ++ r.rest /\ (i > 0 => content[i][1] # last)
          \/ r.rest = <<>> /\ i > 0 /\ content[i][1] = last
       /\ Len(r.rest) = 0 \/ Len(r.rest) + M <= M
  BY <1>9, <1>p DEF HasRead
<1> HIDE DEF r, M
<1>11. r.rest = <<>>
  <2>1. Len(r.rest) \in Nat BY <1>10
  <2>2. Len(r.rest) = 0 BY <1>4, <1>10, <2>1
  <2> QED BY <1>10, <2>2, NoBytes
<1>12. Entries(list, len, last) = Read(Upto(content, i), <<>>) BY <1>3, <1>10, <1>11 DEF r
<1>13. \/ i = N /\ (i > 0 => content[i][1] # last)
       \/ i > 0 /\ content[i][1] = last
  <2>1. SUFFICES ASSUME list = JoinedTo(p, i) ++ r.rest, i > 0 => content[i][1] # last, i # N
                 PROVE  FALSE
    BY <1>10
  <2>2. ASSUME NEW k \in 1 .. N PROVE p[k] \in Seq(Byte) /\ Len(p[k]) > 0
    <3> DEFINE w == EncodeEntry(x, content[k])
    <3>1. IsEntry(x, content[k]) BY DEF IsList
    <3>2. <<>> \in Seq(Byte) OBVIOUS
    <3>3. w \in Seq(Byte) /\ Len(w) > 0 BY <3>1, <3>2, EntryBack
    <3>4. p[k] = w BY <1>1
    <3> HIDE DEF w
    <3> QED BY <3>3, <3>4
  <2>3. IsParts(p, N) BY <1>1, <2>2 DEF IsParts
  <2> DEFINE c == r.rest
  <2>4. c \in Seq(Byte) /\ c = <<>> /\ JoinedTo(p, N) = JoinedTo(p, i) ++ c BY <1>2, <1>10, <1>11, <2>1
  <2>5. i \in 0 .. N /\ i # N BY <1>10, <2>1
  <2> HIDE DEF c, N, p
  <2>6. c \in Seq(Byte) /\ JoinedTo(p, N) = JoinedTo(p, i) ++ c BY <2>4
  <2>7. i = N <=> c = <<>> BY <2>3, <2>5, <2>6, RestOfParts
  <2> QED BY <2>4, <2>5, <2>7
<1> QED BY <1>10, <1>12, <1>13 DEF list, p, len

\* What the loop has after n turns over any list, without a last entry.
HasTaken(r, list, n) ==
  r.ok => /\ r = Read(r.v, r.rest) /\ r.rest \in Seq(Byte) /\ IsList(keyShare, r.v)
          /\ r.v = Upto(r.v, Len(r.v))
          /\ list = Joined([k \in DOMAIN r.v |-> EncodeEntry(keyShare, r.v[k])]) ++ r.rest
          /\ Len(r.rest) = 0 \/ Len(r.rest) + n <= Len(list)

\* One more turn.
LEMMA TakesOn ==
  ASSUME NEW list \in Seq(Byte), NEW n \in Nat, NEW r, HasTaken(r, list, n)
  PROVE  HasTaken(nextEntry(r, 2, -1), list, n + 1)
<1> DEFINE q == nextEntry(r, 2, -1)
<1>1. SUFFICES ASSUME q.ok PROVE HasTaken(q, list, n + 1) BY DEF HasTaken
<1>2. r.ok
  <2>1. SUFFICES ASSUME ~r.ok PROVE FALSE OBVIOUS
  <2>2. q = r BY <2>1, NextIdle
  <2> QED BY <1>1, <2>1, <2>2
<1> DEFINE c == r.rest
           v == r.v
           p == [k \in DOMAIN v |-> EncodeEntry(keyShare, v[k])]
<1>3. /\ r = Read(v, c) /\ c \in Seq(Byte) /\ IsList(keyShare, v) /\ v = Upto(v, Len(v))
      /\ list = Joined(p) ++ c /\ (Len(c) = 0 \/ Len(c) + n <= Len(list))
  BY <1>2 DEF HasTaken
<1>4. CASE c = <<>>
  <2>1. q = r BY <1>4, NextIdle
  <2>2. Len(c) = 0 BY <1>4
  <2>3. HasTaken(r, list, n + 1) BY <1>3, <2>2 DEF HasTaken
  <2> QED BY <2>1, <2>3
<1>5. CASE c # <<>>
  <2>1. PICK e : /\ IsEntry(keyShare, e) /\ q = Read(Append(v, e), q.rest) /\ q.rest \in Seq(Byte)
                 /\ EncodeEntry(keyShare, e) \in Seq(Byte) /\ Len(EncodeEntry(keyShare, e)) > 0
                 /\ c = EncodeEntry(keyShare, e) ++ q.rest
    BY <1>1, <1>2, <1>3, <1>5, EntryRead
  <2> DEFINE w == EncodeEntry(keyShare, e)
             s == q.rest
             N == Len(v)
             u == q.v
             o == [k \in DOMAIN u |-> EncodeEntry(keyShare, u[k])]
  <2>a. q.v = Append(v, e)
    <3> DEFINE a == Append(v, e)
               b == q.rest
    <3>1. q = Read(a, b) BY <2>1
    <3> HIDE DEF a, b, q
    <3>2. q.v = a BY <3>1, ReadFields
    <3> QED BY <3>2 DEF a
  <2>2. N \in Nat /\ DOMAIN v = 1 .. N /\ (\A k \in 1 .. N : IsEntry(keyShare, v[k])) /\ v = Upto(v, N)
    BY <1>3 DEF IsList
  <2> HIDE DEF v, N
  <2>3. /\ Len(u) = N + 1 /\ DOMAIN u = 1 .. N + 1 /\ u[N + 1] = e /\ \A k \in 1 .. N : u[k] = v[k]
        /\ u = Upto(u, N + 1)
    <3> DEFINE f == [k \in 1 .. N + 1 |-> IF k = N + 1 THEN e ELSE v[k]]
    <3>1. \A k \in 1 .. N : f[k] = v[k] /\ k \in 1 .. N + 1 BY <2>2
    <3>2. f[N + 1] = e /\ Len(f) = N + 1 /\ DOMAIN f = 1 .. N + 1 BY <2>2
    <3>f. f = [k \in 1 .. N + 1 |-> f[k]] OBVIOUS
    <3> HIDE DEF f
    <3>3. Upto(f, N) = Upto(v, N) BY <3>1 DEF Upto
    <3>4. Append(Upto(f, N), f[N + 1]) = Upto(f, N + 1) BY <2>2, UptoFacts
    <3>5. Upto(f, N + 1) = f BY <3>f DEF Upto
    <3>6. Append(v, e) = f BY <2>2, <3>2, <3>3, <3>4, <3>5
    <3>7. u = f BY <2>a, <3>6 DEF v
    <3> HIDE DEF u
    <3> QED BY <3>1, <3>2, <3>5, <3>7
  <2>4. IsList(keyShare, u)
    <3>1. ASSUME NEW k \in 1 .. N + 1 PROVE IsEntry(keyShare, u[k])
      <4>1. k \in 1 .. N \/ k = N + 1 BY <2>2
      <4> QED BY <2>1, <2>2, <2>3, <4>1
    <3> HIDE DEF u
    <3> QED BY <2>2, <2>3, <3>1 DEF IsList
  <2>5. Len(p) = N /\ Len(o) = N + 1 /\ (\A k \in 1 .. N : o[k] = p[k]) /\ o[N + 1] = w
    <3> HIDE DEF u
    <3>1. Len(p) = N /\ \A k \in 1 .. N : p[k] = EncodeEntry(keyShare, v[k]) BY <2>2
    <3>2. Len(o) = N + 1 /\ \A k \in 1 .. N + 1 : o[k] = EncodeEntry(keyShare, u[k]) BY <2>2, <2>3
    <3>3. \A k \in 1 .. N : k \in 1 .. N + 1 BY <2>2
    <3>4. N + 1 \in 1 .. N + 1 BY <2>2
    <3> QED BY <2>3, <3>1, <3>2, <3>3, <3>4
  <2>6. Joined(p) \in Seq(Byte) BY <1>3, ListBytes DEF v
  <2>o. o = [k \in DOMAIN u |-> EncodeEntry(keyShare, u[k])] OBVIOUS
  <2>7. w \in Seq(Byte) /\ s \in Seq(Byte) /\ Len(w) > 0 /\ c = w ++ s BY <2>1
  <2> HIDE DEF p, o, w, s, u, c
  <2>8. Joined(o) = Joined(p) ++ w BY <2>2, <2>5, JoinedAppend
  <2>9. list = Joined(o) ++ s
    <3>1. (Joined(p) ++ w) ++ s = Joined(p) ++ (w ++ s) BY <2>6, <2>7, CatAssociative
    <3> QED BY <1>3, <2>7, <2>8, <3>1
  <2>10. Len(s) = 0 \/ Len(s) + (n + 1) <= Len(list)
    <3>1. Len(w ++ s) = Len(w) + Len(s) /\ Len(w) \in Nat /\ Len(s) \in Nat BY <2>7, CatFacts
    <3>2. Len(c) = Len(w) + Len(s) BY <2>7, <3>1
    <3>3. Len(c) # 0 /\ Len(list) \in Nat BY <2>7, <3>1, <3>2
    <3> QED BY <1>3, <2>7, <3>1, <3>2, <3>3
  <2>11. q = Read(u, s) BY <2>1, <2>a DEF u, s
  <2>12. q.rest = s /\ q.v = u BY DEF s, u
  <2>13. u = Upto(u, Len(u)) BY <2>3
  <2> HIDE DEF q
  <2> QED BY <2>4, <2>7, <2>9, <2>10, <2>11, <2>12, <2>13, <2>o DEF HasTaken
<1> QED BY <1>4, <1>5

\* Entries that were read, without a last one, have the bytes that were read.
LEMMA EntriesRead ==
  ASSUME NEW list \in Seq(Byte), Entries(list, 2, -1).ok
  PROVE  LET v == Entries(list, 2, -1).v
         IN  /\ IsList(keyShare, v) /\ v = Upto(v, Len(v))
             /\ list = Joined([k \in DOMAIN v |-> EncodeEntry(keyShare, v[k])])
<1> DEFINE M == Len(list)
<1>1. PICK t : /\ Entries(list, 2, -1) = t[Len(list)] /\ t[0] = Read(<<>>, list)
               /\ \A n \in 1 .. Len(list) : t[n] = nextEntry(t[n - 1], 2, -1)
  BY EntriesRun
<1> DEFINE T == {n \in 0 .. M : HasTaken(t[n], list, n)}
<1>2. M \in Nat OBVIOUS
<1>3. 0 \in T
  <2> DEFINE r == t[0]
             z == 0
             v == <<>>
             p == [k \in DOMAIN v |-> EncodeEntry(keyShare, v[k])]
  <2>1. p = <<>> /\ Len(p) = 0 OBVIOUS
  <2>2. Joined(p) = <<>>
    <3> DEFINE n == Len(p)
    <3>1. Joined(p) = JoinedTo(p, n) BY JoinedIs
    <3>2. n = 0 BY <2>1
    <3> HIDE DEF n, p
    <3>3. JoinedTo(p, 0) = <<>> BY JoinGrows
    <3> QED BY <3>1, <3>2, <3>3
  <2>3. list = Joined(p) ++ list BY <2>2, CatEmpty
  <2>4. IsList(keyShare, v) BY DEF IsList
  <2>5. v = Upto(v, Len(v)) BY DEF Upto
  <2>6. r = Read(v, list) BY <1>1
  <2>7. z \in Nat /\ Len(list) + z <= Len(list) BY <1>2
  <2> HIDE DEF v, r, z
  <2>8. r.v = v /\ r.rest = list BY <2>6, ReadFields
  <2>9. HasTaken(r, list, z) BY <2>3, <2>4, <2>5, <2>6, <2>7, <2>8 DEF HasTaken
  <2>10. HasTaken(t[0], list, 0) BY <2>9 DEF r, z
  <2> QED BY <1>2, <2>10
<1>4. ASSUME NEW n \in 1 .. M, n - 1 \in T PROVE n \in T
  <2> DEFINE m == n - 1
  <2>1. m \in Nat /\ m + 1 = n /\ n \in 0 .. M BY <1>2
  <2>2. HasTaken(t[m], list, m) BY <1>4
  <2>3. t[n] = nextEntry(t[m], 2, -1) BY <1>1
  <2> HIDE DEF m
  <2>4. HasTaken(nextEntry(t[m], 2, -1), list, m + 1) BY <2>1, <2>2, TakesOn
  <2>5. HasTaken(t[n], list, n) BY <2>1, <2>3, <2>4
  <2> QED BY <2>1, <2>5
<1> HIDE DEF T
<1>5. \A n \in 0 .. M : n \in T
  <2> HIDE DEF M
  <2> QED BY <1>2, <1>3, <1>4, Induction
<1>6. HasTaken(t[M], list, M) BY <1>2, <1>5 DEF T
<1> DEFINE r == t[M]
           v == r.v
           p == [k \in DOMAIN v |-> EncodeEntry(keyShare, v[k])]
<1>7. r.ok /\ Entries(list, 2, -1) = r BY <1>1
<1>8. /\ r.rest \in Seq(Byte) /\ IsList(keyShare, v) /\ v = Upto(v, Len(v)) /\ list = Joined(p) ++ r.rest
      /\ Len(r.rest) = 0 \/ Len(r.rest) + M <= M
  BY <1>6, <1>7 DEF HasTaken
<1>9. r.rest = <<>>
  <2> HIDE DEF r, M
  <2>1. Len(r.rest) \in Nat BY <1>8
  <2>2. Len(r.rest) = 0 BY <1>2, <1>8, <2>1
  <2> QED BY <1>8, <2>2, NoBytes
<1>10. Joined(p) \in Seq(Byte)
  <2> HIDE DEF v
  <2> QED BY <1>8, ListBytes
<1>p. p = [k \in DOMAIN v |-> EncodeEntry(keyShare, v[k])] OBVIOUS
<1> HIDE DEF p
<1>11. list = Joined(p) BY <1>8, <1>9, <1>10, CatEmpty
<1> QED BY <1>7, <1>8, <1>11, <1>p

------------------------------------------------------------------------------
(***************************************************************************)
(* Extensions.                                                             *)
(***************************************************************************)

\* A sequence is all of its members.
LEMMA UptoAll ==
  ASSUME NEW S, NEW c \in Seq(S)
  PROVE  c = Upto(c, Len(c)) /\ Len(c) \in Nat /\ DOMAIN c = 1 .. Len(c)
BY DEF Upto

\* What the case distinctions over the types of extensions come to.
LEMMA ListCase ==
  ASSUME NEW x \in {serverName, keyShare}, NEW c
  PROVE  /\ EncodeExtension(x, c) = appendU16Vector(Joined([k \in DOMAIN c |-> EncodeEntry(x, c[k])]))
         /\ IsContent(x, c) => /\ c \in Seq((IF x = serverName THEN Byte ELSE Word) \X Seq(Byte))
                               /\ \A k \in DOMAIN c : Len(c[k][2]) \in Word
                               /\ Len(EncodeExtension(x, c)) \in Word
BY DEF EncodeExtension, IsContent, serverName, keyShare, supportedVersions, supportedGroups, signatureAlgorithms

\* The extensions that are vectors of words.
LEMMA WordsCase ==
  ASSUME NEW x \in {supportedVersions, supportedGroups, signatureAlgorithms}, NEW c
  PROVE  /\ EncodeExtension(x, c) = IF x = supportedVersions THEN appendU8Vector(U16s(c))
                                    ELSE appendU16Vector(U16s(c))
         /\ IsContent(x, c) => /\ c \in Seq(Word) /\ Len(EncodeExtension(x, c)) \in Word
                               /\ x = supportedVersions => 2 * Len(c) \in Byte
         /\ Meaning(x, c) = c
         /\ parseExtension(x, c) = parseU16Vector(Whole(c, IF x = supportedVersions THEN 1 ELSE 2))
BY DEF EncodeExtension, IsContent, Meaning, parseExtension, serverName, keyShare, supportedVersions, supportedGroups, signatureAlgorithms

\* The extensions the server does not know.
LEMMA OtherCase ==
  ASSUME NEW x, x \notin {serverName, keyShare, supportedVersions, supportedGroups, signatureAlgorithms},
         NEW c
  PROVE  /\ EncodeExtension(x, c) = c /\ (IsContent(x, c) => c \in Seq(Byte) /\ Len(c) \in Word)
         /\ Meaning(x, c) = <<>> /\ parseExtension(x, c) = Read(<<>>, <<>>)
BY DEF EncodeExtension, IsContent, Meaning, parseExtension

\* The extension with the names of the server.
LEMMA ServerNameCase ==
  ASSUME NEW c
  PROVE  /\ parseExtension(serverName, c) = parseServerNameExtension(c)
         /\ Meaning(serverName, c)
              = LET hosts == {k \in DOMAIN c : c[k][1] = 0} IN
                IF hosts = {} THEN <<>> ELSE c[CHOOSE k \in hosts : \A l \in hosts : k <= l][2]
BY DEF Meaning, parseExtension, serverName, keyShare, supportedVersions, supportedGroups, signatureAlgorithms

\* The extension with the key shares.
LEMMA KeyShareCase ==
  ASSUME NEW c
  PROVE  parseExtension(keyShare, c) = parseClientKeyShareExtension(c) /\ Meaning(keyShare, c) = c
BY DEF Meaning, parseExtension, serverName, keyShare, supportedVersions, supportedGroups, signatureAlgorithms

\* The contents of an extension that is a list of entries.
LEMMA ContentList ==
  ASSUME NEW x \in {serverName, keyShare}, NEW c, IsContent(x, c)
  PROVE  /\ IsList(x, c) /\ c = Upto(c, Len(c))
         /\ EncodeExtension(x, c) = appendU16Vector(Joined([k \in DOMAIN c |-> EncodeEntry(x, c[k])]))
         /\ Joined([k \in DOMAIN c |-> EncodeEntry(x, c[k])]) \in Seq(Byte)
         /\ Len(Joined([k \in DOMAIN c |-> EncodeEntry(x, c[k])])) \in Word
<1> DEFINE S == IF x = serverName THEN Byte ELSE Word
           p == [k \in DOMAIN c |-> EncodeEntry(x, c[k])]
           b == Joined(p)
<1>1. c \in Seq(S \X Seq(Byte)) /\ (\A k \in DOMAIN c : Len(c[k][2]) \in Word)
      /\ Len(EncodeExtension(x, c)) \in Word
  BY ListCase
<1>2. EncodeExtension(x, c) = appendU16Vector(b) BY ListCase
<1>3. Len(c) \in Nat /\ DOMAIN c = 1 .. Len(c) /\ c = Upto(c, Len(c)) BY <1>1, UptoAll
<1>4. IsList(x, c)
  <2>1. ASSUME NEW k \in 1 .. Len(c) PROVE IsEntry(x, c[k])
    <3> DEFINE e == c[k]
    <3> HIDE DEF S
    <3>1. e \in S \X Seq(Byte) BY <1>1, ElementOfSeq
    <3>2. Len(e[2]) \in Word BY <1>1, <1>3
    <3> HIDE DEF e
    <3>3. e = <<e[1], e[2]>> /\ e[1] \in S /\ e[2] \in Seq(Byte) BY <3>1
    <3> QED BY <3>2, <3>3 DEF IsEntry, S, e
  <2> QED BY <1>3, <2>1 DEF IsList
<1>5. b \in Seq(Byte) BY <1>4, ListBytes
<1> HIDE DEF b
<1>6. Len(b) \in Word
  <2> DEFINE n == Len(b)
             u == U16(n)
  <2>1. n \in Nat BY <1>5
  <2>2. u \in Seq(Byte) /\ Len(u) = 2 BY <2>1, U16Facts
  <2>3. appendU16Vector(b) = u ++ b BY DEF appendU16Vector, ++
  <2> HIDE DEF u
  <2>4. Len(u ++ b) = Len(u) + n BY <1>5, <2>2, CatFacts
  <2> HIDE DEF n
  <2>5. 2 + n \in Word BY <1>1, <1>2, <2>2, <2>3, <2>4
  <2>6. n \in Word BY <2>1, <2>5 DEF Word
  <2> QED BY <2>6 DEF n
<1> QED BY <1>2, <1>3, <1>4, <1>5, <1>6 DEF b

\* The first host name is found.
LEMMA ServerNameBack ==
  ASSUME NEW c, IsContent(serverName, c)
  PROVE  parseServerNameExtension(EncodeExtension(serverName, c)) = Read(Meaning(serverName, c), <<>>)
<1> DEFINE p == [k \in DOMAIN c |-> EncodeEntry(serverName, c[k])]
           b == Joined(p)
           N == Len(c)
<1>1. /\ IsList(serverName, c) /\ c = Upto(c, N) /\ b \in Seq(Byte) /\ Len(b) \in Word
      /\ EncodeExtension(serverName, c) = appendU16Vector(b)
  BY ContentList
<1>2. TypeLen(serverName) = 1 BY DEF TypeLen
<1>3. PICK i \in 0 .. N :
         /\ Entries(b, 1, 0) = Read(Upto(c, i), <<>>)
         /\ \A k \in 1 .. i - 1 : c[k][1] # 0
         /\ \/ i = N /\ (i > 0 => c[i][1] # 0)
            \/ i > 0 /\ c[i][1] = 0
  <2> DEFINE z == 0
             x == serverName
  <2>1. IsList(x, c) BY <1>1
  <2> HIDE DEF z
  <2>2. \E i \in 0 .. Len(c) :
           /\ Entries(Joined([k \in DOMAIN c |-> EncodeEntry(x, c[k])]), TypeLen(x), z)
                = Read(Upto(c, i), <<>>)
           /\ \A k \in 1 .. i - 1 : c[k][1] # z
           /\ \/ i = Len(c) /\ (i > 0 => c[i][1] # z)
              \/ i > 0 /\ c[i][1] = z
    <3> HIDE DEF x
    <3> QED BY <2>1, EntriesBack
  <2> QED BY <1>2, <2>2 DEF z
<1> HIDE DEF b
<1>4. Whole(appendU16Vector(b), 2) = Read(b, <<>>) BY <1>1, WholeBack
<1> DEFINE names == Entries(b, 1, 0)
           hosts == {k \in DOMAIN c : c[k][1] = 0}
           u == Upto(c, i)
           val == IF u # <<>> /\ u[Len(u)][1] = 0 THEN u[Len(u)][2] ELSE <<>>
<1>5. N \in Nat /\ DOMAIN c = 1 .. N /\ i \in Nat BY <1>1 DEF IsList
<1>6. Len(u) = i /\ (\A k \in 1 .. i : u[k] = c[k]) /\ (i = 0 <=> u = <<>>)
  <2>1. Len(u) = i /\ (\A k \in 1 .. i : u[k] = c[k]) BY <1>5, UptoFacts
  <2>2. i = 0 => u = <<>> BY <1>5, UptoFacts
  <2>3. u = <<>> => Len(u) = 0 OBVIOUS
  <2> HIDE DEF u
  <2> QED BY <2>1, <2>2, <2>3
<1>7. Meaning(serverName, c)
        = IF hosts = {} THEN <<>> ELSE c[CHOOSE k \in hosts : \A l \in hosts : k <= l][2]
  BY ServerNameCase
<1> HIDE DEF u
<1>10. parseServerNameExtension(EncodeExtension(serverName, c)) = Read(val, <<>>)
  <2> DEFINE data == appendU16Vector(b)
             list == Whole(data, 2)
  <2>1. list.ok /\ list.v = b BY <1>4, ReadFields
  <2>2. names.ok /\ names.v = u BY <1>3, ReadFields DEF u
  <2> HIDE DEF data, list, names
  <2>3. parseServerNameExtension(data) = Read(val, <<>>)
    BY <2>1, <2>2 DEF parseServerNameExtension, list, names
  <2> QED BY <1>1, <2>3 DEF data
<1>8. CASE i > 0 /\ c[i][1] = 0
  <2>1. i \in hosts BY <1>5, <1>8
  <2>2. \A l \in hosts : i <= l
    <3> TAKE l \in hosts
    <3>1. l \in 1 .. N /\ c[l][1] = 0 BY <1>5
    <3>2. ~(l \in 1 .. i - 1) BY <1>3, <3>1
    <3> QED BY <1>5, <3>1, <3>2
  <2>3. hosts \subseteq Nat BY <1>5
  <2> HIDE DEF hosts
  <2>4. (CHOOSE k \in hosts : \A l \in hosts : k <= l) = i
    <3> DEFINE m == CHOOSE k \in hosts : \A l \in hosts : k <= l
    <3>1. m \in hosts /\ \A l \in hosts : m <= l BY <2>1, <2>2
    <3> HIDE DEF m
    <3>2. m <= i /\ i <= m /\ m \in Nat BY <2>1, <2>2, <2>3, <3>1
    <3>3. m = i BY <1>5, <3>2
    <3> QED BY <3>3 DEF m
  <2>5. Meaning(serverName, c) = c[i][2] BY <1>7, <2>1, <2>4
  <2>6. u[Len(u)] = c[i] BY <1>5, <1>6, <1>8
  <2>7. val = c[i][2] BY <1>6, <1>8, <2>6
  <2>8. val = Meaning(serverName, c) BY <2>5, <2>7
  <2> QED BY <1>10, <2>8
<1>9. CASE i = N /\ (i > 0 => c[i][1] # 0)
  <2>1. \A k \in 1 .. N : k \in 1 .. i - 1 \/ (k = i /\ i > 0) BY <1>5, <1>9
  <2>2. \A k \in 1 .. N : c[k][1] # 0 BY <1>3, <1>9, <2>1
  <2>3. hosts = {} BY <1>5, <2>2
  <2>4. Meaning(serverName, c) = <<>> BY <1>7, <2>3
  <2>5. i > 0 => u[Len(u)] = c[i] BY <1>5, <1>6
  <2>6. val = <<>> BY <1>5, <1>6, <1>9, <2>5
  <2>7. val = Meaning(serverName, c) BY <2>4, <2>6
  <2> QED BY <1>10, <2>7
<1> QED BY <1>3, <1>8, <1>9

\* The shares are read back.
LEMMA KeyShareBack ==
  ASSUME NEW c, IsContent(keyShare, c)
  PROVE  parseClientKeyShareExtension(EncodeExtension(keyShare, c)) = Read(c, <<>>)
<1> DEFINE p == [k \in DOMAIN c |-> EncodeEntry(keyShare, c[k])]
           b == Joined(p)
           N == Len(c)
<1>1. /\ IsList(keyShare, c) /\ c = Upto(c, N) /\ b \in Seq(Byte) /\ Len(b) \in Word
      /\ EncodeExtension(keyShare, c) = appendU16Vector(b)
  BY ContentList
<1>2. TypeLen(keyShare) = 2 BY DEF TypeLen, keyShare, serverName
<1>3. PICK i \in 0 .. N :
         /\ Entries(b, 2, -1) = Read(Upto(c, i), <<>>)
         /\ \/ i = N
            \/ i > 0 /\ c[i][1] = -1
  <2> DEFINE z == -1
             x == keyShare
  <2>1. IsList(x, c) BY <1>1
  <2> HIDE DEF z
  <2>2. \E i \in 0 .. Len(c) :
           /\ Entries(Joined([k \in DOMAIN c |-> EncodeEntry(x, c[k])]), TypeLen(x), z)
                = Read(Upto(c, i), <<>>)
           /\ \A k \in 1 .. i - 1 : c[k][1] # z
           /\ \/ i = Len(c) /\ (i > 0 => c[i][1] # z)
              \/ i > 0 /\ c[i][1] = z
    <3> HIDE DEF x
    <3> QED BY <2>1, EntriesBack
  <2> QED BY <1>2, <2>2 DEF z
<1> HIDE DEF b
<1>4. Whole(appendU16Vector(b), 2) = Read(b, <<>>) BY <1>1, WholeBack
<1>5. i = N
  <2>1. N \in Nat /\ \A k \in 1 .. N : IsEntry(keyShare, c[k]) BY <1>1 DEF IsList
  <2>2. \A k \in 1 .. N : c[k][1] \in Word BY <2>1 DEF IsEntry, keyShare, serverName
  <2>3. \A k \in 1 .. N : c[k][1] # -1 BY <2>2 DEF Word
  <2> QED BY <1>3, <2>1, <2>3
<1>6. Entries(b, 2, -1) = Read(c, <<>>) BY <1>1, <1>3, <1>5
<1> DEFINE data == appendU16Vector(b)
           list == Whole(data, 2)
<1>7. list.ok /\ list.v = b BY <1>4, ReadFields
<1> HIDE DEF data, list
<1>8. parseClientKeyShareExtension(data) = Read(c, <<>>)
  BY <1>6, <1>7 DEF parseClientKeyShareExtension, list
<1> QED BY <1>1, <1>8 DEF data

\* A list of words is read back.
LEMMA WordsBack ==
  ASSUME NEW x \in {supportedVersions, supportedGroups, signatureAlgorithms}, NEW c, IsContent(x, c)
  PROVE  /\ EncodeExtension(x, c) \in Seq(Byte)
         /\ parseExtension(x, EncodeExtension(x, c)) = Read(c, <<>>)
<1> DEFINE b == U16s(c)
           d == EncodeExtension(x, c)
<1>1. /\ d = IF x = supportedVersions THEN appendU8Vector(b) ELSE appendU16Vector(b)
      /\ c \in Seq(Word) /\ Len(d) \in Word
      /\ x = supportedVersions => 2 * Len(c) \in Byte
  BY WordsCase
<1> HIDE DEF d
<1>2. parseExtension(x, d) = parseU16Vector(Whole(d, IF x = supportedVersions THEN 1 ELSE 2))
  BY WordsCase
<1>3. b \in Seq(Byte) /\ Len(b) = 2 * Len(c) BY <1>1, U16sFacts
<1>4. parseU16Vector(Read(b, <<>>)) = Read(c, <<>>) BY <1>1, U16sBack
<1> HIDE DEF b
<1>e. <<>> \in Seq(Byte) OBVIOUS
<1>5. CASE x = supportedVersions
  <2>1. d = appendU8Vector(b) /\ Len(b) \in Byte BY <1>1, <1>3, <1>5
  <2>2. Whole(d, 1) = Read(b, <<>>) BY <1>3, <2>1, WholeBack
  <2>3. appendU8Vector(b) \in Seq(Byte) BY <1>e, <1>3, <2>1, ReadVector1Back
  <2>4. parseExtension(x, d) = parseU16Vector(Whole(d, 1)) BY <1>2, <1>5
  <2>5. d \in Seq(Byte) BY <2>1, <2>3
  <2>6. parseExtension(x, d) = Read(c, <<>>) BY <1>4, <2>2, <2>4
  <2> QED BY <2>5, <2>6 DEF d
<1>6. CASE x # supportedVersions
  <2>1. d = appendU16Vector(b) BY <1>1, <1>6
  <2>2. Len(b) \in Word
    <3> DEFINE n == Len(b)
               u == U16(n)
    <3>1. n \in Nat BY <1>3
    <3>2. u \in Seq(Byte) /\ Len(u) = 2 BY <3>1, U16Facts
    <3>3. appendU16Vector(b) = u ++ b BY DEF appendU16Vector, ++
    <3> HIDE DEF u
    <3>4. Len(u ++ b) = Len(u) + n BY <1>3, <3>2, CatFacts
    <3> HIDE DEF n
    <3>5. 2 + n \in Word BY <1>1, <2>1, <3>2, <3>3, <3>4
    <3>6. n \in Word BY <3>1, <3>5 DEF Word
    <3> QED BY <3>6 DEF n
  <2>3. Whole(d, 2) = Read(b, <<>>) BY <1>3, <2>1, <2>2, WholeBack
  <2>4. appendU16Vector(b) \in Seq(Byte) BY <1>e, <1>3, <2>2, ReadVector2Back
  <2>5. parseExtension(x, d) = parseU16Vector(Whole(d, 2)) BY <1>2, <1>6
  <2>6. d \in Seq(Byte) BY <2>1, <2>4
  <2>7. parseExtension(x, d) = Read(c, <<>>) BY <1>4, <2>3, <2>5
  <2> QED BY <2>6, <2>7 DEF d
<1> QED BY <1>5, <1>6

\* An extension is read back as what it means.
LEMMA ExtensionBack ==
  ASSUME NEW x, NEW c, IsContent(x, c)
  PROVE  /\ EncodeExtension(x, c) \in Seq(Byte) /\ Len(EncodeExtension(x, c)) \in Word
         /\ parseExtension(x, EncodeExtension(x, c)) = Read(Meaning(x, c), <<>>)
<1> DEFINE d == EncodeExtension(x, c)
<1>0. Len(d) \in Word BY DEF IsContent
<1>1. CASE x \in {serverName, keyShare}
  <2> DEFINE b == Joined([k \in DOMAIN c |-> EncodeEntry(x, c[k])])
  <2>1. d = appendU16Vector(b) /\ b \in Seq(Byte) /\ Len(b) \in Word BY <1>1, ContentList
  <2>e. <<>> \in Seq(Byte) OBVIOUS
  <2> HIDE DEF b
  <2>2. appendU16Vector(b) \in Seq(Byte) BY <2>e, <2>1, ReadVector2Back
  <2>3. d \in Seq(Byte) BY <2>1, <2>2
  <2>4. CASE x = serverName BY <1>0, <2>3, <2>4, ServerNameBack, ServerNameCase
  <2>5. CASE x = keyShare BY <1>0, <2>3, <2>5, KeyShareBack, KeyShareCase
  <2> QED BY <1>1, <2>4, <2>5
<1>2. CASE x \in {supportedVersions, supportedGroups, signatureAlgorithms}
  <2>1. d \in Seq(Byte) /\ parseExtension(x, d) = Read(c, <<>>) BY <1>2, WordsBack
  <2>2. Meaning(x, c) = c BY <1>2, WordsCase
  <2> QED BY <1>0, <2>1, <2>2
<1>3. CASE x \notin {serverName, keyShare, supportedVersions, supportedGroups, signatureAlgorithms}
  <2>1. d = c /\ c \in Seq(Byte) BY <1>3, OtherCase
  <2>2. Meaning(x, c) = <<>> /\ parseExtension(x, d) = Read(<<>>, <<>>) BY <1>3, OtherCase
  <2> QED BY <1>0, <2>1, <2>2
<1> QED BY <1>1, <1>2, <1>3

\* What Whole read is all there is.
LEMMA WholeRead ==
  ASSUME NEW c \in Seq(Byte), NEW n \in {1, 2}, Whole(c, n).ok
  PROVE  /\ Whole(c, n).v \in Seq(Byte)
         /\ c = IF n = 1 THEN appendU8Vector(Whole(c, n).v) ELSE appendU16Vector(Whole(c, n).v)
<1> DEFINE r == readVector(c, n)
<1>1. r.ok /\ r.rest = <<>> /\ Whole(c, n) = r BY ReadFields DEF Whole
<1>2. CASE n = 1
  <2> DEFINE v == r.v
             w == appendU8Vector(v)
  <2>1. v \in Seq(Byte) /\ w \in Seq(Byte) /\ c = w ++ r.rest BY <1>1, <1>2, Vector1Read DEF Took
  <2>2. c = w
    <3> HIDE DEF w
    <3> QED BY <1>1, <2>1, CatEmpty
  <2> QED BY <1>1, <1>2, <2>1, <2>2
<1>3. CASE n = 2
  <2> DEFINE v == r.v
             w == appendU16Vector(v)
  <2>1. v \in Seq(Byte) /\ w \in Seq(Byte) /\ c = w ++ r.rest BY <1>1, <1>3, Vector2Read DEF Took
  <2>2. c = w
    <3> HIDE DEF w
    <3> QED BY <1>1, <2>1, CatEmpty
  <2> QED BY <1>1, <1>3, <2>1, <2>2
<1> QED BY <1>2, <1>3

\* What was read from an extension has the extension's bytes.
LEMMA ExtensionRead ==
  ASSUME NEW x \in {supportedVersions, supportedGroups, signatureAlgorithms, keyShare},
         NEW d \in Seq(Byte), parseExtension(x, d).ok
  PROVE  d = EncodeExtension(x, parseExtension(x, d).v)
<1>1. CASE x = keyShare
  <2> DEFINE list == Whole(d, 2)
             b == list.v
             v == Entries(b, 2, -1).v
             q == Joined([k \in DOMAIN v |-> EncodeEntry(x, v[k])])
  <2>1. parseExtension(x, d) = parseClientKeyShareExtension(d) BY <1>1, KeyShareCase
  <2>2. list.ok /\ parseExtension(x, d) = Entries(b, 2, -1)
    BY <2>1, ReadFields DEF parseClientKeyShareExtension
  <2>3. b \in Seq(Byte) /\ d = appendU16Vector(b)
    <3> DEFINE n == 2
    <3>1. n \in {1, 2} /\ n # 1 /\ Whole(d, n).ok BY <2>2
    <3> HIDE DEF n
    <3>2. /\ Whole(d, n).v \in Seq(Byte)
          /\ d = IF n = 1 THEN appendU8Vector(Whole(d, n).v) ELSE appendU16Vector(Whole(d, n).v)
      BY <3>1, WholeRead
    <3> QED BY <3>1, <3>2 DEF n
  <2>4. Entries(b, 2, -1).ok BY <2>2
  <2> HIDE DEF b
  <2>5. b = q BY <1>1, <2>3, <2>4, EntriesRead
  <2>6. EncodeExtension(x, v) = appendU16Vector(q) BY <1>1, ListCase
  <2> QED BY <2>2, <2>3, <2>5, <2>6
<1>2. CASE x # keyShare
  <2> DEFINE n == IF x = supportedVersions THEN 1 ELSE 2
             b == Whole(d, n)
             v == parseU16Vector(b).v
  <2>1. parseExtension(x, d) = parseU16Vector(b) BY <1>2, WordsCase
  <2>2. parseU16Vector(b).ok BY <2>1
  <2>3. b.ok BY <2>2, ReadFields DEF parseU16Vector
  <2>4. n \in {1, 2} OBVIOUS
  <2>5. b.v \in Seq(Byte) /\ d = IF n = 1 THEN appendU8Vector(b.v) ELSE appendU16Vector(b.v)
    <3> HIDE DEF n
    <3> QED BY <2>3, <2>4, WholeRead
  <2>6. U16s(v) = b.v
    <3> HIDE DEF b
    <3> QED BY <2>2, <2>5, U16sRead
  <2>7. EncodeExtension(x, v) = IF x = supportedVersions THEN appendU8Vector(U16s(v))
                                ELSE appendU16Vector(U16s(v))
    <3> HIDE DEF v
    <3> QED BY <1>2, WordsCase
  <2>8. d = EncodeExtension(x, v)
    <3> HIDE DEF v, b
    <3> QED BY <2>5, <2>6, <2>7
  <2> QED BY <2>1, <2>8
<1> QED BY <1>1, <1>2

------------------------------------------------------------------------------
(***************************************************************************)
(* The part of a ClientHello before the extensions.                        *)
(***************************************************************************)

\* Its bytes.
Front(h, comp) ==
  (((U16(h.version) ++ h.random) ++ appendU8Vector(h.sid)) ++ appendU16Vector(U16s(h.suites)))
    ++ appendU8Vector(comp)

\* The bytes of a ClientHello.
LEMMA PartsBytes ==
  ASSUME NEW h, NEW comp, NEW data
  PROVE  EncodeParts(h, comp, data)
           = Front(h, comp)
               ++ appendU16Vector(Joined([k \in DOMAIN h.exts |-> appendExtension(h.exts[k][1], data[k])]))
BY Zenon DEF EncodeParts, Front, ++

\* Six strings, taken from the front.
LEMMA SixStrings ==
  ASSUME NEW a \in Seq(Byte), NEW b \in Seq(Byte), NEW c \in Seq(Byte), NEW d \in Seq(Byte),
         NEW e \in Seq(Byte), NEW f \in Seq(Byte)
  PROVE  /\ ((((a ++ b) ++ c) ++ d) ++ e) ++ f = a ++ (b ++ (c ++ (d ++ (e ++ f))))
         /\ e ++ f \in Seq(Byte) /\ d ++ (e ++ f) \in Seq(Byte) /\ c ++ (d ++ (e ++ f)) \in Seq(Byte)
         /\ b ++ (c ++ (d ++ (e ++ f))) \in Seq(Byte)
         /\ a ++ (b ++ (c ++ (d ++ (e ++ f)))) \in Seq(Byte)
<1> DEFINE r4 == e ++ f
           r3 == d ++ r4
           r2 == c ++ r3
           r1 == b ++ r2
<1>1. r4 \in Seq(Byte) BY CatFacts
<1>2. r3 \in Seq(Byte)
  <2> HIDE DEF r4
  <2> QED BY <1>1, CatFacts
<1>3. r2 \in Seq(Byte)
  <2> HIDE DEF r3
  <2> QED BY <1>2, CatFacts
<1>4. r1 \in Seq(Byte)
  <2> HIDE DEF r2
  <2> QED BY <1>3, CatFacts
<1>5. a ++ r1 \in Seq(Byte)
  <2> HIDE DEF r1
  <2> QED BY <1>4, CatFacts
<1> DEFINE p1 == a ++ b
           p2 == p1 ++ c
           p3 == p2 ++ d
<1>6. p1 \in Seq(Byte) BY CatFacts
<1>7. p2 \in Seq(Byte)
  <2> HIDE DEF p1
  <2> QED BY <1>6, CatFacts
<1>8. p3 \in Seq(Byte)
  <2> HIDE DEF p2
  <2> QED BY <1>7, CatFacts
<1>9. (p3 ++ e) ++ f = p3 ++ r4
  <2> HIDE DEF p3
  <2> QED BY <1>8, CatAssociative
<1>10. p3 ++ r4 = p2 ++ r3
  <2> HIDE DEF p2, r4
  <2> QED BY <1>1, <1>7, CatAssociative
<1>11. p2 ++ r3 = p1 ++ r2
  <2> HIDE DEF p1, r3
  <2> QED BY <1>2, <1>6, CatAssociative
<1>12. p1 ++ r2 = a ++ r1
  <2> HIDE DEF r2
  <2> QED BY <1>3, CatAssociative
<1>13. (p3 ++ e) ++ f = a ++ r1
  <2> HIDE DEF p1, p2, p3, r1, r2, r3, r4
  <2> QED BY <1>9, <1>10, <1>11, <1>12
<1> QED BY <1>1, <1>2, <1>3, <1>4, <1>5, <1>13

\* The reads of parseFixedPart succeed.
FixedReads(body, version, r1, random, r2, sid, r3, cs, r4, comp, r5, exts, r6) ==
  /\ readU16(body) = Read(version, r1) /\ readBytes(r1, RandomLen) = Read(random, r2)
  /\ readVector(r2, 1) = Read(sid, r3) /\ readVector(r3, 2) = Read(cs, r4)
  /\ readVector(r4, 1) = Read(comp, r5) /\ readVector(r5, 2) = Read(exts, r6)

\* What parseFixedPart makes of what it reads.
LEMMA FixedParsed ==
  ASSUME NEW body, NEW version, NEW random, NEW sid, NEW cs, NEW comp, NEW exts,
         NEW r1, NEW r2, NEW r3, NEW r4, NEW r5, NEW r6,
         FixedReads(body, version, r1, random, r2, sid, r3, cs, r4, comp, r5, exts, r6)
  PROVE  parseFixedPart(body)
           = IF Len(sid) > MaxSessionID \/ Len(cs) % 2 # 0 \/ comp # <<0>> \/ r6 # <<>> THEN Failed
             ELSE Read([version |-> version, random |-> random, sid |-> sid,
                        suites |-> parseU16Vector(Read(cs, r4)).v, exts |-> <<>>], exts)
<1>1. readU16(body).ok /\ readU16(body).v = version /\ readU16(body).rest = r1 BY ReadFields DEF FixedReads
<1>2. /\ readBytes(r1, RandomLen).ok /\ readBytes(r1, RandomLen).v = random
      /\ readBytes(r1, RandomLen).rest = r2 BY ReadFields DEF FixedReads
<1>3. readVector(r2, 1).ok /\ readVector(r2, 1).v = sid /\ readVector(r2, 1).rest = r3 BY ReadFields DEF FixedReads
<1>4. readVector(r3, 2).ok /\ readVector(r3, 2).v = cs /\ readVector(r3, 2).rest = r4 BY ReadFields DEF FixedReads
<1>5. readVector(r4, 1).ok /\ readVector(r4, 1).v = comp /\ readVector(r4, 1).rest = r5 BY ReadFields DEF FixedReads
<1>6. readVector(r5, 2).ok /\ readVector(r5, 2).v = exts /\ readVector(r5, 2).rest = r6 BY ReadFields DEF FixedReads
<1>7. readVector(r3, 2) = Read(cs, r4) BY DEF FixedReads
<1> QED BY <1>1, <1>2, <1>3, <1>4, <1>5, <1>6, <1>7 DEF parseFixedPart

\* The fixed part of a ClientHello is read back if it is proper.
LEMMA FixedBack ==
  ASSUME NEW m, IsHello(m), RandomLen \in Nat, MaxSessionID \in Nat,
         NEW x \in Seq(Byte), Len(x) \in Word
  PROVE  LET c == Front(m, m.comp) ++ appendU16Vector(x) IN
         /\ c \in Seq(Byte)
         /\ parseFixedPart(c)
              = IF Len(m.sid) <= MaxSessionID /\ m.comp = <<0>>
                THEN Read([version |-> m.version, random |-> m.random, sid |-> m.sid,
                           suites |-> m.suites, exts |-> <<>>], x)
                ELSE Failed
<1> DEFINE cs == U16s(m.suites)
           A == U16(m.version)
           B == m.random
           C == appendU8Vector(m.sid)
           D == appendU16Vector(cs)
           E == appendU8Vector(m.comp)
           F == appendU16Vector(x)
           r5 == F
           r4 == E ++ r5
           r3 == D ++ r4
           r2 == C ++ r3
           r1 == B ++ r2
           body == A ++ r1
<1>0. /\ m.version \in Word /\ m.random \in Seq(Byte) /\ Len(m.random) = RandomLen
      /\ m.sid \in Seq(Byte) /\ Len(m.sid) \in Byte
      /\ m.suites \in Seq(Word) /\ 2 * Len(m.suites) \in Word
      /\ m.comp \in Seq(Byte) /\ Len(m.comp) \in Byte
  BY DEF IsHello
<1>e. <<>> \in Seq(Byte) OBVIOUS
<1>1. cs \in Seq(Byte) /\ Len(cs) = 2 * Len(m.suites) BY <1>0, U16sFacts
<1>2. parseU16Vector(Read(cs, r4)) = Read(m.suites, <<>>) BY <1>0, U16sBack
<1> HIDE DEF cs
<1>3. A \in Seq(Byte) BY <1>e, <1>0, ReadU16Back
<1>4. C \in Seq(Byte) BY <1>e, <1>0, ReadVector1Back
<1>5. Len(cs) \in Word /\ D \in Seq(Byte)
  <2>1. Len(cs) \in Word BY <1>0, <1>1
  <2> QED BY <1>e, <1>1, <2>1, ReadVector2Back
<1>6. E \in Seq(Byte) BY <1>e, <1>0, ReadVector1Back
<1>7. F \in Seq(Byte) /\ readVector(r5, 2) = Read(x, <<>>)
  <2>1. F \in Seq(Byte) /\ readVector(F ++ <<>>, 2) = Read(x, <<>>) BY <1>e, ReadVector2Back
  <2> HIDE DEF F
  <2>2. F ++ <<>> = F BY <2>1, CatEmpty
  <2> QED BY <2>1, <2>2
<1>8. Front(m, m.comp) ++ F = ((((A ++ B) ++ C) ++ D) ++ E) ++ F BY Zenon DEF Front, cs
<1>9. /\ ((((A ++ B) ++ C) ++ D) ++ E) ++ F = body
      /\ r4 \in Seq(Byte) /\ r3 \in Seq(Byte) /\ r2 \in Seq(Byte) /\ r1 \in Seq(Byte) /\ body \in Seq(Byte)
  <2> HIDE DEF A, B, C, D, E, F
  <2>1. B \in Seq(Byte) BY <1>0 DEF B
  <2>2. A \in Seq(Byte) /\ C \in Seq(Byte) /\ D \in Seq(Byte) /\ E \in Seq(Byte) /\ F \in Seq(Byte)
    BY <1>3, <1>4, <1>5, <1>6, <1>7
  <2> QED BY <2>1, <2>2, SixStrings
<1>10. readU16(body) = Read(m.version, r1)
  <2> HIDE DEF r1
  <2> QED BY <1>0, <1>9, ReadU16Back
<1>11. readBytes(r1, RandomLen) = Read(m.random, r2)
  <2> HIDE DEF r2
  <2>1. readBytes(m.random ++ r2, Len(m.random)) = Read(m.random, r2) BY <1>0, <1>9, ReadBytesBack
  <2> QED BY <1>0, <2>1
<1>12. readVector(r2, 1) = Read(m.sid, r3)
  <2> HIDE DEF r3
  <2> QED BY <1>0, <1>9, ReadVector1Back
<1>13. readVector(r3, 2) = Read(cs, r4)
  <2> HIDE DEF r4
  <2> QED BY <1>1, <1>5, <1>9, ReadVector2Back
<1>14. readVector(r4, 1) = Read(m.comp, r5)
  <2> HIDE DEF r5
  <2>1. r5 \in Seq(Byte) BY <1>7 DEF r5
  <2> QED BY <1>0, <2>1, ReadVector1Back
<1> HIDE DEF A, B, C, D, E, F, r1, r2, r3, r4, r5, body
<1> DEFINE r6 == <<>>
           sid == m.sid
           comp == m.comp
           v == [version |-> m.version, random |-> m.random, sid |-> m.sid,
                 suites |-> parseU16Vector(Read(cs, r4)).v, exts |-> <<>>]
<1>15. parseFixedPart(body)
         = IF Len(sid) > MaxSessionID \/ Len(cs) % 2 # 0 \/ comp # <<0>> \/ r6 # <<>> THEN Failed
           ELSE Read(v, x)
  <2> DEFINE ver == m.version
             rnd == m.random
  <2>1. readU16(body) = Read(ver, r1) BY <1>10
  <2>2. readBytes(r1, RandomLen) = Read(rnd, r2) BY <1>11
  <2>3. readVector(r2, 1) = Read(sid, r3) BY <1>12
  <2>4. readVector(r4, 1) = Read(comp, r5) BY <1>14
  <2>5. readVector(r5, 2) = Read(x, r6) BY <1>7 DEF r5
  <2>6. v = [version |-> ver, random |-> rnd, sid |-> sid,
             suites |-> parseU16Vector(Read(cs, r4)).v, exts |-> <<>>] OBVIOUS
  <2> HIDE DEF ver, rnd, sid, comp, v, r6
  <2>7. FixedReads(body, ver, r1, rnd, r2, sid, r3, cs, r4, comp, r5, x, r6)
    BY <1>13, <2>1, <2>2, <2>3, <2>4, <2>5 DEF FixedReads
  <2> QED BY <2>6, <2>7, FixedParsed
<1>16. Len(cs) % 2 = 0
  <2> DEFINE n == Len(m.suites)
             k == Len(cs)
  <2>1. n \in Nat /\ k = 2 * n BY <1>0, <1>1
  <2> HIDE DEF n, k
  <2>2. k % 2 = 0 BY <2>1
  <2> QED BY <2>2 DEF k
<1>17. parseU16Vector(Read(cs, r4)).v = m.suites
  <2> DEFINE s == m.suites
  <2>1. parseU16Vector(Read(cs, r4)) = Read(s, <<>>) BY <1>2
  <2> HIDE DEF s
  <2>2. parseU16Vector(Read(cs, r4)).v = s BY <2>1, ReadFields
  <2> QED BY <2>2 DEF s
<1>18. Len(sid) \in Nat BY <1>0
<1>19. v = [version |-> m.version, random |-> m.random, sid |-> m.sid,
            suites |-> m.suites, exts |-> <<>>] BY <1>17
<1> HIDE DEF v
<1>20. parseFixedPart(body) = IF Len(sid) <= MaxSessionID /\ comp = <<0>> THEN Read(v, x) ELSE Failed
  BY <1>15, <1>16, <1>18
<1>21. Front(m, m.comp) ++ appendU16Vector(x) = body BY <1>8, <1>9 DEF F
<1> QED BY <1>9, <1>19, <1>20, <1>21

\* A fixed part that was read has the bytes that were read.
LEMMA FixedRead ==
  ASSUME NEW c \in Seq(Byte), RandomLen \in Nat, parseFixedPart(c).ok
  PROVE  LET v == parseFixedPart(c).v
             x == parseFixedPart(c).rest
         IN  /\ v = [version |-> v.version, random |-> v.random, sid |-> v.sid,
                     suites |-> v.suites, exts |-> <<>>]
             /\ x \in Seq(Byte) /\ Len(x) \in Word
             /\ c = Front(v, <<0>>) ++ appendU16Vector(x)
<1> DEFINE version == readU16(c)
           random == readBytes(version.rest, RandomLen)
           sid == readVector(random.rest, 1)
           cs == readVector(sid.rest, 2)
           comp == readVector(cs.rest, 1)
           exts == readVector(comp.rest, 2)
           v == [version |-> version.v, random |-> random.v, sid |-> sid.v,
                 suites |-> parseU16Vector(cs).v, exts |-> <<>>]
<1>1. /\ version.ok /\ random.ok /\ sid.ok /\ cs.ok /\ Len(cs.v) % 2 = 0 /\ comp.ok /\ comp.v = <<0>>
      /\ exts.ok /\ exts.rest = <<>> /\ parseFixedPart(c) = Read(v, exts.v)
  BY ReadFields DEF parseFixedPart
<1> DEFINE A == U16(version.v)
           B == random.v
           C == appendU8Vector(sid.v)
           D == appendU16Vector(cs.v)
           E == appendU8Vector(comp.v)
           F == appendU16Vector(exts.v)
<1>2. version.rest \in Seq(Byte) /\ A \in Seq(Byte) /\ c = A ++ version.rest BY <1>1, U16Read DEF Took
<1> HIDE DEF version
<1>3. random.rest \in Seq(Byte) /\ B \in Seq(Byte) /\ version.rest = B ++ random.rest
  BY <1>1, <1>2, BytesRead DEF Took
<1> HIDE DEF random
<1>4. sid.rest \in Seq(Byte) /\ C \in Seq(Byte) /\ random.rest = C ++ sid.rest
  BY <1>1, <1>3, Vector1Read DEF Took
<1> HIDE DEF sid
<1>5. cs.rest \in Seq(Byte) /\ cs.v \in Seq(Byte) /\ D \in Seq(Byte) /\ sid.rest = D ++ cs.rest
  BY <1>1, <1>4, Vector2Read DEF Took
<1> HIDE DEF cs
<1>6. comp.rest \in Seq(Byte) /\ E \in Seq(Byte) /\ cs.rest = E ++ comp.rest
  BY <1>1, <1>5, Vector1Read DEF Took
<1> HIDE DEF comp
<1>7. /\ exts.rest \in Seq(Byte) /\ F \in Seq(Byte) /\ comp.rest = F ++ exts.rest
      /\ exts.v \in Seq(Byte) /\ Len(exts.v) \in Word
  BY <1>1, <1>6, Vector2Read DEF Took
<1> HIDE DEF exts
<1>8. U16s(parseU16Vector(cs).v) = cs.v
  <2>1. parseU16Vector(cs).ok BY <1>1, ReadFields DEF parseU16Vector
  <2> QED BY <1>5, <2>1, U16sRead
<1>9. v.version = version.v /\ v.random = random.v /\ v.sid = sid.v
      /\ v.suites = parseU16Vector(cs).v /\ v.exts = <<>> OBVIOUS
<1>10. Front(v, <<0>>) = (((A ++ B) ++ C) ++ D) ++ E
  <2>1. E = appendU8Vector(<<0>>) BY <1>1
  <2>2. A = U16(v.version) /\ B = v.random /\ C = appendU8Vector(v.sid) /\ D = appendU16Vector(U16s(v.suites))
    BY <1>8, <1>9
  <2> HIDE DEF A, B, C, D, E, v
  <2> QED BY <2>1, <2>2, Zenon DEF Front
<1>11. v = [version |-> v.version, random |-> v.random, sid |-> v.sid, suites |-> v.suites, exts |-> <<>>]
  OBVIOUS
<1> HIDE DEF A, B, C, D, E, v
<1> DEFINE x == exts.v
<1>12. comp.rest = F BY <1>1, <1>7, CatEmpty
<1>f. F = appendU16Vector(x) OBVIOUS
<1> HIDE DEF F
<1>13. ((((A ++ B) ++ C) ++ D) ++ E) ++ F = A ++ (B ++ (C ++ (D ++ (E ++ F))))
  <2>1. /\ A \in Seq(Byte) /\ B \in Seq(Byte) /\ C \in Seq(Byte)
        /\ D \in Seq(Byte) /\ E \in Seq(Byte) /\ F \in Seq(Byte)
    BY <1>2, <1>3, <1>4, <1>5, <1>6, <1>7
  <2> QED BY <2>1, SixStrings
<1>14. c = A ++ (B ++ (C ++ (D ++ (E ++ F)))) BY <1>2, <1>3, <1>4, <1>5, <1>6, <1>12, Zenon
<1>15. c = Front(v, <<0>>) ++ F BY <1>10, <1>13, <1>14
<1>16. parseFixedPart(c).v = v /\ parseFixedPart(c).rest = x
  <2>1. parseFixedPart(c) = Read(v, x) BY <1>1
  <2> HIDE DEF x
  <2> QED BY <2>1, ReadFields
<1>17. x \in Seq(Byte) /\ Len(x) \in Word /\ c = Front(v, <<0>>) ++ appendU16Vector(x)
  BY <1>7, <1>15, <1>f
<1> HIDE DEF x
<1> QED BY <1>11, <1>16, <1>17

------------------------------------------------------------------------------
(***************************************************************************)
(* The extensions of a ClientHello.                                        *)
(***************************************************************************)

\* An extension with its type and length is read back.
LEMMA PartBack ==
  ASSUME NEW x \in Word, NEW d \in Seq(Byte), Len(d) \in Word, NEW s \in Seq(Byte)
  PROVE  /\ appendExtension(x, d) \in Seq(Byte) /\ Len(appendExtension(x, d)) > 0
         /\ readU16(appendExtension(x, d) ++ s) = Read(x, appendU16Vector(d) ++ s)
         /\ readVector(appendU16Vector(d) ++ s, 2) = Read(d, s)
<1> DEFINE a == U16(x)
           b == appendU16Vector(d)
           r == b ++ s
<1>1. appendExtension(x, d) = a ++ b BY DEF appendExtension, ++
<1>2. b \in Seq(Byte) /\ readVector(r, 2) = Read(d, s) BY ReadVector2Back
<1> HIDE DEF b
<1>3. r \in Seq(Byte) BY <1>2, CatFacts
<1> HIDE DEF r
<1>4. readU16(a ++ r) = Read(x, r) /\ a \in Seq(Byte) /\ Len(a) = 2 BY <1>3, ReadU16Back
<1> HIDE DEF a
<1>5. (a ++ b) ++ s = a ++ r BY <1>2, <1>4, CatAssociative DEF r
<1>6. a ++ b \in Seq(Byte) /\ Len(a ++ b) = Len(a) + Len(b) /\ Len(b) \in Nat BY <1>2, <1>4, CatFacts
<1>7. Len(a ++ b) > 0 BY <1>4, <1>6
<1>8. readU16((a ++ b) ++ s) = Read(x, r) BY <1>4, <1>5
<1> QED BY <1>1, <1>2, <1>6, <1>7, <1>8 DEF b, r

\* The bytes of the extensions of a ClientHello.
LEMMA HelloParts ==
  ASSUME NEW m, IsHello(m)
  PROVE  LET p == ExtensionParts(m.exts)
             L == Len(m.exts)
         IN  /\ L \in Nat /\ DOMAIN m.exts = 1 .. L /\ IsParts(p, L) /\ Joined(p) = JoinedTo(p, L)
             /\ \A k \in 1 .. L :
                  p[k] = appendExtension(m.exts[k][1], EncodeExtension(m.exts[k][1], m.exts[k][2]))
             /\ Joined(p) \in Seq(Byte) /\ Len(Joined(p)) \in Word
<1> DEFINE p == ExtensionParts(m.exts)
           L == Len(m.exts)
<1>1. /\ L \in Nat /\ DOMAIN m.exts = 1 .. L /\ Len(Joined(p)) \in Word
      /\ \A k \in 1 .. L : m.exts[k][1] \in Word /\ IsContent(m.exts[k][1], m.exts[k][2])
  BY DEF IsHello
<1>2. /\ Len(p) = L
      /\ \A k \in 1 .. L :
           p[k] = appendExtension(m.exts[k][1], EncodeExtension(m.exts[k][1], m.exts[k][2]))
  BY <1>1 DEF ExtensionParts
<1>3. Joined(p) = JoinedTo(p, L) BY <1>2, JoinedIs
<1> HIDE DEF p, L
<1>4. ASSUME NEW k \in 1 .. L PROVE p[k] \in Seq(Byte) /\ Len(p[k]) > 0
  <2> DEFINE x == m.exts[k][1]
             d == EncodeExtension(x, m.exts[k][2])
             w == appendExtension(x, d)
  <2>1. x \in Word /\ IsContent(x, m.exts[k][2]) BY <1>1
  <2>2. d \in Seq(Byte) /\ Len(d) \in Word BY <2>1, ExtensionBack
  <2>e. <<>> \in Seq(Byte) OBVIOUS
  <2>3. p[k] = w BY <1>2
  <2> HIDE DEF x, d
  <2>4. w \in Seq(Byte) /\ Len(w) > 0 BY <2>e, <2>1, <2>2, PartBack
  <2> HIDE DEF w
  <2> QED BY <2>3, <2>4
<1>5. IsParts(p, L) BY <1>1, <1>4 DEF IsParts
<1>6. JoinedTo(p, L) \in Seq(Byte)
  <2>1. \A k \in 1 .. L : p[k] \in Seq(Byte) BY <1>4
  <2> QED BY <1>1, <2>1, JoinType
<1>7. Joined(p) \in Seq(Byte) BY <1>3, <1>6
<1> QED BY <1>1, <1>2, <1>3, <1>5, <1>7 DEF p, L

\* The bytes of a whole ClientHello.
LEMMA EncodeIs ==
  ASSUME NEW m
  PROVE  Encode(m) = Front(m, m.comp) ++ appendU16Vector(Joined(ExtensionParts(m.exts)))
<1> DEFINE data == [k \in DOMAIN m.exts |-> EncodeExtension(m.exts[k][1], m.exts[k][2])]
<1>1. [k \in DOMAIN m.exts |-> appendExtension(m.exts[k][1], data[k])] = ExtensionParts(m.exts)
  BY DEF ExtensionParts
<1>2. Encode(m) = EncodeParts(m, m.comp, data) BY DEF Encode
<1> HIDE DEF data
<1>3. EncodeParts(m, m.comp, data)
        = Front(m, m.comp)
            ++ appendU16Vector(Joined([k \in DOMAIN m.exts |-> appendExtension(m.exts[k][1], data[k])]))
  BY PartsBytes
<1> QED BY <1>1, <1>2, <1>3

------------------------------------------------------------------------------
(***************************************************************************)
(* The invariant.                                                          *)
(***************************************************************************)

\* The bytes of the extensions that were parsed.
ParsedParts == [k \in DOMAIN hello.exts |-> appendExtension(hello.exts[k][1], hello.exts[k][3])]

\* An extension that was parsed.
IsParsedExtension(e) ==
  /\ e[1] \in Word
  /\ e[1] \in {supportedVersions, supportedGroups, signatureAlgorithms, keyShare}
       => e[3] = EncodeExtension(e[1], e[2])

\* What is parsed and what is left are the bytes.
Parsed ==
  /\ hello = [version |-> hello.version, random |-> hello.random, sid |-> hello.sid,
              suites |-> hello.suites, exts |-> hello.exts]
  /\ Len(hello.exts) \in Nat /\ hello.exts = Upto(hello.exts, Len(hello.exts))
  /\ \A k \in 1 .. Len(hello.exts) : IsParsedExtension(hello.exts[k])
  /\ \A k, l \in 1 .. Len(hello.exts) : k # l => hello.exts[k][1] # hello.exts[l][1]
  /\ todo \in Seq(Byte) /\ Joined(ParsedParts) \in Seq(Byte)
  /\ bytes = Front(hello, <<0>>) ++ appendU16Vector(Joined(ParsedParts) ++ todo)

\* An extension of the message that was read back.
IsReadBack(e, sent) ==
  e[1] = sent[1] /\ e[2] = Meaning(sent[1], sent[2])

\* What is parsed is the message's, and what is left is the rest of it.
ReadSoFar ==
  /\ message.comp = <<0>> /\ Len(message.sid) <= MaxSessionID
  /\ hello.version = message.version /\ hello.random = message.random
  /\ hello.sid = message.sid /\ hello.suites = message.suites
  /\ Len(hello.exts) \in 0 .. Len(message.exts)
  /\ \A k \in 1 .. Len(hello.exts) : IsReadBack(hello.exts[k], message.exts[k])
  /\ Joined(ExtensionParts(message.exts))
       = JoinedTo(ExtensionParts(message.exts), Len(hello.exts)) ++ todo

\* The inductive invariant.
MessageIInv ==
  /\ message \in Hellos \cup Flights
  /\ mstate \in {"sent", "extensions", "accepted", "refused"} => message.kind = "hello"
  /\ mstate = "sent" => bytes \in Seq(Byte) /\ (~damaged => bytes = Encode(message))
  /\ mstate \in {"extensions", "accepted"} => Parsed /\ (~damaged => ReadSoFar)
  /\ mstate = "accepted" => todo = <<>>
  /\ mstate = "refused" /\ ~damaged => ~Proper(message)
  /\ mstate = "flight" => message.kind = "flight" /\ bytes = ServerMessages(message)

\* The lengths are numbers.
LEMMA LengthsAreNumbers == RandomLen \in Nat /\ MaxSessionID \in Nat
BY MessagesAssumption DEF Word

\* The two kinds of messages.
LEMMA Kinds ==
  ASSUME message \in Hellos \cup Flights
  PROVE  /\ message.kind = "hello" => IsHello(message)
         /\ message.kind = "flight" => IsFlight(message)
BY MessagesAssumption DEF IsHello, IsFlight

\* The message is chosen.
LEMMA MessageInitInv == MessageInit => MessageIInv
BY DEF MessageInit, MessageIInv

\* The client builds its message: the bytes are a ClientHello's.
LEMMA BuildHelloInv == MessageIInv /\ BuildHello => MessageIInv'
<1> SUFFICES ASSUME MessageIInv, BuildHello PROVE MessageIInv' OBVIOUS
<1>1. message \in Hellos \cup Flights /\ message.kind = "hello" /\ bytes' = Encode(message)
      /\ mstate' = "sent" /\ message' = message
  BY DEF MessageIInv, BuildHello
<1>2. IsHello(message) BY <1>1, Kinds
<1>3. Encode(message) \in Seq(Byte)
  <2> DEFINE x == Joined(ExtensionParts(message.exts))
  <2>1. x \in Seq(Byte) /\ Len(x) \in Word BY <1>2, HelloParts
  <2>2. Encode(message) = Front(message, message.comp) ++ appendU16Vector(x) BY EncodeIs
  <2> HIDE DEF x
  <2>3. Front(message, message.comp) ++ appendU16Vector(x) \in Seq(Byte)
    BY <1>2, <2>1, FixedBack, LengthsAreNumbers
  <2> QED BY <2>2, <2>3
<1> QED BY <1>1, <1>3 DEF MessageIInv

\* Damage leaves bytes.
LEMMA DamageInv == ASSUME NEW d \in Damages PROVE MessageIInv /\ Damage(d) => MessageIInv'
<1> SUFFICES ASSUME MessageIInv, Damage(d) PROVE MessageIInv' OBVIOUS
<1>1. /\ message \in Hellos \cup Flights /\ message.kind = "hello" /\ bytes \in Seq(Byte)
      /\ mstate' = "sent" /\ message' = message /\ damaged' = TRUE /\ bytes' = Damaged(bytes, d)
      /\ d[1] = "cut" => d[2] <= Len(bytes)
      /\ d[1] = "set" => d[2] <= Len(bytes)
  BY DEF MessageIInv, Damage
<1>2. IsDamage(d) BY MessagesAssumption
<1>3. bytes' \in Seq(Byte)
  <2>1. CASE d[1] = "cut" /\ d[2] \in Nat
    <3> DEFINE n == Len(bytes) - d[2]
               z == 0
    <3>1. n \in Nat /\ n <= Len(bytes) /\ z \in Nat /\ z <= n BY <1>1, <2>1
    <3>2. bytes' = Slice(bytes, z, n) BY <1>1, <2>1 DEF Damaged
    <3> HIDE DEF n, z
    <3>3. Slice(bytes, z, n) \in Seq(Byte) BY <1>1, <3>1, SliceFacts
    <3> QED BY <3>2, <3>3
  <2>2. CASE d[1] = "append" /\ d[2] \in Byte
    <3>1. bytes' = Append(bytes, d[2]) BY <1>1, <2>2 DEF Damaged
    <3> QED BY <1>1, <2>2, <3>1, AppendProperties
  <2>3. CASE d[1] = "set" /\ d[2] \in Nat \ {0} /\ d[3] \in Byte
    <3>1. bytes' = [bytes EXCEPT ![d[2]] = d[3]] BY <1>1, <2>3 DEF Damaged
    <3>2. d[2] \in 1 .. Len(bytes) BY <1>1, <2>3
    <3> QED BY <1>1, <2>3, <3>1, <3>2, ExceptSeq
  <2> QED BY <1>2, <2>1, <2>2, <2>3 DEF IsDamage
<1> QED BY <1>1, <1>3 DEF MessageIInv

\* The loop over the extensions ends.
LEMMA AcceptHelloInv == MessageIInv /\ AcceptHello => MessageIInv'
BY DEF MessageIInv, AcceptHello, Parsed, ParsedParts, ReadSoFar

\* The server builds its messages.
LEMMA BuildFlightInv == MessageIInv /\ BuildFlight => MessageIInv'
BY DEF MessageIInv, BuildFlight

\* Parsing the fixed part.
LEMMA ParseFixedPartInv == MessageIInv /\ ParseFixedPart => MessageIInv'
<1> SUFFICES ASSUME MessageIInv, ParseFixedPart PROVE MessageIInv' OBVIOUS
<1> DEFINE fixed == parseFixedPart(bytes)
           v == fixed.v
           x == fixed.rest
           p == ExtensionParts(message.exts)
           j == Joined(p)
<1>1. /\ message \in Hellos \cup Flights /\ message.kind = "hello" /\ bytes \in Seq(Byte)
      /\ ~damaged => bytes = Encode(message)
      /\ message' = message /\ bytes' = bytes /\ damaged' = damaged
      /\ IF ~fixed.ok THEN Refuse
         ELSE hello' = v /\ todo' = x /\ mstate' = "extensions"
  BY DEF MessageIInv, ParseFixedPart
<1>2. IsHello(message) BY <1>1, Kinds
<1>3. j \in Seq(Byte) /\ Len(j) \in Word /\ j = JoinedTo(p, Len(message.exts)) /\ Len(message.exts) \in Nat
  BY <1>2, HelloParts
<1>4. ASSUME ~damaged
      PROVE  fixed = IF Len(message.sid) <= MaxSessionID /\ message.comp = <<0>>
                     THEN Read([version |-> message.version, random |-> message.random,
                                sid |-> message.sid, suites |-> message.suites, exts |-> <<>>], j)
                     ELSE Failed
  <2> DEFINE c == Front(message, message.comp) ++ appendU16Vector(j)
  <2>1. bytes = c BY <1>1, <1>4, EncodeIs
  <2> HIDE DEF j
  <2>2. parseFixedPart(c)
          = IF Len(message.sid) <= MaxSessionID /\ message.comp = <<0>>
            THEN Read([version |-> message.version, random |-> message.random,
                       sid |-> message.sid, suites |-> message.suites, exts |-> <<>>], j)
            ELSE Failed
    BY <1>2, <1>3, FixedBack, LengthsAreNumbers
  <2> HIDE DEF c
  <2> QED BY <2>1, <2>2
<1>5. CASE ~fixed.ok
  <2>1. mstate' = "refused" BY <1>1, <1>5 DEF Refuse
  <2>2. ASSUME ~damaged PROVE ~Proper(message)
    <3> HIDE DEF fixed, j
    <3>1. ~(Len(message.sid) <= MaxSessionID /\ message.comp = <<0>>)
      BY <1>4, <1>5, <2>2, ReadFields
    <3> QED BY <3>1 DEF Proper
  <2>3. Proper(message)' <=> Proper(message) BY <1>1 DEF Proper
  <2> QED BY <1>1, <2>1, <2>2, <2>3 DEF MessageIInv
<1>6. CASE fixed.ok
  <2>1. hello' = v /\ todo' = x /\ mstate' = "extensions" BY <1>1, <1>6
  <2>2. /\ v = [version |-> v.version, random |-> v.random, sid |-> v.sid,
                suites |-> v.suites, exts |-> <<>>]
        /\ x \in Seq(Byte) /\ Len(x) \in Word
        /\ bytes = Front(v, <<0>>) ++ appendU16Vector(x)
    BY <1>1, <1>6, FixedRead, LengthsAreNumbers
  <2> HIDE DEF fixed, v, x
  <2>3. v.exts = <<>> BY <2>2
  <2>4. Len(v.exts) = 0 /\ DOMAIN v.exts = {} /\ v.exts = Upto(v.exts, 0) /\ 1 .. Len(v.exts) = {}
    BY <2>3 DEF Upto
  <2> DEFINE e == [k \in DOMAIN v.exts |-> appendExtension(v.exts[k][1], v.exts[k][3])]
  <2>5. Joined(e) = <<>>
    <3>1. Len(e) = 0
      <4>1. e = <<>> BY <2>4
      <4> QED BY <4>1
    <3> HIDE DEF e
    <3>2. Joined(e) = JoinedTo(e, 0) BY <3>1, JoinedIs
    <3> QED BY <3>2, JoinGrows
  <2>6. ParsedParts' = e BY <2>1 DEF ParsedParts
  <2> HIDE DEF e
  <2>7. Joined(ParsedParts)' = <<>> BY <2>5, <2>6
  <2>8. <<>> ++ x = x /\ <<>> \in Seq(Byte) BY <2>2, CatEmpty
  <2>9. Parsed'
    <3>1. hello' = [version |-> hello'.version, random |-> hello'.random, sid |-> hello'.sid,
                    suites |-> hello'.suites, exts |-> hello'.exts]
      BY <2>1, <2>2, <2>3
    <3>2. Len(hello'.exts) = 0 /\ hello'.exts = Upto(hello'.exts, 0) /\ 1 .. Len(hello'.exts) = {}
      BY <2>1, <2>4
    <3>3. bytes' = Front(hello', <<0>>) ++ appendU16Vector(Joined(ParsedParts)' ++ todo')
      BY <1>1, <2>1, <2>2, <2>7, <2>8
    <3>4. todo' \in Seq(Byte) /\ Joined(ParsedParts)' \in Seq(Byte) BY <2>1, <2>2, <2>7, <2>8
    <3>5. Len(hello'.exts) \in Nat /\ hello'.exts = Upto(hello'.exts, Len(hello'.exts)) BY <3>2
    <3>6. /\ \A k \in 1 .. Len(hello'.exts) : IsParsedExtension(hello'.exts[k])
          /\ \A k, l \in 1 .. Len(hello'.exts) : k # l => hello'.exts[k][1] # hello'.exts[l][1]
      BY <3>2
    <3> QED BY Zenon, <3>1, <3>3, <3>4, <3>5, <3>6 DEF Parsed
  <2>10. ASSUME ~damaged PROVE ReadSoFar'
    <3> DEFINE m == [version |-> message.version, random |-> message.random,
                     sid |-> message.sid, suites |-> message.suites, exts |-> <<>>]
    <3>f. m.version = message.version /\ m.random = message.random
          /\ m.sid = message.sid /\ m.suites = message.suites
      OBVIOUS
    <3> HIDE DEF m
    <3>1. /\ Len(message.sid) <= MaxSessionID /\ message.comp = <<0>> /\ fixed = Read(m, j)
      <4> HIDE DEF j
      <4> QED BY <1>4, <1>6, <2>10, ReadFields DEF m
    <3>2. v = m /\ x = j
      <4> HIDE DEF j
      <4>1. fixed.v = m /\ fixed.rest = j BY <3>1, ReadFields
      <4> QED BY <4>1 DEF v, x
    <3>3. hello'.version = message.version /\ hello'.random = message.random
          /\ hello'.sid = message.sid /\ hello'.suites = message.suites
      BY <2>1, <3>f, <3>2
    <3>4. Len(hello'.exts) = 0 /\ 1 .. Len(hello'.exts) = {} BY <2>1, <2>4
    <3>5. j = JoinedTo(p, Len(hello'.exts)) ++ todo'
      <4>1. JoinedTo(p, 0) = <<>> BY JoinGrows
      <4>2. todo' = j BY <2>1, <3>2
      <4>3. <<>> ++ j = j BY <2>8, <3>2
      <4> HIDE DEF p, j
      <4> QED BY <3>4, <4>1, <4>2, <4>3
    <3>6. j = Joined(ExtensionParts(message'.exts)) /\ p = ExtensionParts(message'.exts) BY <1>1
    <3>7. Len(hello'.exts) \in 0 .. Len(message'.exts) BY <1>1, <1>3, <3>4
    <3>8. \A k \in 1 .. Len(hello'.exts) : IsReadBack(hello'.exts[k], message'.exts[k]) BY <3>4
    <3>9. Joined(ExtensionParts(message'.exts))
            = JoinedTo(ExtensionParts(message'.exts), Len(hello'.exts)) ++ todo'
      <4> HIDE DEF p, j
      <4> QED BY <3>5, <3>6
    <3> QED BY Zenon, <1>1, <3>1, <3>3, <3>7, <3>8, <3>9 DEF ReadSoFar
  <2> QED BY <1>1, <2>1, <2>9, <2>10 DEF MessageIInv
<1> QED BY <1>5, <1>6

\* The loop reads the next extension of an undamaged message.
LEMMA NextExtension ==
  ASSUME IsHello(message), ReadSoFar, todo \in Seq(Byte), todo # <<>>
  PROVE  LET n == Len(hello.exts) + 1
             p == ExtensionParts(message.exts)
             x == message.exts[n][1]
             c == message.exts[n][2]
         IN  /\ n \in 1 .. Len(message.exts) /\ DOMAIN message.exts = 1 .. Len(message.exts)
             /\ readU16(todo).ok /\ readU16(todo).v = x
             /\ parseExtension(x, EncodeExtension(x, c)) = Read(Meaning(x, c), <<>>)
             /\ \E s \in Seq(Byte) : /\ readVector(readU16(todo).rest, 2) = Read(EncodeExtension(x, c), s)
                                     /\ Joined(p) = JoinedTo(p, n) ++ s
<1> DEFINE N == Len(hello.exts)
           n == N + 1
           L == Len(message.exts)
           p == ExtensionParts(message.exts)
           x == message.exts[n][1]
           c == message.exts[n][2]
           d == EncodeExtension(x, c)
           j == Joined(p)
<1>1. /\ L \in Nat /\ DOMAIN message.exts = 1 .. L /\ IsParts(p, L) /\ j = JoinedTo(p, L)
      /\ \A k \in 1 .. L :
           p[k] = appendExtension(message.exts[k][1], EncodeExtension(message.exts[k][1], message.exts[k][2]))
  BY HelloParts
<1>2. N \in 0 .. L /\ j = JoinedTo(p, N) ++ todo BY DEF ReadSoFar
<1>3. \A k \in 1 .. L : message.exts[k][1] \in Word /\ IsContent(message.exts[k][1], message.exts[k][2])
  BY <1>1 DEF IsHello
<1> HIDE DEF N, L, p, j
<1>4. JoinedTo(p, L) = JoinedTo(p, N) ++ todo BY <1>1, <1>2
<1>5. N # L /\ \E s \in Seq(Byte) : todo = p[N + 1] ++ s /\ JoinedTo(p, L) = JoinedTo(p, N + 1) ++ s
  BY <1>1, <1>2, <1>4, RestOfParts
<1>6. PICK s \in Seq(Byte) : todo = p[n] ++ s /\ JoinedTo(p, L) = JoinedTo(p, n) ++ s BY <1>5
<1>7. n \in 1 .. L BY <1>1, <1>2, <1>5
<1>8. x \in Word /\ IsContent(x, c) /\ p[n] = appendExtension(x, d) BY <1>1, <1>3, <1>7
<1> HIDE DEF n, x, c
<1>9. d \in Seq(Byte) /\ Len(d) \in Word /\ parseExtension(x, d) = Read(Meaning(x, c), <<>>)
  BY <1>8, ExtensionBack
<1> HIDE DEF d
<1>10. /\ readU16(appendExtension(x, d) ++ s) = Read(x, appendU16Vector(d) ++ s)
       /\ readVector(appendU16Vector(d) ++ s, 2) = Read(d, s)
  BY <1>8, <1>9, PartBack
<1>11. readU16(todo) = Read(x, appendU16Vector(d) ++ s) BY <1>6, <1>8, <1>10
<1>12. readU16(todo).ok /\ readU16(todo).v = x /\ readU16(todo).rest = appendU16Vector(d) ++ s
  BY <1>11, ReadFields
<1>13. readVector(readU16(todo).rest, 2) = Read(d, s) BY <1>10, <1>12
<1>14. j = JoinedTo(p, n) ++ s BY <1>1, <1>6
<1>15. \E t \in Seq(Byte) : readVector(readU16(todo).rest, 2) = Read(d, t) /\ j = JoinedTo(p, n) ++ t
  BY <1>13, <1>14
<1> QED BY <1>1, <1>7, <1>9, <1>12, <1>15 DEF n, x, c, d, j, p, N, L

\* One more extension behind those that were parsed.
LEMMA MoreExtensions ==
  ASSUME NEW h, NEW e, Len(h) \in Nat, h = Upto(h, Len(h))
  PROVE  LET u == Append(h, e)
             N == Len(h)
         IN  /\ Len(u) = N + 1 /\ DOMAIN h = 1 .. N /\ DOMAIN u = 1 .. N + 1 /\ u[N + 1] = e
             /\ \A k \in 1 .. N : u[k] = h[k] /\ k \in 1 .. N + 1
             /\ u = Upto(u, N + 1)
<1> DEFINE N == Len(h)
           f == [k \in 1 .. N + 1 |-> IF k = N + 1 THEN e ELSE h[k]]
<1>0. N \in Nat /\ h = Upto(h, N) OBVIOUS
<1> HIDE DEF N
<1>1. \A k \in 1 .. N : f[k] = h[k] /\ k \in 1 .. N + 1 BY <1>0
<1>2. f[N + 1] = e /\ Len(f) = N + 1 /\ DOMAIN f = 1 .. N + 1 BY <1>0
<1>f. f = [k \in 1 .. N + 1 |-> f[k]] OBVIOUS
<1> HIDE DEF f
<1>3. Upto(f, N) = Upto(h, N) BY <1>1 DEF Upto
<1>4. Append(Upto(f, N), f[N + 1]) = Upto(f, N + 1) BY <1>0, UptoFacts
<1>5. Upto(f, N + 1) = f BY <1>f DEF Upto
<1>6. Append(h, e) = f BY <1>0, <1>2, <1>3, <1>4, <1>5
<1>7. DOMAIN h = 1 .. N BY <1>0 DEF Upto
<1>8. \A k \in 1 .. N : f[k] = h[k] /\ k \in 1 .. N + 1 BY <1>1
<1>9. f = Upto(f, N + 1) BY <1>5
<1> QED BY <1>2, <1>6, <1>7, <1>8, <1>9 DEF N

\* The fixed part of a hello is not touched by its extensions.
LEMMA SameFront ==
  ASSUME NEW h, NEW u,
         h = [version |-> h.version, random |-> h.random, sid |-> h.sid,
              suites |-> h.suites, exts |-> h.exts]
  PROVE  LET g == [h EXCEPT !.exts = u]
         IN  /\ g = [version |-> g.version, random |-> g.random, sid |-> g.sid,
                     suites |-> g.suites, exts |-> g.exts]
             /\ g.exts = u
             /\ g.version = h.version /\ g.random = h.random /\ g.sid = h.sid /\ g.suites = h.suites
             /\ Front(g, <<0>>) = Front(h, <<0>>)
<1> DEFINE g == [h EXCEPT !.exts = u]
           i == [version |-> h.version, random |-> h.random, sid |-> h.sid,
                 suites |-> h.suites, exts |-> u]
<1>1. g = i
  <2> DEFINE o == [version |-> h.version, random |-> h.random, sid |-> h.sid,
                   suites |-> h.suites, exts |-> h.exts]
  <2>1. [o EXCEPT !.exts = u] = i OBVIOUS
  <2>2. h = o OBVIOUS
  <2> HIDE DEF o, i
  <2>3. [h EXCEPT !.exts = u] = [o EXCEPT !.exts = u] BY <2>2
  <2> QED BY <2>1, <2>3
<1>2. /\ i = [version |-> i.version, random |-> i.random, sid |-> i.sid,
              suites |-> i.suites, exts |-> i.exts]
      /\ i.exts = u
      /\ i.version = h.version /\ i.random = h.random /\ i.sid = h.sid /\ i.suites = h.suites
  OBVIOUS
<1> HIDE DEF i
<1>3. Front(i, <<0>>) = Front(h, <<0>>) BY <1>2 DEF Front
<1> QED BY <1>1, <1>2, <1>3

\* An extension that is parsed keeps what is parsed and what is left the bytes.
LEMMA ParsedOn ==
  ASSUME Parsed, ParseExtension, mstate' # "refused"
  PROVE  LET x == readU16(todo).v
             d == readVector(readU16(todo).rest, 2)
         IN  /\ Parsed' /\ mstate' = "extensions"
             /\ hello' = [hello EXCEPT !.exts = Append(hello.exts, <<x, parseExtension(x, d.v).v, d.v>>)]
             /\ todo' = d.rest
<1> DEFINE et == readU16(todo)
           x == et.v
           data == readVector(et.rest, 2)
           d == data.v
           s == data.rest
           val == parseExtension(x, d)
           e == <<x, val.v, d>>
           h == hello.exts
           N == Len(h)
           u == Append(h, e)
           g == [hello EXCEPT !.exts = u]
           w == appendExtension(x, d)
           j == Joined(ParsedParts)
           q == [k \in DOMAIN u |-> appendExtension(u[k][1], u[k][3])]
<1>1. /\ et.ok /\ data.ok /\ ~Seen(x) /\ val.ok
      /\ hello' = g /\ todo' = s /\ mstate' = "extensions" /\ bytes' = bytes
  BY DEF ParseExtension, Refuse, Repeated
<1>2. /\ hello = [version |-> hello.version, random |-> hello.random, sid |-> hello.sid,
                  suites |-> hello.suites, exts |-> hello.exts]
      /\ N \in Nat /\ h = Upto(h, N)
      /\ \A k \in 1 .. N : IsParsedExtension(h[k])
      /\ \A k, l \in 1 .. N : k # l => h[k][1] # h[l][1]
      /\ todo \in Seq(Byte) /\ j \in Seq(Byte)
      /\ bytes = Front(hello, <<0>>) ++ appendU16Vector(j ++ todo)
  BY DEF Parsed
<1>3. x \in Word /\ Took(et, todo, U16(x)) BY <1>1, <1>2, U16Read
<1>4. et.rest \in Seq(Byte) /\ U16(x) \in Seq(Byte) /\ todo = U16(x) ++ et.rest BY <1>3 DEF Took
<1>5. d \in Seq(Byte) /\ Len(d) \in Word /\ Took(data, et.rest, appendU16Vector(d))
  BY <1>1, <1>4, Vector2Read
<1>6. s \in Seq(Byte) /\ appendU16Vector(d) \in Seq(Byte) /\ et.rest = appendU16Vector(d) ++ s
  BY <1>5 DEF Took
<1>7. todo = w ++ s /\ w \in Seq(Byte)
  <2>1. w = U16(x) ++ appendU16Vector(d) BY DEF appendExtension, ++
  <2> HIDE DEF w, x, d, s
  <2>2. (U16(x) ++ appendU16Vector(d)) ++ s = U16(x) ++ (appendU16Vector(d) ++ s)
    BY <1>4, <1>6, CatAssociative
  <2>3. U16(x) ++ appendU16Vector(d) \in Seq(Byte) BY <1>4, <1>6, CatFacts
  <2> QED BY <1>4, <1>6, <2>1, <2>2, <2>3
<1>8. x \in {supportedVersions, supportedGroups, signatureAlgorithms, keyShare}
        => d = EncodeExtension(x, val.v)
  BY <1>1, <1>5, ExtensionRead
<1>seen. ~Seen(x) => \A k \in DOMAIN h : h[k][1] # x BY DEF Seen
<1> HIDE DEF et, x, data, d, s, val
<1>9. e[1] = x /\ e[2] = val.v /\ e[3] = d OBVIOUS
<1> HIDE DEF e
<1>10. IsParsedExtension(e) BY <1>3, <1>8, <1>9 DEF IsParsedExtension
<1>11. /\ Len(u) = N + 1 /\ DOMAIN h = 1 .. N /\ DOMAIN u = 1 .. N + 1 /\ u[N + 1] = e
       /\ \A k \in 1 .. N : u[k] = h[k] /\ k \in 1 .. N + 1
       /\ u = Upto(u, N + 1)
  <2>1. Len(h) \in Nat /\ h = Upto(h, Len(h)) BY <1>2
  <2> HIDE DEF h
  <2> QED BY <2>1, MoreExtensions, Zenon
<1>12. /\ g = [version |-> g.version, random |-> g.random, sid |-> g.sid,
               suites |-> g.suites, exts |-> g.exts]
       /\ g.exts = u
       /\ g.version = hello.version /\ g.random = hello.random /\ g.sid = hello.sid
       /\ g.suites = hello.suites
       /\ Front(g, <<0>>) = Front(hello, <<0>>)
  <2>1. hello = [version |-> hello.version, random |-> hello.random, sid |-> hello.sid,
                 suites |-> hello.suites, exts |-> hello.exts]
    BY <1>2
  <2> HIDE DEF u
  <2> QED BY <2>1, SameFront, Zenon
<1>13. ParsedParts = [k \in DOMAIN h |-> appendExtension(h[k][1], h[k][3])] BY DEF ParsedParts
<1>14. ParsedParts' = q BY <1>1, <1>12 DEF ParsedParts
<1> HIDE DEF u, g, h, N
<1>15. \A k \in 1 .. N + 1 : k \in 1 .. N \/ k = N + 1 BY <1>2
<1>16. Joined(q) = j ++ w
  <2> DEFINE p == [k \in DOMAIN h |-> appendExtension(h[k][1], h[k][3])]
  <2>1. Len(p) = N /\ \A k \in 1 .. N : p[k] = appendExtension(h[k][1], h[k][3]) BY <1>2, <1>11
  <2>2. Len(q) = N + 1 /\ \A k \in 1 .. N + 1 : q[k] = appendExtension(u[k][1], u[k][3])
    BY <1>2, <1>11
  <2>j. j = Joined(p) BY <1>13
  <2> HIDE DEF p, q
  <2>3. \A k \in 1 .. N : q[k] = p[k] BY <1>11, <2>1, <2>2
  <2>4. N + 1 \in 1 .. N + 1 BY <1>2
  <2>5. q[N + 1] = w BY <1>9, <1>11, <2>2, <2>4
  <2>6. Joined(q) = Joined(p) ++ q[Len(q)] BY <1>2, <2>1, <2>2, <2>3, JoinedAppend
  <2> HIDE DEF w, j
  <2> QED BY <2>2, <2>5, <2>6, <2>j
<1> HIDE DEF q, w, j
<1>17. (j ++ w) ++ s = j ++ todo /\ j ++ w \in Seq(Byte)
  BY <1>2, <1>6, <1>7, CatAssociative, CatFacts
<1>18. Joined(ParsedParts)' = j ++ w BY <1>14, <1>16
<1>19. bytes' = Front(g, <<0>>) ++ appendU16Vector(Joined(ParsedParts)' ++ s)
  BY <1>1, <1>2, <1>12, <1>17, <1>18
<1>20. ASSUME NEW k \in 1 .. N + 1 PROVE IsParsedExtension(u[k])
  BY <1>2, <1>10, <1>11, <1>15
<1>21. ASSUME NEW k \in 1 .. N + 1, NEW l \in 1 .. N + 1, k # l PROVE u[k][1] # u[l][1]
  <2>1. \A i \in 1 .. N : u[i][1] # x BY <1>1, <1>seen, <1>11
  <2>2. u[N + 1][1] = x BY <1>9, <1>11
  <2>3. CASE k \in 1 .. N /\ l \in 1 .. N BY <1>2, <1>11, <1>21, <2>3
  <2>4. CASE k = N + 1 /\ l \in 1 .. N BY <2>1, <2>2, <2>4
  <2>5. CASE l = N + 1 /\ k \in 1 .. N BY <2>1, <2>2, <2>5
  <2> QED BY <1>15, <1>21, <2>3, <2>4, <2>5
<1>22. Parsed'
  <2>h. hello'.exts = u /\ Len(hello'.exts) = N + 1 BY <1>1, <1>11, <1>12
  <2>1. hello' = [version |-> hello'.version, random |-> hello'.random, sid |-> hello'.sid,
                  suites |-> hello'.suites, exts |-> hello'.exts]
    BY <1>1, <1>12
  <2>2. N + 1 \in Nat BY <1>2
  <2>3. Len(hello'.exts) \in Nat /\ hello'.exts = Upto(hello'.exts, Len(hello'.exts))
    BY <1>11, <2>h, <2>2
  <2>4. \A k \in 1 .. Len(hello'.exts) : IsParsedExtension(hello'.exts[k]) BY <1>20, <2>h
  <2>5. \A k, l \in 1 .. Len(hello'.exts) : k # l => hello'.exts[k][1] # hello'.exts[l][1]
    BY <1>21, <2>h
  <2>6. todo' \in Seq(Byte) /\ Joined(ParsedParts)' \in Seq(Byte) BY <1>1, <1>6, <1>17, <1>18
  <2>7. bytes' = Front(hello', <<0>>) ++ appendU16Vector(Joined(ParsedParts)' ++ todo')
    BY <1>1, <1>19
  <2> QED BY Zenon, <2>1, <2>3, <2>4, <2>5, <2>6, <2>7 DEF Parsed
<1> QED BY <1>1, <1>22 DEF g, u, e, h, val, s, d, data, x, et

\* Parsing an extension.
LEMMA ParseExtensionInv == MessageIInv /\ ParseExtension => MessageIInv'
<1> SUFFICES ASSUME MessageIInv, ParseExtension PROVE MessageIInv' OBVIOUS
<1> DEFINE et == readU16(todo)
           data == readVector(et.rest, 2)
           val == parseExtension(et.v, data.v)
           n == Len(hello.exts) + 1
           p == ExtensionParts(message.exts)
           x == message.exts[n][1]
           c == message.exts[n][2]
           d == EncodeExtension(x, c)
<1>1. /\ message \in Hellos \cup Flights /\ message.kind = "hello" /\ Parsed
      /\ ~damaged => ReadSoFar
      /\ todo # <<>> /\ mstate = "extensions"
      /\ message' = message /\ bytes' = bytes /\ damaged' = damaged
  BY DEF MessageIInv, ParseExtension
<1>2. IsHello(message) BY <1>1, Kinds
<1>t. todo \in Seq(Byte) BY <1>1 DEF Parsed
<1>3. ASSUME ~damaged
      PROVE  /\ n \in 1 .. Len(message.exts) /\ DOMAIN message.exts = 1 .. Len(message.exts)
             /\ et.ok /\ et.v = x /\ data.ok /\ data.v = d /\ val.ok /\ val.v = Meaning(x, c)
             /\ data.rest \in Seq(Byte) /\ Joined(p) = JoinedTo(p, n) ++ data.rest
  <2>1. ReadSoFar BY <1>1, <1>3
  <2>2. /\ n \in 1 .. Len(message.exts) /\ DOMAIN message.exts = 1 .. Len(message.exts)
        /\ et.ok /\ et.v = x
        /\ parseExtension(x, d) = Read(Meaning(x, c), <<>>)
        /\ \E s \in Seq(Byte) : data = Read(d, s) /\ Joined(p) = JoinedTo(p, n) ++ s
    BY <1>1, <1>2, <1>t, <2>1, NextExtension
  <2> HIDE DEF et, data, n, p, x, c, d
  <2>3. PICK s \in Seq(Byte) : data = Read(d, s) /\ Joined(p) = JoinedTo(p, n) ++ s BY <2>2
  <2>4. data.ok /\ data.v = d /\ data.rest = s BY <2>3, ReadFields
  <2>5. val = Read(Meaning(x, c), <<>>) BY <2>2, <2>4
  <2>6. val.ok /\ val.v = Meaning(x, c) BY <2>5, ReadFields
  <2> HIDE DEF val
  <2> QED BY <2>2, <2>3, <2>4, <2>6
<1>4. CASE mstate' = "refused"
  <2>1. ~et.ok \/ ~data.ok \/ Seen(et.v) \/ ~val.ok BY <1>1, <1>4 DEF ParseExtension, Repeated
  <2>2. ASSUME ~damaged PROVE ~Proper(message)
    <3>1. Seen(x) BY <1>3, <2>1, <2>2
    <3>2. PICK k \in DOMAIN hello.exts : hello.exts[k][1] = x BY <3>1 DEF Seen
    <3> DEFINE N == Len(hello.exts)
               L == Len(message.exts)
    <3>3. N \in Nat /\ DOMAIN hello.exts = 1 .. N /\ k \in 1 .. N BY <1>1, <3>2 DEF Parsed, Upto
    <3>4. \A i \in 1 .. N : IsReadBack(hello.exts[i], message.exts[i]) BY <1>1, <2>2 DEF ReadSoFar
    <3>5. message.exts[k][1] = x BY <3>2, <3>3, <3>4 DEF IsReadBack
    <3>6. n \in 1 .. L /\ DOMAIN message.exts = 1 .. L /\ L \in Nat BY <1>2, <1>3, <2>2 DEF IsHello
    <3>7. k # n /\ k \in 1 .. L
      <4> HIDE DEF L
      <4>1. n = N + 1 OBVIOUS
      <4> HIDE DEF N, n
      <4> QED BY <3>3, <3>6, <4>1
    <3> HIDE DEF L, n, N
    <3> QED BY <3>5, <3>6, <3>7 DEF Proper, x
  <2>3. Proper(message)' <=> Proper(message) BY <1>1 DEF Proper
  <2> QED BY <1>1, <1>4, <2>2, <2>3 DEF MessageIInv
<1>5. CASE mstate' # "refused"
  <2> DEFINE e == <<et.v, val.v, data.v>>
             u == Append(hello.exts, e)
             g == [hello EXCEPT !.exts = u]
  <2>1. Parsed' /\ mstate' = "extensions" /\ hello' = g /\ todo' = data.rest
    BY <1>1, <1>5, ParsedOn
  <2>2. ASSUME ~damaged PROVE ReadSoFar'
    <3> DEFINE h == hello.exts
               N == Len(h)
               L == Len(message.exts)
    <3>e. e[1] = et.v /\ e[2] = val.v OBVIOUS
    <3>1. ReadSoFar BY <1>1, <2>2
    <3>2. N \in Nat /\ h = Upto(h, N)
          /\ hello = [version |-> hello.version, random |-> hello.random, sid |-> hello.sid,
                      suites |-> hello.suites, exts |-> hello.exts]
      BY <1>1 DEF Parsed
    <3> HIDE DEF e
    <3>3. /\ Len(u) = N + 1 /\ DOMAIN h = 1 .. N /\ DOMAIN u = 1 .. N + 1 /\ u[N + 1] = e
          /\ \A k \in 1 .. N : u[k] = h[k] /\ k \in 1 .. N + 1
          /\ u = Upto(u, N + 1)
      <4>1. Len(h) \in Nat /\ h = Upto(h, Len(h)) BY <3>2
      <4> DEFINE w == Append(h, e)
      <4>2. u = w OBVIOUS
      <4> HIDE DEF h, u
      <4>3. /\ Len(w) = N + 1 /\ DOMAIN h = 1 .. N /\ DOMAIN w = 1 .. N + 1 /\ w[N + 1] = e
            /\ \A k \in 1 .. N : w[k] = h[k] /\ k \in 1 .. N + 1
            /\ w = Upto(w, N + 1)
        BY <4>1, MoreExtensions, Zenon
      <4> HIDE DEF w
      <4> QED BY <4>2, <4>3
    <3>4. /\ g = [version |-> g.version, random |-> g.random, sid |-> g.sid,
                  suites |-> g.suites, exts |-> g.exts]
          /\ g.exts = u
          /\ g.version = hello.version /\ g.random = hello.random /\ g.sid = hello.sid
          /\ g.suites = hello.suites
          /\ Front(g, <<0>>) = Front(hello, <<0>>)
      <4>1. hello = [version |-> hello.version, random |-> hello.random, sid |-> hello.sid,
                     suites |-> hello.suites, exts |-> hello.exts]
        BY <3>2
      <4> HIDE DEF u
      <4> QED BY <4>1, SameFront, Zenon
    <3>5. /\ message.comp = <<0>> /\ Len(message.sid) <= MaxSessionID
          /\ hello.version = message.version /\ hello.random = message.random
          /\ hello.sid = message.sid /\ hello.suites = message.suites
          /\ \A k \in 1 .. N : IsReadBack(h[k], message.exts[k])
      BY <3>1 DEF ReadSoFar
    <3>6. IsReadBack(e, message.exts[n])
      <4>1. e[1] = x /\ e[2] = Meaning(x, c) BY <1>3, <2>2, <3>e
      <4> QED BY <4>1 DEF IsReadBack
    <3>7. n \in 0 .. L /\ Joined(p) = JoinedTo(p, n) ++ data.rest
      <4>1. n \in 1 .. L /\ Joined(p) = JoinedTo(p, n) ++ data.rest BY <1>3, <2>2
      <4>2. L \in Nat BY <1>2 DEF IsHello
      <4> HIDE DEF n, L, p, data
      <4> QED BY <4>1, <4>2
    <3>8. n = N + 1 /\ hello'.exts = u /\ Len(hello'.exts) = n BY <2>1, <3>3, <3>4
    <3>m. /\ ExtensionParts(message'.exts) = p /\ Len(message'.exts) = L /\ message'.exts = message.exts
      BY <1>1
    <3>9. /\ hello'.version = message'.version /\ hello'.random = message'.random
          /\ hello'.sid = message'.sid /\ hello'.suites = message'.suites
          /\ message'.comp = <<0>> /\ Len(message'.sid) <= MaxSessionID
      BY <1>1, <2>1, <3>4, <3>5
    <3> HIDE DEF h, N, L, u, n, p, data, g
    <3>10. Len(hello'.exts) \in 0 .. Len(message'.exts) BY <3>7, <3>8, <3>m
    <3>11. ASSUME NEW k \in 1 .. Len(hello'.exts) PROVE IsReadBack(hello'.exts[k], message'.exts[k])
      <4>1. k \in 1 .. N \/ k = N + 1 BY <3>2, <3>8, <3>11
      <4>2. CASE k \in 1 .. N BY <3>3, <3>5, <3>8, <3>m, <4>2
      <4>3. CASE k = N + 1 BY <3>3, <3>6, <3>8, <3>m, <4>3
      <4> QED BY <4>1, <4>2, <4>3
    <3>12. Joined(ExtensionParts(message'.exts))
             = JoinedTo(ExtensionParts(message'.exts), Len(hello'.exts)) ++ todo'
      BY <2>1, <3>7, <3>8, <3>m
    <3> QED BY Zenon, <3>9, <3>10, <3>11, <3>12 DEF ReadSoFar
  <2> QED BY <1>1, <2>1, <2>2 DEF MessageIInv
<1> QED BY <1>4, <1>5

\* Nothing changes.
LEMMA MessageStutterInv == MessageIInv /\ UNCHANGED messageVars => MessageIInv'
<1> SUFFICES ASSUME MessageIInv, UNCHANGED messageVars PROVE MessageIInv' OBVIOUS
<1>1. /\ message' = message /\ bytes' = bytes /\ damaged' = damaged /\ todo' = todo
      /\ hello' = hello /\ mstate' = mstate
  BY DEF messageVars
<1>2. /\ Parsed' <=> Parsed
      /\ ReadSoFar' <=> ReadSoFar
      /\ Proper(message)' <=> Proper(message)
  BY <1>1 DEF Parsed, ParsedParts, ReadSoFar, Proper
<1> QED BY <1>1, <1>2 DEF MessageIInv

\* MessageIInv is an inductive invariant of the parser and the builders.
THEOREM MessageInvariant == MessageSpec => []MessageIInv
<1>1. MessageInit => MessageIInv BY MessageInitInv
<1>2. MessageIInv /\ [MessageNext]_messageVars => MessageIInv'
  BY Zenon, BuildHelloInv, DamageInv, ParseFixedPartInv, ParseExtensionInv, AcceptHelloInv, BuildFlightInv,
     MessageStutterInv DEF MessageNext
<1> QED BY <1>1, <1>2, PTL DEF MessageSpec

\* What the invariant says of a ClientHello that is accepted or refused.
LEMMA HelloIsReadBack == MessageIInv => HelloReadBack
<1> SUFFICES ASSUME MessageIInv, message.kind = "hello" PROVE HelloReadBack BY DEF HelloReadBack
<1> DEFINE h == hello.exts
           N == Len(h)
           L == Len(message.exts)
           p == ExtensionParts(message.exts)
<1>1. IsHello(message) BY Kinds DEF MessageIInv
<1>2. ~damaged /\ mstate = "refused" => ~Proper(message) BY DEF MessageIInv
<1>3. ASSUME mstate = "accepted"
      PROVE  Parsed /\ todo = <<>> /\ N \in Nat /\ DOMAIN h = 1 .. N
  BY <1>3 DEF MessageIInv, Parsed, Upto
<1>4. ASSUME mstate = "accepted", ~damaged
      PROVE  /\ Proper(message)
             /\ hello.version = message.version /\ hello.random = message.random
             /\ hello.sid = message.sid /\ hello.suites = message.suites
             /\ DOMAIN h = DOMAIN message.exts
             /\ \A k \in DOMAIN h : h[k][2] = Meaning(message.exts[k][1], message.exts[k][2])
  <2>1. ReadSoFar BY <1>4 DEF MessageIInv
  <2>2. /\ message.comp = <<0>> /\ Len(message.sid) <= MaxSessionID
        /\ hello.version = message.version /\ hello.random = message.random
        /\ hello.sid = message.sid /\ hello.suites = message.suites
        /\ N \in 0 .. L
        /\ \A k \in 1 .. N : IsReadBack(h[k], message.exts[k])
        /\ Joined(p) = JoinedTo(p, N) ++ todo
    BY <2>1 DEF ReadSoFar
  <2>3. DOMAIN message.exts = 1 .. L /\ IsParts(p, L) /\ Joined(p) = JoinedTo(p, L) BY <1>1, HelloParts
  <2>4. todo \in Seq(Byte) /\ \A k, l \in 1 .. N : k # l => h[k][1] # h[l][1] BY <1>3, <1>4 DEF Parsed
  <2> HIDE DEF h, N, L, p
  <2>5. JoinedTo(p, L) = JoinedTo(p, N) ++ todo BY <2>2, <2>3
  <2>t. todo = <<>> BY <1>3, <1>4
  <2>n. N \in 0 .. L BY <2>2
  <2>c. todo \in Seq(Byte) BY <2>4
  <2>p. IsParts(p, L) BY <2>3
  <2>6. N = L
    <3>1. N = L <=> todo = <<>> BY <2>5, <2>c, <2>n, <2>p, RestOfParts
    <3> QED BY <2>t, <3>1
  <2>7. DOMAIN h = DOMAIN message.exts BY <1>3, <1>4, <2>3, <2>6
  <2>8. \A k \in 1 .. N : h[k][1] = message.exts[k][1]
                          /\ h[k][2] = Meaning(message.exts[k][1], message.exts[k][2])
    BY <2>2 DEF IsReadBack
  <2>9. Proper(message) BY <2>2, <2>3, <2>4, <2>6, <2>8 DEF Proper
  <2> QED BY <1>3, <1>4, <2>2, <2>7, <2>8, <2>9
<1>5. ASSUME mstate = "accepted"
      PROVE  /\ bytes = EncodeParts(hello, <<0>>, [k \in DOMAIN h |-> h[k][3]])
             /\ \A k \in DOMAIN h :
                  h[k][1] \in {supportedVersions, supportedGroups, signatureAlgorithms, keyShare}
                    => h[k][3] = EncodeExtension(h[k][1], h[k][2])
  <2> DEFINE data == [k \in DOMAIN h |-> h[k][3]]
             q == [k \in DOMAIN h |-> appendExtension(h[k][1], data[k])]
             f == Front(hello, <<0>>)
  <2>1. ParsedParts = q BY DEF ParsedParts
  <2>2. EncodeParts(hello, <<0>>, data) = f ++ appendU16Vector(Joined(q)) BY PartsBytes
  <2>3. Joined(ParsedParts) \in Seq(Byte) /\ bytes = f ++ appendU16Vector(Joined(ParsedParts) ++ todo)
    BY <1>3, <1>5 DEF Parsed
  <2>4. Joined(ParsedParts) ++ todo = Joined(ParsedParts) BY <1>3, <1>5, <2>3, CatEmpty
  <2>5. \A k \in 1 .. N : IsParsedExtension(h[k]) BY <1>3, <1>5 DEF Parsed
  <2>6. \A k \in DOMAIN h : IsParsedExtension(h[k])
    <3> HIDE DEF h, N
    <3> QED BY <1>3, <1>5, <2>5
  <2>7. \A k \in DOMAIN h :
          h[k][1] \in {supportedVersions, supportedGroups, signatureAlgorithms, keyShare}
            => h[k][3] = EncodeExtension(h[k][1], h[k][2])
    <3> HIDE DEF h
    <3> QED BY <2>6 DEF IsParsedExtension
  <2> HIDE DEF q, f
  <2>8. bytes = EncodeParts(hello, <<0>>, data) BY <2>1, <2>2, <2>3, <2>4
  <2> QED BY <2>7, <2>8
<1> QED BY <1>2, <1>4, <1>5 DEF HelloReadBack

------------------------------------------------------------------------------
(***************************************************************************)
(* The server's messages, taken apart.                                     *)
(***************************************************************************)

\* The number in three bytes.
Number24(b) == b[1] * 65536 + (b[2] * 256 + b[3])

\* U24 keeps a number that fits twenty-four bits.
LEMMA U24Facts ==
  ASSUME NEW n \in Word24
  PROVE  /\ U24(n) \in Seq(Byte) /\ Len(U24(n)) = 3
         /\ Number24(U24(n)) = n
<1> DEFINE x == n \div 65536
           y == (n \div 256) % 256
           z == n % 256
<1>1. n \in Nat /\ n < 16777216 BY DEF Word24
<1>2. x \in Nat /\ x < 256 BY <1>1
<1>3. y \in Nat /\ y < 256 /\ z \in Nat /\ z < 256 BY <1>1
<1>4. x * 65536 + (y * 256 + z) = n BY <1>1
<1> HIDE DEF x, y, z
<1> DEFINE a == <<x>>
           b == <<y, z>>
           c == a \o b
<1>5. U24(n) = c BY DEF U24, U16, x, y, z
<1>6. x \in Byte /\ y \in Byte /\ z \in Byte BY <1>2, <1>3 DEF Byte
<1>7. a \in Seq(Byte) /\ b \in Seq(Byte) BY <1>6
<1>8. Len(a) = 1 /\ Len(b) = 2 /\ a[1] = x /\ b[1] = y /\ b[2] = z OBVIOUS
<1> HIDE DEF a, b
<1>9. /\ c \in Seq(Byte) /\ Len(c) = Len(a) + Len(b)
      /\ \A i \in 1 .. Len(a) : c[i] = a[i]
      /\ \A i \in 1 .. Len(b) : c[Len(a) + i] = b[i]
  BY <1>7, ConcatFacts
<1> HIDE DEF c
<1>10. Len(c) = 3 /\ c[1] = x /\ c[2] = y /\ c[3] = z BY <1>8, <1>9
<1>11. Number24(c) = n BY <1>4, <1>10 DEF Number24
<1> QED BY <1>5, <1>9, <1>10, <1>11

\* read24 of a vector with a length of three bytes.
LEMMA Read24Back ==
  ASSUME NEW b \in Seq(Byte), Len(b) \in Word24, NEW r \in Seq(Byte)
  PROVE  /\ read24(appendU24Vector(b) ++ r) = Read(b, r)
         /\ appendU24Vector(b) \in Seq(Byte) /\ Len(appendU24Vector(b)) = 3 + Len(b)
<1> DEFINE n == Len(b)
           x == U24(n)
           d == b ++ r
           c == x ++ d
           k == c[1] * 65536 + Uint16(c, 1)
<1>1. x \in Seq(Byte) /\ Len(x) = 3 BY U24Facts
<1>n. Number24(x) = n BY U24Facts
<1>2. readBytes(d, n) = Read(b, r) /\ d \in Seq(Byte) BY ReadBytesBack, CatFacts
<1>3. appendU24Vector(b) = x ++ b BY DEF appendU24Vector, ++
<1> HIDE DEF x
<1>4. (x ++ b) ++ r = c BY <1>1, CatAssociative
<1>5. x ++ b \in Seq(Byte) /\ Len(x ++ b) = 3 + Len(b) BY <1>1, CatFacts
<1> HIDE DEF n, d
<1>6. /\ c \in Seq(Byte) /\ Len(c) = Len(x) + Len(d) /\ Len(d) \in Nat BY <1>1, <1>2, CatFacts
<1>7. /\ Slice(c, Len(x), Len(c)) = d /\ \A i \in 1 .. Len(x) : c[i] = x[i] BY <1>1, <1>2, CatCut
<1> HIDE DEF c
<1>8. ~(Len(c) < 3) /\ c[1] = x[1] /\ c[2] = x[2] /\ c[3] = x[3] BY <1>1, <1>6, <1>7
<1>9. Uint16(c, 1) = c[2] * 256 + c[3] BY DEF Uint16
<1>10. k = n BY <1>n, <1>8, <1>9 DEF Number24
<1>11. Slice(c, 3, Len(c)) = d BY <1>1, <1>7
<1>k. read24(c) = IF Len(c) < 3 THEN Failed ELSE readBytes(Slice(c, 3, Len(c)), k) BY DEF read24
<1> HIDE DEF k
<1>12. read24(c) = Read(b, r) BY <1>2, <1>8, <1>10, <1>11, <1>k, Zenon
<1> QED BY <1>3, <1>4, <1>5, <1>12

\* parseHandshake of a message.
LEMMA HandshakeBack ==
  ASSUME NEW t \in Byte, NEW b \in Seq(Byte), Len(b) \in Word24
  PROVE  parseHandshake(marshalHandshake(t, b)) = Read(t, b)
<1> DEFINE n == Len(b)
           x == U24(n)
           a == <<t>>
           h == a ++ x
           c == h ++ b
           k == c[2] * 65536 + Uint16(c, 2)
<1>1. x \in Seq(Byte) /\ Len(x) = 3 BY U24Facts
<1>n. Number24(x) = n BY U24Facts
<1>2. a \in Seq(Byte) /\ Len(a) = 1 /\ a[1] = t OBVIOUS
<1>3. marshalHandshake(t, b) = a ++ (x ++ b) BY DEF marshalHandshake, appendU24Vector, ++
<1> HIDE DEF a, x
<1>4. c = a ++ (x ++ b) BY <1>1, <1>2, CatAssociative
<1>5. h \in Seq(Byte) /\ Len(h) = 4
  <2>1. a \in Seq(Byte) BY <1>2
  <2>2. h \in Seq(Byte) /\ Len(h) = Len(a) + Len(x) BY <1>1, <2>1, CatFacts
  <2> HIDE DEF h
  <2> QED BY <1>1, <1>2, <2>2
<1>6. h[1] = t /\ h[2] = x[1] /\ h[3] = x[2] /\ h[4] = x[3]
  <2>1. /\ \A i \in 1 .. Len(a) : h[i] = a[i]
        /\ \A i \in 1 .. Len(x) : h[Len(a) + i] = x[i]
    BY <1>1, <1>2, CatCut
  <2> HIDE DEF h
  <2> QED BY <1>1, <1>2, <2>1
<1> HIDE DEF h
<1>7. Len(c) = 4 + n /\ n \in Nat BY <1>5, CatFacts
<1>8. Slice(c, Len(h), Len(c)) = b /\ \A i \in 1 .. Len(h) : c[i] = h[i] BY <1>5, CatCut
<1> HIDE DEF c, n
<1>9. c[1] = t /\ c[2] = x[1] /\ c[3] = x[2] /\ c[4] = x[3] BY <1>5, <1>6, <1>8
<1>10. Uint16(c, 2) = c[3] * 256 + c[4] BY DEF Uint16
<1>11. k = n BY <1>n, <1>9, <1>10 DEF Number24
<1>12. ~(Len(c) < 4) /\ Len(c) - 4 = n BY <1>7
<1>13. Slice(c, 4, Len(c)) = b BY <1>5, <1>8
<1>k. parseHandshake(c)
        = IF Len(c) < 4 \/ k # Len(c) - 4 THEN Failed ELSE Read(c[1], Slice(c, 4, Len(c)))
  BY DEF parseHandshake
<1> HIDE DEF k
<1>14. parseHandshake(c) = Read(t, b) BY <1>9, <1>11, <1>12, <1>13, <1>k, Zenon
<1> QED BY <1>3, <1>4, <1>14

\* A byte in front of a string.
LEMMA BehindByte ==
  ASSUME NEW n \in Byte, NEW r \in Seq(Byte)
  PROVE  (<<n>> ++ r)[1] = n /\ Tail(<<n>> ++ r) = r
<1> DEFINE a == <<n>>
           c == a ++ r
<1>1. readU8(c) = Read(n, r) /\ a \in Seq(Byte) /\ Len(a) = 1 BY ReadU8Back
<1> HIDE DEF a
<1>2. Len(c) = 1 + Len(r) /\ Len(r) \in Nat BY <1>1, CatFacts
<1> HIDE DEF c
<1>3. ~(Len(c) < 1) BY <1>2
<1>4. Read(c[1], Tail(c)) = Read(n, r) BY <1>1, <1>3, Zenon DEF readU8
<1>5. c[1] = n /\ Tail(c) = r
  <2> DEFINE f == c[1]
             l == Tail(c)
  <2>1. Read(f, l) = Read(n, r) BY <1>4
  <2> HIDE DEF f, l
  <2>2. Read(f, l).v = f /\ Read(f, l).rest = l /\ Read(n, r).v = n /\ Read(n, r).rest = r BY ReadFields
  <2>3. f = n /\ l = r BY <2>1, <2>2
  <2> QED BY <2>3 DEF f, l
<1> QED BY <1>5 DEF c, a

\* The bytes of the extensions of a ServerHello, and its entries.
ServerList(pub) ==
  appendExtension(supportedVersions, U16(772))
    \o appendExtension(keyShare, U16(namedGroupX25519) \o appendU16Vector(pub))
ServerEntries(pub) ==
  <<<<supportedVersions, U16(772)>>,
    <<keyShare, U16(namedGroupX25519) \o U16(PublicLen) \o pub>>>>

\* The extensions of a ServerHello are a list of two entries.
LEMMA ServerExtensions ==
  ASSUME NEW pub \in Seq(Byte), Len(pub) = PublicLen
  PROVE  /\ ServerList(pub) \in Seq(Byte) /\ Len(ServerList(pub)) = PublicLen + 14
         /\ Entries(ServerList(pub), 2, -1).v = ServerEntries(pub)
<1> DEFINE g == U16(namedGroupX25519)
           v == U16(772)
           share == g \o U16(PublicLen) \o pub
           vec == appendU16Vector(pub)
           s == g ++ vec
           e1 == <<supportedVersions, v>>
           e2 == <<keyShare, s>>
           content == <<e1, e2>>
           p == [k \in DOMAIN content |-> EncodeEntry(keyShare, content[k])]
           b1 == appendExtension(supportedVersions, v)
           b2 == appendExtension(keyShare, s)
<1>1. namedGroupX25519 \in Word /\ supportedVersions \in Word /\ keyShare \in Word /\ 772 \in Word
  BY DEF namedGroupX25519, supportedVersions, keyShare, Word
<1>p. PublicLen \in Nat /\ PublicLen + 14 \in Word BY MessagesAssumption
<1>2. PublicLen \in Word BY <1>p DEF Word
<1>e. <<>> \in Seq(Byte) OBVIOUS
<1>3. g \in Seq(Byte) /\ Len(g) = 2 BY <1>e, <1>1, ReadU16Back
<1>4. v \in Seq(Byte) /\ Len(v) = 2
  <2> DEFINE n == 772
  <2>1. n \in Word BY <1>1
  <2> HIDE DEF n
  <2>2. U16(n) \in Seq(Byte) /\ Len(U16(n)) = 2 BY <1>e, <2>1, ReadU16Back
  <2> QED BY <2>2 DEF n
<1>5. vec \in Seq(Byte) /\ Len(vec) = 2 + PublicLen BY <1>e, <1>2, ReadVector2Back
<1>6. share = s
  <2>1. U16(PublicLen) \in Seq(Byte) BY <1>e, <1>2, ReadU16Back
  <2>2. share = (g ++ U16(PublicLen)) ++ pub BY DEF ++
  <2>3. vec = U16(PublicLen) ++ pub BY DEF appendU16Vector, ++
  <2> HIDE DEF g, share, vec
  <2> DEFINE u == U16(PublicLen)
  <2> HIDE DEF u
  <2>4. (g ++ u) ++ pub = g ++ (u ++ pub) BY <1>3, <2>1, CatAssociative DEF u
  <2> QED BY <2>2, <2>3, <2>4 DEF u
<1>7. s \in Seq(Byte) /\ Len(s) = PublicLen + 4
  <2> HIDE DEF g, vec
  <2>1. s \in Seq(Byte) /\ Len(s) = Len(g) + Len(vec) BY <1>3, <1>5, CatFacts
  <2> HIDE DEF s
  <2> QED BY <1>3, <1>5, <1>p, <2>1
<1>8. Len(s) \in Word /\ Len(v) \in Word BY <1>4, <1>7, <1>p DEF Word
<1>b. b1 = appendExtension(supportedVersions, U16(772))
      /\ b2 = appendExtension(keyShare, U16(namedGroupX25519) \o appendU16Vector(pub))
  BY DEF ++
<1>share. share = U16(namedGroupX25519) \o U16(PublicLen) \o pub OBVIOUS
<1>v. v = U16(772) OBVIOUS
<1> HIDE DEF g, v, share, vec, s
<1>9. b1 \in Seq(Byte) /\ b2 \in Seq(Byte) /\ Len(b1) = 4 + Len(v) /\ Len(b2) = 4 + Len(s)
  <2>1. ASSUME NEW x \in Word, NEW d \in Seq(Byte), Len(d) \in Word
        PROVE  appendExtension(x, d) \in Seq(Byte) /\ Len(appendExtension(x, d)) = 4 + Len(d)
    <3> DEFINE a == U16(x)
               c == appendU16Vector(d)
    <3>1. a \in Seq(Byte) /\ Len(a) = 2 BY <1>e, ReadU16Back
    <3>2. c \in Seq(Byte) /\ Len(c) = 2 + Len(d) BY <1>e, <2>1, ReadVector2Back
    <3>3. appendExtension(x, d) = a ++ c BY DEF appendExtension, ++
    <3> HIDE DEF a, c
    <3>4. a ++ c \in Seq(Byte) /\ Len(a ++ c) = Len(a) + Len(c) /\ Len(d) \in Nat BY <3>1, <3>2, CatFacts
    <3> QED BY <3>1, <3>2, <3>3, <3>4
  <2>2. b1 \in Seq(Byte) /\ Len(b1) = 4 + Len(v)
    <3>1. supportedVersions \in Word /\ v \in Seq(Byte) /\ Len(v) \in Word BY <1>1, <1>4, <1>8
    <3> QED BY <2>1, <3>1
  <2>3. b2 \in Seq(Byte) /\ Len(b2) = 4 + Len(s)
    <3>1. keyShare \in Word /\ s \in Seq(Byte) /\ Len(s) \in Word BY <1>1, <1>7, <1>8
    <3> QED BY <2>1, <3>1
  <2> QED BY <2>2, <2>3
<1>10. /\ Len(content) = 2 /\ DOMAIN content = 1 .. 2 /\ content[1] = e1 /\ content[2] = e2
       /\ e1[1] = supportedVersions /\ e1[2] = v /\ e2[1] = keyShare /\ e2[2] = s
       /\ e1 = <<e1[1], e1[2]>> /\ e2 = <<e2[1], e2[2]>>
  OBVIOUS
<1>11. 1 .. 2 = {1, 2} OBVIOUS
<1>c. content = Upto(content, 2)
  <2>1. content = [k \in 1 .. 2 |-> content[k]] OBVIOUS
  <2> QED BY <2>1 DEF Upto
<1>res. content = <<<<supportedVersions, U16(772)>>, <<keyShare, share>>>> BY <1>6, <1>v
<1> HIDE DEF content, e1, e2
<1>12. IsList(keyShare, content)
  <2>1. keyShare # serverName BY DEF keyShare, serverName
  <2>2. IsEntry(keyShare, e1) BY <1>1, <1>4, <1>8, <1>10, <2>1 DEF IsEntry
  <2>3. IsEntry(keyShare, e2) BY <1>1, <1>7, <1>8, <1>10, <2>1 DEF IsEntry
  <2> QED BY <1>10, <1>11, <2>2, <2>3 DEF IsList
<1>13. Len(p) = 2 /\ p[1] = b1 /\ p[2] = b2
  <2>1. Len(p) = 2 /\ p[1] = EncodeEntry(keyShare, content[1]) /\ p[2] = EncodeEntry(keyShare, content[2])
    BY <1>10
  <2>2. keyShare # serverName BY DEF keyShare, serverName
  <2>3. EncodeEntry(keyShare, e1) = b1 /\ EncodeEntry(keyShare, e2) = b2
    BY <1>10, <2>2, Zenon DEF EncodeEntry, appendExtension
  <2> QED BY <1>10, <2>1, <2>3
<1> HIDE DEF b1, b2
<1>14. Joined(p) = b1 ++ b2
  <2> HIDE DEF p
  <2>1. Joined(p) = JoinedTo(p, 2) BY <1>13, JoinedIs
  <2>2. JoinedTo(p, 2) = JoinedTo(p, 1) ++ p[2] /\ JoinedTo(p, 1) = JoinedTo(p, 0) ++ p[1]
        /\ JoinedTo(p, 0) = <<>>
    <3> DEFINE i == 2
               j == 1
    <3>1. i \in Nat /\ i > 0 /\ j \in Nat /\ j > 0 /\ i - 1 = j /\ j - 1 = 0 OBVIOUS
    <3>2. JoinedTo(p, i) = JoinedTo(p, i - 1) ++ p[i] BY <3>1, JoinGrows
    <3>3. JoinedTo(p, j) = JoinedTo(p, j - 1) ++ p[j] BY <3>1, JoinGrows
    <3>4. JoinedTo(p, 0) = <<>> BY <3>1, JoinGrows
    <3> QED BY <3>1, <3>2, <3>3, <3>4
  <2>3. <<>> ++ b1 = b1 BY <1>9, CatEmpty
  <2> QED BY <1>13, <2>1, <2>2, <2>3
<1>15. b1 ++ b2 \in Seq(Byte) /\ Len(b1 ++ b2) = PublicLen + 14
  <2>1. b1 ++ b2 \in Seq(Byte) /\ Len(b1 ++ b2) = Len(b1) + Len(b2) BY <1>9, CatFacts
  <2> QED BY <1>4, <1>7, <1>9, <1>p, <2>1
<1>16. Entries(Joined(p), 2, -1) = Read(content, <<>>)
  <2> DEFINE z == -1
             x == keyShare
  <2>1. TypeLen(x) = 2 BY DEF TypeLen, keyShare, serverName
  <2>2. \A k \in 1 .. 2 : content[k][1] # z
    BY <1>10, <1>11 DEF supportedVersions, keyShare
  <2>3. IsList(x, content) /\ Joined(p) = Joined([k \in DOMAIN content |-> EncodeEntry(x, content[k])])
    BY <1>12
  <2> HIDE DEF z, x, p
  <2>4. PICK i \in 0 .. Len(content) :
           /\ Entries(Joined([k \in DOMAIN content |-> EncodeEntry(x, content[k])]), TypeLen(x), z)
                = Read(Upto(content, i), <<>>)
           /\ \A k \in 1 .. i - 1 : content[k][1] # z
           /\ \/ i = Len(content) /\ (i > 0 => content[i][1] # z)
              \/ i > 0 /\ content[i][1] = z
    BY <2>3, EntriesBack
  <2>5. i = 2 BY <1>10, <2>2, <2>4
  <2>6. Entries(Joined(p), TypeLen(x), z) = Read(content, <<>>) BY <1>c, <2>3, <2>4, <2>5
  <2> QED BY <2>1, <2>6 DEF z
<1>17. Entries(Joined(p), 2, -1).v = content
  <2> HIDE DEF p
  <2> QED BY <1>16, ReadFields
<1> HIDE DEF p
<1>18. Entries(b1 ++ b2, 2, -1).v = content BY <1>14, <1>17
<1>19. b1 ++ b2 = b1 \o b2 BY DEF ++
<1>20. ServerList(pub) = b1 ++ b2 BY <1>19, <1>b DEF ServerList
<1>21. ServerEntries(pub) = content BY <1>res DEF ServerEntries, share, g
<1> QED BY <1>15, <1>18, <1>20, <1>21

\* A ServerHello, taken apart.
LEMMA ServerHelloBack ==
  ASSUME NEW f, IsFlight(f)
  PROVE  LET body == marshalServerHello(f.random, f.sid, f.pub)
             version == readU16(body)
             random == readBytes(version.rest, RandomLen)
             sid == readVector(random.rest, 1)
             suite == readU16(sid.rest)
             exts == Whole(Tail(suite.rest), 2)
         IN  /\ body \in Seq(Byte) /\ Len(body) \in Word24
             /\ random.v = f.random /\ sid.v = f.sid /\ suite.rest[1] = 0
             /\ Entries(exts.v, 2, -1).v = ServerEntries(f.pub)
<1> DEFINE pub == f.pub
           x == ServerList(pub)
           y == ServerEntries(pub)
           n1 == 771
           n2 == 4865
           z == 0
           A == U16(n1)
           B == f.random
           C == appendU8Vector(f.sid)
           D == U16(n2)
           E == <<z>>
           F == appendU16Vector(x)
           r4 == E ++ F
           r3 == D ++ r4
           r2 == C ++ r3
           r1 == B ++ r2
           body == A ++ r1
<1>0. /\ f.random \in Seq(Byte) /\ Len(f.random) = RandomLen
      /\ f.sid \in Seq(Byte) /\ Len(f.sid) \in Byte
      /\ f.pub \in Seq(Byte) /\ Len(f.pub) = PublicLen
  BY DEF IsFlight
<1>1. x \in Seq(Byte) /\ Len(x) = PublicLen + 14 /\ Entries(x, 2, -1).v = y
  <2>1. pub \in Seq(Byte) /\ Len(pub) = PublicLen BY <1>0
  <2> HIDE DEF pub
  <2> QED BY <2>1, ServerExtensions
<1>2. Len(x) \in Word BY <1>1, MessagesAssumption
<1>3. n1 \in Word /\ n2 \in Word /\ z \in Byte /\ z = 0 BY DEF Word, Byte
<1>4. marshalServerHello(f.random, f.sid, f.pub) = ((((A ++ B) ++ C) ++ D) ++ E) ++ F
  BY DEF marshalServerHello, ServerList, ++
<1>e. <<>> \in Seq(Byte) OBVIOUS
<1> HIDE DEF x, y, n1, n2, z
<1>5. A \in Seq(Byte) /\ Len(A) = 2 BY <1>e, <1>3, ReadU16Back
<1>6. C \in Seq(Byte) /\ Len(C) = 1 + Len(f.sid) BY <1>e, <1>0, ReadVector1Back
<1>7. D \in Seq(Byte) /\ Len(D) = 2 BY <1>e, <1>3, ReadU16Back
<1>8. E \in Seq(Byte) /\ Len(E) = 1 BY <1>e, <1>3, ReadU8Back
<1>9. F \in Seq(Byte) /\ Len(F) = 2 + Len(x) BY <1>e, <1>1, <1>2, ReadVector2Back
<1>10. B \in Seq(Byte) /\ Len(B) = RandomLen BY <1>0
<1>11. /\ ((((A ++ B) ++ C) ++ D) ++ E) ++ F = body
       /\ r4 \in Seq(Byte) /\ r3 \in Seq(Byte) /\ r2 \in Seq(Byte) /\ r1 \in Seq(Byte) /\ body \in Seq(Byte)
  <2> HIDE DEF A, B, C, D, E, F
  <2>1. /\ A \in Seq(Byte) /\ B \in Seq(Byte) /\ C \in Seq(Byte) /\ D \in Seq(Byte) /\ E \in Seq(Byte)
        /\ F \in Seq(Byte)
    BY <1>5, <1>6, <1>7, <1>8, <1>9, <1>10
  <2> QED BY <2>1, SixStrings
<1>12. readU16(body) = Read(n1, r1)
  <2> HIDE DEF r1
  <2> QED BY <1>3, <1>11, ReadU16Back
<1>13. readBytes(r1, RandomLen) = Read(f.random, r2)
  <2> HIDE DEF r2
  <2>1. readBytes(f.random ++ r2, Len(f.random)) = Read(f.random, r2) BY <1>0, <1>11, ReadBytesBack
  <2> QED BY <1>0, <2>1
<1>14. readVector(r2, 1) = Read(f.sid, r3)
  <2> HIDE DEF r3
  <2> QED BY <1>0, <1>11, ReadVector1Back
<1>15. readU16(r3) = Read(n2, r4)
  <2> HIDE DEF r4
  <2> QED BY <1>3, <1>11, ReadU16Back
<1>16. r4[1] = z /\ Tail(r4) = F
  <2> HIDE DEF F
  <2> QED BY <1>3, <1>9, BehindByte
<1>17. Whole(F, 2) = Read(x, <<>>) BY <1>1, <1>2, WholeBack
<1>18. Len(body) \in Word24
  <2> HIDE DEF A, B, C, D, E, F
  <2>1. Len(r4) = Len(E) + Len(F) BY <1>8, <1>9, CatFacts
  <2>2. Len(r3) = Len(D) + Len(r4)
    <3> HIDE DEF r4
    <3> QED BY <1>7, <1>11, CatFacts
  <2>3. Len(r2) = Len(C) + Len(r3)
    <3> HIDE DEF r3
    <3> QED BY <1>6, <1>11, CatFacts
  <2>4. Len(r1) = Len(B) + Len(r2)
    <3> HIDE DEF r2
    <3> QED BY <1>10, <1>11, CatFacts
  <2>5. Len(body) = Len(A) + Len(r1)
    <3> HIDE DEF r1
    <3> QED BY <1>5, <1>11, CatFacts
  <2> HIDE DEF r1, r2, r3, r4, body
  <2> DEFINE s == Len(f.sid)
             l == Len(x)
             b == Len(body)
  <2>6. s \in Byte /\ l \in Word /\ RandomLen \in Word BY <1>0, <1>2, MessagesAssumption
  <2>7. b = 2 + (RandomLen + ((1 + s) + (2 + (1 + (2 + l)))))
    BY <1>5, <1>6, <1>7, <1>8, <1>9, <1>10, <2>1, <2>2, <2>3, <2>4, <2>5
  <2> HIDE DEF s, l, b
  <2>8. b \in Word24 BY <2>6, <2>7 DEF Byte, Word, Word24
  <2> QED BY <2>8 DEF b
<1> HIDE DEF A, B, C, D, E, F, r1, r2, r3, r4, body
<1>19. readU16(body).rest = r1 BY <1>12, ReadFields
<1>20. readBytes(r1, RandomLen).v = f.random /\ readBytes(r1, RandomLen).rest = r2
  <2> DEFINE a == f.random
  <2>1. readBytes(r1, RandomLen) = Read(a, r2) BY <1>13
  <2> HIDE DEF a
  <2>2. readBytes(r1, RandomLen).v = a /\ readBytes(r1, RandomLen).rest = r2 BY <2>1, ReadFields
  <2> QED BY <2>2 DEF a
<1>21. readVector(r2, 1).v = f.sid /\ readVector(r2, 1).rest = r3
  <2> DEFINE a == f.sid
  <2>1. readVector(r2, 1) = Read(a, r3) BY <1>14
  <2> HIDE DEF a
  <2>2. readVector(r2, 1).v = a /\ readVector(r2, 1).rest = r3 BY <2>1, ReadFields
  <2> QED BY <2>2 DEF a
<1>22. readU16(r3).rest = r4 BY <1>15, ReadFields
<1>23. Whole(F, 2).v = x BY <1>17, ReadFields
<1>24. Entries(Whole(Tail(r4), 2).v, 2, -1).v = y BY <1>1, <1>16, <1>23
<1>25. marshalServerHello(f.random, f.sid, f.pub) = body BY <1>4, <1>11
<1>26. r4[1] = 0 BY <1>3, <1>16
<1> DEFINE msg == marshalServerHello(f.random, f.sid, f.pub)
           version == readU16(msg)
           random == readBytes(version.rest, RandomLen)
           sid == readVector(random.rest, 1)
           suite == readU16(sid.rest)
           exts == Whole(Tail(suite.rest), 2)
<1>27. msg \in Seq(Byte) /\ Len(msg) \in Word24 BY <1>11, <1>18, <1>25
<1>28. version.rest = r1 BY <1>19, <1>25
<1> HIDE DEF version
<1>29. random.v = f.random /\ random.rest = r2 BY <1>20, <1>28
<1> HIDE DEF random
<1>30. sid.v = f.sid /\ sid.rest = r3 BY <1>21, <1>29
<1> HIDE DEF sid
<1>31. suite.rest = r4 BY <1>22, <1>30
<1> HIDE DEF suite
<1>32. suite.rest[1] = 0 /\ Entries(exts.v, 2, -1).v = y BY <1>24, <1>26, <1>31
<1> HIDE DEF exts, msg
<1>34. Entries(exts.v, 2, -1).v = ServerEntries(f.pub) BY <1>32 DEF y
<1> QED BY <1>27, <1>29, <1>30, <1>32, <1>34 DEF exts, suite, sid, random, version, msg

\* A Certificate, taken apart.
LEMMA CertificateBack ==
  ASSUME NEW cert \in Seq(Byte), Len(cert) + 9 \in Word24
  PROVE  LET body == marshalCertificate(cert)
             list == read24(Tail(body))
         IN  /\ body \in Seq(Byte) /\ Len(body) \in Word24
             /\ list.ok /\ list.rest = <<>>
             /\ read24(list.v).v = cert /\ read24(list.v).rest = <<0, 0>>
<1> DEFINE none == <<0, 0>>
           e == <<>>
           z == 0
           c == appendU24Vector(cert)
           x == c ++ none
           v == appendU24Vector(x)
           body == <<z>> ++ v
           n == Len(cert)
<1>1. n \in Nat /\ n + 9 \in Word24 OBVIOUS
<1>2. n \in Word24 /\ n + 5 \in Word24
  <2> HIDE DEF n
  <2> QED BY <1>1 DEF Word24
<1>3. none \in Seq(Byte) /\ Len(none) = 2 /\ e \in Seq(Byte) /\ z \in Byte BY DEF Byte
<1>4. marshalCertificate(cert) = body BY DEF marshalCertificate, ++
<1>5. e = <<>> /\ none = <<0, 0>> OBVIOUS
<1> HIDE DEF none, e, z
<1>6. read24(x) = Read(cert, none) /\ c \in Seq(Byte) /\ Len(c) = 3 + n BY <1>2, <1>3, Read24Back
<1>7. x \in Seq(Byte) /\ Len(x) = n + 5
  <2> HIDE DEF c
  <2>1. x \in Seq(Byte) /\ Len(x) = Len(c) + Len(none) BY <1>3, <1>6, CatFacts
  <2> HIDE DEF x, n
  <2> QED BY <1>1, <1>3, <1>6, <2>1
<1> HIDE DEF x, n
<1>8. Len(x) \in Word24 BY <1>2, <1>7
<1>9. read24(v ++ e) = Read(x, e) /\ v \in Seq(Byte) /\ Len(v) = 3 + Len(x) BY <1>3, <1>7, <1>8, Read24Back
<1> HIDE DEF v
<1>10. v ++ e = v BY <1>5, <1>9, CatEmpty
<1>11. Tail(body) = v BY <1>3, <1>9, BehindByte
<1>12. <<z>> \in Seq(Byte) /\ Len(<<z>>) = 1 BY <1>3
<1>13. body \in Seq(Byte) /\ Len(body) = n + 9
  <2> DEFINE a == <<z>>
  <2>1. a \in Seq(Byte) /\ Len(a) = 1 BY <1>12
  <2> HIDE DEF a
  <2>2. a ++ v \in Seq(Byte) /\ Len(a ++ v) = Len(a) + Len(v) BY <1>9, <2>1, CatFacts
  <2>3. Len(a ++ v) = n + 9 BY <1>1, <1>7, <1>9, <2>1, <2>2
  <2> QED BY <2>2, <2>3 DEF a
<1> HIDE DEF body
<1>14. Len(body) \in Word24 BY <1>1, <1>13 DEF n
<1>15. read24(Tail(body)) = Read(x, e) BY <1>9, <1>10, <1>11
<1>16. read24(Tail(body)).ok /\ read24(Tail(body)).v = x /\ read24(Tail(body)).rest = e
  BY <1>15, ReadFields
<1>17. read24(x).v = cert /\ read24(x).rest = none BY <1>6, ReadFields
<1> QED BY <1>4, <1>5, <1>13, <1>14, <1>16, <1>17

\* A CertificateVerify, taken apart.
LEMMA CertificateVerifyBack ==
  ASSUME NEW sig \in Seq(Byte), Len(sig) \in Word
  PROVE  LET body == marshalCertificateVerify(1027, sig)
         IN  /\ body \in Seq(Byte) /\ Len(body) \in Word24
             /\ Whole(readU16(body).rest, 2).v = sig
<1> DEFINE n == 1027
           a == U16(n)
           v == appendU16Vector(sig)
           body == a ++ v
<1>1. n \in Word BY DEF Word
<1>e. <<>> \in Seq(Byte) OBVIOUS
<1>2. marshalCertificateVerify(1027, sig) = body BY DEF marshalCertificateVerify, ++
<1> HIDE DEF n
<1>3. v \in Seq(Byte) /\ Len(v) = 2 + Len(sig) BY <1>e, ReadVector2Back
<1>4. Whole(v, 2) = Read(sig, <<>>) BY WholeBack
<1> HIDE DEF v
<1>5. readU16(body) = Read(n, v) /\ a \in Seq(Byte) /\ Len(a) = 2 BY <1>1, <1>3, ReadU16Back
<1> HIDE DEF a
<1>6. body \in Seq(Byte) /\ Len(body) = Len(a) + Len(v) BY <1>3, <1>5, CatFacts
<1> HIDE DEF body
<1>7. Len(body) \in Word24
  <2> DEFINE s == Len(sig)
             b == Len(body)
  <2>1. s \in Word BY DEF s
  <2>2. b = 2 + (2 + s) BY <1>3, <1>5, <1>6
  <2> HIDE DEF s, b
  <2>3. b \in Word24 BY <2>1, <2>2 DEF Word, Word24
  <2> QED BY <2>3 DEF b
<1>8. readU16(body).rest = v BY <1>5, ReadFields
<1>9. Whole(v, 2).v = sig BY <1>4, ReadFields
<1> QED BY <1>2, <1>6, <1>7, <1>8, <1>9

\* EncryptedExtensions are an empty vector.
LEMMA EncryptedExtensionsBack ==
  LET body == marshalEncryptedExtensions
  IN  body \in Seq(Byte) /\ Len(body) \in Word24 /\ Whole(body, 2).ok
<1> DEFINE body == marshalEncryptedExtensions
           e == <<>>
           z == 0
<1>1. e \in Seq(Byte) /\ Len(e) = z /\ z \in Word /\ 2 \in Word24 BY DEF Word, Word24
<1>2. body \in Seq(Byte) /\ Len(body) = 2 BY DEF marshalEncryptedExtensions, Byte
<1>3. body = U16(z) BY DEF marshalEncryptedExtensions, U16
<1>4. U16(z) ++ e = U16(z)
  <2>1. U16(z) \in Seq(Byte) BY <1>2, <1>3
  <2> HIDE DEF z
  <2> QED BY <2>1, CatEmpty
<1>5. appendU16Vector(e) = U16(z) ++ e BY DEF appendU16Vector, ++
<1>6. appendU16Vector(e) = body BY <1>3, <1>4, <1>5
<1> HIDE DEF body, e, z
<1>7. Whole(appendU16Vector(e), 2) = Read(e, <<>>) BY <1>1, WholeBack
<1>8. Whole(body, 2).ok BY <1>6, <1>7, ReadFields
<1> QED BY <1>1, <1>2, <1>8 DEF body

\* What the invariant says of the server's messages.
LEMMA FlightIsReadable == MessageIInv => FlightReadable
<1> SUFFICES ASSUME MessageIInv, mstate = "flight" PROVE FlightReadable BY DEF FlightReadable
<1> DEFINE f == message
           m1 == marshalServerHello(f.random, f.sid, f.pub)
           m2 == marshalEncryptedExtensions
           m3 == marshalCertificate(f.cert)
           m4 == marshalCertificateVerify(1027, f.sig)
           m5 == f.verify
           h1 == marshalHandshake(2, m1)
           h2 == marshalHandshake(8, m2)
           h3 == marshalHandshake(11, m3)
           h4 == marshalHandshake(15, m4)
           h5 == marshalHandshake(20, m5)
<1>1. IsFlight(f) /\ bytes = ServerMessages(f) BY Kinds DEF MessageIInv
<1>2. /\ f.cert \in Seq(Byte) /\ Len(f.cert) + 9 \in Word24
      /\ f.sig \in Seq(Byte) /\ Len(f.sig) \in Word
      /\ m5 \in Seq(Byte) /\ Len(m5) \in Word24
  BY <1>1 DEF IsFlight
<1>3. bytes = <<h1, h2, h3, h4, h5>> BY <1>1 DEF ServerMessages
<1> DEFINE version == readU16(m1)
           random == readBytes(version.rest, RandomLen)
           sid == readVector(random.rest, 1)
           suite == readU16(sid.rest)
           exts == Whole(Tail(suite.rest), 2)
           list == read24(Tail(m3))
           y == ServerEntries(f.pub)
<1>4. /\ m1 \in Seq(Byte) /\ Len(m1) \in Word24
      /\ random.v = f.random /\ sid.v = f.sid /\ suite.rest[1] = 0
      /\ Entries(exts.v, 2, -1).v = y
  BY <1>1, ServerHelloBack, Zenon
<1>5. m2 \in Seq(Byte) /\ Len(m2) \in Word24 /\ Whole(m2, 2).ok BY EncryptedExtensionsBack
<1>6. /\ m3 \in Seq(Byte) /\ Len(m3) \in Word24 /\ list.ok /\ list.rest = <<>>
      /\ read24(list.v).v = f.cert /\ read24(list.v).rest = <<0, 0>>
  <2> DEFINE cert == f.cert
  <2>1. cert \in Seq(Byte) /\ Len(cert) + 9 \in Word24 BY <1>2
  <2> HIDE DEF cert
  <2>2. LET body == marshalCertificate(cert)
            lst == read24(Tail(body))
        IN  /\ body \in Seq(Byte) /\ Len(body) \in Word24
            /\ lst.ok /\ lst.rest = <<>>
            /\ read24(lst.v).v = cert /\ read24(lst.v).rest = <<0, 0>>
    BY <2>1, CertificateBack
  <2> QED BY <2>2 DEF cert
<1>7. m4 \in Seq(Byte) /\ Len(m4) \in Word24 /\ Whole(readU16(m4).rest, 2).v = f.sig
  <2> DEFINE sig == f.sig
  <2>1. sig \in Seq(Byte) /\ Len(sig) \in Word BY <1>2
  <2> HIDE DEF sig
  <2>2. LET body == marshalCertificateVerify(1027, sig)
        IN  /\ body \in Seq(Byte) /\ Len(body) \in Word24
            /\ Whole(readU16(body).rest, 2).v = sig
    BY <2>1, CertificateVerifyBack
  <2> QED BY <2>2 DEF sig
<1>8. 2 \in Byte /\ 8 \in Byte /\ 11 \in Byte /\ 15 \in Byte /\ 20 \in Byte BY DEF Byte
<1> HIDE DEF m1, m2, m3, m4, m5
<1>9. ASSUME NEW t \in Byte, NEW b \in Seq(Byte), Len(b) \in Word24
      PROVE  LET r == parseHandshake(marshalHandshake(t, b)) IN r.ok /\ r.v = t /\ r.rest = b
  <2> DEFINE r == parseHandshake(marshalHandshake(t, b))
  <2>1. r = Read(t, b) BY <1>9, HandshakeBack
  <2> HIDE DEF r
  <2>2. r.ok /\ r.v = t /\ r.rest = b BY <2>1, ReadFields
  <2> QED BY <2>2 DEF r
<1>10. parseHandshake(h1).ok /\ parseHandshake(h1).v = 2 /\ parseHandshake(h1).rest = m1
  BY <1>4, <1>8, <1>9
<1>11. parseHandshake(h2).ok /\ parseHandshake(h2).v = 8 /\ parseHandshake(h2).rest = m2
  BY <1>5, <1>8, <1>9
<1>12. parseHandshake(h3).ok /\ parseHandshake(h3).v = 11 /\ parseHandshake(h3).rest = m3
  BY <1>6, <1>8, <1>9
<1>13. parseHandshake(h4).ok /\ parseHandshake(h4).v = 15 /\ parseHandshake(h4).rest = m4
  BY <1>7, <1>8, <1>9
<1>14. parseHandshake(h5).ok /\ parseHandshake(h5).v = 20 /\ parseHandshake(h5).rest = m5
  BY <1>2, <1>8, <1>9
<1> HIDE DEF h1, h2, h3, h4, h5
<1>15. bytes[1] = h1 /\ bytes[2] = h2 /\ bytes[3] = h3 /\ bytes[4] = h4 /\ bytes[5] = h5 BY <1>3
<1>16. 1 .. 5 = {1, 2, 3, 4, 5} OBVIOUS
<1>17. \A k \in 1 .. 5 : parseHandshake(bytes[k]).ok
  BY <1>10, <1>11, <1>12, <1>13, <1>14, <1>15, <1>16
<1> DEFINE ph(k) == parseHandshake(bytes[k])
<1>18. /\ ph(1).v = 2 /\ ph(2).v = 8 /\ ph(3).v = 11 /\ ph(4).v = 15 /\ ph(5).v = 20
       /\ ph(1).rest = m1 /\ ph(2).rest = m2 /\ ph(3).rest = m3 /\ ph(4).rest = m4 /\ ph(5).rest = m5
  BY <1>10, <1>11, <1>12, <1>13, <1>14, <1>15
<1>19. [k \in 1 .. 5 |-> parseHandshake(bytes[k]).v] = <<2, 8, 11, 15, 20>>
  <2> DEFINE g == [k \in 1 .. 5 |-> ph(k).v]
             t == <<2, 8, 11, 15, 20>>
  <2>1. t = [k \in 1 .. 5 |-> t[k]] OBVIOUS
  <2>2. \A k \in 1 .. 5 : ph(k).v = t[k] BY <1>16, <1>18
  <2> HIDE DEF t, ph
  <2>3. g = t BY <2>1, <2>2
  <2> QED BY <2>3 DEF t, ph
<1>20. parseHandshake(bytes[1]).rest = m1 /\ parseHandshake(bytes[2]).rest = m2
       /\ parseHandshake(bytes[3]).rest = m3 /\ parseHandshake(bytes[4]).rest = m4
       /\ parseHandshake(bytes[5]).rest = message.verify
  BY <1>18 DEF m5
<1>21. /\ Entries(exts.v, 2, -1).v = y /\ random.v = message.random /\ sid.v = message.sid
       /\ suite.rest[1] = 0
  BY <1>4
<1> QED BY <1>5, <1>6, <1>7, <1>17, <1>19, <1>20, <1>21, Zenon DEF FlightReadable, ServerEntries

\* Both directions of the handshake are read back: a proper ClientHello with
\* the values its client put in and nothing that is not one byte for byte (the
\* contents of a server_name behind its first host_name excepted, which the
\* parser does not read), and the server's messages with what the server put in.
THEOREM MessagesSafe == MessageSpec => []MessagesReadBack
<1>1. MessageIInv => MessagesReadBack BY HelloIsReadBack, FlightIsReadable DEF MessagesReadBack
<1> QED BY <1>1, MessageInvariant, PTL

==============================================================================
