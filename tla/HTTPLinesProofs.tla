--------------------------- MODULE HTTPLinesProofs ---------------------------
(***************************************************************************)
(* Proofs about the lines of a request, for any stream of bytes and any    *)
(* limit on a line: readLine finds the line up to the first LF, or says    *)
(* why there is none, and parseRequestLine and parseHeader, which look for *)
(* the first or the last separator, accept exactly the lines of the        *)
(* grammar and cut them where it does.                                     *)
(***************************************************************************)
EXTENDS HTTPLines, NaturalsInduction, SequenceTheorems, WellFoundedInduction, TLAPS

------------------------------------------------------------------------------
(***************************************************************************)
(* First and last places.                                                  *)
(***************************************************************************)

\* Every set of natural numbers that has a member has a least one.
LEMMA FirstOf ==
  ASSUME NEW T \in SUBSET Nat, T # {}
  PROVE  \E n \in T : \A m \in T : n <= m
<1>1. IsWellFoundedOn(OpToRel(<, Nat), Nat)
  BY NatLessThanWellFounded
<1>2. PICK n \in T : \A m \in T : ~(<<m, n>> \in OpToRel(<, Nat))
  BY <1>1, WFMin
<1>3. \A m \in T : ~(m < n)
  BY <1>2 DEF OpToRel
<1>4. QED
  BY <1>3

\* A bounded one has a greatest one, too.
LEMMA LastOf ==
  ASSUME NEW N \in Nat, NEW T \in SUBSET (0 .. N), T # {}
  PROVE  \E n \in T : \A m \in T : m <= n
<1> DEFINE U == {k \in 0 .. N : N - k \in T}
<1>1. U # {} /\ U \in SUBSET Nat
  <2>1. PICK n \in T : TRUE OBVIOUS
  <2>2. N - n \in 0 .. N /\ N - (N - n) = n BY <2>1
  <2>3. N - n \in U BY <2>1, <2>2
  <2>4. U # {} BY <2>3
  <2> QED BY <2>4
<1>2. PICK k \in U : \A m \in U : k <= m BY <1>1, FirstOf
<1>3. N - k \in T BY <1>2
<1>4. ASSUME NEW m \in T PROVE m <= N - k
  <2>1. N - m \in 0 .. N /\ N - (N - m) = m OBVIOUS
  <2>2. N - m \in U BY <2>1
  <2>3. k <= N - m BY <1>2, <2>2
  <2> QED BY <1>2, <2>3
<1> QED BY <1>3, <1>4

\* What strings.IndexByte returns.
IsFirst(k, s, b) ==
  \/ k = 0 /\ \A i \in 1 .. Len(s) : s[i] # b
  \/ k \in 1 .. Len(s) /\ s[k] = b /\ \A i \in 1 .. k - 1 : s[i] # b

\* What strings.LastIndexByte returns.
IsLast(k, s, b) ==
  \/ k = 0 /\ \A i \in 1 .. Len(s) : s[i] # b
  \/ k \in 1 .. Len(s) /\ s[k] = b /\ \A i \in k + 1 .. Len(s) : s[i] # b

\* IndexByte finds the first place.
LEMMA IndexByteFirst ==
  ASSUME NEW s \in Seq(Symbols), NEW b
  PROVE  IsFirst(IndexByte(s, b), s, b)
<1> DEFINE T == {k \in 1 .. Len(s) : s[k] = b}
           P(k) == s[k] = b /\ \A l \in 1 .. k - 1 : s[l] # b
<1>1. DOMAIN s = 1 .. Len(s) /\ Len(s) \in Nat OBVIOUS
<1>2. CASE T = {}
  <2>1. ~(\E k \in DOMAIN s : s[k] = b) BY <1>1, <1>2
  <2>2. IndexByte(s, b) = 0 BY <2>1 DEF IndexByte
  <2> QED BY <1>1, <2>1, <2>2 DEF IsFirst
<1>3. CASE T # {}
  <2>1. T \in SUBSET Nat BY <1>1
  <2>2. PICK n \in T : \A m \in T : n <= m BY <1>3, <2>1, FirstOf
  <2>3. n \in DOMAIN s /\ P(n) BY <1>1, <2>2
  <2> DEFINE c == CHOOSE k \in DOMAIN s : P(k)
  <2>4. IndexByte(s, b) = c BY <2>3 DEF IndexByte
  <2>5. c \in DOMAIN s /\ P(c) BY <2>3
  <2> HIDE DEF c
  <2> QED BY <1>1, <2>4, <2>5 DEF IsFirst
<1> QED BY <1>2, <1>3

\* LastIndexByte finds the last place.
LEMMA LastIndexByteLast ==
  ASSUME NEW s \in Seq(Symbols), NEW b
  PROVE  IsLast(LastIndexByte(s, b), s, b)
<1> DEFINE N == Len(s)
           T == {k \in 1 .. N : s[k] = b}
           P(k) == s[k] = b /\ \A l \in k + 1 .. Len(s) : s[l] # b
<1>1. DOMAIN s = 1 .. Len(s) /\ N \in Nat OBVIOUS
<1>2. CASE T = {}
  <2>1. ~(\E k \in DOMAIN s : s[k] = b) BY <1>1, <1>2
  <2>2. LastIndexByte(s, b) = 0 BY <2>1 DEF LastIndexByte
  <2> QED BY <1>1, <2>1, <2>2 DEF IsLast
<1>3. CASE T # {}
  <2>1. T \in SUBSET (0 .. N) BY <1>1
  <2>2. PICK n \in T : \A m \in T : m <= n BY <1>1, <1>3, <2>1, LastOf
  <2>3. n \in DOMAIN s /\ P(n) BY <1>1, <2>2
  <2> DEFINE c == CHOOSE k \in DOMAIN s : P(k)
  <2>4. LastIndexByte(s, b) = c BY <2>3 DEF LastIndexByte
  <2>5. c \in DOMAIN s /\ P(c) BY <2>3
  <2> HIDE DEF c
  <2> QED BY <1>1, <2>4, <2>5 DEF IsLast
<1> QED BY <1>2, <1>3

\* A part of a line.
LEMMA PartFacts ==
  ASSUME NEW s \in Seq(Symbols), NEW m \in Nat \ {0}, NEW n \in Nat, n <= Len(s)
  PROVE  /\ SubSeq(s, m, n) \in Seq(Symbols)
         /\ Len(SubSeq(s, m, n)) = IF m <= n THEN n - m + 1 ELSE 0
         /\ \A i \in 1 .. n - m + 1 : SubSeq(s, m, n)[i] = s[m + i - 1]
<1>1. \A i \in m .. n : s[i] \in Symbols BY ElementOfSeq
<1> QED BY <1>1, SubSeqProperties

\* The symbols of x stand in s behind the first off.
Stands(x, s, off) == \A i \in 1 .. Len(x) : s[off + i] = x[i]

\* s has these five parts, one behind the other.
HasParts(s, a, b, c, d, e) ==
  /\ Len(s) = Len(a) + Len(b) + Len(c) + Len(d) + Len(e)
  /\ Stands(a, s, 0) /\ Stands(b, s, Len(a)) /\ Stands(c, s, Len(a) + Len(b))
  /\ Stands(d, s, Len(a) + Len(b) + Len(c))
  /\ Stands(e, s, Len(a) + Len(b) + Len(c) + Len(d))

\* What is appended stands at the end, and everything before it where it was.
LEMMA Behind ==
  ASSUME NEW a \in Seq(Symbols), NEW b \in Seq(Symbols)
  PROVE  /\ a \o b \in Seq(Symbols) /\ Len(a \o b) = Len(a) + Len(b)
         /\ Stands(b, a \o b, Len(a))
         /\ \A x \in Seq(Symbols), off \in Nat :
              Stands(x, a, off) /\ off + Len(x) <= Len(a) => Stands(x, a \o b, off)
<1> DEFINE c == a \o b
<1>1. Len(a) \in Nat /\ Len(b) \in Nat OBVIOUS
<1>2. /\ c \in Seq(Symbols) /\ Len(c) = Len(a) + Len(b)
      /\ \A i \in 1 .. Len(a) + Len(b) : c[i] = IF i <= Len(a) THEN a[i] ELSE b[i - Len(a)]
  BY ConcatProperties
<1> HIDE DEF c
<1>3. ASSUME NEW i \in 1 .. Len(b) PROVE c[Len(a) + i] = b[i]
  <2>1. Len(a) + i \in 1 .. Len(a) + Len(b) /\ ~(Len(a) + i <= Len(a)) /\ (Len(a) + i) - Len(a) = i
    BY <1>1
  <2> QED BY <1>2, <2>1
<1>4. ASSUME NEW x \in Seq(Symbols), NEW off \in Nat, Stands(x, a, off), off + Len(x) <= Len(a),
             NEW i \in 1 .. Len(x)
      PROVE  c[off + i] = x[i]
  <2>1. off + i \in 1 .. Len(a) + Len(b) /\ off + i <= Len(a) BY <1>1, <1>4
  <2> QED BY <1>2, <1>4, <2>1 DEF Stands
<1>5. Stands(b, c, Len(a)) BY <1>3 DEF Stands
<1>6. \A x \in Seq(Symbols), off \in Nat :
        Stands(x, a, off) /\ off + Len(x) <= Len(a) => Stands(x, c, off)
  BY <1>4 DEF Stands
<1> QED BY <1>2, <1>5, <1>6 DEF c

\* The parts of what is put together from them.
LEMMA PutTogether ==
  ASSUME NEW a \in Seq(Symbols), NEW b \in Seq(Symbols), NEW c \in Seq(Symbols),
         NEW d \in Seq(Symbols), NEW e \in Seq(Symbols)
  PROVE  a \o b \o c \o d \o e \in Seq(Symbols) /\ HasParts(a \o b \o c \o d \o e, a, b, c, d, e)
<1> DEFINE j == a \o b
           k == j \o c
           l == k \o d
           m == l \o e
<1>1. /\ Len(a) \in Nat /\ Len(b) \in Nat /\ Len(c) \in Nat /\ Len(d) \in Nat /\ Len(e) \in Nat
  OBVIOUS
<1>2. /\ j \in Seq(Symbols) /\ Len(j) = Len(a) + Len(b) /\ Stands(b, j, Len(a))
      /\ \A x \in Seq(Symbols), off \in Nat :
           Stands(x, a, off) /\ off + Len(x) <= Len(a) => Stands(x, j, off)
  BY Behind
<1> HIDE DEF j
<1>3. /\ k \in Seq(Symbols) /\ Len(k) = Len(j) + Len(c) /\ Stands(c, k, Len(j))
      /\ \A x \in Seq(Symbols), off \in Nat :
           Stands(x, j, off) /\ off + Len(x) <= Len(j) => Stands(x, k, off)
  BY <1>2, Behind
<1> HIDE DEF k
<1>4. /\ l \in Seq(Symbols) /\ Len(l) = Len(k) + Len(d) /\ Stands(d, l, Len(k))
      /\ \A x \in Seq(Symbols), off \in Nat :
           Stands(x, k, off) /\ off + Len(x) <= Len(k) => Stands(x, l, off)
  BY <1>3, Behind
<1> HIDE DEF l
<1>5. /\ m \in Seq(Symbols) /\ Len(m) = Len(l) + Len(e) /\ Stands(e, m, Len(l))
      /\ \A x \in Seq(Symbols), off \in Nat :
           Stands(x, l, off) /\ off + Len(x) <= Len(l) => Stands(x, m, off)
  BY <1>4, Behind
<1> HIDE DEF m
<1> DEFINE A == Len(a)
           B == Len(a) + Len(b)
           C == Len(a) + Len(b) + Len(c)
           D == Len(a) + Len(b) + Len(c) + Len(d)
<1>6. /\ A \in Nat /\ B \in Nat /\ C \in Nat /\ D \in Nat /\ 0 \in Nat
      /\ Len(j) = B /\ Len(k) = C /\ Len(l) = D /\ Len(m) = D + Len(e)
      /\ 0 + Len(a) <= A /\ A + Len(b) <= B /\ B + Len(c) <= C /\ C + Len(d) <= D
      /\ A <= B /\ B <= C /\ C <= D
      /\ 0 + Len(a) <= B /\ 0 + Len(a) <= C /\ 0 + Len(a) <= D
      /\ A + Len(b) <= C /\ A + Len(b) <= D /\ B + Len(c) <= D
  BY <1>1, <1>2, <1>3, <1>4, <1>5
<1>7. Stands(a, a, 0)
  <2>1. \A i \in 1 .. Len(a) : 0 + i = i BY <1>1
  <2> QED BY <2>1 DEF Stands
<1> HIDE DEF A, B, C, D
<1>8. Stands(a, j, 0) /\ Stands(b, j, A) BY <1>2, <1>6, <1>7 DEF A
<1>9. Stands(a, k, 0) /\ Stands(b, k, A) /\ Stands(c, k, B) BY <1>3, <1>6, <1>8
<1>10. Stands(a, l, 0) /\ Stands(b, l, A) /\ Stands(c, l, B) /\ Stands(d, l, C)
  BY <1>4, <1>6, <1>9
<1>11. Stands(a, m, 0) /\ Stands(b, m, A) /\ Stands(c, m, B) /\ Stands(d, m, C) /\ Stands(e, m, D)
  BY <1>5, <1>6, <1>10
<1>12. HasParts(m, a, b, c, d, e) BY <1>6, <1>11 DEF HasParts, A, B, C, D
<1> QED BY <1>5, <1>12 DEF m, l, k, j

\* Parts determine the whole.
LEMMA SameParts ==
  ASSUME NEW s \in Seq(Symbols), NEW t \in Seq(Symbols),
         NEW a \in Seq(Symbols), NEW b \in Seq(Symbols), NEW c \in Seq(Symbols),
         NEW d \in Seq(Symbols), NEW e \in Seq(Symbols),
         HasParts(s, a, b, c, d, e), HasParts(t, a, b, c, d, e)
  PROVE  s = t
<1> DEFINE A == Len(a)
           B == Len(a) + Len(b)
           C == Len(a) + Len(b) + Len(c)
           D == Len(a) + Len(b) + Len(c) + Len(d)
           E == Len(a) + Len(b) + Len(c) + Len(d) + Len(e)
<1>1. /\ A \in Nat /\ B \in Nat /\ C \in Nat /\ D \in Nat /\ E \in Nat /\ Len(a) = A
      /\ Len(b) = B - A /\ Len(c) = C - B /\ Len(d) = D - C /\ Len(e) = E - D
  OBVIOUS
<1>2. /\ Len(s) = E /\ Len(t) = E
      /\ Stands(a, s, 0) /\ Stands(b, s, A) /\ Stands(c, s, B) /\ Stands(d, s, C) /\ Stands(e, s, D)
      /\ Stands(a, t, 0) /\ Stands(b, t, A) /\ Stands(c, t, B) /\ Stands(d, t, C) /\ Stands(e, t, D)
  BY DEF HasParts
<1> HIDE DEF A, B, C, D, E
<1>3. ASSUME NEW x, NEW off \in Nat, Stands(x, s, off), Stands(x, t, off), Len(x) \in Nat,
             NEW i \in Nat, off < i, i <= off + Len(x)
      PROVE  s[i] = t[i]
  <2>1. i - off \in 1 .. Len(x) /\ off + (i - off) = i BY <1>3
  <2> QED BY <1>3, <2>1 DEF Stands
<1>4. ASSUME NEW i \in 1 .. Len(s) PROVE s[i] = t[i]
  <2>1. i \in Nat /\ 0 < i /\ i <= E /\ 0 \in Nat BY <1>1, <1>2
  <2>2. CASE i <= A
    <3>1. i <= 0 + Len(a) BY <1>1, <2>1, <2>2
    <3> QED BY <1>1, <1>2, <1>3, <2>1, <3>1
  <2>3. CASE A < i /\ i <= B
    <3>1. i <= A + Len(b) /\ Len(b) \in Nat BY <1>1, <2>1, <2>3
    <3> QED BY <1>1, <1>2, <1>3, <2>1, <2>3, <3>1
  <2>4. CASE B < i /\ i <= C
    <3>1. i <= B + Len(c) /\ Len(c) \in Nat BY <1>1, <2>1, <2>4
    <3> QED BY <1>1, <1>2, <1>3, <2>1, <2>4, <3>1
  <2>5. CASE C < i /\ i <= D
    <3>1. i <= C + Len(d) /\ Len(d) \in Nat BY <1>1, <2>1, <2>5
    <3> QED BY <1>1, <1>2, <1>3, <2>1, <2>5, <3>1
  <2>6. CASE D < i
    <3>1. i <= D + Len(e) /\ Len(e) \in Nat BY <1>1, <2>1, <2>6
    <3> QED BY <1>1, <1>2, <1>3, <2>1, <2>6, <3>1
  <2> QED BY <1>1, <2>1, <2>2, <2>3, <2>4, <2>5, <2>6
<1> QED BY <1>2, <1>4, SeqEqual

\* x stands in s from m to n.
IsPart(x, s, m, n, off) ==
  /\ x \in Seq(Symbols) /\ off \in Nat /\ off + Len(x) <= Len(s)
  /\ Stands(x, s, off) /\ m = off + 1 /\ n = off + Len(x)

\* Then it is that part of s.
LEMMA PartIs ==
  ASSUME NEW s \in Seq(Symbols), NEW x, NEW m, NEW n, NEW off, IsPart(x, s, m, n, off)
  PROVE  SubSeq(s, m, n) = x
<1> USE DEF IsPart
<1> DEFINE y == SubSeq(s, m, n)
<1>1. m \in Nat \ {0} /\ n \in Nat /\ n <= Len(s) /\ n - m + 1 = Len(x) /\ Len(x) \in Nat OBVIOUS
<1>2. y \in Seq(Symbols) /\ Len(y) = Len(x) /\ \A i \in 1 .. Len(x) : y[i] = s[m + i - 1]
  <2>1. /\ y \in Seq(Symbols) /\ Len(y) = IF m <= n THEN n - m + 1 ELSE 0
        /\ \A i \in 1 .. n - m + 1 : y[i] = s[m + i - 1]
    BY <1>1, PartFacts
  <2>2. (IF m <= n THEN n - m + 1 ELSE 0) = Len(x) BY <1>1
  <2> QED BY <1>1, <2>1, <2>2
<1> HIDE DEF y
<1>3. ASSUME NEW i \in 1 .. Len(y) PROVE y[i] = x[i]
  <2>1. i \in 1 .. Len(x) /\ m + i - 1 = off + i BY <1>2
  <2> QED BY <1>2, <2>1 DEF Stands
<1>4. y = x BY <1>2, <1>3, SeqEqual
<1> QED BY <1>4 DEF y

\* Any part of a line stands where it was cut out.
LEMMA PartStands ==
  ASSUME NEW s \in Seq(Symbols), NEW m \in Nat \ {0}, NEW n \in Nat, n <= Len(s), m <= n + 1,
         NEW off, off = m - 1
  PROVE  /\ SubSeq(s, m, n) \in Seq(Symbols) /\ Len(SubSeq(s, m, n)) = n - m + 1
         /\ Stands(SubSeq(s, m, n), s, off)
<1> DEFINE y == SubSeq(s, m, n)
<1>1. /\ y \in Seq(Symbols) /\ Len(y) = IF m <= n THEN n - m + 1 ELSE 0
      /\ \A i \in 1 .. n - m + 1 : y[i] = s[m + i - 1]
  BY PartFacts
<1>2. (IF m <= n THEN n - m + 1 ELSE 0) = n - m + 1 OBVIOUS
<1> HIDE DEF y
<1>3. Len(y) = n - m + 1 BY <1>1, <1>2
<1>4. ASSUME NEW i \in 1 .. Len(y) PROVE s[off + i] = y[i]
  <2>1. i \in 1 .. n - m + 1 /\ m + i - 1 = off + i BY <1>3
  <2> QED BY <1>1, <2>1
<1>5. Stands(y, s, off) BY <1>4 DEF Stands
<1> QED BY <1>1, <1>3, <1>5 DEF y

\* A token, and a part without a symbol, place by place.
LEMMA TokenFacts ==
  ASSUME NEW x \in Seq(Symbols)
  PROVE  /\ isValidToken(x) <=> Len(x) > 0 /\ \A i \in 1 .. Len(x) : x[i] = "a"
         /\ x # <<>> <=> Len(x) > 0
         /\ \A b : Without(x, b) <=> \A i \in 1 .. Len(x) : x[i] # b
<1>1. DOMAIN x = 1 .. Len(x) /\ Len(x) \in Nat OBVIOUS
<1>2. x # <<>> <=> Len(x) > 0 OBVIOUS
<1> QED BY <1>1, <1>2 DEF isValidToken, isTokenChar, Without

------------------------------------------------------------------------------
(***************************************************************************)
(* parseRequestLine.                                                       *)
(***************************************************************************)

\* What parseRequestLine refuses, with the places of the separators.
RefusesRequest(s, first, last, method, path, version) ==
  \/ first <= 1 \/ last = first
  \/ ~isValidToken(method)
  \/ path = <<>> \/ path[1] # "/"
  \/ \E k \in DOMAIN path : path[k] \in {"sp", "tab"}
  \/ version = <<>> \/ version[1] # "HTTP/"

\* A line that it does not refuse has these parts.
LEMMA RequestSound ==
  ASSUME NEW s \in Seq(Symbols), NEW first, NEW last, IsFirst(first, s, "sp"), IsLast(last, s, "sp"),
         ~RefusesRequest(s, first, last, SubSeq(s, 1, first - 1), SubSeq(s, first + 1, last - 1),
                         SubSeq(s, last + 1, Len(s)))
  PROVE  IsRequestLine(s, [method |-> SubSeq(s, 1, first - 1), path |-> SubSeq(s, first + 1, last - 1),
                           version |-> SubSeq(s, last + 1, Len(s))])
<1> DEFINE M == SubSeq(s, 1, first - 1)
           P == SubSeq(s, first + 1, last - 1)
           V == SubSeq(s, last + 1, Len(s))
           sp == <<"sp">>
           N == Len(s)
<1>1. first # 0 /\ N \in Nat /\ first # last /\ ~(first <= 1) BY DEF RefusesRequest
<1>2. first \in 1 .. N /\ s[first] = "sp" /\ first > 1 BY <1>1 DEF IsFirst
<1>3. last \in 1 .. N /\ s[last] = "sp" /\ \A i \in last + 1 .. N : s[i] # "sp" BY <1>2 DEF IsLast
<1>4. first < last
  <2>1. ~(last < first)
    <3>1. last < first => first \in last + 1 .. N BY <1>2, <1>3
    <3> QED BY <1>2, <1>3, <3>1
  <2> QED BY <1>1, <1>2, <1>3, <2>1
<1>5. M \in Seq(Symbols) /\ Len(M) = first - 1 /\ Stands(M, s, 0)
  <2> DEFINE m == 1
             n == first - 1
             off == 0
  <2>1. m \in Nat \ {0} /\ n \in Nat /\ n <= Len(s) /\ m <= n + 1 /\ off = m - 1 /\ n - m + 1 = first - 1
    BY <1>2
  <2>2. M = SubSeq(s, m, n) OBVIOUS
  <2> HIDE DEF m, n, off, M
  <2>3. M \in Seq(Symbols) /\ Len(M) = n - m + 1 /\ Stands(M, s, off) BY <2>1, <2>2, PartStands
  <2> QED BY <2>1, <2>3 DEF off
<1>6. P \in Seq(Symbols) /\ Len(P) = last - first - 1 /\ Stands(P, s, first)
  <2> DEFINE m == first + 1
             n == last - 1
  <2>1. m \in Nat \ {0} /\ n \in Nat /\ n <= Len(s) /\ m <= n + 1 /\ first = m - 1
        /\ n - m + 1 = last - first - 1
    BY <1>2, <1>3, <1>4
  <2>2. P = SubSeq(s, m, n) OBVIOUS
  <2> HIDE DEF m, n, P
  <2>3. P \in Seq(Symbols) /\ Len(P) = n - m + 1 /\ Stands(P, s, first) BY <2>1, <2>2, PartStands
  <2> QED BY <2>1, <2>3
<1>7. V \in Seq(Symbols) /\ Len(V) = N - last /\ Stands(V, s, last)
  <2> DEFINE m == last + 1
             n == Len(s)
  <2>1. m \in Nat \ {0} /\ n \in Nat /\ n <= Len(s) /\ m <= n + 1 /\ last = m - 1
        /\ n - m + 1 = N - last
    BY <1>3
  <2>2. V = SubSeq(s, m, n) OBVIOUS
  <2> HIDE DEF m, n, V
  <2>3. V \in Seq(Symbols) /\ Len(V) = n - m + 1 /\ Stands(V, s, last) BY <2>1, <2>2, PartStands
  <2> QED BY <2>1, <2>3
<1>8. sp \in Seq(Symbols) /\ Len(sp) = 1 /\ sp[1] = "sp"
  <2>1. "sp" \in Symbols BY DEF Symbols
  <2> QED BY <2>1
<1>9. /\ isValidToken(M) /\ P # <<>> /\ P[1] = "/" /\ \A k \in DOMAIN P : P[k] \notin {"sp", "tab"}
      /\ V # <<>> /\ V[1] = "HTTP/"
  BY DEF RefusesRequest
<1>10. Stands(sp, s, first - 1) /\ Stands(sp, s, last - 1)
  <2>1. first - 1 + 1 = first /\ last - 1 + 1 = last BY <1>2, <1>3
  <2>2. \A i \in 1 .. Len(sp) : i = 1 BY <1>8
  <2> HIDE DEF sp
  <2> QED BY <1>2, <1>3, <1>8, <2>1, <2>2 DEF Stands
<1> HIDE DEF M, P, V, sp
<1>11. HasParts(s, M, sp, P, sp, V)
  <2>1. /\ Len(M) = first - 1 /\ Len(M) + Len(sp) = first /\ Len(M) + Len(sp) + Len(P) = last - 1
        /\ Len(M) + Len(sp) + Len(P) + Len(sp) = last
        /\ Len(s) = Len(M) + Len(sp) + Len(P) + Len(sp) + Len(V)
    BY <1>1, <1>2, <1>3, <1>5, <1>6, <1>7, <1>8
  <2> QED BY <1>5, <1>6, <1>7, <1>10, <2>1 DEF HasParts
<1>12. s = M \o sp \o P \o sp \o V
  <2>1. /\ M \o sp \o P \o sp \o V \in Seq(Symbols)
        /\ HasParts(M \o sp \o P \o sp \o V, M, sp, P, sp, V)
    BY <1>5, <1>6, <1>7, <1>8, PutTogether
  <2> DEFINE t == M \o sp \o P \o sp \o V
  <2> HIDE DEF t
  <2>2. t \in Seq(Symbols) /\ HasParts(t, M, sp, P, sp, V) BY <2>1 DEF t
  <2>3. s = t BY <1>5, <1>6, <1>7, <1>8, <1>11, <2>2, SameParts
  <2> QED BY <2>3 DEF t
<1>13. Without(P, "sp") /\ Without(P, "tab") BY <1>9 DEF Without
<1>14. Without(V, "sp")
  <2>1. ASSUME NEW i \in 1 .. Len(V) PROVE V[i] # "sp"
    <3>1. last + i \in last + 1 .. N /\ V[i] = s[last + i] BY <1>3, <1>7 DEF Stands
    <3> QED BY <1>3, <3>1
  <2> QED BY <1>7, <2>1, TokenFacts
<1> DEFINE r == [method |-> M, path |-> P, version |-> V]
<1>15. r.method = M /\ r.path = P /\ r.version = V OBVIOUS
<1> HIDE DEF r
<1>16. IsRequestLine(s, r) BY <1>9, <1>12, <1>13, <1>14, <1>15 DEF IsRequestLine, sp
<1> QED BY <1>16 DEF r, M, P, V

\* A line of the grammar is cut at its separators, and not refused.
LEMMA RequestComplete ==
  ASSUME NEW s \in Seq(Symbols), NEW first, NEW last, IsFirst(first, s, "sp"), IsLast(last, s, "sp"),
         NEW r, r.method \in Seq(Symbols), r.path \in Seq(Symbols), r.version \in Seq(Symbols),
         r.path # <<>>, r.version # <<>>, IsRequestLine(s, r)
  PROVE  ~RefusesRequest(s, first, last, SubSeq(s, 1, first - 1), SubSeq(s, first + 1, last - 1),
                         SubSeq(s, last + 1, Len(s)))
<1> DEFINE M == r.method
           P == r.path
           V == r.version
           sp == <<"sp">>
           N == Len(s)
           t == M \o sp \o P \o sp \o V
<1>1. M \in Seq(Symbols) /\ P \in Seq(Symbols) /\ V \in Seq(Symbols) OBVIOUS
<1>2. sp \in Seq(Symbols) /\ Len(sp) = 1 /\ sp[1] = "sp"
  <2>1. "sp" \in Symbols BY DEF Symbols
  <2> QED BY <2>1
<1>3. /\ s = t /\ isValidToken(M) /\ P[1] = "/" /\ Without(P, "sp") /\ Without(P, "tab")
      /\ V[1] = "HTTP/" /\ Without(V, "sp") /\ P # <<>> /\ V # <<>>
  BY DEF IsRequestLine
<1> HIDE DEF M, P, V, sp
<1>4. HasParts(t, M, sp, P, sp, V) BY <1>1, <1>2, PutTogether
<1>5. HasParts(s, M, sp, P, sp, V) BY <1>3, <1>4
<1> HIDE DEF t
<1>6. Len(M) \in Nat /\ Len(P) \in Nat /\ Len(V) \in Nat /\ N \in Nat BY <1>1
<1>7. /\ N = Len(M) + Len(P) + Len(V) + 2 /\ Stands(M, s, 0) /\ Stands(sp, s, Len(M))
      /\ Stands(P, s, Len(M) + 1) /\ Stands(sp, s, Len(M) + 1 + Len(P))
      /\ Stands(V, s, Len(M) + Len(P) + 2)
  <2>1. /\ Len(M) + Len(sp) = Len(M) + 1 /\ Len(M) + Len(sp) + Len(P) = Len(M) + 1 + Len(P)
        /\ Len(M) + Len(sp) + Len(P) + Len(sp) = Len(M) + Len(P) + 2
        /\ Len(M) + Len(sp) + Len(P) + Len(sp) + Len(V) = Len(M) + Len(P) + Len(V) + 2
    BY <1>2, <1>6
  <2> QED BY <1>5, <2>1 DEF HasParts
<1>8. s[Len(M) + 1] = "sp" /\ s[Len(M) + 1 + Len(P) + 1] = "sp"
  <2>1. 1 \in 1 .. Len(sp) BY <1>2
  <2> QED BY <1>2, <1>7, <2>1 DEF Stands
<1>9. /\ Len(M) > 0 /\ \A i \in 1 .. Len(M) : M[i] = "a"
      /\ Len(P) > 0 /\ \A i \in 1 .. Len(P) : P[i] # "sp" /\ P[i] # "tab"
      /\ Len(V) > 0 /\ \A i \in 1 .. Len(V) : V[i] # "sp"
  BY <1>1, <1>3, TokenFacts
<1>10. first = Len(M) + 1
  <2>1. ASSUME NEW i \in 1 .. Len(M) PROVE s[i] # "sp"
    <3>1. s[0 + i] = M[i] /\ 0 + i = i BY <1>7 DEF Stands
    <3>2. M[i] = "a" BY <1>9
    <3> QED BY <3>1, <3>2
  <2>2. Len(M) + 1 \in 1 .. N BY <1>6, <1>7
  <2>3. first # 0 BY <1>8, <2>2 DEF IsFirst
  <2>4. first \in 1 .. N /\ s[first] = "sp" /\ \A i \in 1 .. first - 1 : s[i] # "sp"
    BY <2>3 DEF IsFirst
  <2>5. ~(first < Len(M) + 1)
    <3>1. first < Len(M) + 1 => first \in 1 .. Len(M) BY <1>6, <2>4
    <3> QED BY <2>1, <2>4, <3>1
  <2>6. ~(first > Len(M) + 1)
    <3>1. first > Len(M) + 1 => Len(M) + 1 \in 1 .. first - 1 BY <1>6, <2>4
    <3> QED BY <1>8, <2>4, <3>1
  <2> QED BY <1>6, <2>4, <2>5, <2>6
<1>11. last = Len(M) + Len(P) + 2
  <2> DEFINE L == Len(M) + Len(P) + 2
  <2>1. L \in 1 .. N /\ s[L] = "sp"
    <3>1. Len(M) + 1 + Len(P) + 1 = L BY <1>6
    <3> QED BY <1>6, <1>7, <1>8, <3>1
  <2>2. ASSUME NEW i \in L + 1 .. N PROVE s[i] # "sp"
    <3>1. i - L \in 1 .. Len(V) /\ L + (i - L) = i BY <1>6, <1>7
    <3>2. s[i] = V[i - L] BY <1>7, <3>1 DEF Stands
    <3> QED BY <1>9, <3>1, <3>2
  <2> HIDE DEF L
  <2>3. last # 0 BY <2>1 DEF IsLast
  <2>4. last \in 1 .. N /\ s[last] = "sp" /\ \A i \in last + 1 .. N : s[i] # "sp"
    BY <2>3 DEF IsLast
  <2>5. ~(last < L)
    <3>1. last < L => L \in last + 1 .. N BY <2>1, <2>4
    <3> QED BY <2>1, <2>4, <3>1
  <2>6. ~(last > L)
    <3>1. last > L => last \in L + 1 .. N BY <2>1, <2>4
    <3> QED BY <2>2, <2>4, <3>1
  <2>7. last = L BY <2>1, <2>4, <2>5, <2>6
  <2> QED BY <2>7 DEF L
<1>12. SubSeq(s, 1, first - 1) = M
  <2> DEFINE off == 0
             m == 1
             n == first - 1
  <2>1. off \in Nat /\ off + Len(M) <= Len(s) /\ m = off + 1 /\ n = off + Len(M) /\ Stands(M, s, off)
    BY <1>6, <1>7, <1>10
  <2> HIDE DEF off, m, n
  <2>2. IsPart(M, s, m, n, off) BY <1>1, <2>1 DEF IsPart
  <2>3. SubSeq(s, m, n) = M BY <2>2, PartIs
  <2> QED BY <2>3 DEF m, n
<1>13. SubSeq(s, first + 1, last - 1) = P
  <2> DEFINE off == Len(M) + 1
             m == first + 1
             n == last - 1
  <2>1. off \in Nat /\ off + Len(P) <= Len(s) /\ m = off + 1 /\ n = off + Len(P) /\ Stands(P, s, off)
    BY <1>6, <1>7, <1>10, <1>11
  <2> HIDE DEF off, m, n
  <2>2. IsPart(P, s, m, n, off) BY <1>1, <2>1 DEF IsPart
  <2>3. SubSeq(s, m, n) = P BY <2>2, PartIs
  <2> QED BY <2>3 DEF m, n
<1>14. SubSeq(s, last + 1, Len(s)) = V
  <2> DEFINE off == Len(M) + Len(P) + 2
             m == last + 1
             n == Len(s)
  <2>1. off \in Nat /\ off + Len(V) <= Len(s) /\ m = off + 1 /\ n = off + Len(V) /\ Stands(V, s, off)
    BY <1>6, <1>7, <1>11
  <2> HIDE DEF off, m, n
  <2>2. IsPart(V, s, m, n, off) BY <1>1, <2>1 DEF IsPart
  <2>3. SubSeq(s, m, n) = V BY <2>2, PartIs
  <2> QED BY <2>3 DEF m, n
<1>15. ~(first <= 1) /\ last # first BY <1>6, <1>9, <1>10, <1>11
<1>16. ~(\E k \in DOMAIN P : P[k] \in {"sp", "tab"})
  <2>1. DOMAIN P = 1 .. Len(P) BY <1>1
  <2> QED BY <1>9, <2>1
<1> QED BY <1>3, <1>12, <1>13, <1>14, <1>15, <1>16 DEF RefusesRequest

\* What LinesReadAsGrammar says of a request line.
RequestRead(s, result) ==
  IF result.err = ""
  THEN IsRequestLine(s, [method |-> result.method, path |-> result.path, version |-> result.version])
  ELSE result = Malformed /\ \A r \in RequestLines(s) :
         r.path # <<>> /\ r.version # <<>> => ~IsRequestLine(s, r)

\* parseRequestLine makes of every line what the grammar does.
LEMMA RequestParsed ==
  ASSUME NEW s \in Seq(Symbols)
  PROVE  RequestRead(s, parseRequestLine(s))
<1> DEFINE first == IndexByte(s, "sp")
           last == LastIndexByte(s, "sp")
           M == SubSeq(s, 1, first - 1)
           P == SubSeq(s, first + 1, last - 1)
           V == SubSeq(s, last + 1, Len(s))
           out == parseRequestLine(s)
<1>1. IsFirst(first, s, "sp") /\ IsLast(last, s, "sp") BY IndexByteFirst, LastIndexByteLast
<1>2. out = IF RefusesRequest(s, first, last, M, P, V) THEN Malformed
            ELSE [err |-> "", method |-> M, path |-> P, version |-> V]
  BY DEF parseRequestLine, RefusesRequest
<1> HIDE DEF first, last, out
<1>3. CASE ~RefusesRequest(s, first, last, M, P, V)
  <2>1. IsRequestLine(s, [method |-> M, path |-> P, version |-> V]) BY <1>1, <1>3, RequestSound
  <2> HIDE DEF M, P, V
  <2>2. out = [err |-> "", method |-> M, path |-> P, version |-> V] BY <1>2, <1>3
  <2>3. out.err = "" /\ out.method = M /\ out.path = P /\ out.version = V BY <2>2
  <2>4. RequestRead(s, out) BY <2>1, <2>3 DEF RequestRead
  <2> QED BY <2>4 DEF out
<1>4. CASE RefusesRequest(s, first, last, M, P, V)
  <2>1. ASSUME NEW r \in RequestLines(s), r.path # <<>>, r.version # <<>>, IsRequestLine(s, r)
        PROVE  FALSE
    <3>1. PICK a \in 1 .. Len(s), b \in 1 .. Len(s) :
            r = [method |-> SubSeq(s, 1, a), path |-> SubSeq(s, a + 2, b),
                 version |-> SubSeq(s, b + 2, Len(s))]
      BY <2>1 DEF RequestLines
    <3>2. /\ a \in Nat /\ a <= Len(s) /\ b \in Nat /\ b <= Len(s) /\ Len(s) \in Nat
          /\ a + 2 \in Nat \ {0} /\ b + 2 \in Nat \ {0} /\ 1 \in Nat \ {0}
      OBVIOUS
    <3>3. /\ SubSeq(s, 1, a) \in Seq(Symbols) /\ SubSeq(s, a + 2, b) \in Seq(Symbols)
          /\ SubSeq(s, b + 2, Len(s)) \in Seq(Symbols)
      BY <3>2, PartFacts
    <3>4. r.method \in Seq(Symbols) /\ r.path \in Seq(Symbols) /\ r.version \in Seq(Symbols)
      BY <3>1, <3>3
    <3> QED BY <1>1, <1>4, <2>1, <3>4, RequestComplete
  <2>2. out = Malformed BY <1>2, <1>4
  <2>3. out.err # "" BY <2>2 DEF Malformed
  <2>4. RequestRead(s, out) BY <2>1, <2>2, <2>3 DEF RequestRead
  <2> QED BY <2>4 DEF out
<1> QED BY <1>3, <1>4

------------------------------------------------------------------------------
(***************************************************************************)
(* parseHeader.                                                            *)
(***************************************************************************)

\* v is what is left of s without the a and b blank symbols at its ends.
IsTrimmed(v, s, a, b) ==
  /\ a \in Nat /\ b \in Nat /\ v \in Seq(Symbols) /\ Len(s) = a + Len(v) + b
  /\ Stands(v, s, a)
  /\ \A i \in 1 .. a : s[i] \in {"sp", "tab"}
  /\ \A i \in a + Len(v) + 1 .. Len(s) : s[i] \in {"sp", "tab"}
  /\ v # <<>> => v[1] \notin {"sp", "tab"} /\ v[Len(v)] \notin {"sp", "tab"}

\* strings.Trim does that.
LEMMA TrimFacts ==
  ASSUME NEW s \in Seq(Symbols)
  PROVE  \E a, b : IsTrimmed(Trim(s), s, a, b)
<1> DEFINE ink == {k \in DOMAIN s : s[k] \notin {"sp", "tab"}}
           N == Len(s)
<1>1. DOMAIN s = 1 .. N /\ N \in Nat OBVIOUS
<1>2. \A k \in 1 .. N : k \in ink <=> s[k] \notin {"sp", "tab"} BY <1>1
<1>3. CASE ink = {}
  <2>1. Trim(s) = <<>> BY <1>3 DEF Trim
  <2> DEFINE v == Trim(s)
  <2>2. v \in Seq(Symbols) /\ Len(v) = 0 /\ v = <<>> BY <2>1
  <2> HIDE DEF v, ink
  <2>3. \A i \in 1 .. N : s[i] \in {"sp", "tab"} BY <1>2, <1>3
  <2>4. Stands(v, s, 0) BY <2>2 DEF Stands
  <2>5. Len(s) = 0 + Len(v) + N /\ 0 \in Nat BY <1>1, <2>2
  <2>6. IsTrimmed(v, s, 0, N) BY <1>1, <2>2, <2>3, <2>4, <2>5 DEF IsTrimmed
  <2> QED BY <2>6 DEF v
<1>4. CASE ink # {}
  <2> DEFINE lo == CHOOSE k \in ink : \A l \in ink : k <= l
             hi == CHOOSE k \in ink : \A l \in ink : l <= k
             v == SubSeq(s, lo, hi)
  <2>1. ink \in SUBSET Nat /\ ink \in SUBSET (0 .. N) BY <1>1
  <2>2. Trim(s) = v BY <1>4 DEF Trim
  <2> HIDE DEF ink
  <2>3. lo \in ink /\ \A l \in ink : lo <= l
    <3>1. \E k \in ink : \A l \in ink : k <= l BY <1>4, <2>1, FirstOf
    <3> QED BY <3>1
  <2>4. hi \in ink /\ \A l \in ink : l <= hi
    <3>1. \E k \in ink : \A l \in ink : l <= k BY <1>1, <1>4, <2>1, LastOf
    <3> QED BY <3>1
  <2> HIDE DEF lo, hi
  <2>5. lo \in 1 .. N /\ hi \in 1 .. N /\ lo <= hi
    <3>1. ink \subseteq 1 .. N BY <1>1 DEF ink
    <3> QED BY <2>3, <2>4, <3>1
  <2> DEFINE a == lo - 1
             b == N - hi
  <2>6. /\ lo \in Nat \ {0} /\ hi \in Nat /\ hi <= Len(s) /\ lo <= hi + 1 /\ a = lo - 1
        /\ a \in Nat /\ b \in Nat
    BY <1>1, <2>5
  <2> HIDE DEF a
  <2>7. v \in Seq(Symbols) /\ Len(v) = hi - lo + 1 /\ Stands(v, s, a) BY <2>6, PartStands
  <2> HIDE DEF v, b
  <2>8. Len(s) = a + Len(v) + b /\ a + Len(v) = hi BY <1>1, <2>5, <2>6, <2>7 DEF b
  <2>9. ASSUME NEW i \in 1 .. a PROVE s[i] \in {"sp", "tab"}
    <3>1. i \in 1 .. N /\ ~(lo <= i) BY <1>1, <2>5, <2>6
    <3> QED BY <1>2, <2>3, <3>1
  <2>10. ASSUME NEW i \in a + Len(v) + 1 .. Len(s) PROVE s[i] \in {"sp", "tab"}
    <3>1. i \in 1 .. N /\ ~(i <= hi) BY <1>1, <2>5, <2>8
    <3> QED BY <1>2, <2>4, <3>1
  <2>11. v[1] \notin {"sp", "tab"} /\ v[Len(v)] \notin {"sp", "tab"}
    <3>1. 1 \in 1 .. Len(v) /\ Len(v) \in 1 .. Len(v) /\ a + 1 = lo BY <2>5, <2>6, <2>7
    <3>2. v[1] = s[lo] /\ v[Len(v)] = s[hi] BY <2>7, <2>8, <3>1 DEF Stands
    <3>3. s[lo] \notin {"sp", "tab"} /\ s[hi] \notin {"sp", "tab"} BY <1>2, <2>3, <2>4, <2>5
    <3> QED BY <3>2, <3>3
  <2>12. IsTrimmed(v, s, a, b) BY <2>6, <2>7, <2>8, <2>9, <2>10, <2>11 DEF IsTrimmed
  <2> QED BY <2>2, <2>12
<1> QED BY <1>3, <1>4

\* What is refused of a line that is not empty.
RefusesHeader(s, colon, name) == s[1] \in {"sp", "tab"} \/ colon <= 1 \/ ~isValidToken(name)

\* A line that is not refused has a name and a value.
LEMMA HeaderSound ==
  ASSUME NEW s \in Seq(Symbols), NEW colon, IsFirst(colon, s, ":"),
         ~RefusesHeader(s, colon, SubSeq(s, 1, colon - 1))
  PROVE  IsHeader(s, [name |-> SubSeq(s, 1, colon - 1), value |-> Trim(SubSeq(s, colon + 1, Len(s)))])
<1> DEFINE M == SubSeq(s, 1, colon - 1)
           R == SubSeq(s, colon + 1, Len(s))
           V == Trim(R)
           co == <<":">>
           N == Len(s)
<1>1. N \in Nat /\ ~(colon <= 1) /\ isValidToken(M) BY DEF RefusesHeader
<1>2. colon \in 1 .. N /\ s[colon] = ":" /\ colon > 1
  <2>1. colon # 0 BY <1>1
  <2>2. colon \in 1 .. N /\ s[colon] = ":" BY <2>1 DEF IsFirst
  <2> QED BY <1>1, <2>2
<1>3. M \in Seq(Symbols) /\ Len(M) = colon - 1 /\ Stands(M, s, 0)
  <2> DEFINE m == 1
             n == colon - 1
             off == 0
  <2>1. m \in Nat \ {0} /\ n \in Nat /\ n <= Len(s) /\ m <= n + 1 /\ off = m - 1 /\ n - m + 1 = colon - 1
    BY <1>2
  <2>2. M = SubSeq(s, m, n) OBVIOUS
  <2> HIDE DEF m, n, off, M
  <2>3. M \in Seq(Symbols) /\ Len(M) = n - m + 1 /\ Stands(M, s, off) BY <2>1, <2>2, PartStands
  <2> QED BY <2>1, <2>3 DEF off
<1>4. R \in Seq(Symbols) /\ Len(R) = N - colon /\ Stands(R, s, colon)
  <2> DEFINE m == colon + 1
             n == Len(s)
  <2>1. m \in Nat \ {0} /\ n \in Nat /\ n <= Len(s) /\ m <= n + 1 /\ colon = m - 1
        /\ n - m + 1 = N - colon
    BY <1>2
  <2>2. R = SubSeq(s, m, n) OBVIOUS
  <2> HIDE DEF m, n, R
  <2>3. R \in Seq(Symbols) /\ Len(R) = n - m + 1 /\ Stands(R, s, colon) BY <2>1, <2>2, PartStands
  <2> QED BY <2>1, <2>3
<1> HIDE DEF M, R
<1>5. PICK a, b : IsTrimmed(V, R, a, b) BY <1>4, TrimFacts
<1> HIDE DEF V
<1>6. /\ a \in Nat /\ b \in Nat /\ V \in Seq(Symbols) /\ Len(R) = a + Len(V) + b /\ Stands(V, R, a)
      /\ \A i \in 1 .. a : R[i] \in {"sp", "tab"}
      /\ \A i \in a + Len(V) + 1 .. Len(R) : R[i] \in {"sp", "tab"}
      /\ V # <<>> => V[1] \notin {"sp", "tab"} /\ V[Len(V)] \notin {"sp", "tab"}
  BY <1>5 DEF IsTrimmed
<1> DEFINE X == SubSeq(s, Len(M) + 2, Len(M) + 1 + a)
           Y == SubSeq(s, Len(s) - b + 1, Len(s))
<1>7. /\ Len(V) \in Nat /\ N = Len(M) + 1 + a + Len(V) + b /\ Len(M) \in Nat
      /\ colon = Len(M) + 1 /\ N - b = Len(M) + 1 + a + Len(V)
  <2> DEFINE m == Len(M)
             v == Len(V)
             n == Len(R)
  <2>1. v \in Nat /\ a \in Nat /\ b \in Nat /\ n = a + v + b BY <1>6
  <2>2. N \in Nat /\ colon \in Nat /\ colon > 1 /\ m = colon - 1 /\ n = N - colon
    BY <1>1, <1>2, <1>3, <1>4
  <2> HIDE DEF m, v, n, N
  <2>3. v \in Nat /\ N = m + 1 + a + v + b /\ m \in Nat /\ colon = m + 1 /\ N - b = m + 1 + a + v
    BY <2>1, <2>2
  <2> QED BY <2>3 DEF m, v
<1>8. X \in Seq(Symbols) /\ Len(X) = a /\ Stands(X, s, Len(M) + 1)
  <2> DEFINE m == Len(M) + 2
             n == Len(M) + 1 + a
             off == Len(M) + 1
  <2>1. m \in Nat \ {0} /\ n \in Nat /\ n <= Len(s) /\ m <= n + 1 /\ off = m - 1 /\ n - m + 1 = a
    BY <1>6, <1>7
  <2>2. X = SubSeq(s, m, n) OBVIOUS
  <2> HIDE DEF m, n, off, X
  <2>3. X \in Seq(Symbols) /\ Len(X) = n - m + 1 /\ Stands(X, s, off) BY <2>1, <2>2, PartStands
  <2> QED BY <2>1, <2>3 DEF off
<1>9. Y \in Seq(Symbols) /\ Len(Y) = b /\ Stands(Y, s, N - b)
  <2> DEFINE m == Len(s) - b + 1
             n == Len(s)
             off == N - b
  <2>1. m \in Nat \ {0} /\ n \in Nat /\ n <= Len(s) /\ m <= n + 1 /\ off = m - 1 /\ n - m + 1 = b
    BY <1>6, <1>7
  <2>2. Y = SubSeq(s, m, n) OBVIOUS
  <2> HIDE DEF m, n, off, Y
  <2>3. Y \in Seq(Symbols) /\ Len(Y) = n - m + 1 /\ Stands(Y, s, off) BY <2>1, <2>2, PartStands
  <2> QED BY <2>1, <2>3 DEF off
<1> HIDE DEF X, Y
<1>10. Stands(V, s, Len(M) + 1 + a)
  <2>1. ASSUME NEW i \in 1 .. Len(V) PROVE s[Len(M) + 1 + a + i] = V[i]
    <3>1. a + i \in 1 .. Len(R) /\ colon + (a + i) = Len(M) + 1 + a + i BY <1>6, <1>7
    <3>2. s[colon + (a + i)] = R[a + i] BY <1>4, <3>1 DEF Stands
    <3>3. R[a + i] = V[i] BY <1>6 DEF Stands
    <3> QED BY <3>1, <3>2, <3>3
  <2> QED BY <2>1 DEF Stands
<1>11. co \in Seq(Symbols) /\ Len(co) = 1 /\ co[1] = ":"
  <2>1. ":" \in Symbols BY DEF Symbols
  <2> QED BY <2>1
<1>12. Stands(co, s, Len(M))
  <2>1. \A i \in 1 .. Len(co) : i = 1 BY <1>11
  <2> HIDE DEF co
  <2> QED BY <1>2, <1>7, <1>11, <2>1 DEF Stands
<1> HIDE DEF co
<1>13. HasParts(s, M, co, X, V, Y)
  <2>1. /\ Len(M) + Len(co) = Len(M) + 1 /\ Len(M) + Len(co) + Len(X) = Len(M) + 1 + a
        /\ Len(M) + Len(co) + Len(X) + Len(V) = N - b
        /\ Len(s) = Len(M) + Len(co) + Len(X) + Len(V) + Len(Y)
    BY <1>6, <1>7, <1>8, <1>9, <1>11
  <2> QED BY <1>3, <1>8, <1>9, <1>10, <1>12, <2>1 DEF HasParts
<1>14. s = M \o co \o X \o V \o Y
  <2> DEFINE t == M \o co \o X \o V \o Y
  <2>1. t \in Seq(Symbols) /\ HasParts(t, M, co, X, V, Y)
    BY <1>3, <1>6, <1>8, <1>9, <1>11, PutTogether
  <2> HIDE DEF t
  <2>2. s = t BY <1>3, <1>6, <1>8, <1>9, <1>11, <1>13, <2>1, SameParts
  <2> QED BY <2>2 DEF t
<1>15. Blank(X)
  <2>1. ASSUME NEW i \in 1 .. a PROVE X[i] \in {"sp", "tab"}
    <3>1. i \in 1 .. Len(R) BY <1>6, <1>7
    <3>2. X[i] = s[colon + i] BY <1>7, <1>8 DEF Stands
    <3>3. s[colon + i] = R[i] BY <1>4, <3>1 DEF Stands
    <3> QED BY <1>6, <3>2, <3>3
  <2>2. DOMAIN X = 1 .. a BY <1>8
  <2> QED BY <2>1, <2>2 DEF Blank
<1>16. Blank(Y)
  <2>1. ASSUME NEW i \in 1 .. b PROVE Y[i] \in {"sp", "tab"}
    <3> DEFINE k == a + Len(V) + i
    <3>1. k \in 1 .. Len(R) /\ k \in a + Len(V) + 1 .. Len(R) /\ N - b + i = colon + k BY <1>6, <1>7
    <3>2. Y[i] = s[N - b + i] BY <1>9 DEF Stands
    <3> HIDE DEF k
    <3>3. s[colon + k] = R[k] BY <1>4, <3>1 DEF Stands
    <3>4. R[k] \in {"sp", "tab"} BY <1>6, <3>1
    <3> QED BY <3>1, <3>2, <3>3, <3>4
  <2>2. DOMAIN Y = 1 .. b BY <1>9
  <2> QED BY <2>1, <2>2 DEF Blank
<1> DEFINE r == [name |-> M, value |-> V]
<1>17. r.name = M /\ r.value = V OBVIOUS
<1> HIDE DEF r
<1>18. a \in 0 .. Len(s) /\ b \in 0 .. Len(s) BY <1>6, <1>7
<1>19. \E c, d \in 0 .. Len(s) :
         /\ Len(r.name) + 1 + c + Len(r.value) + d = Len(s)
         /\ s = r.name \o <<":">> \o SubSeq(s, Len(r.name) + 2, Len(r.name) + 1 + c)
                  \o r.value \o SubSeq(s, Len(s) - d + 1, Len(s))
         /\ Blank(SubSeq(s, Len(r.name) + 2, Len(r.name) + 1 + c))
         /\ Blank(SubSeq(s, Len(s) - d + 1, Len(s)))
  <2> USE <1>18
  <2> WITNESS a \in 0 .. Len(s), b \in 0 .. Len(s)
  <2>1. Len(r.name) + 1 + a + Len(r.value) + b = Len(s) BY <1>7, <1>17
  <2> QED BY <1>14, <1>15, <1>16, <1>17, <2>1 DEF X, Y, co
<1>20. IsHeader(s, r) BY <1>1, <1>6, <1>17, <1>19 DEF IsHeader
<1> QED BY <1>20 DEF r, M, V, R

\* A header of the grammar is not refused.
LEMMA HeaderComplete ==
  ASSUME NEW s \in Seq(Symbols), NEW colon, IsFirst(colon, s, ":"),
         NEW r, r.name \in Seq(Symbols), r.value \in Seq(Symbols), IsHeader(s, r)
  PROVE  ~RefusesHeader(s, colon, SubSeq(s, 1, colon - 1))
<1> DEFINE M == r.name
           V == r.value
           co == <<":">>
           N == Len(s)
<1>1. M \in Seq(Symbols) /\ V \in Seq(Symbols) /\ isValidToken(M) BY DEF IsHeader
<1>2. co \in Seq(Symbols) /\ Len(co) = 1 /\ co[1] = ":"
  <2>1. ":" \in Symbols BY DEF Symbols
  <2> QED BY <2>1
<1>3. PICK a, b \in 0 .. N :
        /\ Len(M) + 1 + a + Len(V) + b = N
        /\ s = M \o co \o SubSeq(s, Len(M) + 2, Len(M) + 1 + a) \o V \o SubSeq(s, N - b + 1, N)
  BY DEF IsHeader
<1> DEFINE X == SubSeq(s, Len(M) + 2, Len(M) + 1 + a)
           Y == SubSeq(s, N - b + 1, N)
           t == M \o co \o X \o V \o Y
<1>4. Len(M) \in Nat /\ Len(V) \in Nat /\ N \in Nat /\ a \in Nat /\ b \in Nat BY <1>1, <1>3
<1>5. X \in Seq(Symbols) /\ Y \in Seq(Symbols)
  <2> DEFINE m == Len(M) + 2
             n == Len(M) + 1 + a
             o == N - b + 1
  <2>1. m \in Nat \ {0} /\ n \in Nat /\ n <= Len(s) /\ o \in Nat \ {0} /\ N <= Len(s)
    <3> DEFINE k == Len(M)
               l == Len(V)
    <3>1. k + 1 + a + l + b = N /\ k \in Nat /\ l \in Nat BY <1>3, <1>4
    <3> HIDE DEF k, l
    <3>2. /\ k + 2 \in Nat \ {0} /\ k + 1 + a \in Nat /\ k + 1 + a <= N
          /\ N - b + 1 \in Nat \ {0} /\ N <= N
      BY <1>4, <3>1
    <3> QED BY <3>2 DEF k
  <2>2. SubSeq(s, m, n) \in Seq(Symbols) /\ SubSeq(s, o, N) \in Seq(Symbols)
    <3> HIDE DEF m, n, o
    <3> QED BY <1>4, <2>1, PartFacts
  <2> QED BY <2>2
<1> HIDE DEF M, V, co, X, Y
<1>6. HasParts(t, M, co, X, V, Y) BY <1>1, <1>2, <1>5, PutTogether
<1>7. s = t BY <1>3 DEF X, Y
<1>8. HasParts(s, M, co, X, V, Y) BY <1>6, <1>7
<1> HIDE DEF t
<1>9. Stands(M, s, 0) /\ Stands(co, s, Len(M)) BY <1>8 DEF HasParts
<1>10. s[Len(M) + 1] = ":"
  <2>1. 1 \in 1 .. Len(co) BY <1>2
  <2> QED BY <1>2, <1>9, <2>1 DEF Stands
<1>11. Len(M) > 0 /\ \A i \in 1 .. Len(M) : M[i] = "a" BY <1>1, TokenFacts
<1>12. \A i \in 1 .. Len(M) : s[i] = "a"
  <2> TAKE i \in 1 .. Len(M)
  <2>1. s[0 + i] = M[i] /\ 0 + i = i BY <1>9 DEF Stands
  <2> QED BY <1>11, <2>1
<1>13. colon = Len(M) + 1
  <2>1. Len(M) + 1 \in 1 .. N BY <1>3, <1>4
  <2>2. colon # 0 BY <1>10, <2>1 DEF IsFirst
  <2>3. colon \in 1 .. N /\ s[colon] = ":" /\ \A i \in 1 .. colon - 1 : s[i] # ":"
    BY <2>2 DEF IsFirst
  <2>4. ~(colon < Len(M) + 1)
    <3>1. colon < Len(M) + 1 => colon \in 1 .. Len(M) BY <1>4, <2>3
    <3> QED BY <1>12, <2>3, <3>1
  <2>5. ~(colon > Len(M) + 1)
    <3>1. colon > Len(M) + 1 => Len(M) + 1 \in 1 .. colon - 1 BY <1>4, <2>3
    <3> QED BY <1>10, <2>3, <3>1
  <2> QED BY <1>4, <2>3, <2>4, <2>5
<1>14. SubSeq(s, 1, colon - 1) = M
  <2> DEFINE off == 0
             m == 1
             n == colon - 1
  <2>1. off \in Nat /\ off + Len(M) <= Len(s) /\ m = off + 1 /\ n = off + Len(M) /\ Stands(M, s, off)
    BY <1>3, <1>4, <1>9, <1>13
  <2> HIDE DEF off, m, n
  <2>2. IsPart(M, s, m, n, off) BY <1>1, <2>1 DEF IsPart
  <2>3. SubSeq(s, m, n) = M BY <2>2, PartIs
  <2> QED BY <2>3 DEF m, n
<1>15. s[1] = "a" /\ ~(colon <= 1)
  <2>1. 1 \in 1 .. Len(M) BY <1>4, <1>11
  <2> QED BY <1>4, <1>11, <1>12, <1>13, <2>1
<1> QED BY <1>1, <1>14, <1>15 DEF RefusesHeader

\* What LinesReadAsGrammar says of a header line.
HeaderRead(s, result) ==
  IF s = <<>> THEN result = [err |-> "", end |-> TRUE]
  ELSE IF result.err = "" THEN IsHeader(s, [name |-> result.name, value |-> result.value])
  ELSE result = Malformed /\ \A r \in HeaderLines(s) : ~IsHeader(s, r)

\* parseHeader makes of every line what the grammar does.
LEMMA HeaderParsed ==
  ASSUME NEW s \in Seq(Symbols)
  PROVE  HeaderRead(s, parseHeader(s))
<1> DEFINE colon == IndexByte(s, ":")
           M == SubSeq(s, 1, colon - 1)
           V == Trim(SubSeq(s, colon + 1, Len(s)))
           out == parseHeader(s)
<1>1. IsFirst(colon, s, ":") BY IndexByteFirst
<1>2. out = IF s = <<>> THEN [err |-> "", end |-> TRUE]
            ELSE IF RefusesHeader(s, colon, M) THEN Malformed
            ELSE [err |-> "", name |-> M, value |-> V]
  BY DEF parseHeader, RefusesHeader
<1> HIDE DEF colon, out
<1>3. CASE s = <<>>
  <2>1. HeaderRead(s, out) BY <1>2, <1>3 DEF HeaderRead
  <2> QED BY <2>1 DEF out
<1>4. CASE s # <<>> /\ ~RefusesHeader(s, colon, M)
  <2>1. IsHeader(s, [name |-> M, value |-> V]) BY <1>1, <1>4, HeaderSound
  <2> HIDE DEF M, V
  <2>2. out = [err |-> "", name |-> M, value |-> V] BY <1>2, <1>4
  <2>3. out.err = "" /\ out.name = M /\ out.value = V BY <2>2
  <2>4. HeaderRead(s, out) BY <1>4, <2>1, <2>3 DEF HeaderRead
  <2> QED BY <2>4 DEF out
<1>5. CASE s # <<>> /\ RefusesHeader(s, colon, M)
  <2>1. ASSUME NEW r \in HeaderLines(s), IsHeader(s, r) PROVE FALSE
    <3>1. PICK a \in 1 .. Len(s), b \in 1 .. Len(s) + 1, c \in 0 .. Len(s) :
            r = [name |-> SubSeq(s, 1, a), value |-> SubSeq(s, b, c)]
      BY <2>1 DEF HeaderLines
    <3>2. /\ a \in Nat /\ a <= Len(s) /\ b \in Nat \ {0} /\ c \in Nat /\ c <= Len(s)
          /\ 1 \in Nat \ {0}
      OBVIOUS
    <3>3. SubSeq(s, 1, a) \in Seq(Symbols) /\ SubSeq(s, b, c) \in Seq(Symbols)
      BY <3>2, PartFacts
    <3>4. r.name \in Seq(Symbols) /\ r.value \in Seq(Symbols) BY <3>1, <3>3
    <3> QED BY <1>1, <1>5, <2>1, <3>4, HeaderComplete
  <2>2. out = Malformed BY <1>2, <1>5
  <2>3. out.err # "" BY <2>2 DEF Malformed
  <2>4. HeaderRead(s, out) BY <1>5, <2>1, <2>2, <2>3 DEF HeaderRead
  <2> QED BY <2>4 DEF out
<1> QED BY <1>3, <1>4, <1>5

------------------------------------------------------------------------------
(***************************************************************************)
(* readLine.                                                               *)
(***************************************************************************)

\* While it reads, the line so far is what was read, without an LF and within
\* the limit; when it ends, the result is the grammar's.
LineIInv ==
  /\ stream \in Streams
  /\ line.err = "reading" =>
       /\ pos \in Nat /\ pos <= Len(stream[2]) /\ pos <= MaxLine
       /\ buf \in Seq(Symbols) /\ Len(buf) = pos
       /\ \A i \in 1 .. pos : buf[i] = stream[2][i] /\ buf[i] # "lf"
  /\ LinesReadAsGrammar

\* The line of a raw one: without its CR.
WithoutCR(raw) == IF raw # <<>> /\ raw[Len(raw)] = "cr" THEN SubSeq(raw, 1, Len(raw) - 1) ELSE raw

\* A line without its CR is one.
LEMMA WithoutCRType ==
  ASSUME NEW raw \in Seq(Symbols)
  PROVE  WithoutCR(raw) \in Seq(Symbols)
<1>1. CASE raw # <<>>
  <2> DEFINE n == Len(raw) - 1
             m == 1
  <2>1. m \in Nat \ {0} /\ n \in Nat /\ n <= Len(raw) BY <1>1
  <2> HIDE DEF m, n
  <2>2. SubSeq(raw, m, n) \in Seq(Symbols) BY <2>1, PartFacts
  <2> QED BY <2>2 DEF WithoutCR, m, n
<1>2. CASE raw = <<>> BY <1>2 DEF WithoutCR
<1> QED BY <1>1, <1>2

\* What is said of the result when no line ends within the limit.
NoLine(t) ==
  IF Len(t) >= MaxLine THEN "ErrMalformed" ELSE IF t = <<>> THEN "EOF" ELSE "ErrUnexpectedEOF"

\* A result is the grammar's if no line ends within the limit and it says so.
LEMMA NoLineRead ==
  ASSUME stream[2] \in Seq(Symbols), NEW n \in Nat, \A i \in 1 .. n : stream[2][i] # "lf",
         n >= Len(stream[2]) \/ n >= MaxLine, stream' = stream,
         line'.err = NoLine(stream[2]), MaxLine \in Nat
  PROVE  LinesReadAsGrammar'
<1> DEFINE t == stream[2]
           E == Ends(t)
           c == CHOOSE k \in E : TRUE
<1>1. t \in Seq(Symbols) /\ Len(t) \in Nat /\ DOMAIN t = 1 .. Len(t) OBVIOUS
<1>2. ASSUME NEW k \in E PROVE k > MaxLine
  <2>1. k \in 1 .. Len(t) /\ t[k] = "lf" BY <1>1 DEF Ends
  <2>2. ~(k \in 1 .. n) BY <2>1
  <2>3. k > n BY <2>1, <2>2
  <2> QED BY <1>1, <2>1, <2>3
<1>3. E = {} \/ c > MaxLine
  <2>1. E # {} => c \in E OBVIOUS
  <2> HIDE DEF c, E
  <2> QED BY <1>2, <2>1
<1> QED BY <1>3 DEF LinesReadAsGrammar, NoLine

\* A result is the grammar's if the parser made it of the first line.
LEMMA LineRead ==
  ASSUME stream \in Streams, stream[2] \in Seq(Symbols), NEW n \in 1 .. Len(stream[2]),
         stream[2][n] = "lf", \A i \in 1 .. n - 1 : stream[2][i] # "lf", n <= MaxLine, MaxLine \in Nat,
         NEW raw, raw = SubSeq(stream[2], 1, n - 1),
         stream' = stream,
         line' = IF stream[1] = "request" THEN parseRequestLine(WithoutCR(raw))
                 ELSE parseHeader(WithoutCR(raw))
  PROVE  LinesReadAsGrammar'
<1> DEFINE t == stream[2]
           E == Ends(t)
           c == CHOOSE k \in E : TRUE
           s == WithoutCR(raw)
<1>1. t \in Seq(Symbols) /\ Len(t) \in Nat /\ DOMAIN t = 1 .. Len(t) OBVIOUS
<1>2. n \in E BY <1>1 DEF Ends
<1>3. ASSUME NEW k \in E PROVE k = n
  <2>1. k \in 1 .. Len(t) /\ t[k] = "lf" /\ \A i \in 1 .. k - 1 : t[i] # "lf" BY <1>1 DEF Ends
  <2>2. ~(k \in 1 .. n - 1) /\ ~(n \in 1 .. k - 1) BY <2>1
  <2> QED BY <2>1, <2>2
<1>4. c = n BY <1>2, <1>3
<1>5. ~(E = {} \/ c > MaxLine)
  <2>1. n \in Nat /\ ~(n > MaxLine) OBVIOUS
  <2>2. E # {} BY <1>2
  <2> HIDE DEF c, E
  <2> QED BY <1>4, <2>1, <2>2
<1>6. raw \in Seq(Symbols)
  <2> DEFINE m == 1
             l == n - 1
  <2>1. m \in Nat \ {0} /\ l \in Nat /\ l <= Len(t) BY <1>1
  <2>2. raw = SubSeq(t, m, l) OBVIOUS
  <2> HIDE DEF m, l, t
  <2> QED BY <1>1, <2>1, <2>2, PartFacts
<1>7. s \in Seq(Symbols) BY <1>6, WithoutCRType
<1>8. raw = SubSeq(t, 1, c - 1) BY <1>4
<1>9. s = IF raw # <<>> /\ raw[Len(raw)] = "cr" THEN SubSeq(raw, 1, Len(raw) - 1) ELSE raw
  BY DEF WithoutCR
<1> HIDE DEF s
<1>10. CASE stream[1] = "request"
  <2>1. line' = parseRequestLine(s) BY <1>10 DEF s
  <2>2. RequestRead(s, line') BY <1>7, <2>1, RequestParsed
  <2> QED BY <1>5, <1>8, <1>9, <1>10, <2>2 DEF LinesReadAsGrammar, RequestRead
<1>11. CASE stream[1] # "request"
  <2>1. line' = parseHeader(s) BY <1>11 DEF s
  <2>2. HeaderRead(s, line') BY <1>7, <2>1, HeaderParsed
  <2> QED BY <1>5, <1>8, <1>9, <1>11, <2>2 DEF LinesReadAsGrammar, HeaderRead
<1> QED BY <1>10, <1>11

\* The inductive invariant holds before anything is read.
LEMMA LineInitInv == LineInit => LineIInv
<1> SUFFICES ASSUME LineInit PROVE LineIInv OBVIOUS
<1>1. stream \in Streams /\ pos = 0 /\ buf = <<>> /\ line = [err |-> "reading"] BY DEF LineInit
<1>2. stream[2] \in Seq(Symbols) /\ MaxLine \in Nat BY <1>1, LinesAssumption
<1>3. line.err = "reading" BY <1>1
<1>4. LinesReadAsGrammar BY <1>3 DEF LinesReadAsGrammar
<1>5. /\ pos \in Nat /\ pos <= Len(stream[2]) /\ pos <= MaxLine
      /\ buf \in Seq(Symbols) /\ Len(buf) = pos
  BY <1>1, <1>2
<1>6. \A i \in 1 .. pos : buf[i] = stream[2][i] /\ buf[i] # "lf" BY <1>1
<1> QED BY <1>1, <1>4, <1>5, <1>6 DEF LineIInv

\* A turn of readLine's loop keeps it.
LEMMA readLineInv == LineIInv /\ readLine => LineIInv'
<1> SUFFICES ASSUME LineIInv, readLine PROVE LineIInv' OBVIOUS
<1> DEFINE t == stream[2]
<1>1. line.err = "reading" /\ stream' = stream BY DEF readLine
<1>2. stream \in Streams BY DEF LineIInv
<1>3. t \in Seq(Symbols) /\ Len(t) \in Nat /\ MaxLine \in Nat BY <1>2, LinesAssumption
<1>4. /\ pos \in Nat /\ pos <= Len(t) /\ pos <= MaxLine /\ buf \in Seq(Symbols) /\ Len(buf) = pos
      /\ \A i \in 1 .. pos : buf[i] = t[i] /\ buf[i] # "lf"
  BY <1>1 DEF LineIInv
<1>5. \A i \in 1 .. pos : t[i] # "lf"
  <2> TAKE i \in 1 .. pos
  <2>1. buf[i] = t[i] /\ buf[i] # "lf" BY <1>4
  <2> QED BY <2>1
<1>6. TooLong <=> pos >= MaxLine BY <1>4 DEF TooLong
<1>7. \/ TooLong /\ LineEnds(Malformed)
      \/ ~TooLong /\ pos = Len(t) /\ LineEnds([err |-> IF buf = <<>> THEN "EOF" ELSE "ErrUnexpectedEOF"])
      \/ ~TooLong /\ pos < Len(t) /\ t[pos + 1] = "lf" /\ LineEnds(ParseLine)
      \/ /\ ~TooLong /\ pos < Len(t) /\ t[pos + 1] # "lf" /\ pos' = pos + 1
         /\ buf' = Append(buf, t[pos + 1]) /\ line' = line
  BY DEF readLine
<1>8. ASSUME LinesReadAsGrammar', line'.err # "reading" PROVE LineIInv' BY <1>1, <1>2, <1>8 DEF LineIInv
<1>9. CASE TooLong /\ LineEnds(Malformed)
  <2>1. line' = Malformed BY <1>9 DEF LineEnds
  <2>2. line'.err = "ErrMalformed" BY <2>1 DEF Malformed
  <2>3. pos >= MaxLine BY <1>6, <1>9
  <2>4. Len(t) >= MaxLine BY <1>3, <1>4, <2>3
  <2>5. line'.err = NoLine(t) BY <2>2, <2>4 DEF NoLine
  <2>6. LinesReadAsGrammar' BY <1>1, <1>3, <1>4, <1>5, <2>3, <2>5, NoLineRead
  <2> QED BY <1>8, <2>2, <2>6
<1>10. CASE ~TooLong /\ pos = Len(t) /\ LineEnds([err |-> IF buf = <<>> THEN "EOF" ELSE "ErrUnexpectedEOF"])
  <2>1. line' = [err |-> IF buf = <<>> THEN "EOF" ELSE "ErrUnexpectedEOF"] BY <1>10 DEF LineEnds
  <2>2. line'.err = IF buf = <<>> THEN "EOF" ELSE "ErrUnexpectedEOF" BY <2>1
  <2>3. pos >= Len(t) /\ ~(Len(t) >= MaxLine) BY <1>3, <1>4, <1>6, <1>10
  <2>4. buf = <<>> <=> t = <<>>
    <3>1. buf = <<>> <=> Len(buf) = 0 BY <1>4
    <3>2. t = <<>> <=> Len(t) = 0 BY <1>3
    <3> QED BY <1>4, <1>10, <3>1, <3>2
  <2>5. line'.err = NoLine(t) BY <2>2, <2>3, <2>4 DEF NoLine
  <2>6. LinesReadAsGrammar' BY <1>1, <1>3, <1>4, <1>5, <2>3, <2>5, NoLineRead
  <2> QED BY <1>8, <2>2, <2>6
<1>11. CASE ~TooLong /\ pos < Len(t) /\ t[pos + 1] = "lf" /\ LineEnds(ParseLine)
  <2> DEFINE n == pos + 1
             raw == SubSeq(t, 1, n - 1)
  <2>1. n \in 1 .. Len(t) /\ n <= MaxLine /\ t[n] = "lf" /\ n - 1 = pos BY <1>3, <1>4, <1>6, <1>11
  <2>2. \A i \in 1 .. n - 1 : t[i] # "lf" BY <1>5, <2>1
  <2>3. raw = buf
    <3> DEFINE off == 0
               m == 1
               l == n - 1
    <3>1. off \in Nat /\ off + Len(buf) <= Len(t) /\ m = off + 1 /\ l = off + Len(buf)
      BY <1>3, <1>4, <2>1
    <3>2. Stands(buf, t, off)
      <4>1. ASSUME NEW i \in 1 .. Len(buf) PROVE t[off + i] = buf[i]
        <5>1. i \in 1 .. pos /\ off + i = i BY <1>4
        <5> QED BY <1>4, <5>1
      <4> QED BY <4>1 DEF Stands
    <3>3. raw = SubSeq(t, m, l) OBVIOUS
    <3> HIDE DEF off, m, l, t, raw
    <3>4. IsPart(buf, t, m, l, off) BY <1>4, <3>1, <3>2 DEF IsPart
    <3> QED BY <1>3, <3>3, <3>4, PartIs
  <2>4. line' = IF stream[1] = "request" THEN parseRequestLine(WithoutCR(buf))
                ELSE parseHeader(WithoutCR(buf))
    <3>1. line' = ParseLine BY <1>11 DEF LineEnds
    <3>2. Len(buf) > 0 <=> buf # <<>> BY <1>4
    <3>3. (IF Len(buf) > 0 /\ buf[Len(buf)] = "cr" THEN SubSeq(buf, 1, Len(buf) - 1) ELSE buf)
          = WithoutCR(buf)
      BY <3>2 DEF WithoutCR
    <3> QED BY <3>1, <3>3 DEF ParseLine
  <2> HIDE DEF n
  <2>5. LinesReadAsGrammar'
    <3>1. buf = SubSeq(stream[2], 1, n - 1) BY <2>3
    <3> QED BY <1>1, <1>2, <1>3, <2>1, <2>2, <2>4, <3>1, LineRead
  <2>6. line'.err # "reading"
    <3>1. Malformed.err # "reading" BY DEF Malformed
    <3> QED BY <2>4, <3>1 DEF parseRequestLine, parseHeader
  <2> QED BY <1>8, <2>5, <2>6
<1>12. CASE /\ ~TooLong /\ pos < Len(t) /\ t[pos + 1] # "lf" /\ pos' = pos + 1
            /\ buf' = Append(buf, t[pos + 1]) /\ line' = line
  <2> DEFINE x == t[pos + 1]
             b == Append(buf, x)
  <2>1. pos + 1 \in Nat /\ pos + 1 <= Len(t) /\ pos + 1 <= MaxLine /\ pos + 1 \in 1 .. Len(t)
    BY <1>3, <1>4, <1>6, <1>12
  <2>2. x \in Symbols BY <1>3, <2>1, ElementOfSeq
  <2> HIDE DEF x
  <2>3. b \in Seq(Symbols) /\ Len(b) = pos + 1 /\ b[pos + 1] = x /\ \A i \in 1 .. pos : b[i] = buf[i]
    BY <1>4, <2>2, AppendProperties
  <2> HIDE DEF b
  <2>4. ASSUME NEW i \in 1 .. pos + 1 PROVE b[i] = t[i] /\ b[i] # "lf"
    <3>1. CASE i = pos + 1 BY <1>12, <2>3, <3>1 DEF x
    <3>2. CASE i # pos + 1
      <4>1. i \in 1 .. pos BY <1>4, <3>2
      <4> QED BY <1>4, <2>3, <4>1
    <3> QED BY <3>1, <3>2
  <2>5. LinesReadAsGrammar' BY <1>1, <1>12 DEF LinesReadAsGrammar
  <2>6. buf' = b /\ pos' = pos + 1 BY <1>12 DEF b, x
  <2> QED BY <1>1, <1>2, <2>1, <2>3, <2>4, <2>5, <2>6 DEF LineIInv
<1> QED BY <1>7, <1>9, <1>10, <1>11, <1>12

\* The inductive invariant holds in every reachable state.
THEOREM LineInvariant == LineSpec => []LineIInv
<1>1. LineInit => LineIInv BY LineInitInv
<1>2. LineIInv /\ [LineNext]_lineVars => LineIInv'
  <2> SUFFICES ASSUME LineIInv, [LineNext]_lineVars PROVE LineIInv' OBVIOUS
  <2>1. CASE readLine BY <2>1, readLineInv
  <2>2. CASE UNCHANGED lineVars
    <3>1. stream' = stream /\ pos' = pos /\ buf' = buf /\ line' = line BY <2>2 DEF lineVars
    <3>2. LinesReadAsGrammar' BY <3>1 DEF LineIInv, LinesReadAsGrammar
    <3> QED BY <3>1, <3>2 DEF LineIInv
  <2> QED BY <2>1, <2>2 DEF LineNext
<1> QED BY <1>1, <1>2, PTL DEF LineSpec

\* Whatever the stream and the limit are, readLine with parseRequestLine or
\* parseHeader accepts a line exactly if it is within the limit and the grammar
\* allows it, cuts it where the grammar does, and otherwise returns the error
\* that tells why.
THEOREM LinesSafe == LineSpec => []LinesReadAsGrammar
<1>1. LineIInv => LinesReadAsGrammar BY DEF LineIInv
<1> QED BY <1>1, LineInvariant, PTL

==============================================================================
