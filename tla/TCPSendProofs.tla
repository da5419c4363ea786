---------------------------- MODULE TCPSendProofs ----------------------------
(***************************************************************************)
(* Proofs that the send half keeps its invariants and implements the       *)
(* sliding window, for all sizes of the sequence space, all windows below  *)
(* half of it, all segment sizes, and whatever the peer acknowledges.      *)
(***************************************************************************)
EXTENDS TCPSend, TLAPS

------------------------------------------------------------------------------
(***************************************************************************)
(* The wrapping arithmetic of SeqNum, for every size of the sequence space.*)
(* The first lemmas are about remainders by an arbitrary modulus; the later*)
(* ones speak of sequence numbers only.                                    *)
(***************************************************************************)

\* Quotient and remainder of y by M.
LEMMA DivMod ==
  ASSUME NEW M \in Nat \ {0}, NEW y \in Int
  PROVE  /\ y = M * (y \div M) + (y % M)
         /\ y \div M \in Int
         /\ y % M \in 0 .. (M - 1)
BY SMTT(30)

\* A multiple of M strictly between -M and M is zero.
LEMMA SmallMultiple ==
  ASSUME NEW M \in Nat \ {0}, NEW d \in Int, -M < M * d, M * d < M
  PROVE  d = 0
<1>1. CASE d >= 1
  <2>1. M * d >= M * 1 BY <1>1, SMTT(30)
  <2> QED BY <2>1
<1>2. CASE d <= -1
  <2>1. M * d <= M * (-1) BY <1>2, SMTT(30)
  <2> QED BY <2>1
<1> QED BY <1>1, <1>2

\* A remainder is determined by the equation it solves.
LEMMA ModUnique ==
  ASSUME NEW M \in Nat \ {0}, NEW a \in Int, NEW q \in Int,
         NEW r \in 0 .. (M - 1), a = M * q + r
  PROVE  a % M = r
<1> DEFINE e == a \div M
           t == a % M
           d == q - e
<1>1. a = M * e + t /\ e \in Int /\ t \in 0 .. (M - 1) BY DivMod
<1> HIDE DEF e, t
<1>2. d \in Int BY <1>1
<1>3. M * (q - e) = M * q - M * e BY <1>1, SMTT(30)
<1>4. M * q \in Int /\ M * e \in Int BY <1>1
<1>5. M * (q - e) = t - r BY <1>1, <1>3, <1>4
<1>6. -M < M * d /\ M * d < M BY <1>5, <1>1
<1>7. d = 0 BY <1>2, <1>6, SmallMultiple
<1>8. t = r BY <1>7, <1>5, <1>1
<1> QED BY <1>8 DEF t

\* Reducing before an addition changes nothing.
LEMMA ModAdd ==
  ASSUME NEW M \in Nat \ {0}, NEW y \in Int, NEW n \in Int
  PROVE  ((y % M) + n) % M = (y + n) % M
<1> DEFINE q == y \div M
           r == y % M
           p == (r + n) \div M
           s == (r + n) % M
           z == y + n
           k == q + p
<1>1. y = M * q + r /\ q \in Int /\ r \in 0 .. (M - 1) BY DivMod
<1>2. r + n \in Int BY <1>1
<1>3. r + n = M * p + s /\ p \in Int /\ s \in 0 .. (M - 1) BY <1>2, DivMod
<1> HIDE DEF q, r, p, s
<1>4. M * (q + p) = M * q + M * p BY <1>1, <1>3, SMTT(30)
<1>5. z = M * k + s BY <1>1, <1>3, <1>4
<1>6. z \in Int /\ k \in Int BY <1>1, <1>3
<1> HIDE DEF z, k
<1>7. z % M = s BY <1>3, <1>5, <1>6, ModUnique
<1> QED BY <1>7 DEF s, r, z

\* Reducing a subtrahend changes nothing.
LEMMA ModSub ==
  ASSUME NEW M \in Nat \ {0}, NEW y \in Int, NEW n \in Int
  PROVE  (n - (y % M)) % M = (n - y) % M
<1> DEFINE q == y \div M
           r == y % M
           p == (n - r) \div M
           s == (n - r) % M
           z == n - y
           k == p - q
<1>1. y = M * q + r /\ q \in Int /\ r \in 0 .. (M - 1) BY DivMod
<1>2. n - r \in Int BY <1>1
<1>3. n - r = M * p + s /\ p \in Int /\ s \in 0 .. (M - 1) BY <1>2, DivMod
<1> HIDE DEF q, r, p, s
<1>4. M * (p - q) = M * p - M * q BY <1>1, <1>3, SMTT(30)
<1>5. z = M * k + s BY <1>1, <1>3, <1>4
<1>6. z \in Int /\ k \in Int BY <1>1, <1>3
<1> HIDE DEF z, k
<1>7. z % M = s BY <1>3, <1>5, <1>6, ModUnique
<1> QED BY <1>7 DEF s, r, z

\* Numbers less than one turn away from the circle.
LEMMA ModNear ==
  ASSUME NEW M \in Nat \ {0}, NEW y \in Int, -M <= y, y < 2 * M
  PROVE  y % M = IF y < 0 THEN y + M ELSE IF y < M THEN y ELSE y - M
BY SMTT(30)

------------------------------------------------------------------------------

\* The sequence space is a circle of 2 * Half numbers, and not empty.
LEMMA SeqModType == SeqMod \in Nat \ {0} /\ SeqMod = 2 * Half /\ Half \in Nat \ {0}
BY HalfAssumption DEF SeqMod

\* Addition and subtraction stay on the circle.
LEMMA SeqArithType ==
  ASSUME NEW a \in Int, NEW b \in Int
  PROVE  SeqAdd(a, b) \in SeqNums /\ SeqSub(a, b) \in SeqNums
<1>1. a + b \in Int /\ a - b \in Int OBVIOUS
<1> QED BY <1>1, DivMod, SeqModType DEF SeqAdd, SeqSub, SeqNums

\* Adding in two steps is adding the sum.
LEMMA SeqAddAdd ==
  ASSUME NEW a \in Int, NEW m \in Int, NEW n \in Int
  PROVE  SeqAdd(SeqAdd(a, m), n) = SeqAdd(a, m + n)
<1>1. a + m \in Int OBVIOUS
<1>2. (((a + m) % SeqMod) + n) % SeqMod = ((a + m) + n) % SeqMod
  BY <1>1, ModAdd, SeqModType
<1>3. (a + m) + n = a + (m + n) OBVIOUS
<1> QED BY <1>2, <1>3 DEF SeqAdd

\* Adding nothing changes no sequence number.
LEMMA SeqAddZero ==
  ASSUME NEW a \in SeqNums
  PROVE  SeqAdd(a, 0) = a
<1>1. a \in Int /\ 0 <= a /\ a < SeqMod BY SeqModType DEF SeqNums
<1>2. a % SeqMod = a BY <1>1, ModNear, SeqModType
<1> QED BY <1>1, <1>2 DEF SeqAdd

\* Subtraction of two sequence numbers, without the remainder.
LEMMA SeqSubCases ==
  ASSUME NEW a \in SeqNums, NEW b \in SeqNums
  PROVE  SeqSub(a, b) = IF a >= b THEN a - b ELSE a - b + SeqMod
<1>1. a \in Int /\ b \in Int /\ 0 <= a /\ a < SeqMod /\ 0 <= b /\ b < SeqMod
  BY SeqModType DEF SeqNums
<1> DEFINE y == a - b
<1>2. y \in Int /\ -SeqMod <= y /\ y < 2 * SeqMod BY <1>1, SeqModType
<1> HIDE DEF y
<1>3. y % SeqMod = IF y < 0 THEN y + SeqMod ELSE IF y < SeqMod THEN y ELSE y - SeqMod
  BY <1>2, ModNear, SeqModType
<1> QED BY <1>1, <1>2, <1>3, SeqModType DEF SeqSub, y

\* The distance of two offsets from a common origin.
LEMMA SeqSubOffsets ==
  ASSUME NEW a \in Int, NEW m \in Int, NEW n \in Int, 0 <= m - n, m - n < SeqMod
  PROVE  SeqSub(SeqAdd(a, m), SeqAdd(a, n)) = m - n
<1> DEFINE p == (a + m) % SeqMod
           y == a + n
           d == m - n
<1>1. p \in Int BY SeqModType, DivMod
<1>2. y \in Int /\ a + m \in Int /\ d \in Int /\ -y \in Int OBVIOUS
<1>3. (p - (y % SeqMod)) % SeqMod = (p - y) % SeqMod
  BY <1>1, <1>2, SeqModType, ModSub
<1>4. (p + (-y)) % SeqMod = ((a + m) + (-y)) % SeqMod
  BY <1>2, SeqModType, ModAdd
<1>5. p - y = p + (-y) /\ (a + m) + (-y) = d BY <1>1, <1>2
<1>6. d % SeqMod = d
  <2>1. d \in Int /\ -SeqMod <= d /\ d < 2 * SeqMod /\ 0 <= d /\ d < SeqMod
    BY <1>2, SeqModType
  <2> HIDE DEF d
  <2> QED BY <2>1, ModNear, SeqModType
<1> QED BY <1>3, <1>4, <1>5, <1>6 DEF SeqSub, SeqAdd

\* A sequence number that lies f before offset n is offset n - f.
LEMMA SeqBack ==
  ASSUME NEW a \in Int, NEW n \in Int, NEW b \in SeqNums
  PROVE  SeqAdd(a, n - SeqSub(SeqAdd(a, n), b)) = b
<1> DEFINE x == SeqAdd(a, n)
           f == SeqSub(x, b)
<1>1. x \in SeqNums BY SeqArithType
<1>2. x \in Int /\ b \in Int /\ 0 <= b /\ b < SeqMod BY <1>1, SeqModType DEF SeqNums
<1>3. f \in SeqNums BY <1>2, SeqArithType
<1>4. f \in Int BY <1>3, SeqModType DEF SeqNums
<1> HIDE DEF f
<1>5. -f \in Int BY <1>4
<1>6. SeqAdd(x, -f) = SeqAdd(a, n + (-f)) BY <1>5, SeqAddAdd
<1>7. n + (-f) = n - f BY <1>4
<1>8. SeqAdd(x, -f) = b
  <2>1. f = IF x >= b THEN x - b ELSE x - b + SeqMod BY <1>1, SeqSubCases DEF f
  <2> HIDE DEF x
  <2> DEFINE z == x + (-f)
  <2>2. z = IF x >= b THEN b ELSE b - SeqMod BY <2>1, <1>2, SeqModType
  <2>3. z \in Int /\ -SeqMod <= z /\ z < 2 * SeqMod BY <2>2, <1>2, SeqModType
  <2> HIDE DEF z
  <2>4. z % SeqMod = IF z < 0 THEN z + SeqMod ELSE IF z < SeqMod THEN z ELSE z - SeqMod
    BY <2>3, ModNear, SeqModType
  <2>5. z % SeqMod = b BY <2>2, <2>4, <1>2, SeqModType
  <2> QED BY <2>5 DEF SeqAdd, z
<1> QED BY <1>6, <1>7, <1>8 DEF f

\* Comparison by signed difference is comparison of offsets, as long as the
\* offsets are less than half a turn apart (the claim of the comment at the
\* top of seq.go).
LEMMA SeqLEOffsets ==
  ASSUME NEW a \in Int, NEW x \in Int, NEW y \in Int, -Half < x - y, x - y < Half
  PROVE  seqLE(SeqAdd(a, x), SeqAdd(a, y)) <=> x <= y
<1> DEFINE p == SeqAdd(a, x)
           r == SeqAdd(a, y)
<1>1. p \in SeqNums /\ r \in SeqNums BY SeqArithType
<1>2. CASE x >= y
  <2>1. 0 <= x - y /\ x - y < SeqMod BY <1>2, SeqModType
  <2>2. SeqSub(p, r) = x - y BY <2>1, SeqSubOffsets
  <2> QED BY <2>2, <1>2, SeqModType DEF seqLE, SignedDiff
<1>3. CASE x < y
  <2>1. 0 <= y - x /\ y - x < SeqMod BY <1>3, SeqModType
  <2>2. SeqSub(r, p) = y - x BY <2>1, SeqSubOffsets
  <2> HIDE DEF p, r
  <2>3. SeqSub(r, p) = IF r >= p THEN r - p ELSE r - p + SeqMod BY <1>1, SeqSubCases
  <2>4. SeqSub(p, r) = IF p >= r THEN p - r ELSE p - r + SeqMod BY <1>1, SeqSubCases
  <2>5. SeqSub(p, r) = SeqMod - (y - x)
    BY <2>2, <2>3, <2>4, <1>1, <1>3, SeqModType DEF SeqNums
  <2>6. SeqSub(p, r) >= Half BY <2>5, SeqModType
  <2>7. SignedDiff(p, r) = -(y - x) BY <2>5, <2>6, SeqModType DEF SignedDiff
  <2> QED BY <2>7, <1>3 DEF seqLE, p, r
<1> QED BY <1>2, <1>3

\* processAck's two comparisons let through exactly the acknowledgement
\* numbers after SND.UNA up to SND.NXT, provided less than half the sequence
\* space is in flight.
LEMMA AckWindow ==
  ASSUME NEW nxt \in SeqNums, NEW una \in SeqNums, NEW ack \in SeqNums,
         SeqSub(nxt, una) < Half, ~seqGT(ack, nxt), seqGT(ack, una)
  PROVE  SeqSub(nxt, ack) \in Nat /\ SeqSub(nxt, ack) < SeqSub(nxt, una)
<1>1. SeqSub(nxt, una) = IF nxt >= una THEN nxt - una ELSE nxt - una + SeqMod
  BY SeqSubCases
<1>2. SeqSub(nxt, ack) = IF nxt >= ack THEN nxt - ack ELSE nxt - ack + SeqMod
  BY SeqSubCases
<1>3. SeqSub(ack, nxt) = IF ack >= nxt THEN ack - nxt ELSE ack - nxt + SeqMod
  BY SeqSubCases
<1>4. SeqSub(ack, una) = IF ack >= una THEN ack - una ELSE ack - una + SeqMod
  BY SeqSubCases
<1> QED BY <1>1, <1>2, <1>3, <1>4, SeqModType, SMTT(60)
        DEF seqGT, SignedDiff, SeqNums

------------------------------------------------------------------------------
(***************************************************************************)
(* The send half.                                                          *)
(***************************************************************************)

\* The queue q is a cut of the stream up to where the unsent part u begins.
\* The pairwise order of the segments is what makes the cut inductive: the
\* neighbours' equalities alone would need an induction along the queue.
QueueOK(q, u) ==
  /\ u \in [lo : Nat, hi : Nat] /\ u.lo <= u.hi
  /\ q \in Seq(Segments)
  /\ \A i \in 1 .. Len(q) :
       /\ q[i].lo < q[i].hi
       /\ q[i].hi - q[i].lo <= mss
       /\ ~q[i].fin
       /\ q[i].hi <= u.lo
  /\ \A i, j \in 1 .. Len(q) : i < j => q[i].hi <= q[j].lo
  /\ \A i \in 1 .. (Len(q) - 1) : q[i].hi = q[i + 1].lo
  /\ q # <<>> => q[Len(q)].hi = u.lo

\* The segments c cover exactly the bytes from a to b.
Tiles(c, a, b) ==
  /\ c \in Seq(Segments)
  /\ c = <<>> <=> a = b
  /\ \A i \in 1 .. Len(c) :
       /\ c[i].lo < c[i].hi /\ c[i].hi - c[i].lo <= mss
       /\ ~c[i].fin
       /\ a <= c[i].lo /\ c[i].hi <= b
  /\ \A i, j \in 1 .. Len(c) : i < j => c[i].hi <= c[j].lo
  /\ \A i \in 1 .. (Len(c) - 1) : c[i].hi = c[i + 1].lo
  /\ c # <<>> => c[1].lo = a /\ c[Len(c)].hi = b

\* The segments of q travel under the sequence numbers of their bytes.
Placed(q) == \A i \in 1 .. Len(q) : q[i].seqNum = SeqAt(q[i].lo)

\* Offset a lies in the head of q, or after everything sent if q is empty.
HeadCovers(q, u, a) ==
  IF q = <<>> THEN a >= u.lo ELSE q[1].lo <= a /\ a < q[1].hi

\* The FIN never goes out ahead of what is already in segments, so a clean
\* close leaves nothing unsent.
FinBehind == closing # "no" => finAt <= sendUnsent.lo

SendIInv ==
  /\ SendTypeOK
  /\ QueueOK(sendQueue, sendUnsent)
  /\ SeqPlacement
  /\ UnackedRetained
  /\ FinBehind
  /\ TimerMatchesQueue
  /\ BackoffBounded
  /\ WireSound

------------------------------------------------------------------------------

\* The segment size the pump uses is positive, also when MSS is 0.
LEMMA MssType == mss \in Nat \ {0}
BY SendAssumption DEF mss

\* Lesser is the smaller of its two arguments.
LEMMA LesserFact ==
  ASSUME NEW a \in Int, NEW b \in Int
  PROVE  Lesser(a, b) \in {a, b} /\ Lesser(a, b) <= a /\ Lesser(a, b) <= b
BY DEF Lesser

\* The elements of a concatenation.
LEMMA ConcatFacts ==
  ASSUME NEW C, NEW s \in Seq(C), NEW t \in Seq(C)
  PROVE  /\ s \o t \in Seq(C) /\ Len(s \o t) = Len(s) + Len(t)
         /\ \A i \in 1 .. Len(s \o t) : (s \o t)[i] = IF i <= Len(s) THEN s[i] ELSE t[i - Len(s)]
OBVIOUS

\* Multiplication by a natural number is monotone and distributes.
LEMMA TimesMono ==
  ASSUME NEW m \in Nat, NEW a \in Int, NEW b \in Int, a <= b
  PROVE  a * m <= b * m /\ a * m \in Int /\ b * m \in Int
BY SMTT(30)

\* One more segment is mss more bytes.
LEMMA TimesNext ==
  ASSUME NEW m \in Nat, NEW i \in Int
  PROVE  (i - 1) * m = i * m - m /\ i * m \in Int /\ (i - 1) * m \in Int
BY SMTT(30)

\* The number of chunks of at most m bytes that hold n bytes.
LEMMA CeilDiv ==
  ASSUME NEW m \in Nat \ {0}, NEW n \in Nat
  PROVE  LET k == (n + m - 1) \div m IN
         k \in Nat /\ n <= k * m /\ k * m <= n + m - 1 /\ (k = 0 <=> n = 0)
<1> DEFINE k == (n + m - 1) \div m
           r == (n + m - 1) % m
<1>1. n + m - 1 \in Int OBVIOUS
<1>2. n + m - 1 = m * k + r /\ k \in Int /\ r \in 0 .. (m - 1) BY <1>1, DivMod
<1> HIDE DEF k, r
<1>3. m * k = k * m /\ k * m \in Int BY <1>2, SMTT(30)
<1>4. n <= k * m /\ k * m <= n + m - 1 BY <1>2, <1>3
<1>5. k >= 0
  <2>1. SUFFICES ASSUME k <= -1 PROVE FALSE BY <1>2
  <2>2. k * m <= (-1) * m BY <2>1, <1>2, TimesMono
  <2> QED BY <2>2, <1>3, <1>4
<1>6. n = 0 => k = 0
  <2>1. SUFFICES ASSUME n = 0, k >= 1 PROVE FALSE BY <1>2, <1>5
  <2>2. 1 * m <= k * m BY <2>1, <1>2, TimesMono
  <2> QED BY <2>1, <2>2, <1>3, <1>4
<1>7. k = 0 => n = 0
  <2>1. SUFFICES ASSUME k = 0 PROVE n = 0 OBVIOUS
  <2>2. k * m = 0 BY <2>1
  <2> QED BY <2>2, <1>4
<1> QED BY <1>2, <1>4, <1>5, <1>6, <1>7 DEF k

\* What the pump sends when it moves n bytes: consecutive segments of at
\* most mss bytes that cover exactly those n bytes, each under the sequence
\* number that continues SND.NXT.
LEMMA ChunksFacts ==
  ASSUME NEW u \in [lo : Nat, hi : Nat], NEW n \in Nat, SendSeqNum \in SeqNums
  PROVE  LET c == Chunks(u, n) IN
         /\ Tiles(c, u.lo, u.lo + n)
         /\ \A i \in 1 .. Len(c) :
              c[i].seqNum = SeqAdd(SendSeqNum, c[i].lo - u.lo)
<1> DEFINE c == Chunks(u, n)
           k == (n + mss - 1) \div mss
<1>1. k \in Nat /\ n <= k * mss /\ k * mss <= n + mss - 1 /\ (k = 0 <=> n = 0)
  BY MssType, CeilDiv
<1>2. /\ k * mss \in Int
      /\ \A i \in Int : i * mss \in Int /\ (i - 1) * mss = i * mss - mss
  BY MssType, TimesNext, <1>1
<1> DEFINE chunk(i) == [seqNum |-> SeqAdd(SendSeqNum, (i - 1) * mss),
                        lo     |-> u.lo + (i - 1) * mss,
                        hi     |-> u.lo + Lesser(i * mss, n),
                        fin    |-> FALSE]
<1>3. c = [i \in 1 .. k |-> chunk(i)] BY DEF Chunks
<1> HIDE DEF k, c
<1>4. \A i \in 1 .. k :
        /\ 0 <= (i - 1) * mss /\ (i - 1) * mss < n
        /\ i * mss >= mss
        /\ i < k => i * mss < n
  <2> SUFFICES ASSUME NEW i \in 1 .. k
               PROVE  /\ 0 <= (i - 1) * mss /\ (i - 1) * mss < n
                      /\ i * mss >= mss
                      /\ i < k => i * mss < n
      OBVIOUS
  <2>1. i \in Int /\ 1 <= i /\ i <= k /\ k \in Int BY <1>1
  <2>2. 1 * mss <= i * mss BY <2>1, MssType, TimesMono
  <2>3. i * mss <= k * mss BY <2>1, MssType, TimesMono
  <2>4. i < k => i * mss <= (k - 1) * mss
    <3>1. SUFFICES ASSUME i < k PROVE i * mss <= (k - 1) * mss OBVIOUS
    <3>2. k - 1 \in Int /\ i <= k - 1 BY <2>1, <3>1
    <3> QED BY <3>2, <2>1, MssType, TimesMono
  <2>5. i * mss \in Int /\ (i - 1) * mss = i * mss - mss
        /\ (k - 1) * mss = k * mss - mss
    BY <1>2, <2>1
  <2>6. mss \in Int /\ mss >= 1 /\ 1 * mss = mss BY MssType
  <2>7. 0 <= (i - 1) * mss /\ i * mss >= mss BY <2>2, <2>5, <2>6
  <2>8. (i - 1) * mss < n BY <2>3, <2>5, <2>6, <1>1, <1>2
  <2>9. i < k => i * mss < n BY <2>4, <2>5, <2>6, <1>1, <1>2
  <2> QED BY <2>7, <2>8, <2>9
<1>5. \A i \in 1 .. k :
        /\ i \in Int /\ i * mss \in Int /\ (i - 1) * mss \in Int
        /\ (i - 1) * mss = i * mss - mss
  BY <1>1, <1>2
<1>6. \A i \in 1 .. k :
        /\ chunk(i) \in Segments
        /\ chunk(i).lo < chunk(i).hi /\ chunk(i).hi - chunk(i).lo <= mss
        /\ chunk(i).hi <= u.lo + n /\ u.lo <= chunk(i).lo
        /\ chunk(i).lo - u.lo = (i - 1) * mss
        /\ i < k => chunk(i).hi = u.lo + i * mss
  <2> SUFFICES ASSUME NEW i \in 1 .. k
               PROVE  /\ chunk(i) \in Segments
                      /\ chunk(i).lo < chunk(i).hi
                      /\ chunk(i).hi - chunk(i).lo <= mss
                      /\ chunk(i).hi <= u.lo + n /\ u.lo <= chunk(i).lo
                      /\ chunk(i).lo - u.lo = (i - 1) * mss
                      /\ i < k => chunk(i).hi = u.lo + i * mss
      OBVIOUS
  <2> DEFINE x == i * mss
             w == (i - 1) * mss
  <2>1. /\ x \in Int /\ w \in Int /\ w = x - mss /\ 0 <= w /\ w < n
        /\ (i < k => x < n) /\ mss \in Nat \ {0}
    BY <1>4, <1>5, MssType
  <2>2. SendSeqNum \in Int BY SeqModType DEF SeqNums
  <2> HIDE DEF x, w
  <2>3. SeqAdd(SendSeqNum, w) \in SeqNums BY <2>1, <2>2, SeqArithType
  <2>4. Lesser(x, n) = (IF x <= n THEN x ELSE n) BY DEF Lesser
  <2>5. chunk(i) = [seqNum |-> SeqAdd(SendSeqNum, w), lo |-> u.lo + w,
                    hi |-> u.lo + Lesser(x, n), fin |-> FALSE]
    BY DEF x, w
  <2> HIDE DEF chunk
  <2>6. /\ chunk(i).lo = u.lo + w /\ chunk(i).hi = u.lo + Lesser(x, n)
        /\ u.lo + w \in Nat /\ u.lo + Lesser(x, n) \in Nat
    BY <2>1, <2>4, <2>5
  <2>7. chunk(i) \in Segments BY <2>3, <2>5, <2>6 DEF Segments
  <2>8. /\ chunk(i).lo < chunk(i).hi
        /\ chunk(i).hi - chunk(i).lo <= mss
        /\ chunk(i).hi <= u.lo + n /\ u.lo <= chunk(i).lo
        /\ chunk(i).lo - u.lo = w
        /\ i < k => chunk(i).hi = u.lo + x
    BY <2>1, <2>4, <2>6
  <2> QED BY <2>7, <2>8 DEF x, w
<1>7. Len(c) = k /\ c \in Seq(Segments) /\ \A i \in 1 .. k : c[i] = chunk(i)
  BY <1>1, <1>3, <1>6
<1>8. c = <<>> <=> n = 0 BY <1>1, <1>7
<1>9. ASSUME NEW i \in 1 .. Len(c)
      PROVE  /\ c[i].lo < c[i].hi /\ c[i].hi - c[i].lo <= mss
             /\ ~c[i].fin
             /\ u.lo <= c[i].lo /\ c[i].hi <= u.lo + n
             /\ c[i].seqNum = SeqAdd(SendSeqNum, c[i].lo - u.lo)
  <2>1. i \in 1 .. k /\ c[i] = chunk(i) BY <1>7
  <2>2. chunk(i).lo - u.lo = (i - 1) * mss BY <1>6, <2>1
  <2>3. chunk(i).seqNum = SeqAdd(SendSeqNum, (i - 1) * mss) /\ ~chunk(i).fin
    OBVIOUS
  <2> HIDE DEF chunk
  <2> QED BY <1>6, <2>1, <2>2, <2>3
<1>10. ASSUME NEW i \in 1 .. Len(c), NEW j \in 1 .. Len(c), i < j
       PROVE  c[i].hi <= c[j].lo /\ (j = i + 1 => c[i].hi = c[j].lo)
  <2>1. i \in 1 .. k /\ j \in 1 .. k /\ i < k /\ c[i] = chunk(i) /\ c[j] = chunk(j)
    BY <1>1, <1>7, <1>10
  <2>2. chunk(i).hi = u.lo + i * mss /\ chunk(j).lo - u.lo = (j - 1) * mss
    BY <1>6, <2>1
  <2>3. chunk(j).lo = u.lo + (j - 1) * mss OBVIOUS
  <2> HIDE DEF chunk
  <2>4. i <= j - 1 /\ i \in Int /\ j - 1 \in Int BY <1>1, <2>1, <1>10
  <2>5. i * mss <= (j - 1) * mss /\ i * mss \in Int /\ (j - 1) * mss \in Int
    BY <2>4, MssType, TimesMono
  <2>6. j = i + 1 => j - 1 = i BY <2>4
  <2> QED BY <2>1, <2>2, <2>3, <2>5, <2>6
<1>11. ASSUME c # <<>>
       PROVE  c[1].lo = u.lo /\ c[Len(c)].hi = u.lo + n
  <2>1. k >= 1 /\ 1 \in 1 .. k /\ k \in 1 .. k BY <1>1, <1>7, <1>8, <1>11
  <2>2. c[1] = chunk(1) /\ c[Len(c)] = chunk(k) BY <1>7, <2>1
  <2>3. chunk(1).lo = u.lo
    <3>1. (1 - 1) * mss = 0 BY MssType
    <3>2. chunk(1).lo = u.lo + (1 - 1) * mss OBVIOUS
    <3> QED BY <3>1, <3>2
  <2>4. chunk(k).hi = u.lo + n
    <3>1. chunk(k).hi = u.lo + Lesser(k * mss, n) OBVIOUS
    <3>2. Lesser(k * mss, n) = n BY <1>1, <1>2 DEF Lesser
    <3> QED BY <3>1, <3>2
  <2> QED BY <2>2, <2>3, <2>4
<1>12. \A i \in 1 .. (Len(c) - 1) : c[i].hi = c[i + 1].lo
  <2> SUFFICES ASSUME NEW i \in 1 .. (Len(c) - 1) PROVE c[i].hi = c[i + 1].lo
      OBVIOUS
  <2>1. i \in 1 .. Len(c) /\ i + 1 \in 1 .. Len(c) /\ i < i + 1 BY <1>1, <1>7
  <2> QED BY <2>1, <1>10
<1>13. n = 0 <=> u.lo = u.lo + n OBVIOUS
<1> QED BY <1>7, <1>8, <1>9, <1>10, <1>11, <1>12, <1>13 DEF c, Tiles

\* Appending what the pump sends keeps the queue a cut of the stream.
LEMMA AppendOK ==
  ASSUME NEW q, NEW u, NEW c, NEW n \in Nat,
         QueueOK(q, u), n <= u.hi - u.lo, Tiles(c, u.lo, u.lo + n)
  PROVE  QueueOK(q \o c, [lo |-> u.lo + n, hi |-> u.hi])
<1> DEFINE v == [lo |-> u.lo + n, hi |-> u.hi]
           w == q \o c
<1>1. /\ u \in [lo : Nat, hi : Nat] /\ u.lo <= u.hi /\ q \in Seq(Segments)
      /\ c \in Seq(Segments)
  BY DEF QueueOK, Tiles
<1>2. v \in [lo : Nat, hi : Nat] /\ v.lo = u.lo + n /\ v.lo <= v.hi BY <1>1
<1>3. /\ w \in Seq(Segments) /\ Len(w) = Len(q) + Len(c)
      /\ \A i \in 1 .. Len(w) : w[i] = IF i <= Len(q) THEN q[i] ELSE c[i - Len(q)]
      /\ Len(q) \in Nat /\ Len(c) \in Nat
  BY <1>1
<1>4. \A s \in Segments : s.lo \in Nat /\ s.hi \in Nat BY DEF Segments
<1>5. /\ \A i \in 1 .. Len(q) : q[i] \in Segments
      /\ \A i \in 1 .. Len(c) : c[i] \in Segments
  BY <1>1
<1> HIDE DEF w, v
<1>6. \A i \in 1 .. Len(w) :
        w[i].lo < w[i].hi /\ w[i].hi - w[i].lo <= mss /\ ~w[i].fin /\ w[i].hi <= v.lo
  <2> SUFFICES ASSUME NEW i \in 1 .. Len(w)
               PROVE  /\ w[i].lo < w[i].hi /\ w[i].hi - w[i].lo <= mss
                      /\ ~w[i].fin /\ w[i].hi <= v.lo
      OBVIOUS
  <2>1. CASE i <= Len(q)
    <3>1. i \in 1 .. Len(q) /\ w[i] = q[i] BY <1>3, <2>1
    <3> QED BY <3>1, <1>1, <1>2, <1>4, <1>5 DEF QueueOK
  <2>2. CASE i > Len(q)
    <3>1. i - Len(q) \in 1 .. Len(c) /\ w[i] = c[i - Len(q)] BY <1>3, <2>2
    <3> QED BY <3>1, <1>2 DEF Tiles
  <2> QED BY <2>1, <2>2, <1>3
<1>7. \A i, j \in 1 .. Len(w) : i < j => w[i].hi <= w[j].lo
  <2> SUFFICES ASSUME NEW i \in 1 .. Len(w), NEW j \in 1 .. Len(w), i < j
               PROVE  w[i].hi <= w[j].lo
      OBVIOUS
  <2>1. CASE j <= Len(q)
    <3>1. i \in 1 .. Len(q) /\ j \in 1 .. Len(q) /\ w[i] = q[i] /\ w[j] = q[j]
      BY <1>3, <2>1
    <3> QED BY <3>1 DEF QueueOK
  <2>2. CASE i <= Len(q) /\ j > Len(q)
    <3>1. /\ i \in 1 .. Len(q) /\ w[i] = q[i]
          /\ j - Len(q) \in 1 .. Len(c) /\ w[j] = c[j - Len(q)]
      BY <1>3, <2>2
    <3>2. q[i].hi <= u.lo BY <3>1 DEF QueueOK
    <3>3. u.lo <= c[j - Len(q)].lo BY <3>1 DEF Tiles
    <3> QED BY <3>1, <3>2, <3>3, <1>1, <1>4, <1>5, SMTT(40)
  <2>3. CASE i > Len(q)
    <3>1. /\ i - Len(q) \in 1 .. Len(c) /\ w[i] = c[i - Len(q)]
          /\ j - Len(q) \in 1 .. Len(c) /\ w[j] = c[j - Len(q)]
          /\ i - Len(q) < j - Len(q)
      BY <1>3, <2>3
    <3> QED BY <3>1 DEF Tiles
  <2> QED BY <2>1, <2>2, <2>3, <1>3
<1>8. \A i \in 1 .. (Len(w) - 1) : w[i].hi = w[i + 1].lo
  <2> SUFFICES ASSUME NEW i \in 1 .. (Len(w) - 1) PROVE w[i].hi = w[i + 1].lo
      OBVIOUS
  <2>1. CASE i < Len(q)
    <3>1. i \in 1 .. (Len(q) - 1) /\ w[i] = q[i] /\ w[i + 1] = q[i + 1]
      BY <1>3, <2>1
    <3> QED BY <3>1 DEF QueueOK
  <2>2. CASE i = Len(q)
    <3>1. Len(q) >= 1 /\ Len(c) >= 1 /\ i + 1 \in 1 .. Len(w) /\ (i + 1) - Len(q) = 1
      BY <1>3, <2>2
    <3>2. w[i] = q[Len(q)] /\ w[i + 1] = c[1] BY <1>3, <2>2, <3>1
    <3>3. q # <<>> /\ c # <<>> BY <3>1
    <3> QED BY <3>2, <3>3 DEF QueueOK, Tiles
  <2>3. CASE i > Len(q)
    <3>1. /\ i - Len(q) \in 1 .. (Len(c) - 1) /\ w[i] = c[i - Len(q)]
          /\ w[i + 1] = c[(i - Len(q)) + 1]
      BY <1>3, <2>3
    <3> QED BY <3>1 DEF Tiles
  <2> QED BY <2>1, <2>2, <2>3, <1>3
<1>9. w # <<>> => w[Len(w)].hi = v.lo
  <2>1. CASE c = <<>>
    <3>1. n = 0 BY <2>1, <1>1 DEF Tiles
    <3>2. Len(c) = 0 BY <2>1
    <3>3. w # <<>> => w[Len(w)] = q[Len(q)] /\ q # <<>> BY <1>1, <1>3, <3>2
    <3> QED BY <3>1, <3>3, <1>1, <1>2 DEF QueueOK
  <2>2. CASE c # <<>>
    <3>1. Len(c) >= 1 BY <2>2, <1>1, <1>3
    <3>2. w[Len(w)] = c[Len(c)] BY <1>3, <3>1
    <3> QED BY <2>2, <3>2, <1>2 DEF Tiles
  <2> QED BY <2>1, <2>2
<1>10. QueueOK(w, v) BY <1>2, <1>3, <1>6, <1>7, <1>8, <1>9 DEF QueueOK
<1> QED BY <1>10 DEF w, v

\* How much the pump sends: never more than there is, and never past the
\* window.
LEMMA PumpBytesFacts ==
  ASSUME NEW u \in [lo : Nat, hi : Nat], u.lo <= u.hi, NEW una \in SeqNums,
         NEW wnd \in Nat, SendSeqNum \in SeqNums
  PROVE  LET n == PumpBytes(u, una, wnd)
             f == SeqSub(SendSeqNum, una)
         IN /\ n \in Nat /\ f \in Nat
            /\ n <= u.hi - u.lo
            /\ n > 0 => f + n <= wnd
            /\ n < u.hi - u.lo => f + n >= wnd
<1>1. SeqSub(SendSeqNum, una) \in Nat
  <2>1. SendSeqNum \in Int /\ una \in Int BY SeqModType DEF SeqNums
  <2>2. SeqSub(SendSeqNum, una) \in SeqNums BY <2>1, SeqArithType
  <2> QED BY <2>2, SeqModType DEF SeqNums
<1> QED BY <1>1 DEF PumpBytes, Lesser

\* The pump's effect on the queue and on SND.NXT, for any state of the
\* stream: the queue stays a cut of it.
LEMMA PumpFacts ==
  ASSUME NEW u, NEW q, NEW una \in SeqNums, NEW wnd \in Nat, NEW t, NEW r,
         QueueOK(q, u), SendSeqNum \in SeqNums,
         pumpSendLocked(u, q, una, wnd, t, r)
  PROVE  LET n == PumpBytes(u, una, wnd) IN
         /\ n \in Nat /\ n <= u.hi - u.lo
         /\ sendUnsent' = [lo |-> u.lo + n, hi |-> u.hi]
         /\ QueueOK(sendQueue', sendUnsent')
         /\ SendSeqNum' \in SeqNums
         /\ out' \subseteq Segments
         /\ \A s \in out' : /\ s.lo < s.hi /\ s.hi - s.lo <= mss /\ ~s.fin
                            /\ u.lo <= s.lo /\ s.hi <= u.lo + n
         /\ n = 0 => out' = {} /\ sendQueue' = q /\ SendSeqNum' = SendSeqNum
         /\ n > 0 => sendQueue' # <<>>
<1> DEFINE n == PumpBytes(u, una, wnd)
           c == Chunks(u, n)
<1>1. u \in [lo : Nat, hi : Nat] /\ u.lo <= u.hi /\ q \in Seq(Segments)
  BY DEF QueueOK
<1>2. n \in Nat /\ n <= u.hi - u.lo BY <1>1, PumpBytesFacts
<1>3. /\ sendUnsent' = [u EXCEPT !.lo = @ + n] /\ sendQueue' = q \o c
      /\ SendSeqNum' = SeqAdd(SendSeqNum, n) /\ out' = Elements(c)
  BY DEF pumpSendLocked
<1> HIDE DEF n
<1>4. Tiles(c, u.lo, u.lo + n) BY <1>1, <1>2, ChunksFacts
<1> HIDE DEF c
<1>5. sendUnsent' = [lo |-> u.lo + n, hi |-> u.hi] BY <1>1, <1>3
<1>6. QueueOK(sendQueue', sendUnsent')
  <2>1. QueueOK(q \o c, [lo |-> u.lo + n, hi |-> u.hi])
    BY <1>2, <1>4, AppendOK
  <2> QED BY <2>1, <1>3, <1>5
<1>7. SendSeqNum \in Int BY SeqModType DEF SeqNums
<1>8. SendSeqNum' \in SeqNums BY <1>2, <1>3, <1>7, SeqArithType
<1>9. c \in Seq(Segments) BY <1>4 DEF Tiles
<1>10. out' \subseteq Segments BY <1>3, <1>9 DEF Elements
<1>11. \A s \in out' : /\ s.lo < s.hi /\ s.hi - s.lo <= mss /\ ~s.fin
                       /\ u.lo <= s.lo /\ s.hi <= u.lo + n
  BY <1>3, <1>4 DEF Elements, Tiles
<1>12. n = 0 => out' = {} /\ sendQueue' = q /\ SendSeqNum' = SendSeqNum
  <2>1. SUFFICES ASSUME n = 0
                 PROVE  out' = {} /\ sendQueue' = q /\ SendSeqNum' = SendSeqNum
    OBVIOUS
  <2>2. c = <<>> BY <1>1, <1>4, <2>1 DEF Tiles
  <2> QED BY <2>1, <2>2, <1>1, <1>3, SeqAddZero DEF Elements
<1>13. n > 0 => sendQueue' # <<>>
  <2>1. SUFFICES ASSUME n > 0 PROVE sendQueue' # <<>> OBVIOUS
  <2>2. c # <<>> BY <1>1, <1>2, <1>4, <2>1 DEF Tiles
  <2> QED BY <2>2, <1>1, <1>3, <1>9
<1> QED BY <1>2, <1>5, <1>6, <1>8, <1>10, <1>11, <1>12, <1>13 DEF n

\* What the assumption on the constants says of each of them.
LEMMA ConstantFacts ==
  /\ ISS + 1 \in Int /\ MaxWindow \in Nat /\ MaxWindow + 1 < Half
  /\ Half \in Nat /\ SeqMod = 2 * Half
BY SendAssumption, SeqModType DEF SeqNums

\* The pump on an intact stream, with e positions taken by the FIN: the
\* bytes keep their sequence numbers, SND.UNA its offset and its place in
\* the queue, and no more than a window gets in flight.
LEMMA PumpClean ==
  ASSUME NEW u, NEW q, NEW una \in SeqNums, NEW wnd \in 0 .. MaxWindow,
         NEW t, NEW r, NEW e \in {0, 1}, NEW a \in Nat,
         QueueOK(q, u), SendSeqNum \in SeqNums,
         pumpSendLocked(u, q, una, wnd, t, r),
         Placed(q), SendSeqNum = SeqAt(u.lo + e), e = 1 => u.lo = u.hi,
         SeqSub(SendSeqNum, una) <= MaxWindow + e,
         a = (u.lo + e) - SeqSub(SendSeqNum, una),
         HeadCovers(q, u, a)
  PROVE  LET n == PumpBytes(u, una, wnd) IN
         /\ Placed(sendQueue')
         /\ SendSeqNum' = SeqAt((u.lo + n) + e)
         /\ SeqSub(SendSeqNum', una) = ((u.lo + n) + e) - a
         /\ SeqSub(SendSeqNum', una) <= MaxWindow + e
         /\ HeadCovers(sendQueue', sendUnsent', a)
         /\ \A s \in out' : s.seqNum = SeqAt(s.lo) /\ a < s.hi
<1> DEFINE n == PumpBytes(u, una, wnd)
           f == SeqSub(SendSeqNum, una)
           c == Chunks(u, n)
           o == ISS + 1
<1>1. /\ u \in [lo : Nat, hi : Nat] /\ u.lo <= u.hi /\ q \in Seq(Segments)
      /\ wnd \in Nat /\ wnd <= MaxWindow /\ e \in Nat
  BY ConstantFacts DEF QueueOK
<1>2. /\ n \in Nat /\ f \in Nat /\ n <= u.hi - u.lo
      /\ n > 0 => f + n <= wnd
  BY <1>1, PumpBytesFacts
<1>3. /\ sendUnsent' = [lo |-> u.lo + n, hi |-> u.hi]
      /\ n = 0 => out' = {} /\ sendQueue' = q /\ SendSeqNum' = SendSeqNum
      /\ \A s \in out' : u.lo <= s.lo /\ s.lo < s.hi
      /\ out' \subseteq Segments
  BY <1>1, PumpFacts
<1>4. /\ sendQueue' = q \o c /\ SendSeqNum' = SeqAdd(SendSeqNum, n)
      /\ out' = Elements(c)
  BY DEF pumpSendLocked
<1> HIDE DEF n
<1>5. /\ Tiles(c, u.lo, u.lo + n)
      /\ \A i \in 1 .. Len(c) : c[i].seqNum = SeqAdd(SendSeqNum, c[i].lo - u.lo)
  BY <1>1, <1>2, ChunksFacts
<1> HIDE DEF c, f
<1>6. o \in Int /\ e \in Int /\ u.lo \in Int /\ u.lo + e \in Int BY <1>1, ConstantFacts
<1> HIDE DEF o
<1>7. SendSeqNum = SeqAdd(o, u.lo + e) BY DEF SeqAt, o
<1>8. SendSeqNum' = SeqAdd(o, (u.lo + n) + e)
  <2> DEFINE g == u.lo + e
  <2>0. g \in Int /\ n \in Int BY <1>2, <1>6
  <2> HIDE DEF g
  <2>1. SeqAdd(SeqAdd(o, g), n) = SeqAdd(o, g + n)
    BY <2>0, <1>6, SeqAddAdd
  <2>2. (u.lo + e) + n = (u.lo + n) + e BY <1>1, <1>2
  <2> QED BY <2>1, <2>2, <1>4, <1>7 DEF g
<1>9. una = SeqAdd(o, a)
  <2>1. SeqAdd(o, (u.lo + e) - SeqSub(SeqAdd(o, u.lo + e), una)) = una
    BY <1>6, SeqBack
  <2> QED BY <2>1, <1>7
<1>10. SeqSub(SendSeqNum', una) = ((u.lo + n) + e) - a
  <2> DEFINE x == (u.lo + n) + e
  <2>1. x \in Int /\ a \in Int /\ x - a = f + n BY <1>1, <1>2, SMTT(40) DEF f
  <2>2. f <= MaxWindow + 1 BY <1>1, <1>2, ConstantFacts DEF f
  <2>3. f + n <= MaxWindow + 1 BY <2>2, <1>1, <1>2, ConstantFacts
  <2>4. 0 <= x - a /\ x - a < SeqMod
    BY <2>1, <2>3, <1>2, ConstantFacts
  <2> HIDE DEF x
  <2>5. SeqSub(SeqAdd(o, x), SeqAdd(o, a)) = x - a
    BY <1>6, <2>1, <2>4, SeqSubOffsets
  <2> QED BY <2>5, <1>8, <1>9 DEF x
<1>11. SeqSub(SendSeqNum', una) <= MaxWindow + e
  BY <1>1, <1>2, <1>10, ConstantFacts DEF f
<1>12. \A i \in 1 .. Len(c) : c[i].seqNum = SeqAt(c[i].lo)
  <2> SUFFICES ASSUME NEW i \in 1 .. Len(c) PROVE c[i].seqNum = SeqAt(c[i].lo)
      OBVIOUS
  <2>1. c \in Seq(Segments) /\ c # <<>> BY <1>5 DEF Tiles
  <2>2. n # 0 BY <2>1, <1>1, <1>5 DEF Tiles
  <2>3. e = 0 BY <2>2, <1>1, <1>2
  <2> DEFINE x == c[i].lo
             d == x - u.lo
  <2>4. x \in Int
    <3>1. c[i] \in Segments BY <2>1
    <3> QED BY <3>1 DEF Segments
  <2>5. d \in Int /\ u.lo + d = x BY <2>4, <1>6
  <2>6. SendSeqNum = SeqAdd(o, u.lo) BY <1>7, <2>3, <1>6
  <2> HIDE DEF x, d
  <2>7. SeqAdd(SeqAdd(o, u.lo), d) = SeqAdd(o, u.lo + d) BY <1>6, <2>5, SeqAddAdd, ZenonT(40)
  <2>8. c[i].seqNum = SeqAdd(SendSeqNum, d) BY <1>5 DEF d, x
  <2> QED BY <2>5, <2>6, <2>7, <2>8 DEF SeqAt, o, x
<1>13. Placed(sendQueue')
  <2>1. c \in Seq(Segments) BY <1>5 DEF Tiles
  <2>2. \A i \in 1 .. Len(q \o c) :
          \/ i \in 1 .. Len(q) /\ (q \o c)[i] = q[i]
          \/ i - Len(q) \in 1 .. Len(c) /\ (q \o c)[i] = c[i - Len(q)]
    BY <1>1, <2>1
  <2> QED BY <2>2, <1>4, <1>12 DEF Placed
<1>14. e = 0 => a <= u.lo BY <1>1, <1>2, <1>6 DEF f
<1>15. HeadCovers(sendQueue', sendUnsent', a)
  <2>1. CASE n = 0
    <3>1. sendQueue' = q /\ sendUnsent'.lo = u.lo BY <2>1, <1>1, <1>3
    <3> QED BY <3>1 DEF HeadCovers
  <2>2. CASE n # 0
    <3>1. e = 0 /\ a <= u.lo BY <2>2, <1>1, <1>2, <1>14
    <3>2. c \in Seq(Segments) /\ c # <<>> BY <2>2, <1>1, <1>2, <1>5 DEF Tiles
    <3>3. CASE q = <<>>
      <4>1. a = u.lo BY <3>1, <3>3, <1>1 DEF HeadCovers
      <4>2. q \o c = c BY <3>2, <3>3
      <4>3. c[1].lo = u.lo /\ c[1].lo < c[1].hi BY <3>2, <1>5 DEF Tiles
      <4> QED BY <4>1, <4>2, <4>3, <3>2, <1>4 DEF HeadCovers
    <3>4. CASE q # <<>>
      <4>1. (q \o c)[1] = q[1] /\ q \o c # <<>> BY <3>2, <3>4, <1>1
      <4> QED BY <4>1, <3>4, <1>4 DEF HeadCovers
    <3> QED BY <3>3, <3>4
  <2> QED BY <2>1, <2>2
<1>16. \A s \in out' : s.seqNum = SeqAt(s.lo) /\ a < s.hi
  <2> SUFFICES ASSUME NEW s \in out' PROVE s.seqNum = SeqAt(s.lo) /\ a < s.hi
      OBVIOUS
  <2>1. s.seqNum = SeqAt(s.lo) BY <1>4, <1>12 DEF Elements
  <2>2. n # 0 BY <1>3
  <2>3. a <= u.lo BY <2>2, <1>1, <1>2, <1>14
  <2>4. s.lo \in Nat /\ s.hi \in Nat /\ u.lo <= s.lo /\ s.lo < s.hi
    BY <1>3 DEF Segments
  <2> QED BY <2>1, <2>3, <2>4, <1>1
<1>17. SendSeqNum' = SeqAt((u.lo + n) + e) BY <1>8 DEF SeqAt, o
<1> QED BY <1>10, <1>11, <1>13, <1>15, <1>16, <1>17 DEF n

\* What the drain leaves of the queue is still a cut of the stream.
LEMMA SuffixOK ==
  ASSUME NEW q, NEW u, NEW k \in 0 .. Len(q), QueueOK(q, u)
  PROVE  LET p == SubSeq(q, k + 1, Len(q)) IN
         /\ QueueOK(p, u)
         /\ p = <<>> <=> k = Len(q)
         /\ Len(p) = Len(q) - k
         /\ \A i \in 1 .. Len(p) : p[i] = q[k + i]
<1> DEFINE p == SubSeq(q, k + 1, Len(q))
<1>1. q \in Seq(Segments) /\ Len(q) \in Nat /\ k \in Nat /\ k <= Len(q)
  BY DEF QueueOK
<1>2. /\ p \in Seq(Segments) /\ Len(p) = Len(q) - k
      /\ \A i \in 1 .. Len(p) : p[i] = q[k + i]
  BY <1>1
<1> HIDE DEF p
<1>3. p = <<>> <=> k = Len(q)
  <2>1. p = <<>> <=> Len(p) = 0 BY <1>2
  <2> QED BY <2>1, <1>1, <1>2
<1>4. \A i \in 1 .. Len(p) : k + i \in 1 .. Len(q) BY <1>1, <1>2
<1>5. \A i \in 1 .. (Len(p) - 1) :
        /\ k + i \in 1 .. (Len(q) - 1) /\ k + (i + 1) = (k + i) + 1
        /\ i \in 1 .. Len(p) /\ i + 1 \in 1 .. Len(p)
  BY <1>1, <1>2
<1>6. p # <<>> => p[Len(p)] = q[Len(q)]
  <2>1. SUFFICES ASSUME p # <<>> PROVE p[Len(p)] = q[Len(q)] OBVIOUS
  <2>2. Len(p) \in 1 .. Len(p) /\ k + Len(p) = Len(q) BY <2>1, <1>1, <1>2
  <2> QED BY <2>2, <1>2
<1>7. \A i, j \in 1 .. Len(p) : i < j => k + i < k + j BY <1>1, <1>2
<1>8. p # <<>> => q # <<>> BY <1>1, <1>2, <1>3
<1>9. \A i \in 1 .. Len(p) :
        p[i].lo < p[i].hi /\ p[i].hi - p[i].lo <= mss /\ ~p[i].fin /\ p[i].hi <= u.lo
  BY <1>2, <1>4 DEF QueueOK
<1>10. \A i, j \in 1 .. Len(p) : i < j => p[i].hi <= p[j].lo
  BY <1>2, <1>4, <1>7 DEF QueueOK
<1>11. \A i \in 1 .. (Len(p) - 1) : p[i].hi = p[i + 1].lo
  BY <1>2, <1>5 DEF QueueOK
<1>12. p # <<>> => p[Len(p)].hi = u.lo BY <1>6, <1>8 DEF QueueOK
<1>13. QueueOK(p, u) BY <1>2, <1>9, <1>10, <1>11, <1>12 DEF QueueOK
<1> QED BY <1>2, <1>3, <1>13 DEF p

\* The drain removes exactly the segments below the acknowledged offset b,
\* so afterwards b lies in the head of the queue.
LEMMA DrainCovers ==
  ASSUME NEW u, NEW e \in {0, 1}, NEW a \in Nat, NEW b \in Nat,
         NEW k \in 0 .. Len(sendQueue),
         QueueOK(sendQueue, u), Placed(sendQueue), HeadCovers(sendQueue, u, a),
         a < b, b <= u.lo + e, (u.lo + e) - a <= MaxWindow + e,
         Drains(k, SeqAt(b))
  PROVE  LET p == SubSeq(sendQueue, k + 1, Len(sendQueue)) IN
         HeadCovers(p, u, b) /\ Placed(p)
<1> DEFINE q == sendQueue
           p == SubSeq(q, k + 1, Len(q))
           o == ISS + 1
<1>1. /\ QueueOK(p, u) /\ (p = <<>> <=> k = Len(q)) /\ Len(p) = Len(q) - k
      /\ \A i \in 1 .. Len(p) : p[i] = q[k + i]
  BY SuffixOK, ZenonT(40)
<1>2. /\ q \in Seq(Segments) /\ Len(q) \in Nat /\ k \in Nat /\ k <= Len(q)
      /\ u.lo \in Nat /\ e \in Nat
  BY DEF QueueOK
<1>3. \A i \in 1 .. Len(q) : q[i] \in Segments /\ q[i].lo \in Nat /\ q[i].hi \in Nat
  <2>1. \A i \in 1 .. Len(q) : q[i] \in Segments BY <1>2
  <2>2. \A s \in Segments : s.lo \in Nat /\ s.hi \in Nat BY DEF Segments
  <2> QED BY <2>1, <2>2
<1> HIDE DEF p
<1>4. \A i \in 1 .. Len(p) : k + i \in 1 .. Len(q) BY <1>1, <1>2
<1>5. Placed(p) BY <1>1, <1>4 DEF Placed
<1>6. \A i \in 1 .. Len(q) : a < q[i].hi /\ q[i].hi <= u.lo
  <2> SUFFICES ASSUME NEW i \in 1 .. Len(q) PROVE a < q[i].hi /\ q[i].hi <= u.lo
      OBVIOUS
  <2>1. q # <<>> /\ 1 \in 1 .. Len(q) BY <1>2
  <2>2. a < q[1].hi BY <2>1 DEF HeadCovers
  <2>3. q[i].hi <= u.lo BY DEF QueueOK
  <2>4. CASE i = 1 BY <2>2, <2>3, <2>4
  <2>5. CASE i # 1
    <3>1. 1 < i BY <2>5, <1>2
    <3>2. q[1].hi <= q[i].lo /\ q[i].lo < q[i].hi BY <3>1, <2>1 DEF QueueOK
    <3> QED BY <3>2, <2>1, <2>2, <2>3, <1>3
  <2> QED BY <2>4, <2>5
<1>7. \A i \in 1 .. Len(q) : FullyAcked(q[i], SeqAt(b)) <=> q[i].hi <= b
  <2> SUFFICES ASSUME NEW i \in 1 .. Len(q)
               PROVE  FullyAcked(q[i], SeqAt(b)) <=> q[i].hi <= b
      OBVIOUS
  <2> DEFINE x == q[i].hi
             y == q[i].lo
             d == x - y
  <2>1. x \in Int /\ y \in Int /\ b \in Int /\ o \in Int /\ d \in Int /\ y + d = x
    BY <1>3, ConstantFacts
  <2>2. a < x /\ x <= u.lo BY <1>6
  <2>4. q[i].seqNum = SeqAdd(o, y) BY DEF Placed, SeqAt
  <2> HIDE DEF x, y, o, d
  <2>3. -Half < x - b /\ x - b < Half
    <3>1. e <= 1 /\ u.lo - a <= MaxWindow BY <1>2, ConstantFacts
    <3> QED BY <3>1, <2>1, <2>2, <1>2, ConstantFacts
  <2>5. SeqAdd(SeqAdd(o, y), d) = SeqAdd(o, x) BY <2>1, SeqAddAdd
  <2>6. seqLE(SeqAdd(o, x), SeqAdd(o, b)) <=> x <= b
    BY <2>1, <2>3, SeqLEOffsets
  <2>7. FullyAcked(q[i], SeqAt(b)) <=> seqLE(SeqAdd(o, x), SeqAdd(o, b))
    BY <2>4, <2>5 DEF FullyAcked, SeqAt, o, x, y, d
  <2> QED BY <2>6, <2>7 DEF x
<1>8. \A i \in 1 .. k : q[i].hi <= b
  <2>1. \A i \in 1 .. k : i \in 1 .. Len(q) BY <1>2
  <2> QED BY <2>1, <1>7 DEF Drains
<1>9. CASE k = Len(q)
  <2>1. p = <<>> BY <1>1, <1>9
  <2>2. b >= u.lo
    <3>1. CASE q = <<>>
      <4>1. a >= u.lo BY <3>1 DEF HeadCovers
      <4> QED BY <4>1, <1>2
    <3>2. CASE q # <<>>
      <4>1. Len(q) \in 1 .. Len(q) BY <3>2, <1>2
      <4>2. q[Len(q)].hi = u.lo BY <3>2 DEF QueueOK
      <4>3. q[Len(q)].hi <= b BY <4>1, <1>8, <1>9
      <4> QED BY <4>2, <4>3, <1>2
    <3> QED BY <3>1, <3>2
  <2> QED BY <2>1, <2>2, <1>5 DEF HeadCovers, p
<1>10. CASE k < Len(q)
  <2>1. k + 1 \in 1 .. Len(q) /\ p # <<>> /\ 1 \in 1 .. Len(p) BY <1>1, <1>2, <1>10
  <2>2. p[1] = q[k + 1] BY <1>1, <2>1
  <2>3. b < q[k + 1].hi
    <3>1. ~FullyAcked(q[k + 1], SeqAt(b)) BY <1>10 DEF Drains
    <3> QED BY <3>1, <2>1, <1>3, <1>7
  <2>4. q[k + 1].lo <= b
    <3>1. CASE k = 0
      <4>1. q # <<>> BY <3>1, <1>10, <1>2
      <4>2. q[1].lo <= a BY <4>1 DEF HeadCovers
      <4> QED BY <4>2, <3>1, <2>1, <1>3
    <3>2. CASE k # 0
      <4>1. k \in 1 .. (Len(q) - 1) /\ k \in 1 .. k BY <3>2, <1>2, <1>10
      <4>2. q[k].hi = q[k + 1].lo BY <4>1 DEF QueueOK
      <4> QED BY <4>1, <4>2, <1>8
    <3> QED BY <3>1, <3>2
  <2> QED BY <2>1, <2>2, <2>3, <2>4, <1>5 DEF HeadCovers, p
<1> QED BY <1>9, <1>10, <1>2

\* The invariant's conditional parts, on an intact stream.
LEMMA CleanFacts ==
  ASSUME SendIInv, Clean
  PROVE  /\ FinCount \in {0, 1} /\ UnaOffset \in Nat
         /\ Placed(sendQueue)
         /\ SendSeqNum = SeqAt(sendUnsent.lo + FinCount)
         /\ closing # "no" => sendUnsent.lo = sendUnsent.hi
         /\ SeqSub(SendSeqNum, SendUnacked) \in Nat
         /\ SeqSub(SendSeqNum, SendUnacked) <= MaxWindow + FinCount
         /\ UnaOffset = (sendUnsent.lo + FinCount) - SeqSub(SendSeqNum, SendUnacked)
         /\ HeadCovers(sendQueue, sendUnsent, UnaOffset)
         /\ closing = "loaded" => loaded = SendSeqNum
<1>1. /\ SendSeqNum \in SeqNums /\ SendUnacked \in SeqNums
      /\ sendUnsent \in [lo : Nat, hi : Nat] /\ sendUnsent.lo <= sendUnsent.hi
      /\ finAt \in Nat
  BY DEF SendIInv, SendTypeOK
<1>2. FinCount \in {0, 1} BY DEF FinCount
<1>3. SeqSub(SendSeqNum, SendUnacked) \in Nat
  <2>1. SendSeqNum \in Int /\ SendUnacked \in Int BY <1>1, SeqModType DEF SeqNums
  <2>2. SeqSub(SendSeqNum, SendUnacked) \in SeqNums BY <2>1, SeqArithType
  <2> QED BY <2>2, SeqModType DEF SeqNums
<1>4. closing # "no" => sendUnsent.lo = sendUnsent.hi
  BY <1>1 DEF Clean, SendIInv, FinBehind
<1>5. UnaOffset = (sendUnsent.lo + FinCount) - SeqSub(SendSeqNum, SendUnacked)
  BY DEF UnaOffset, NxtOffset
<1>6. UnaOffset \in Nat
  <2>1. UnaOffset \in Int BY <1>1, <1>2, <1>3, <1>5
  <2>2. 0 <= UnaOffset BY DEF SendIInv, UnackedRetained
  <2> QED BY <2>1, <2>2
<1>7. Placed(sendQueue) BY DEF SendIInv, SeqPlacement, Placed
<1>8. SendSeqNum = SeqAt(sendUnsent.lo + FinCount)
  BY DEF SendIInv, SeqPlacement, NxtOffset
<1>9. HeadCovers(sendQueue, sendUnsent, UnaOffset)
  BY DEF SendIInv, UnackedRetained, HeadCovers
<1>10. SeqSub(SendSeqNum, SendUnacked) <= MaxWindow + FinCount
  BY DEF SendIInv, UnackedRetained
<1>11. closing = "loaded" => loaded = SendSeqNum BY DEF SendIInv, SeqPlacement
<1> QED BY <1>2, <1>3, <1>4, <1>5, <1>6, <1>7, <1>8, <1>9, <1>10, <1>11

\* The pump keeps timer and timeout in step with the queue.
LEMMA PumpTimer ==
  ASSUME NEW u, NEW q, NEW una \in SeqNums, NEW wnd \in Nat, NEW t, NEW r \in Nat,
         QueueOK(q, u), SendSeqNum \in SeqNums,
         pumpSendLocked(u, q, una, wnd, t, r), pending' = pending,
         t \in {"nil", "armed", "fired"},
         q # <<>> <=> t # "nil", t = "fired" => pending > 0,
         IF q = <<>> THEN r \in {0, initialRTO} ELSE initialRTO <= r /\ r <= maxRTO
  PROVE  /\ TimerMatchesQueue' /\ BackoffBounded'
         /\ rtoTimer' \in {"nil", "armed", "fired"} /\ rto' \in 0 .. maxRTO
<1> DEFINE n == PumpBytes(u, una, wnd)
<1>1. /\ n \in Nat /\ (n = 0 => sendQueue' = q) /\ (n > 0 => sendQueue' # <<>>)
  BY PumpFacts
<1>2. /\ rtoTimer' = IF n > 0 /\ t = "nil" THEN "armed" ELSE t
      /\ rto' = IF n > 0 /\ t = "nil" THEN UsedRTO(r) ELSE r
  BY DEF pumpSendLocked
<1> HIDE DEF n
<1>3. /\ initialRTO \in Nat \ {0} /\ maxRTO \in Nat /\ initialRTO <= maxRTO
  BY SendAssumption
<1>4. CASE n = 0
  <2>1. sendQueue' = q /\ rtoTimer' = t /\ rto' = r BY <1>1, <1>2, <1>4
  <2>2. TimerMatchesQueue' BY <2>1 DEF TimerMatchesQueue
  <2>3. BackoffBounded' BY <2>1 DEF BackoffBounded
  <2> QED BY <2>1, <2>2, <2>3, <1>3
<1>5. CASE n > 0
  <2>1. sendQueue' # <<>> BY <1>1, <1>5
  <2>2. CASE t = "nil"
    <3>1. rtoTimer' = "armed" /\ rto' = UsedRTO(r) /\ r \in {0, initialRTO}
      BY <1>2, <1>5, <2>2
    <3>2. rto' = initialRTO BY <3>1, <1>3 DEF UsedRTO
    <3> QED BY <2>1, <3>1, <3>2, <1>3 DEF TimerMatchesQueue, BackoffBounded
  <2>3. CASE t # "nil"
    <3>1. rtoTimer' = t /\ rto' = r /\ q # <<>> BY <1>2, <2>3
    <3> QED BY <2>1, <2>3, <3>1, <1>3 DEF TimerMatchesQueue, BackoffBounded
  <2> QED BY <2>2, <2>3
<1> QED BY <1>1, <1>4, <1>5

\* A step that ends in the pump, from an intermediate state with buffer u,
\* queue q, acknowledgement una, window wnd, timer t and timeout r, restores
\* the invariant; a is the offset of una and n the number of bytes sent.
LEMMA PumpStep ==
  ASSUME SendIInv,
         NEW u, NEW q, NEW una \in SeqNums, NEW wnd \in 0 .. MaxWindow,
         NEW t \in {"nil", "armed", "fired"}, NEW r \in Nat, NEW a,
         QueueOK(q, u), pumpSendLocked(u, q, una, wnd, t, r),
         q # <<>> <=> t # "nil", t = "fired" => pending > 0,
         IF q = <<>> THEN r \in {0, initialRTO} ELSE initialRTO <= r /\ r <= maxRTO,
         u.lo = sendUnsent.lo, closing # "no" => u.hi = sendUnsent.hi,
         SendUnacked' = una, SendWindow' = wnd, WL1' \in SeqNums, WL2' \in SeqNums,
         UNCHANGED <<pending, closeVars>>,
         Clean =>
           /\ a \in Nat /\ HeadCovers(q, u, a) /\ Placed(q)
           /\ a = (u.lo + FinCount) - SeqSub(SendSeqNum, una)
           /\ SeqSub(SendSeqNum, una) <= MaxWindow + FinCount
  PROVE  /\ SendIInv'
         /\ Clean' => Clean
         /\ sendUnsent'.hi = u.hi
         /\ Clean => /\ UnaOffset' = a
                     /\ NxtOffset' = NxtOffset + PumpBytes(u, una, wnd)
<1> DEFINE n == PumpBytes(u, una, wnd)
           e == FinCount
<1>1. /\ SendSeqNum \in SeqNums /\ wnd \in Nat /\ pending \in Nat
      /\ sendUnsent \in [lo : Nat, hi : Nat] /\ finAt \in Nat
      /\ closing \in {"no", "finSent", "loaded", "yes"}
      /\ loaded \in SeqNums /\ torn \in BOOLEAN
  BY ConstantFacts DEF SendIInv, SendTypeOK
<1>2. /\ n \in Nat /\ n <= u.hi - u.lo
      /\ sendUnsent' = [lo |-> u.lo + n, hi |-> u.hi]
      /\ QueueOK(sendQueue', sendUnsent')
      /\ SendSeqNum' \in SeqNums
      /\ out' \subseteq Segments
      /\ \A s \in out' : /\ s.lo < s.hi /\ s.hi - s.lo <= mss /\ ~s.fin
                         /\ u.lo <= s.lo /\ s.hi <= u.lo + n
      /\ n = 0 => out' = {} /\ sendQueue' = q /\ SendSeqNum' = SendSeqNum
  BY <1>1, PumpFacts, ZenonT(40)
<1>3. /\ TimerMatchesQueue' /\ BackoffBounded'
      /\ rtoTimer' \in {"nil", "armed", "fired"} /\ rto' \in 0 .. maxRTO
  BY <1>1, PumpTimer
<1>4. /\ u \in [lo : Nat, hi : Nat] /\ u.lo <= u.hi
      /\ sendQueue' \in Seq(Segments)
      /\ sendUnsent' \in [lo : Nat, hi : Nat] /\ sendUnsent'.lo <= sendUnsent'.hi
      /\ sendUnsent'.lo = u.lo + n /\ sendUnsent'.hi = u.hi
  BY <1>2 DEF QueueOK
<1>5. /\ closing' = closing /\ loaded' = loaded /\ finAt' = finAt /\ torn' = torn
      /\ pending' = pending /\ FinCount' = e
  BY DEF closeVars, FinCount
<1> HIDE DEF n, e
<1>6. SendTypeOK' BY <1>1, <1>2, <1>3, <1>4, <1>5 DEF SendTypeOK
<1>7. FinBehind'
  <2>1. FinBehind BY DEF SendIInv
  <2> QED BY <2>1, <1>1, <1>2, <1>4, <1>5 DEF FinBehind
<1>8. Clean' => Clean BY <1>4, <1>5 DEF Clean
<1>9. ASSUME Clean
      PROVE  /\ Placed(sendQueue')
             /\ SendSeqNum' = SeqAt(NxtOffset')
             /\ closing = "loaded" => loaded = SendSeqNum'
             /\ SeqSub(SendSeqNum', una) <= MaxWindow + e
             /\ UnaOffset' = a /\ a \in Nat
             /\ HeadCovers(sendQueue', sendUnsent', a)
             /\ \A s \in out' : s.seqNum = SeqAt(s.lo) /\ a < s.hi
             /\ NxtOffset' = NxtOffset + n
  <2>1. /\ e \in {0, 1} /\ SendSeqNum = SeqAt(u.lo + e)
        /\ closing = "loaded" => loaded = SendSeqNum
        /\ closing # "no" => u.lo = u.hi
    BY <1>9, CleanFacts DEF e
  <2>2. e = 1 => u.lo = u.hi BY <2>1 DEF e, FinCount
  <2>3. /\ Placed(sendQueue')
        /\ SendSeqNum' = SeqAt((u.lo + n) + e)
        /\ SeqSub(SendSeqNum', una) = ((u.lo + n) + e) - a
        /\ SeqSub(SendSeqNum', una) <= MaxWindow + e
        /\ HeadCovers(sendQueue', sendUnsent', a)
        /\ \A s \in out' : s.seqNum = SeqAt(s.lo) /\ a < s.hi
    BY <2>1, <2>2, <1>1, <1>9, PumpClean DEF n, e
  <2>4. NxtOffset' = (u.lo + n) + e BY <1>4, <1>5 DEF NxtOffset
  <2>5. NxtOffset' = NxtOffset + n BY <2>4, <2>1, <1>2, <1>4 DEF NxtOffset, e
  <2>6. UnaOffset' = a
    <3>1. UnaOffset' = NxtOffset' - SeqSub(SendSeqNum', una) BY DEF UnaOffset
    <3>2. a \in Nat /\ (u.lo + n) + e \in Int BY <1>9, <2>1, <1>2, <1>4
    <3> QED BY <3>1, <3>2, <2>3, <2>4
  <2>7. closing = "loaded" => loaded = SendSeqNum'
    <3>1. closing = "loaded" => n = 0 BY <2>1, <1>2, <1>4
    <3> QED BY <3>1, <2>1, <1>2
  <2> QED BY <2>3, <2>4, <2>5, <2>6, <2>7, <1>9
<1>10. SeqPlacement' BY <1>5, <1>8, <1>9 DEF SeqPlacement, Placed
<1>11. UnackedRetained'
  <2>1. SUFFICES ASSUME Clean' PROVE
          /\ SeqSub(SendSeqNum', SendUnacked') <= MaxWindow + FinCount'
          /\ 0 <= UnaOffset'
          /\ IF sendQueue' = <<>>
             THEN UnaOffset' >= sendUnsent'.lo
             ELSE sendQueue'[1].lo <= UnaOffset' /\ UnaOffset' < sendQueue'[1].hi
    BY DEF UnackedRetained
  <2> QED BY <2>1, <1>5, <1>8, <1>9 DEF HeadCovers
<1>12. WireSound'
  <2>1. SUFFICES ASSUME Clean', NEW s \in out'
                 PROVE  /\ s.seqNum = SeqAt(s.lo)
                        /\ s.hi - s.lo <= mss /\ s.hi <= sendUnsent'.lo
                        /\ IF s.fin THEN s.lo = sendUnsent'.hi ELSE UnaOffset' < s.hi
    BY DEF WireSound
  <2> QED BY <2>1, <1>2, <1>4, <1>8, <1>9
<1>13. SendIInv'
  BY <1>2, <1>3, <1>6, <1>7, <1>10, <1>11, <1>12 DEF SendIInv
<1> QED BY <1>4, <1>8, <1>9, <1>13 DEF n, e

\* Write: the buffer grows at its end, then the pump runs.
LEMMA WriteStep ==
  ASSUME SendIInv, NEW m \in WriteSizes, Write(m)
  PROVE  /\ SendIInv'
         /\ Clean' => Clean
         /\ sendUnsent'.hi = sendUnsent.hi + m /\ m \in Nat
         /\ Clean => LET u == [sendUnsent EXCEPT !.hi = @ + m] IN
                     /\ UnaOffset' = UnaOffset
                     /\ NxtOffset' = NxtOffset + PumpBytes(u, SendUnacked, SendWindow)
<1> DEFINE u == [sendUnsent EXCEPT !.hi = @ + m]
<1>1. m \in Nat BY SendAssumption
<1>2. /\ sendUnsent \in [lo : Nat, hi : Nat] /\ sendUnsent.lo <= sendUnsent.hi
      /\ SendUnacked \in SeqNums /\ SendWindow \in 0 .. MaxWindow
      /\ rtoTimer \in {"nil", "armed", "fired"} /\ rto \in Nat
      /\ WL1 \in SeqNums /\ WL2 \in SeqNums
  BY SendAssumption DEF SendIInv, SendTypeOK
<1>3. /\ u \in [lo : Nat, hi : Nat] /\ u.lo = sendUnsent.lo
      /\ u.hi = sendUnsent.hi + m /\ u.lo <= u.hi
  BY <1>1, <1>2
<1>4. QueueOK(sendQueue, u)
  <2>1. QueueOK(sendQueue, sendUnsent) BY DEF SendIInv
  <2> HIDE DEF u
  <2> QED BY <2>1, <1>3 DEF QueueOK
<1>5. /\ pumpSendLocked(u, sendQueue, SendUnacked, SendWindow, rtoTimer, rto)
      /\ SendUnacked' = SendUnacked /\ SendWindow' = SendWindow
      /\ WL1' = WL1 /\ WL2' = WL2
      /\ UNCHANGED <<pending, closeVars>>
      /\ closing = "no"
  BY DEF Write
<1> HIDE DEF u
<1>6. /\ sendQueue # <<>> <=> rtoTimer # "nil"
      /\ rtoTimer = "fired" => pending > 0
      /\ IF sendQueue = <<>> THEN rto \in {0, initialRTO}
         ELSE initialRTO <= rto /\ rto <= maxRTO
  BY DEF SendIInv, TimerMatchesQueue, BackoffBounded
<1>7. Clean =>
        /\ UnaOffset \in Nat /\ HeadCovers(sendQueue, u, UnaOffset) /\ Placed(sendQueue)
        /\ UnaOffset = (u.lo + FinCount) - SeqSub(SendSeqNum, SendUnacked)
        /\ SeqSub(SendSeqNum, SendUnacked) <= MaxWindow + FinCount
  BY CleanFacts, <1>3 DEF HeadCovers
<1>8. /\ SendIInv'
      /\ Clean' => Clean
      /\ sendUnsent'.hi = u.hi
      /\ Clean => /\ UnaOffset' = UnaOffset
                  /\ NxtOffset' = NxtOffset + PumpBytes(u, SendUnacked, SendWindow)
  BY <1>2, <1>3, <1>4, <1>5, <1>6, <1>7, PumpStep
<1> QED BY <1>1, <1>3, <1>8 DEF u

\* processAck on a new acknowledgement: SND.UNA moves forward to an offset
\* that was sent, the queue is drained up to it, and the pump runs.
LEMMA NewAckStep ==
  ASSUME SendIInv, NEW seg \in PeerAcks, ProcessNewAck(seg)
  PROVE  /\ SendIInv'
         /\ Clean' => Clean
         /\ sendUnsent'.hi = sendUnsent.hi
         /\ Clean => /\ UnaOffset < UnaOffset' /\ UnaOffset' <= NxtOffset
                     /\ UnaOffset' = NxtOffset - SeqSub(SendSeqNum, seg.ack)
                     /\ NxtOffset' = NxtOffset +
                          PumpBytes(sendUnsent, seg.ack, SendWindow')
<1> DEFINE ack == seg.ack
           u == sendUnsent
           e == FinCount
           f == SeqSub(SendSeqNum, ack)
           b == (u.lo + e) - f
           o == ISS + 1
<1>1. /\ ack \in SeqNums /\ seg.seq \in SeqNums /\ seg.wnd \in 0 .. MaxWindow
  BY SendAssumption DEF PeerAcks
<1>2. /\ u \in [lo : Nat, hi : Nat] /\ u.lo <= u.hi
      /\ SendSeqNum \in SeqNums /\ SendUnacked \in SeqNums
      /\ SendWindow \in 0 .. MaxWindow
      /\ rtoTimer \in {"nil", "armed", "fired"} /\ rto \in Nat
      /\ WL1 \in SeqNums /\ WL2 \in SeqNums
      /\ QueueOK(sendQueue, u)
  BY SendAssumption DEF SendIInv, SendTypeOK
<1>3. /\ SendWindow' \in 0 .. MaxWindow /\ WL1' \in SeqNums /\ WL2' \in SeqNums
  BY <1>1, <1>2 DEF ProcessNewAck
<1>4. PICK k \in 0 .. Len(sendQueue) :
        /\ Drains(k, ack)
        /\ LET queue == SubSeq(sendQueue, k + 1, Len(sendQueue)) IN
           pumpSendLocked(u, queue, ack, SendWindow',
             IF queue = <<>> THEN "nil" ELSE "armed",
             IF queue = <<>> THEN initialRTO ELSE UsedRTO(rto))
  BY DEF ProcessNewAck
<1> DEFINE queue == SubSeq(sendQueue, k + 1, Len(sendQueue))
           t == IF queue = <<>> THEN "nil" ELSE "armed"
           r == IF queue = <<>> THEN initialRTO ELSE UsedRTO(rto)
<1>5. /\ SendUnacked' = ack /\ UNCHANGED <<pending, closeVars>>
      /\ ~seqGT(ack, SendSeqNum) /\ seqGT(ack, SendUnacked)
  BY DEF ProcessNewAck, AckIsNew
<1>6. QueueOK(queue, u) /\ (queue = <<>> <=> k = Len(sendQueue)) BY <1>2, SuffixOK
<1>7. pumpSendLocked(u, queue, ack, SendWindow', t, r) BY <1>4
<1>8. Drains(k, ack) BY <1>4
<1> HIDE DEF queue
<1>9. /\ queue # <<>> <=> t # "nil"
      /\ t \in {"nil", "armed", "fired"} /\ t # "fired"
  OBVIOUS
<1>10. /\ r \in Nat
       /\ IF queue = <<>> THEN r \in {0, initialRTO}
          ELSE initialRTO <= r /\ r <= maxRTO
  <2>1. initialRTO \in Nat \ {0} /\ maxRTO \in Nat /\ initialRTO <= maxRTO
    BY SendAssumption
  <2>2. CASE queue = <<>> BY <2>1, <2>2
  <2>3. CASE queue # <<>>
    <3>1. sendQueue # <<>>
      <4>1. k # Len(sendQueue) BY <1>6, <2>3
      <4> QED BY <4>1
    <3>2. initialRTO <= rto /\ rto <= maxRTO
      BY <3>1 DEF SendIInv, BackoffBounded
    <3>3. r = rto BY <2>1, <2>3, <3>2, <1>2 DEF UsedRTO
    <3> QED BY <2>3, <3>2, <3>3, <1>2
  <2> QED BY <2>2, <2>3
<1> HIDE DEF t, r
<1>11. ASSUME Clean
       PROVE  /\ b \in Nat /\ HeadCovers(queue, u, b) /\ Placed(queue)
              /\ b = (u.lo + FinCount) - SeqSub(SendSeqNum, ack)
              /\ SeqSub(SendSeqNum, ack) <= MaxWindow + FinCount
              /\ UnaOffset < b /\ b <= NxtOffset
  <2>1. /\ e \in {0, 1} /\ UnaOffset \in Nat /\ Placed(sendQueue)
        /\ SendSeqNum = SeqAt(u.lo + e)
        /\ SeqSub(SendSeqNum, SendUnacked) \in Nat
        /\ SeqSub(SendSeqNum, SendUnacked) <= MaxWindow + e
        /\ UnaOffset = (u.lo + e) - SeqSub(SendSeqNum, SendUnacked)
        /\ HeadCovers(sendQueue, u, UnaOffset)
    BY <1>11, CleanFacts
  <2>2. SeqSub(SendSeqNum, SendUnacked) < Half BY <2>1, ConstantFacts
  <2>3. f \in Nat /\ f < SeqSub(SendSeqNum, SendUnacked)
    BY <2>2, <1>1, <1>2, <1>5, AckWindow
  <2>4. u.lo \in Nat /\ e \in Nat BY <1>2, <2>1
  <2> HIDE DEF e, f
  <2>5. b \in Nat /\ UnaOffset < b /\ b <= u.lo + e BY <2>1, <2>3, <2>4
  <2>6. ack = SeqAt(b)
    <3>1. o \in Int /\ u.lo + e \in Int BY <2>4, ConstantFacts
    <3> HIDE DEF o
    <3>2. SeqAdd(o, (u.lo + e) - SeqSub(SeqAdd(o, u.lo + e), ack)) = ack
      BY <3>1, <1>1, SeqBack
    <3>3. SendSeqNum = SeqAdd(o, u.lo + e) BY <2>1 DEF SeqAt, o
    <3> QED BY <3>2, <3>3 DEF SeqAt, o, f
  <2>7. (u.lo + e) - UnaOffset <= MaxWindow + e BY <2>1, <2>4
  <2> HIDE DEF b
  <2>8. HeadCovers(queue, u, b) /\ Placed(queue)
    <3>1. Drains(k, SeqAt(b)) BY <2>6, <1>8
    <3>2. QueueOK(sendQueue, u) /\ k \in 0 .. Len(sendQueue) BY <1>2, <1>4
    <3> HIDE DEF u, ack
    <3> QED BY <3>1, <3>2, <2>1, <2>5, <2>7, DrainCovers DEF queue
  <2>9. f <= MaxWindow + e BY <2>1, <2>3, <2>4, ConstantFacts
  <2> QED BY <2>5, <2>8, <2>9 DEF b, e, f, NxtOffset
<1>12. /\ SendIInv'
       /\ Clean' => Clean
       /\ sendUnsent'.hi = u.hi
       /\ Clean => /\ UnaOffset' = b
                   /\ NxtOffset' = NxtOffset + PumpBytes(u, ack, SendWindow')
  <2>1. t = "fired" => pending > 0 BY <1>9
  <2>2. u.lo = sendUnsent.lo /\ u.hi = sendUnsent.hi OBVIOUS
  <2>3. Clean =>
          /\ b \in Nat /\ HeadCovers(queue, u, b) /\ Placed(queue)
          /\ b = (u.lo + FinCount) - SeqSub(SendSeqNum, ack)
          /\ SeqSub(SendSeqNum, ack) <= MaxWindow + FinCount
    BY <1>11
  <2> HIDE DEF b, ack, u, e, f
  <2> QED BY <2>1, <2>2, <2>3, <1>1, <1>3, <1>5, <1>6, <1>7, <1>9, <1>10, PumpStep
<1> QED BY <1>11, <1>12 DEF NxtOffset

\* The invariant holds when the handshake is over.
LEMMA InitInvariant == SendInit => SendIInv
<1> SUFFICES ASSUME SendInit PROVE SendIInv OBVIOUS
<1> USE DEF SendInit
<1>1. SeqAt(0) \in SeqNums BY ConstantFacts, SeqArithType DEF SeqAt
<1>2. 0 \in SeqNums BY SeqModType DEF SeqNums
<1>3. /\ initialRTO \in Nat /\ maxRTO \in Nat /\ IRS \in SeqNums
      /\ SendWindow \in 0 .. MaxWindow
  BY SendAssumption
<1>4. SendTypeOK
  <2>1. sendUnsent \in [lo : Nat, hi : Nat] /\ sendUnsent.lo <= sendUnsent.hi
    OBVIOUS
  <2>2. sendQueue \in Seq(Segments) /\ rto \in 0 .. maxRTO /\ out \subseteq Segments
    BY <1>3
  <2>3. SendSeqNum \in SeqNums /\ SendUnacked \in SeqNums /\ WL1 \in SeqNums
        /\ WL2 \in SeqNums /\ loaded \in SeqNums
    BY <1>1, <1>2, <1>3
  <2>4. finAt \in Nat /\ pending \in Nat /\ torn \in BOOLEAN OBVIOUS
  <2> QED BY <2>1, <2>2, <2>3, <2>4, <1>3 DEF SendTypeOK
<1>5. QueueOK(sendQueue, sendUnsent) BY DEF QueueOK
<1>6. FinCount = 0 /\ NxtOffset = 0 BY DEF FinCount, NxtOffset
<1>7. SeqSub(SendSeqNum, SendUnacked) = 0
  BY <1>1, SeqSubCases, SeqModType DEF SeqNums
<1>8. UnaOffset = 0 BY <1>6, <1>7 DEF UnaOffset
<1>9. SeqPlacement BY <1>6 DEF SeqPlacement
<1>10. UnackedRetained BY <1>6, <1>7, <1>8, ConstantFacts DEF UnackedRetained
<1>11. FinBehind /\ TimerMatchesQueue /\ BackoffBounded /\ WireSound
  BY DEF FinBehind, TimerMatchesQueue, BackoffBounded, WireSound
<1> QED BY <1>4, <1>5, <1>9, <1>10, <1>11 DEF SendIInv

\* A step that leaves sequence numbers, buffers, Close and teardown alone
\* leaves the offsets alone too.
LEMMA SameOffsets ==
  ASSUME UNCHANGED <<seqVars, dataVars, closeVars>>
  PROVE  /\ (Clean' <=> Clean) /\ FinCount' = FinCount
         /\ NxtOffset' = NxtOffset /\ UnaOffset' = UnaOffset
         /\ SendSeqNum' = SendSeqNum /\ SendUnacked' = SendUnacked
         /\ SendWindow' = SendWindow /\ WL1' = WL1 /\ WL2' = WL2
         /\ sendUnsent' = sendUnsent /\ sendQueue' = sendQueue
         /\ closing' = closing /\ loaded' = loaded /\ finAt' = finAt /\ torn' = torn
BY DEF seqVars, dataVars, closeVars, Clean, FinCount, NxtOffset, UnaOffset

\* Such a step keeps everything but timer and wire properties by itself.
LEMMA TimerStep ==
  ASSUME SendIInv, UNCHANGED <<seqVars, dataVars, closeVars>>,
         rto' \in 0 .. maxRTO, rtoTimer' \in {"nil", "armed", "fired"},
         pending' \in Nat, out' \subseteq Segments,
         TimerMatchesQueue', BackoffBounded', WireSound'
  PROVE  SendIInv'
<1>1. SendTypeOK' BY SameOffsets DEF SendIInv, SendTypeOK
<1>2. QueueOK(sendQueue', sendUnsent') BY SameOffsets DEF SendIInv
<1>3. SeqPlacement' BY SameOffsets DEF SendIInv, SeqPlacement
<1>4. UnackedRetained' BY SameOffsets DEF SendIInv, UnackedRetained
<1>5. FinBehind' BY SameOffsets DEF SendIInv, FinBehind
<1> QED BY <1>1, <1>2, <1>3, <1>4, <1>5 DEF SendIInv

\* An acknowledgement that is not new (processAck) keeps the invariant.
LEMMA OtherAckStep ==
  ASSUME SendIInv, NEW seg \in PeerAcks, ProcessOtherAck(seg)
  PROVE  SendIInv'
<1>1. UNCHANGED <<seqVars, dataVars, closeVars>> /\ out' = {}
      /\ rto' = rto /\ rtoTimer' = rtoTimer /\ pending' = pending
  BY DEF ProcessOtherAck, timerVars
<1>2. sendQueue' = sendQueue BY <1>1, SameOffsets
<1>3. TimerMatchesQueue' /\ BackoffBounded'
  BY <1>1, <1>2 DEF SendIInv, TimerMatchesQueue, BackoffBounded
<1>4. WireSound' BY <1>1 DEF WireSound
<1>5. rto \in 0 .. maxRTO /\ rtoTimer \in {"nil", "armed", "fired"} /\ pending \in Nat
  BY DEF SendIInv, SendTypeOK
<1> QED BY <1>1, <1>3, <1>4, <1>5, TimerStep

\* The expiry of the retransmission timer keeps the invariant.
LEMMA TimerExpiresStep ==
  ASSUME SendIInv, TimerExpires
  PROVE  SendIInv'
<1>1. /\ UNCHANGED <<seqVars, dataVars, closeVars>> /\ out' = {}
      /\ rto' = rto /\ rtoTimer' = "fired" /\ pending' = pending + 1
      /\ rtoTimer = "armed"
  BY DEF TimerExpires
<1>2. sendQueue' = sendQueue BY <1>1, SameOffsets
<1>3. rto \in 0 .. maxRTO /\ pending \in Nat BY DEF SendIInv, SendTypeOK
<1>4. sendQueue # <<>> BY <1>1 DEF SendIInv, TimerMatchesQueue
<1>5. TimerMatchesQueue' BY <1>1, <1>2, <1>3, <1>4 DEF TimerMatchesQueue
<1>6. BackoffBounded' BY <1>1, <1>2 DEF SendIInv, BackoffBounded
<1>7. WireSound' BY <1>1 DEF WireSound
<1> QED BY <1>1, <1>3, <1>5, <1>6, <1>7, TimerStep

\* onRTO with an empty queue keeps the invariant.
LEMMA OnRTOIdleStep ==
  ASSUME SendIInv, OnRTOIdle
  PROVE  SendIInv'
<1>1. /\ UNCHANGED <<seqVars, dataVars, closeVars>> /\ out' = {}
      /\ rto' = rto /\ rtoTimer' = rtoTimer /\ pending' = pending - 1
      /\ pending > 0 /\ sendQueue = <<>>
  BY DEF OnRTOIdle
<1>2. sendQueue' = sendQueue BY <1>1, SameOffsets
<1>3. rto \in 0 .. maxRTO /\ pending \in Nat /\ rtoTimer \in {"nil", "armed", "fired"}
  BY DEF SendIInv, SendTypeOK
<1>4. rtoTimer = "nil" BY <1>1 DEF SendIInv, TimerMatchesQueue
<1>5. TimerMatchesQueue' BY <1>1, <1>2, <1>4 DEF TimerMatchesQueue
<1>6. BackoffBounded' BY <1>1, <1>2 DEF SendIInv, BackoffBounded
<1>7. WireSound' BY <1>1 DEF WireSound
<1>8. pending' \in Nat BY <1>1, <1>3
<1> QED BY <1>1, <1>3, <1>5, <1>6, <1>7, <1>8, TimerStep

\* onRTO with a segment to retransmit keeps the invariant.
LEMMA OnRTORetransmitStep ==
  ASSUME SendIInv, OnRTORetransmit
  PROVE  SendIInv'
<1> DEFINE head == Head(sendQueue)
<1>1. /\ UNCHANGED <<seqVars, dataVars, closeVars>> /\ out' = {head}
      /\ rto' = Lesser(rto * 2, maxRTO) /\ rtoTimer' = "armed"
      /\ pending' = pending - 1 /\ pending > 0 /\ sendQueue # <<>>
  BY DEF OnRTORetransmit
<1>2. sendQueue' = sendQueue BY <1>1, SameOffsets
<1>3. rto \in 0 .. maxRTO /\ pending \in Nat /\ sendQueue \in Seq(Segments)
  BY DEF SendIInv, SendTypeOK
<1>4. initialRTO \in Nat /\ maxRTO \in Nat /\ initialRTO <= maxRTO BY SendAssumption
<1>5. initialRTO <= rto /\ rto <= maxRTO BY <1>1 DEF SendIInv, BackoffBounded
<1>6. rto' \in 0 .. maxRTO /\ initialRTO <= rto'
  BY <1>1, <1>3, <1>4, <1>5 DEF Lesser
<1>7. TimerMatchesQueue' BY <1>1, <1>2 DEF TimerMatchesQueue
<1>8. BackoffBounded' BY <1>1, <1>2, <1>4, <1>6 DEF BackoffBounded
<1>9. head = sendQueue[1] /\ head \in Segments /\ 1 \in 1 .. Len(sendQueue)
  BY <1>1, <1>3
<1> HIDE DEF head
<1>10. WireSound'
  <2>1. SUFFICES ASSUME Clean'
                 PROVE  /\ head.seqNum = SeqAt(head.lo)
                        /\ head.hi - head.lo <= mss /\ head.hi <= sendUnsent'.lo
                        /\ IF head.fin THEN head.lo = sendUnsent'.hi
                           ELSE UnaOffset' < head.hi
    BY <1>1 DEF WireSound
  <2>2. Clean /\ UnaOffset' = UnaOffset /\ sendUnsent' = sendUnsent
    BY <2>1, <1>1, SameOffsets
  <2>3. head.seqNum = SeqAt(head.lo) BY <2>2, <1>9 DEF SendIInv, SeqPlacement
  <2>4. UnaOffset < head.hi BY <2>2, <1>1, <1>9 DEF SendIInv, UnackedRetained
  <2>5. head.hi - head.lo <= mss /\ head.hi <= sendUnsent.lo /\ ~head.fin
    BY <1>9 DEF SendIInv, QueueOK
  <2> QED BY <2>2, <2>3, <2>4, <2>5
<1>11. pending' \in Nat /\ out' \subseteq Segments BY <1>1, <1>3, <1>9
<1> QED BY <1>1, <1>6, <1>7, <1>8, <1>10, <1>11, TimerStep

\* A step of Close: buffers and timer stay, the stream stays intact.
LEMMA CloseSendFINStep ==
  ASSUME SendIInv, CloseSendFIN
  PROVE  SendIInv' /\ (Clean' => Clean) /\ UnaOffset' = UnaOffset
         /\ NxtOffset' = NxtOffset /\ sendUnsent' = sendUnsent
         /\ SendWindow' = SendWindow /\ closing' # "yes"
<1>1. /\ SendSeqNum' = SendSeqNum /\ SendUnacked' = SendUnacked
      /\ SendWindow' = SendWindow /\ WL1' = WL1 /\ WL2' = WL2
      /\ sendUnsent' = sendUnsent /\ sendQueue' = sendQueue
      /\ rto' = rto /\ rtoTimer' = rtoTimer /\ pending' = pending
      /\ loaded' = loaded /\ torn' = torn
      /\ closing = "no" /\ closing' = "finSent" /\ finAt' = sendUnsent.lo
      /\ out' = {[seqNum |-> SendSeqNum, lo |-> sendUnsent.lo,
                  hi |-> sendUnsent.lo, fin |-> TRUE]}
  BY DEF CloseSendFIN, seqVars, dataVars, timerVars
<1>2. FinCount = 0 /\ FinCount' = 0 BY <1>1 DEF FinCount
<1>3. NxtOffset' = NxtOffset /\ UnaOffset' = UnaOffset
  BY <1>1, <1>2 DEF NxtOffset, UnaOffset
<1>4. Clean' => Clean /\ sendUnsent.lo = sendUnsent.hi BY <1>1 DEF Clean
<1>5. SendSeqNum \in SeqNums /\ sendUnsent \in [lo : Nat, hi : Nat]
  BY DEF SendIInv, SendTypeOK
<1>6. out' \subseteq Segments
  <2>1. sendUnsent.lo \in Nat BY <1>5
  <2> QED BY <2>1, <1>1, <1>5 DEF Segments
<1>7. SendTypeOK' BY <1>1, <1>5, <1>6 DEF SendIInv, SendTypeOK
<1>8. QueueOK(sendQueue', sendUnsent') BY <1>1 DEF SendIInv
<1>9. SeqPlacement' BY <1>1, <1>3, <1>4 DEF SendIInv, SeqPlacement
<1>10. UnackedRetained' BY <1>1, <1>2, <1>3, <1>4 DEF SendIInv, UnackedRetained
<1>11. FinBehind' BY <1>1, <1>5 DEF FinBehind
<1>12. TimerMatchesQueue' BY <1>1 DEF SendIInv, TimerMatchesQueue
<1>13. BackoffBounded' BY <1>1 DEF SendIInv, BackoffBounded
<1>14. WireSound'
  <2>1. SUFFICES ASSUME Clean'
                 PROVE  /\ SendSeqNum = SeqAt(sendUnsent.lo)
                        /\ sendUnsent.lo - sendUnsent.lo <= mss
                        /\ sendUnsent.lo = sendUnsent.hi
    BY <1>1, <1>5 DEF WireSound
  <2>2. SendSeqNum = SeqAt(sendUnsent.lo)
    <3>1. NxtOffset = sendUnsent.lo BY <1>2, <1>5 DEF NxtOffset
    <3> QED BY <2>1, <3>1, <1>4 DEF SendIInv, SeqPlacement
  <2> QED BY <2>1, <2>2, <1>4, <1>5, MssType
<1>15. SendIInv'
  BY <1>7, <1>8, <1>9, <1>10, <1>11, <1>12, <1>13, <1>14 DEF SendIInv
<1> QED BY <1>1, <1>3, <1>4, <1>15

\* The load of Close's c.SendSeqNum++ keeps the invariant.
LEMMA CloseLoadStep ==
  ASSUME SendIInv, CloseLoad
  PROVE  SendIInv' /\ (Clean' => Clean) /\ UnaOffset' = UnaOffset
         /\ NxtOffset' = NxtOffset /\ sendUnsent' = sendUnsent
         /\ SendWindow' = SendWindow /\ closing # "yes" /\ closing' # "yes"
<1>1. /\ SendSeqNum' = SendSeqNum /\ SendUnacked' = SendUnacked
      /\ SendWindow' = SendWindow /\ WL1' = WL1 /\ WL2' = WL2
      /\ sendUnsent' = sendUnsent /\ sendQueue' = sendQueue
      /\ rto' = rto /\ rtoTimer' = rtoTimer /\ pending' = pending
      /\ loaded' = SendSeqNum /\ torn' = torn /\ finAt' = finAt
      /\ closing = "finSent" /\ closing' = "loaded" /\ out' = {}
  BY DEF CloseLoad, seqVars, dataVars, timerVars
<1>2. FinCount = 0 /\ FinCount' = 0 BY <1>1 DEF FinCount
<1>3. NxtOffset' = NxtOffset /\ UnaOffset' = UnaOffset
  BY <1>1, <1>2 DEF NxtOffset, UnaOffset
<1>4. Clean' => Clean BY <1>1 DEF Clean
<1>5. SendTypeOK' BY <1>1 DEF SendIInv, SendTypeOK
<1>6. QueueOK(sendQueue', sendUnsent') BY <1>1 DEF SendIInv
<1>7. SeqPlacement' BY <1>1, <1>3, <1>4 DEF SendIInv, SeqPlacement
<1>8. UnackedRetained' BY <1>1, <1>2, <1>3, <1>4 DEF SendIInv, UnackedRetained
<1>9. FinBehind' BY <1>1 DEF SendIInv, FinBehind
<1>10. TimerMatchesQueue' BY <1>1 DEF SendIInv, TimerMatchesQueue
<1>11. BackoffBounded' BY <1>1 DEF SendIInv, BackoffBounded
<1>12. WireSound' BY <1>1 DEF WireSound
<1>13. SendIInv'
  BY <1>5, <1>6, <1>7, <1>8, <1>9, <1>10, <1>11, <1>12 DEF SendIInv
<1> QED BY <1>1, <1>3, <1>4, <1>13

\* The store that ends SendSeqNum++ writes back the number read before; on
\* an intact stream nothing was sent in between, so SND.NXT advances by one.
LEMMA CloseStoreStep ==
  ASSUME SendIInv, CloseStore
  PROVE  /\ SendIInv' /\ (Clean' => Clean)
         /\ sendUnsent' = sendUnsent /\ SendWindow' = SendWindow
         /\ closing # "yes" /\ closing' = "yes"
         /\ Clean => /\ UnaOffset' = UnaOffset /\ NxtOffset' = NxtOffset + 1
                     /\ NxtOffset = sendUnsent.hi
<1>1. /\ SendSeqNum' = SeqAdd(loaded, 1) /\ SendUnacked' = SendUnacked
      /\ SendWindow' = SendWindow /\ WL1' = WL1 /\ WL2' = WL2
      /\ sendUnsent' = sendUnsent /\ sendQueue' = sendQueue
      /\ rto' = rto /\ rtoTimer' = rtoTimer /\ pending' = pending
      /\ loaded' = loaded /\ torn' = torn /\ finAt' = finAt
      /\ closing = "loaded" /\ closing' = "yes" /\ out' = {}
  BY DEF CloseStore, dataVars, timerVars
<1>2. FinCount = 0 /\ FinCount' = 1 BY <1>1 DEF FinCount
<1>3. /\ SendSeqNum \in SeqNums /\ SendUnacked \in SeqNums /\ loaded \in SeqNums
      /\ sendUnsent \in [lo : Nat, hi : Nat] /\ sendUnsent.lo \in Nat
  BY DEF SendIInv, SendTypeOK
<1>4. Clean' => Clean BY <1>1 DEF Clean
<1>5. SendSeqNum' \in SeqNums
  <2>1. loaded \in Int BY <1>3, SeqModType DEF SeqNums
  <2> QED BY <2>1, <1>1, SeqArithType
<1>6. SendTypeOK' BY <1>1, <1>5 DEF SendIInv, SendTypeOK
<1>7. NxtOffset = sendUnsent.lo /\ NxtOffset' = sendUnsent.lo + 1
  BY <1>1, <1>2, <1>3 DEF NxtOffset
<1>8. ASSUME Clean
      PROVE  /\ SendSeqNum' = SeqAt(NxtOffset')
             /\ UnaOffset' = UnaOffset
             /\ SeqSub(SendSeqNum', SendUnacked) <= MaxWindow + 1
             /\ NxtOffset = sendUnsent.hi
  <2> DEFINE o == ISS + 1
             x == sendUnsent.lo
             f == SeqSub(SendSeqNum, SendUnacked)
             a == UnaOffset
  <2>1. /\ a \in Nat /\ f \in Nat /\ f <= MaxWindow /\ a = x - f /\ loaded = SendSeqNum
        /\ SendSeqNum = SeqAt(x) /\ x = sendUnsent.hi
    BY <1>1, <1>2, <1>3, <1>8, CleanFacts, ConstantFacts
  <2>2. o \in Int /\ x \in Int /\ x + 1 \in Int BY <1>3, ConstantFacts
  <2>3. UnaOffset' = NxtOffset' - SeqSub(SendSeqNum', SendUnacked)
    BY <1>1 DEF UnaOffset
  <2> HIDE DEF o, x, f, a
  <2>4. SendSeqNum = SeqAdd(o, x) BY <2>1 DEF SeqAt, o
  <2>5. SeqAdd(SeqAdd(o, x), 1) = SeqAdd(o, x + 1) BY <2>2, SeqAddAdd
  <2>6. SendSeqNum' = SeqAdd(o, x + 1) BY <2>1, <2>4, <2>5, <1>1
  <2>7. SendUnacked = SeqAdd(o, a)
    <3>1. SeqAdd(o, x - SeqSub(SeqAdd(o, x), SendUnacked)) = SendUnacked
      BY <2>2, <1>3, SeqBack
    <3> QED BY <3>1, <2>1, <2>4 DEF f
  <2>8. 0 <= (x + 1) - a /\ (x + 1) - a < SeqMod /\ (x + 1) - a = f + 1
    BY <2>1, <2>2, ConstantFacts
  <2> DEFINE y == x + 1
  <2>9. y \in Int /\ a \in Int BY <2>1, <2>2
  <2> HIDE DEF y
  <2>10. SeqSub(SeqAdd(o, y), SeqAdd(o, a)) = y - a
    BY <2>2, <2>8, <2>9, SeqSubOffsets DEF y
  <2>11. SeqSub(SendSeqNum', SendUnacked) = (x + 1) - a
    BY <2>6, <2>7, <2>10 DEF y
  <2>12. NxtOffset' = x + 1 BY <1>7 DEF x
  <2>13. UnaOffset' = a BY <2>3, <2>11, <2>12, <2>1, <2>2
  <2>14. SendSeqNum' = SeqAt(NxtOffset') BY <2>6, <2>12 DEF SeqAt, o
  <2>15. SeqSub(SendSeqNum', SendUnacked) <= MaxWindow + 1
    BY <2>1, <2>8, <2>11, ConstantFacts
  <2> QED BY <2>1, <2>13, <2>14, <2>15, <1>7 DEF a, x
<1>9. QueueOK(sendQueue', sendUnsent') BY <1>1 DEF SendIInv
<1>10. SeqPlacement' BY <1>1, <1>4, <1>8 DEF SendIInv, SeqPlacement
<1>11. UnackedRetained'
  BY <1>1, <1>2, <1>4, <1>8 DEF SendIInv, UnackedRetained
<1>12. FinBehind' BY <1>1 DEF SendIInv, FinBehind
<1>13. TimerMatchesQueue' BY <1>1 DEF SendIInv, TimerMatchesQueue
<1>14. BackoffBounded' BY <1>1 DEF SendIInv, BackoffBounded
<1>15. WireSound' BY <1>1 DEF WireSound
<1>16. SendIInv'
  BY <1>6, <1>9, <1>10, <1>11, <1>12, <1>13, <1>14, <1>15 DEF SendIInv
<1>17. Clean => NxtOffset' = NxtOffset + 1 BY <1>7
<1> QED BY <1>1, <1>4, <1>8, <1>16, <1>17

\* Abort and removal of the connection keep the invariant.
LEMMA TeardownStep ==
  ASSUME SendIInv, Teardown
  PROVE  SendIInv' /\ ~Clean'
<1>1. /\ SendSeqNum' = SendSeqNum /\ SendUnacked' = SendUnacked
      /\ SendWindow' = SendWindow /\ WL1' = WL1 /\ WL2' = WL2
      /\ sendUnsent' = [sendUnsent EXCEPT !.lo = sendUnsent.hi] /\ sendQueue' = <<>>
      /\ rto' = initialRTO /\ rtoTimer' = "nil" /\ pending' = pending
      /\ loaded' = loaded /\ torn' = TRUE /\ finAt' = finAt
      /\ closing' = closing /\ out' = {}
  BY DEF Teardown, seqVars
<1>2. ~Clean' BY <1>1 DEF Clean
<1>3. sendUnsent \in [lo : Nat, hi : Nat] /\ sendUnsent.lo <= sendUnsent.hi
  BY DEF SendIInv, SendTypeOK
<1>4. /\ sendUnsent' \in [lo : Nat, hi : Nat] /\ sendUnsent'.lo <= sendUnsent'.hi
      /\ sendUnsent'.lo = sendUnsent.hi /\ sendUnsent'.hi = sendUnsent.hi
  BY <1>1, <1>3
<1>5. initialRTO \in 0 .. maxRTO BY SendAssumption
<1>6. SendTypeOK' BY <1>1, <1>4, <1>5 DEF SendIInv, SendTypeOK
<1>7. QueueOK(sendQueue', sendUnsent') BY <1>1, <1>4 DEF QueueOK
<1>8. FinBehind'
  <2>1. finAt \in Nat BY DEF SendIInv, SendTypeOK
  <2> QED BY <2>1, <1>1, <1>3, <1>4 DEF SendIInv, FinBehind
<1>9. TimerMatchesQueue' /\ BackoffBounded'
  BY <1>1 DEF TimerMatchesQueue, BackoffBounded
<1>10. SeqPlacement' /\ UnackedRetained' /\ WireSound'
  BY <1>2 DEF SeqPlacement, UnackedRetained, WireSound
<1> QED BY <1>2, <1>6, <1>7, <1>8, <1>9, <1>10 DEF SendIInv

\* A step that changes nothing of the send half keeps the invariant.
LEMMA StutterStep ==
  ASSUME SendIInv, UNCHANGED sendVars
  PROVE  SendIInv'
<1>1. UNCHANGED <<seqVars, dataVars, closeVars>> /\ rto' = rto
      /\ rtoTimer' = rtoTimer /\ pending' = pending /\ out' = out
  BY DEF sendVars, timerVars
<1>2. sendQueue' = sendQueue BY <1>1, SameOffsets
<1>3. TimerMatchesQueue' /\ BackoffBounded'
  BY <1>1, <1>2 DEF SendIInv, TimerMatchesQueue, BackoffBounded
<1>4. WireSound' BY <1>1, SameOffsets DEF SendIInv, WireSound
<1>5. /\ rto \in 0 .. maxRTO /\ rtoTimer \in {"nil", "armed", "fired"}
      /\ pending \in Nat /\ out \subseteq Segments
  BY DEF SendIInv, SendTypeOK
<1> QED BY <1>1, <1>3, <1>4, <1>5, TimerStep

\* The invariant is inductive.
LEMMA StepInvariant == SendIInv /\ [SendNext]_sendVars => SendIInv'
<1> SUFFICES ASSUME SendIInv, [SendNext]_sendVars PROVE SendIInv' OBVIOUS
<1>1. ASSUME NEW n \in WriteSizes, Write(n) PROVE SendIInv' BY <1>1, WriteStep
<1>2. ASSUME NEW seg \in PeerAcks, ProcessNewAck(seg) PROVE SendIInv'
  BY <1>2, NewAckStep
<1>3. ASSUME NEW seg \in PeerAcks, ProcessOtherAck(seg) PROVE SendIInv'
  BY <1>3, OtherAckStep
<1>4. CASE TimerExpires BY <1>4, TimerExpiresStep
<1>5. CASE OnRTOIdle BY <1>5, OnRTOIdleStep
<1>6. CASE OnRTORetransmit BY <1>6, OnRTORetransmitStep
<1>7. CASE CloseSendFIN BY <1>7, CloseSendFINStep
<1>8. CASE CloseLoad BY <1>8, CloseLoadStep
<1>9. CASE CloseStore BY <1>9, CloseStoreStep
<1>10. CASE Teardown BY <1>10, TeardownStep
<1>11. CASE UNCHANGED sendVars BY <1>11, StutterStep
<1> QED BY <1>1, <1>2, <1>3, <1>4, <1>5, <1>6, <1>7, <1>8, <1>9, <1>10, <1>11
        DEF SendNext

\* The invariant holds in every reachable state.
LEMMA SendInvariant == SendSpec => []SendIInv
BY InitInvariant, StepInvariant, PTL DEF SendSpec

------------------------------------------------------------------------------
(***************************************************************************)
(* The invariants of the send half.                                        *)
(***************************************************************************)

\* Every variable of the send half keeps its type.
THEOREM SendTypeCorrect == SendSpec => []SendTypeOK
BY SendInvariant, PTL DEF SendIInv

\* pumpSendLocked and the drain loop of processAck keep the retransmission
\* queue a gap-free cut of the written stream into segments of 1..mss bytes,
\* even when the unlocked Close corrupts the sequence numbers.
THEOREM QueueAlwaysTilesStream == SendSpec => []QueueTilesStream
<1>1. SendIInv => QueueTilesStream BY DEF SendIInv, QueueOK, QueueTilesStream
<1> QED BY <1>1, SendInvariant, PTL

\* On an intact stream every queued byte and SND.NXT have the sequence number
\* of their offset, across any number of wraps.
THEOREM SeqAlwaysPlaced == SendSpec => []SeqPlacement
BY SendInvariant, PTL DEF SendIInv

\* processAck never drops a byte that is not acknowledged and never accepts
\* an acknowledgement outside SND.UNA..SND.NXT, whatever the peer sends.
THEOREM UnackedAlwaysRetained == SendSpec => []UnackedRetained
BY SendInvariant, PTL DEF SendIInv

\* The timer is armed exactly while something is unacknowledged, so onRTO
\* never dereferences a nil timer and no segment is left without a timer.
THEOREM TimerAlwaysMatchesQueue == SendSpec => []TimerMatchesQueue
BY SendInvariant, PTL DEF SendIInv

\* The backoff of onRTO stays within its bounds and is forgotten once all is
\* acknowledged, also with late onRTO calls of stopped timers.
THEOREM BackoffAlwaysBounded == SendSpec => []BackoffBounded
BY SendInvariant, PTL DEF SendIInv

\* On an intact stream every segment put on the wire, first transmission,
\* retransmission or FIN, carries what its sequence number stands for.
THEOREM WireAlwaysSound == SendSpec => []WireSound
BY SendInvariant, PTL DEF SendIInv

------------------------------------------------------------------------------
(***************************************************************************)
(* The send half implements the sliding window.                            *)
(***************************************************************************)

\* The number of bytes the pump sends is the number the abstract window has
\* room for.
LEMMA PumpFillsWindow ==
  ASSUME NEW u \in [lo : Nat, hi : Nat], u.lo <= u.hi, NEW una \in SeqNums,
         NEW wnd \in Nat, SendSeqNum \in SeqNums, NEW e \in {0, 1}, NEW a \in Int,
         e = 1 => u.lo = u.hi, a = (u.lo + e) - SeqSub(SendSeqNum, una)
  PROVE  LET nxt == u.lo + e
             limit == IF a + wnd <= u.hi THEN a + wnd ELSE u.hi
         IN nxt + PumpBytes(u, una, wnd) = IF nxt <= limit THEN limit ELSE nxt
<1> DEFINE n == PumpBytes(u, una, wnd)
           f == SeqSub(SendSeqNum, una)
           nxt == u.lo + e
           limit == IF a + wnd <= u.hi THEN a + wnd ELSE u.hi
<1>1. f \in Nat BY PumpBytesFacts
<1>2. n = IF f >= wnd THEN 0
          ELSE IF u.hi - u.lo <= wnd - f THEN u.hi - u.lo ELSE wnd - f
  BY DEF PumpBytes, Lesser
<1>3. u.lo \in Nat /\ u.hi \in Nat /\ e \in Nat OBVIOUS
<1> HIDE DEF n, f
<1>4. a = (u.lo + e) - f BY DEF f
<1>5. CASE e = 1
  <2>1. u.lo = u.hi /\ n = 0 BY <1>1, <1>2, <1>3, <1>5
  <2> QED BY <2>1, <1>3, <1>5 DEF n
<1>6. CASE e = 0
  <2>1. nxt + n = IF nxt <= limit THEN limit ELSE nxt
    BY <1>1, <1>2, <1>3, <1>4, <1>6
  <2> QED BY <2>1 DEF n
<1> QED BY <1>5, <1>6

\* An initial state of the send half is one of the sliding window.
LEMMA WindowInit == SendInit => Window!Init
<1> SUFFICES ASSUME SendInit PROVE Window!Init OBVIOUS
<1>1. SendSeqNum = SendUnacked /\ SendSeqNum \in SeqNums
  BY ConstantFacts, SeqArithType DEF SendInit, SeqAt
<1>2. SeqSub(SendSeqNum, SendUnacked) = 0 BY <1>1, SeqSubCases, SeqModType DEF SeqNums
<1>3. FinCount = 0 /\ NxtOffset = 0 /\ sendUnsent.hi = 0
  BY DEF SendInit, FinCount, NxtOffset
<1>4. UnaOffset = 0 BY <1>2, <1>3 DEF UnaOffset
<1>5. SendWindow \in 0 .. MaxWindow BY SendAssumption DEF SendInit
<1>6. (closing = "yes") = FALSE /\ (~Clean) = FALSE BY DEF SendInit, Clean
<1> QED BY <1>3, <1>4, <1>5, <1>6 DEF Window!Init

\* Once given up, the stream is never taken up again; a step that gives it
\* up is allowed by the abstract specification.
LEMMA WindowGiveUp ==
  ASSUME ~Clean'
  PROVE  Window!Next
BY DEF Window!Next, Window!GiveUp

\* Write is a write of the sliding window.
LEMMA WindowWrite ==
  ASSUME SendIInv, NEW m \in WriteSizes, Write(m), Clean'
  PROVE  Window!Next
<1> DEFINE u == [sendUnsent EXCEPT !.hi = @ + m]
<1>1. /\ Clean /\ SendIInv' /\ sendUnsent'.hi = sendUnsent.hi + m /\ m \in Nat
      /\ UnaOffset' = UnaOffset
      /\ NxtOffset' = NxtOffset + PumpBytes(u, SendUnacked, SendWindow)
  BY WriteStep
<1>2. /\ SendWindow' = SendWindow /\ closing' = closing /\ closing = "no"
  BY DEF Write, closeVars
<1>3. /\ sendUnsent \in [lo : Nat, hi : Nat] /\ sendUnsent.lo <= sendUnsent.hi
      /\ SendSeqNum \in SeqNums /\ SendUnacked \in SeqNums /\ SendWindow \in Nat
  BY ConstantFacts DEF SendIInv, SendTypeOK
<1>4. /\ u \in [lo : Nat, hi : Nat] /\ u.lo = sendUnsent.lo
      /\ u.hi = sendUnsent.hi + m /\ u.lo <= u.hi
  BY <1>1, <1>3
<1> HIDE DEF u
<1>5. /\ FinCount = 0 /\ UnaOffset \in Int /\ NxtOffset = u.lo + 0
      /\ UnaOffset = (u.lo + 0) - SeqSub(SendSeqNum, SendUnacked)
  BY <1>1, <1>2, <1>4, CleanFacts DEF FinCount, NxtOffset
<1>6. LET limit == IF UnaOffset + SendWindow <= u.hi THEN UnaOffset + SendWindow
                   ELSE u.hi
      IN NxtOffset + PumpBytes(u, SendUnacked, SendWindow)
           = IF NxtOffset <= limit THEN limit ELSE NxtOffset
  BY <1>3, <1>4, <1>5, PumpFillsWindow
<1>7. Window!SendWhatFits
  BY <1>1, <1>2, <1>4, <1>6 DEF Window!SendWhatFits
<1>8. sendUnsent'.hi >= sendUnsent.hi BY <1>1, <1>3
<1>9. Window!Write BY <1>1, <1>2, <1>7, <1>8 DEF Window!Write
<1> QED BY <1>1, <1>9 DEF Window!Next

\* A new acknowledgement is an acknowledgement of the sliding window.
LEMMA WindowAck ==
  ASSUME SendIInv, NEW seg \in PeerAcks, ProcessNewAck(seg), Clean'
  PROVE  Window!Next
<1> DEFINE u == sendUnsent
           w == SendWindow'
           ack == seg.ack
<1>1. /\ Clean /\ SendIInv' /\ sendUnsent'.hi = u.hi
      /\ UnaOffset < UnaOffset' /\ UnaOffset' <= NxtOffset
      /\ UnaOffset' = NxtOffset - SeqSub(SendSeqNum, ack)
      /\ NxtOffset' = NxtOffset + PumpBytes(u, ack, w)
  BY NewAckStep
<1>2. closing' = closing BY DEF ProcessNewAck, closeVars
<1>3. /\ u \in [lo : Nat, hi : Nat] /\ u.lo <= u.hi
      /\ SendSeqNum \in SeqNums
  BY DEF SendIInv, SendTypeOK
<1>4. w \in 0 .. MaxWindow /\ w \in Nat BY <1>1, ConstantFacts DEF SendIInv, SendTypeOK
<1>5. ack \in SeqNums BY DEF PeerAcks
<1>6. /\ FinCount \in {0, 1} /\ (FinCount = 1 => u.lo = u.hi)
      /\ NxtOffset = u.lo + FinCount
  BY <1>1, CleanFacts DEF FinCount, NxtOffset
<1>7. SeqSub(SendSeqNum, ack) \in Nat
  <2>1. SendSeqNum \in Int /\ ack \in Int BY <1>3, <1>5, SeqModType DEF SeqNums
  <2>2. SeqSub(SendSeqNum, ack) \in SeqNums BY <2>1, SeqArithType
  <2> QED BY <2>2, SeqModType DEF SeqNums
<1>8. UnaOffset' \in Int /\ UnaOffset' = (u.lo + FinCount) - SeqSub(SendSeqNum, ack)
  BY <1>1, <1>3, <1>6, <1>7
<1> HIDE DEF u, w, ack
<1>9. LET limit == IF UnaOffset' + w <= u.hi THEN UnaOffset' + w ELSE u.hi
      IN (u.lo + FinCount) + PumpBytes(u, ack, w)
           = IF (u.lo + FinCount) <= limit THEN limit ELSE (u.lo + FinCount)
  <2> DEFINE b == UnaOffset'
             e == FinCount
  <2>1. b \in Int /\ e \in {0, 1} /\ (e = 1 => u.lo = u.hi)
        /\ b = (u.lo + e) - SeqSub(SendSeqNum, ack)
    BY <1>6, <1>8
  <2> HIDE DEF b, e
  <2>2. LET limit == IF b + w <= u.hi THEN b + w ELSE u.hi
        IN (u.lo + e) + PumpBytes(u, ack, w)
             = IF (u.lo + e) <= limit THEN limit ELSE (u.lo + e)
    BY <2>1, <1>3, <1>4, <1>5, PumpFillsWindow
  <2> QED BY <2>2 DEF b, e
<1>10. Window!SendWhatFits
  BY <1>1, <1>6, <1>9 DEF Window!SendWhatFits, u, w, ack
<1>11. Window!Ack
  BY <1>1, <1>2, <1>4, <1>10 DEF Window!Ack, u, w
<1> QED BY <1>1, <1>11 DEF Window!Next

\* Every step of the send half is a step of the sliding window or none.
LEMMA WindowStep ==
  SendIInv /\ [SendNext]_sendVars => [Window!Next]_Window!windowVars
<1> SUFFICES ASSUME SendIInv, [SendNext]_sendVars, Clean'
             PROVE  Window!Next \/ UNCHANGED Window!windowVars
    BY WindowGiveUp
<1>1. ASSUME UNCHANGED <<seqVars, dataVars, closeVars>>
      PROVE  UNCHANGED Window!windowVars
  BY <1>1, SameOffsets DEF Window!windowVars
<1>2. ASSUME NEW n \in WriteSizes, Write(n) PROVE Window!Next BY <1>2, WindowWrite
<1>3. ASSUME NEW seg \in PeerAcks, ProcessNewAck(seg) PROVE Window!Next
  BY <1>3, WindowAck
<1>4. ASSUME NEW seg \in PeerAcks, ProcessOtherAck(seg)
      PROVE  UNCHANGED Window!windowVars
  BY <1>1, <1>4 DEF ProcessOtherAck
<1>5. CASE TimerExpires BY <1>1, <1>5 DEF TimerExpires
<1>6. CASE OnRTOIdle BY <1>1, <1>6 DEF OnRTOIdle
<1>7. CASE OnRTORetransmit BY <1>1, <1>7 DEF OnRTORetransmit
<1>8. CASE CloseSendFIN
  <2>1. /\ Clean /\ UnaOffset' = UnaOffset /\ NxtOffset' = NxtOffset
        /\ sendUnsent' = sendUnsent /\ SendWindow' = SendWindow
        /\ closing' # "yes"
    BY <1>8, CloseSendFINStep
  <2>2. closing # "yes" BY <1>8 DEF CloseSendFIN
  <2> QED BY <2>1, <2>2 DEF Window!windowVars
<1>9. CASE CloseLoad
  <2>1. /\ Clean /\ UnaOffset' = UnaOffset /\ NxtOffset' = NxtOffset
        /\ sendUnsent' = sendUnsent /\ SendWindow' = SendWindow
        /\ closing # "yes" /\ closing' # "yes"
    BY <1>9, CloseLoadStep
  <2> QED BY <2>1 DEF Window!windowVars
<1>10. CASE CloseStore
  <2>1. /\ Clean /\ UnaOffset' = UnaOffset /\ NxtOffset' = NxtOffset + 1
        /\ sendUnsent' = sendUnsent /\ SendWindow' = SendWindow
        /\ closing # "yes" /\ closing' = "yes" /\ NxtOffset = sendUnsent.hi
    BY <1>10, CloseStoreStep
  <2>2. Window!Fin BY <2>1 DEF Window!Fin
  <2> QED BY <2>1, <2>2 DEF Window!Next
<1>11. CASE Teardown BY <1>11, TeardownStep
<1>12. CASE UNCHANGED sendVars BY <1>1, <1>12 DEF sendVars
<1> QED BY <1>2, <1>3, <1>4, <1>5, <1>6, <1>7, <1>8, <1>9, <1>10, <1>11, <1>12
        DEF SendNext

\* Write, pumpSendLocked, processAck, onRTO and Close, with their wrapping
\* sequence numbers, implement a sliding window over an unbounded stream.
THEOREM SendImplementsSlidingWindow == SendSpec => ImplementsSlidingWindow
BY WindowInit, WindowStep, SendInvariant, PTL
   DEF SendSpec, ImplementsSlidingWindow, Window!Spec

=============================================================================
