-------------------------- MODULE TCPTransferProofs --------------------------
(***************************************************************************)
(* Proof that a TCP receiver behind a network that loses, duplicates and   *)
(* reorders segments and acknowledgements reads exactly the stream that    *)
(* was written, and that only bytes it has taken count as acknowledged.    *)
(***************************************************************************)
EXTENDS TCPTransfer, TCPSendProofs

\* Nobody closes or aborts the connection here.
Open == closing = "no" /\ torn = FALSE

\* Every segment that was ever sent still carries the bytes its sequence
\* number stands for, however old it is.
SegmentsOK ==
  \A s \in toPeer : s \in Segments /\ s.seqNum = SeqAt(s.lo) /\ s.hi <= sendUnsent.lo

\* Every acknowledgement, however old, is for bytes the peer has taken.
AcksOK ==
  \A g \in toUs : g \in PeerAcks /\ \E a \in 0 .. Len(peerBuf) : g.ack = SeqAt(a)

TransferIInv ==
  /\ SendIInv /\ Open /\ sendUnsent.hi <= MaxBytes
  /\ SegmentsOK /\ AcksOK
  /\ peerBuf \in Seq(Nat)
  /\ PeerReadsTheStream

------------------------------------------------------------------------------

\* Where the offsets lie: at most a window is between what the peer has
\* acknowledged and what was sent, and nothing is a whole turn away.
LEMMA OffsetFacts ==
  ASSUME TransferIInv
  PROVE  /\ Clean /\ FinCount = 0 /\ NxtOffset = sendUnsent.lo
         /\ sendUnsent.lo \in Nat /\ sendUnsent.hi \in Nat /\ Len(peerBuf) \in Nat
         /\ UnaOffset \in Nat /\ UnaOffset <= Len(peerBuf)
         /\ Len(peerBuf) <= sendUnsent.lo
         /\ sendUnsent.lo <= UnaOffset + MaxWindow
         /\ sendUnsent.lo <= sendUnsent.hi /\ sendUnsent.hi <= MaxBytes
         /\ MaxBytes \in Nat /\ MaxBytes < SeqMod
<1>1. Clean /\ FinCount = 0 /\ NxtOffset = sendUnsent.lo + 0
  BY DEF TransferIInv, Open, Clean, FinCount, NxtOffset
<1>2. sendUnsent.lo \in Nat /\ sendUnsent.hi \in Nat /\ sendUnsent.lo <= sendUnsent.hi
  BY DEF TransferIInv, SendIInv, SendTypeOK
<1>3. MaxBytes \in Nat /\ MaxBytes < SeqMod /\ MaxWindow \in Nat
  BY SendAssumption, TurnAssumption
<1>4. SeqSub(SendSeqNum, SendUnacked) \in Nat
  <2>1. SendSeqNum \in Int /\ SendUnacked \in Int
    BY SeqModType DEF TransferIInv, SendIInv, SendTypeOK, SeqNums
  <2> QED BY <2>1, SeqArithType, SeqModType DEF SeqNums
<1>5. UnaOffset = sendUnsent.lo - SeqSub(SendSeqNum, SendUnacked)
  BY <1>1, <1>2 DEF UnaOffset
<1>6. SeqSub(SendSeqNum, SendUnacked) <= MaxWindow + 0 /\ 0 <= UnaOffset
  BY <1>1 DEF TransferIInv, SendIInv, UnackedRetained
<1>7. Len(peerBuf) \in Nat BY DEF TransferIInv
<1>8. UnaOffset \in Nat /\ sendUnsent.lo <= UnaOffset + MaxWindow
  BY <1>2, <1>3, <1>4, <1>5, <1>6
<1> QED BY <1>1, <1>2, <1>3, <1>7, <1>8 DEF TransferIInv, PeerReadsTheStream

\* Two bytes of a stream that is shorter than a turn never share a number.
LEMMA SeqAtInjective ==
  ASSUME NEW a \in Nat, NEW b \in Nat, a <= MaxBytes, b <= MaxBytes, SeqAt(a) = SeqAt(b)
  PROVE  a = b
<1>1. ASSUME NEW m \in Nat, NEW n \in Nat, n <= m, m <= MaxBytes, SeqAt(m) = SeqAt(n)
      PROVE  m = n
  <2>1. 0 <= m - n /\ m - n < SeqMod /\ n - n = 0 /\ 0 <= n - n /\ n - n < SeqMod
    BY <1>1, SendAssumption, TurnAssumption, SeqModType
  <2>2. SeqSub(SeqAt(m), SeqAt(n)) = m - n BY <2>1, ConstantFacts, SeqSubOffsets DEF SeqAt
  <2>3. SeqSub(SeqAt(n), SeqAt(n)) = n - n BY <2>1, ConstantFacts, SeqSubOffsets DEF SeqAt
  <2> QED BY <1>1, <2>1, <2>2, <2>3
<1>2. CASE a <= b BY <1>1, <1>2
<1>3. CASE b <= a BY <1>1, <1>3
<1> QED BY <1>2, <1>3

\* The distance back from one number to another is the rest of the turn.
LEMMA SeqSubOther ==
  ASSUME NEW a \in SeqNums, NEW b \in SeqNums, SeqSub(b, a) # 0
  PROVE  SeqSub(a, b) = SeqMod - SeqSub(b, a)
BY SeqSubCases, SeqModType DEF SeqNums

\* The peer's comparison of sequence numbers finds the true position: a
\* segment that has the byte expected next really contains that byte.
LEMMA NextIsTrue ==
  ASSUME TransferIInv, NEW s \in toPeer, IsNext(s)
  PROVE  /\ Skip(s) = Len(peerBuf) - s.lo /\ s.lo \in Nat /\ s.hi \in Nat
         /\ s.lo <= Len(peerBuf) /\ Len(peerBuf) < s.hi /\ s.hi <= sendUnsent.lo
<1> DEFINE L == Len(peerBuf)
<1>1. s.lo \in Nat /\ s.hi \in Nat /\ s.seqNum = SeqAt(s.lo) /\ s.hi <= sendUnsent.lo
  BY DEF TransferIInv, SegmentsOK, Segments
<1>2. /\ L \in Nat /\ L <= sendUnsent.lo /\ sendUnsent.lo \in Nat
      /\ sendUnsent.lo <= L + MaxWindow /\ L < SeqMod
      /\ MaxWindow \in Nat /\ MaxWindow + 1 < Half /\ SeqMod = 2 * Half /\ Half \in Nat
  BY OffsetFacts, ConstantFacts, SeqModType
<1>3. Skip(s) = SeqSub(SeqAt(L), SeqAt(s.lo)) BY <1>1 DEF Skip
<1>4. Skip(s) < s.hi - s.lo BY DEF IsNext
<1> HIDE DEF L
<1>5. CASE s.lo <= L
  <2>1. 0 <= L - s.lo /\ L - s.lo < SeqMod BY <1>1, <1>2, <1>5
  <2>2. Skip(s) = L - s.lo BY <1>1, <1>2, <1>3, <2>1, ConstantFacts, SeqSubOffsets DEF SeqAt
  <2> QED BY <1>1, <1>2, <1>4, <1>5, <2>2 DEF L
<1>6. CASE L < s.lo
  <2>1. 0 <= s.lo - L /\ s.lo - L < SeqMod
    <3>0. SeqAt(L) \in SeqNums /\ SeqAt(s.lo) \in SeqNums
      BY <1>1, <1>2, ConstantFacts, SeqArithType DEF SeqAt
    <3>1. SeqAt(L) \in Int /\ SeqAt(s.lo) \in Int BY <3>0, SeqModType DEF SeqNums
    <3>2. Skip(s) \in Nat BY <1>3, <3>1, SeqArithType, SeqModType DEF SeqNums
    <3> QED BY <1>1, <1>2, <1>4, <1>6, <3>2
  <2>2. SeqSub(SeqAt(s.lo), SeqAt(L)) = s.lo - L
    BY <1>1, <1>2, <2>1, ConstantFacts, SeqSubOffsets DEF SeqAt
  <2>3. SeqAt(L) \in SeqNums /\ SeqAt(s.lo) \in SeqNums
    BY <1>1, <1>2, ConstantFacts, SeqArithType DEF SeqAt
  <2>4. s.lo - L # 0 BY <1>1, <1>2, <1>6
  <2>5. Skip(s) = SeqMod - (s.lo - L) BY <1>3, <2>2, <2>3, <2>4, SeqSubOther
  <2> QED BY <1>1, <1>2, <1>4, <1>6, <2>5
<1> QED BY <1>1, <1>2, <1>5, <1>6

\* The peer receives a segment: what it appends continues the stream.
LEMMA PeerReceivesStep ==
  ASSUME TransferIInv, NEW s \in toPeer, NEW kept \in BOOLEAN, NEW wnd \in Windows,
         PeerReceives(s, kept, wnd)
  PROVE  TransferIInv'
<1> DEFINE L == Len(peerBuf)
<1>1. /\ SendIInv' /\ Open' /\ UnaOffset' = UnaOffset /\ sendUnsent' = sendUnsent
  <2>1. UNCHANGED sendVars BY DEF PeerReceives
  <2> QED BY <2>1, StutterStep, SameOffsets
          DEF TransferIInv, Open, sendVars, closeVars, dataVars
<1>2. toPeer' \subseteq toPeer BY DEF PeerReceives
<1>3. /\ peerBuf' \in Seq(Nat) /\ L <= Len(peerBuf') /\ Len(peerBuf') <= sendUnsent.lo
      /\ \A i \in 1 .. Len(peerBuf') : peerBuf'[i] = i - 1
  <2>1. peerBuf \in Seq(Nat) /\ L \in Nat /\ \A i \in 1 .. L : peerBuf[i] = i - 1
    BY DEF TransferIInv, PeerReadsTheStream
  <2>2. CASE ~IsNext(s)
    <3>1. peerBuf' = peerBuf BY <2>2 DEF PeerReceives
    <3> QED BY <2>1, <3>1, OffsetFacts
  <2>3. CASE IsNext(s)
    <3> DEFINE n == (s.hi - s.lo) - Skip(s)
               t == [i \in 1 .. n |-> s.lo + Skip(s) + i - 1]
    <3>1. peerBuf' = peerBuf \o t BY <2>3 DEF PeerReceives
    <3>2. /\ Skip(s) = L - s.lo /\ s.lo \in Nat /\ s.hi \in Nat
          /\ L < s.hi /\ s.hi <= sendUnsent.lo
      BY <2>3, NextIsTrue
    <3>3. n = s.hi - L /\ n \in Nat BY <2>1, <3>2
    <3>4. \A i \in 1 .. n : s.lo + Skip(s) + i - 1 = L + i - 1 /\ L + i - 1 \in Nat
      BY <2>1, <3>2, <3>3
    <3> HIDE DEF n
    <3>5. /\ t \in Seq(Nat) /\ Len(t) = n /\ \A i \in 1 .. n : t[i] = L + i - 1
      BY <3>3, <3>4, SMTT(40)
    <3> HIDE DEF t
    <3>6. peerBuf' \in Seq(Nat) /\ Len(peerBuf') = L + n
      BY <2>1, <3>1, <3>5, ConcatFacts
    <3>7. ASSUME NEW i \in 1 .. Len(peerBuf') PROVE peerBuf'[i] = i - 1
      <4>1. i \in 1 .. L + n BY <3>6
      <4>2. peerBuf'[i] = IF i <= L THEN peerBuf[i] ELSE t[i - L]
        BY <2>1, <3>1, <3>5, ConcatFacts
      <4>3. CASE i <= L BY <2>1, <4>1, <4>2, <4>3
      <4>4. CASE ~(i <= L)
        <5>1. i - L \in 1 .. n BY <2>1, <3>3, <4>1, <4>4
        <5> QED BY <2>1, <3>5, <4>1, <4>2, <4>4, <5>1
      <4> QED BY <4>3, <4>4
    <3> QED BY <2>1, <3>2, <3>3, <3>6, <3>7
  <2> QED BY <2>2, <2>3
<1>4. SegmentsOK' BY <1>1, <1>2 DEF TransferIInv, SegmentsOK
<1>5. AcksOK'
  <2> DEFINE M == Len(peerBuf')
             g == [seq |-> PeerSeq, ack |-> SeqAt(M), wnd |-> wnd]
  <2>1. toUs' = toUs \cup {g} BY DEF PeerReceives
  <2>2. M \in Nat /\ L \in Nat BY <1>3, OffsetFacts
  <2>3. SeqAt(M) \in SeqNums BY <2>2, ConstantFacts, SeqArithType DEF SeqAt
  <2>4. g \in PeerAcks BY <2>3, PeerSeqAssumption DEF PeerAcks
  <2>5. g.ack = SeqAt(M) /\ M \in 0 .. M BY <2>2
  <2>6. 0 .. L \subseteq 0 .. M BY <1>3, <2>2
  <2> QED BY <2>1, <2>4, <2>5, <2>6 DEF TransferIInv, AcksOK, SeqAt
<1>6. UnaOffset <= Len(peerBuf') BY <1>3, OffsetFacts
<1> QED BY <1>1, <1>3, <1>4, <1>5, <1>6 DEF TransferIInv, PeerReadsTheStream

\* A step of ours: the stream moves forward and what it sends is sound.
LEMMA OurStep ==
  ASSUME TransferIInv, SendIInv', closing' = closing, torn' = torn,
         sendUnsent.lo <= sendUnsent'.lo, sendUnsent'.hi <= MaxBytes,
         UnaOffset' <= Len(peerBuf),
         toPeer' = toPeer \cup out', toUs' \subseteq toUs, peerBuf' = peerBuf
  PROVE  TransferIInv'
<1>1. Open' /\ Clean' BY DEF TransferIInv, Open, Clean
<1>2. /\ out' \subseteq Segments /\ sendUnsent'.lo \in Nat
      /\ \A s \in out' : s.seqNum = SeqAt(s.lo) /\ s.hi <= sendUnsent'.lo
  BY <1>1 DEF SendIInv, SendTypeOK, WireSound, SeqAt
<1>3. SegmentsOK'
  <2>1. \A s \in toPeer : s.hi \in Nat /\ s.hi <= sendUnsent'.lo
    BY <1>2, OffsetFacts DEF TransferIInv, SegmentsOK, Segments
  <2> QED BY <1>2, <2>1 DEF TransferIInv, SegmentsOK, SeqAt
<1>4. AcksOK' BY DEF TransferIInv, AcksOK, SeqAt
<1>5. Len(peerBuf) <= sendUnsent'.lo BY <1>2, OffsetFacts
<1> QED BY <1>1, <1>3, <1>4, <1>5 DEF TransferIInv, PeerReadsTheStream

(* A Write appends to the stream and pumps; the peer and what it has read stay. *)
LEMMA AppWritesStep == ASSUME TransferIInv, AppWrites PROVE TransferIInv'
<1>1. PICK m \in WriteSizes : Sends(Write(m)) BY DEF AppWrites
<1>2. Write(m) /\ toPeer' = toPeer \cup out' /\ UNCHANGED <<toUs, peerBuf>> BY <1>1 DEF Sends
<1> DEFINE u == [sendUnsent EXCEPT !.hi = @ + m]
           n == PumpBytes(u, SendUnacked, SendWindow)
<1>3. /\ SendIInv' /\ sendUnsent'.hi = sendUnsent.hi + m /\ m \in Nat
      /\ UnaOffset' = UnaOffset /\ NxtOffset' = NxtOffset + n
  BY <1>2, WriteStep, OffsetFacts DEF TransferIInv
<1>4. closing' = closing /\ torn' = torn /\ sendUnsent.hi + m <= MaxBytes
  BY <1>2 DEF Write, closeVars
<1>5. n \in Nat
  <2>1. /\ u \in [lo : Nat, hi : Nat] /\ u.lo <= u.hi
    <3>1. sendUnsent \in [lo : Nat, hi : Nat] /\ sendUnsent.lo <= sendUnsent.hi
      BY DEF TransferIInv, SendIInv, SendTypeOK
    <3> QED BY <1>3, <3>1
  <2>2. SendUnacked \in SeqNums /\ SendSeqNum \in SeqNums /\ SendWindow \in Nat
    BY SendAssumption DEF TransferIInv, SendIInv, SendTypeOK
  <2> QED BY <2>1, <2>2, PumpBytesFacts
<1> HIDE DEF n, u
<1>6. NxtOffset' = sendUnsent'.lo + 0 BY <1>4 DEF TransferIInv, Open, NxtOffset, FinCount
<1>7. sendUnsent'.lo \in Nat BY <1>3 DEF SendIInv, SendTypeOK
<1>8. sendUnsent.lo <= sendUnsent'.lo BY <1>3, <1>5, <1>6, <1>7, OffsetFacts
<1> QED BY <1>2, <1>3, <1>4, <1>8, OffsetFacts, OurStep

\* A timer runs out or its callback runs: the offsets stay.
LEMMA TimersStep == ASSUME TransferIInv, Expiry \/ RunsOnRTO PROVE TransferIInv'
<1>1. /\ TimerExpires \/ OnRTOIdle \/ OnRTORetransmit
      /\ toPeer' = toPeer \cup out' /\ UNCHANGED <<toUs, peerBuf>>
  BY DEF Expiry, RunsOnRTO, Sends
<1>2. UNCHANGED <<seqVars, dataVars, closeVars>>
  BY <1>1 DEF TimerExpires, OnRTOIdle, OnRTORetransmit
<1>3. SendIInv'
  BY <1>1, TimerExpiresStep, OnRTOIdleStep, OnRTORetransmitStep DEF TransferIInv
<1>4. /\ closing' = closing /\ torn' = torn /\ sendUnsent' = sendUnsent
      /\ UnaOffset' = UnaOffset
  BY <1>2, SameOffsets
<1> QED BY <1>1, <1>3, <1>4, OffsetFacts, OurStep

\* An acknowledgement, fresh or old, moves SND.UNA only over bytes the peer
\* has taken.
LEMMA AckArrivesStep ==
  ASSUME TransferIInv, NEW g \in toUs, NEW kept \in BOOLEAN, AckArrives(g, kept)
  PROVE  TransferIInv'
<1>1. /\ toPeer' = toPeer \cup out' /\ toUs' \subseteq toUs /\ peerBuf' = peerBuf
      /\ ProcessNewAck(g) \/ ProcessOtherAck(g)
  BY DEF AckArrives
<1>2. g \in PeerAcks /\ \E a \in 0 .. Len(peerBuf) : g.ack = SeqAt(a)
  BY DEF TransferIInv, AcksOK
<1>3. CASE ProcessOtherAck(g)
  <2>1. SendIInv' BY <1>2, <1>3, OtherAckStep DEF TransferIInv
  <2>2. /\ closing' = closing /\ torn' = torn /\ sendUnsent' = sendUnsent
        /\ UnaOffset' = UnaOffset
    BY <1>3, SameOffsets DEF ProcessOtherAck
  <2> QED BY <1>1, <2>1, <2>2, OffsetFacts, OurStep
<1>4. CASE ProcessNewAck(g)
  <2> DEFINE n == PumpBytes(sendUnsent, g.ack, SendWindow')
  <2>1. /\ SendIInv' /\ sendUnsent'.hi = sendUnsent.hi
        /\ NxtOffset' = NxtOffset + n /\ UnaOffset' <= NxtOffset
    BY <1>2, <1>4, NewAckStep, OffsetFacts DEF TransferIInv
  <2>2. closing' = closing /\ torn' = torn /\ SendUnacked' = g.ack
    BY <1>4 DEF ProcessNewAck, closeVars
  <2>3. n \in Nat
    <3>1. /\ sendUnsent \in [lo : Nat, hi : Nat] /\ sendUnsent.lo <= sendUnsent.hi
          /\ SendSeqNum \in SeqNums
      BY DEF TransferIInv, SendIInv, SendTypeOK
    <3>2. SendWindow' \in Nat /\ g.ack \in SeqNums
      BY <1>2, <2>1, SendAssumption DEF PeerAcks, SendIInv, SendTypeOK
    <3> QED BY <3>1, <3>2, PumpBytesFacts
  <2> HIDE DEF n
  <2>4. NxtOffset' = sendUnsent'.lo + 0 /\ Clean' /\ FinCount' = 0
    BY <2>2 DEF TransferIInv, Open, NxtOffset, FinCount, Clean
  <2>5. sendUnsent'.lo \in Nat BY <2>1 DEF SendIInv, SendTypeOK
  <2>6. sendUnsent.lo <= sendUnsent'.lo BY <2>1, <2>3, <2>4, <2>5, OffsetFacts
  <2>7. SeqAt(UnaOffset') = g.ack
    <3>1. SendSeqNum' = SeqAt(NxtOffset') BY <2>1, <2>4 DEF SendIInv, SeqPlacement, SeqAt
    <3>2. UnaOffset' = NxtOffset' - SeqSub(SeqAt(NxtOffset'), g.ack)
      BY <2>2, <3>1 DEF UnaOffset
    <3>3. NxtOffset' \in Int /\ g.ack \in SeqNums BY <1>2, <2>4, <2>5 DEF PeerAcks
    <3> QED BY <3>2, <3>3, SeqBack, ConstantFacts DEF SeqAt
  <2>8. UnaOffset' \in Nat /\ UnaOffset' <= MaxBytes
    <3>1. 0 <= UnaOffset' BY <2>1, <2>4 DEF SendIInv, UnackedRetained
    <3>2. UnaOffset' \in Int
      <4>1. SendSeqNum' \in Int /\ SendUnacked' \in Int
        BY <2>1, SeqModType DEF SendIInv, SendTypeOK, SeqNums
      <4>2. SeqSub(SendSeqNum', SendUnacked') \in Int
        BY <4>1, SeqArithType, SeqModType DEF SeqNums
      <4> QED BY <2>4, <2>5, <4>2 DEF UnaOffset
    <3> QED BY <2>1, <3>1, <3>2, OffsetFacts
  <2>9. PICK a \in 0 .. Len(peerBuf) : g.ack = SeqAt(a) BY <1>2
  <2>10. a \in Nat /\ a <= MaxBytes BY OffsetFacts
  <2>11. UnaOffset' = a BY <2>7, <2>8, <2>9, <2>10, SeqAtInjective
  <2>12. UnaOffset' <= Len(peerBuf) BY <2>9, <2>11, OffsetFacts
  <2> QED BY <1>1, <2>1, <2>2, <2>6, <2>12, OffsetFacts, OurStep
<1> QED BY <1>1, <1>3, <1>4

\* The network loses something, or nothing happens.
LEMMA LossStep ==
  ASSUME TransferIInv, UNCHANGED <<sendVars, peerBuf>>, toPeer' \subseteq toPeer,
         toUs' \subseteq toUs
  PROVE  TransferIInv'
<1>1. /\ SendIInv' /\ Open' /\ UnaOffset' = UnaOffset /\ sendUnsent' = sendUnsent
  BY StutterStep, SameOffsets DEF TransferIInv, Open, sendVars, closeVars, dataVars
<1>2. SegmentsOK' /\ AcksOK' BY <1>1 DEF TransferIInv, SegmentsOK, AcksOK, SeqAt
<1> QED BY <1>1, <1>2 DEF TransferIInv, PeerReadsTheStream

------------------------------------------------------------------------------

\* An idle network and an empty stream satisfy the invariant.
LEMMA TransferInitInvariant == TransferInit => TransferIInv
<1> SUFFICES ASSUME TransferInit PROVE TransferIInv OBVIOUS
<1>1. SendIInv BY InitInvariant DEF TransferInit
<1>2. UnaOffset = 0 /\ sendUnsent = [lo |-> 0, hi |-> 0] /\ Open
  <2>1. SendInit BY DEF TransferInit
  <2>2. Window!Init BY <2>1, WindowInit
  <2> QED BY <2>1, <2>2 DEF SendInit, Open, Window!Init
<1>3. SegmentsOK /\ AcksOK BY DEF TransferInit, SegmentsOK, AcksOK
<1>4. peerBuf = <<>> /\ peerBuf \in Seq(Nat) /\ Len(peerBuf) = 0 BY DEF TransferInit
<1>5. MaxBytes \in Nat BY SendAssumption
<1> QED BY <1>1, <1>2, <1>3, <1>4, <1>5 DEF TransferIInv, PeerReadsTheStream

\* The invariant is inductive.
LEMMA TransferStepInvariant == TransferIInv /\ [TransferNext]_transferVars => TransferIInv'
<1> SUFFICES ASSUME TransferIInv, [TransferNext]_transferVars PROVE TransferIInv' OBVIOUS
<1>1. CASE AppWrites BY <1>1, AppWritesStep
<1>2. CASE Expiry \/ RunsOnRTO BY <1>2, TimersStep
<1>3. ASSUME NEW s \in toPeer, NEW kept \in BOOLEAN, NEW wnd \in Windows,
             PeerReceives(s, kept, wnd)
      PROVE  TransferIInv'
  BY <1>3, PeerReceivesStep
<1>4. ASSUME NEW g \in toUs, NEW kept \in BOOLEAN, AckArrives(g, kept) PROVE TransferIInv'
  BY <1>4, AckArrivesStep
<1>5. ASSUME NEW s \in toPeer, LoseSegment(s) PROVE TransferIInv'
  BY <1>5, LossStep DEF LoseSegment
<1>6. ASSUME NEW g \in toUs, LoseAck(g) PROVE TransferIInv'
  BY <1>6, LossStep DEF LoseAck
<1>7. CASE UNCHANGED transferVars BY <1>7, LossStep DEF transferVars, netVars
<1> QED BY <1>1, <1>2, <1>3, <1>4, <1>5, <1>6, <1>7 DEF TransferNext

\* Whatever the network loses, duplicates and reorders, the peer reads the
\* written stream byte for byte, and nothing counts as acknowledged that it
\* has not taken: the retransmission queue may forget what it forgets.
THEOREM PeerAlwaysReadsTheStream == TransferSpec => []PeerReadsTheStream
<1>1. TransferIInv => PeerReadsTheStream BY DEF TransferIInv
<1> QED BY <1>1, TransferInitInvariant, TransferStepInvariant, PTL DEF TransferSpec

=============================================================================
