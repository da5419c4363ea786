------------------------- MODULE TCPConnectionProofs -------------------------
(***************************************************************************)
(* Proofs about a whole connection: it drives its send half only as        *)
(* TCPSend describes, its receive half delivers the peer's bytes in order, *)
(* readCh is used as Go requires, and TIME_WAIT is cleaned up once.        *)
(***************************************************************************)
EXTENDS TCPConnection, TCPSendProofs

\* Where the stream stands behind the overflow, behind the channel, and
\* behind the chunk that waits to be pushed.
AfterOverflow == IF overflow.lo < overflow.hi THEN overflow.hi ELSE delivered
AfterChannel == IF readCh = <<>> THEN AfterOverflow ELSE readCh[Len(readCh)].hi
AfterPush == IF recvPc = "push" THEN cur.hi ELSE AfterChannel

\* The segments handleSegment may work on.
SegType ==
  [lo : 0 .. PeerBytes, hi : 0 .. PeerBytes, fin : BOOLEAN, hasAck : BOOLEAN,
   ack : SeqNums, wnd : 0 .. MaxWindow]

CurOK ==
  /\ cur \in SegType /\ cur.lo <= cur.hi
  /\ recvPc # "idle" => cur.wnd \in Windows

\* Overflow, channel and the chunk to be pushed continue each other, from
\* the first byte not delivered yet.
PipeOK ==
  /\ overflow.lo < overflow.hi => overflow.lo = delivered
  /\ readCh # <<>> => readCh[1].lo = AfterOverflow
  /\ \A i \in 1 .. (Len(readCh) - 1) : readCh[i].hi = readCh[i + 1].lo
  /\ recvPc = "push" => cur.lo = AfterChannel

\* From the moment handleSegment has seen ESTABLISHED until it has looked at
\* the FIN, RCV.NXT is the end of what was taken, whatever Close has made of
\* State meanwhile.
Aligned ==
  State = "ESTABLISHED" \/ recvPc \in {"ack", "data", "push", "fin"}
    => RecvSeqNum = PeerSeqAt(AfterPush)

\* readCh is closed only when handleSegment is past the data, for good.
ChannelOpen ==
  /\ readChClosed => State # "ESTABLISHED" /\ recvPc \notin {"ack", "data", "push", "fin"}
  /\ recvPc = "closeCh" => State # "ESTABLISHED"
  /\ eof => readChClosed /\ readCh = <<>> /\ overflow.lo = overflow.hi

\* The states behind Close's write of State are reached only after it, and
\* a cleanup runs only for a connection that the receive loop is done with.
CleanupOK ==
  /\ timeWaits \in {0, 1}
  /\ timeWaits = 1 => /\ State \in {"TIME_WAIT", "CLOSED"}
                      /\ recvPc = "idle" /\ closeSaw = "done"
  /\ State = "TIME_WAIT" => timeWaits = 1
  /\ State \in {"FIN_WAIT_1", "FIN_WAIT_2", "CLOSING", "TIME_WAIT", "LAST_ACK"}
       => closeSaw = "done"

\* What concerns the receive half and the closing states.
RecvIInv ==
  /\ ConnTypeOK
  /\ CurOK
  /\ PipeOK
  /\ Aligned
  /\ ChannelOpen
  /\ CleanupOK

ConnIInv == SendIInv /\ RecvIInv

------------------------------------------------------------------------------

\* What the assumptions say of the constants.
LEMMA ConnConstants ==
  /\ PeerBytes \in Nat /\ PeerBytes < SeqMod /\ ReadChCap \in Nat \ {0}
  /\ ReadSizes \subseteq Nat \ {0} /\ IRS + 1 \in Int /\ IRS \in SeqNums
  /\ Windows \subseteq 0 .. MaxWindow /\ MaxWindow \in Nat
  /\ \A o \in 0 .. PeerBytes : PeerSeqAt(o) \in PeerSeqs
BY ConnAssumption, LifetimeAssumption, SendAssumption, SeqModType DEF SeqNums, PeerSeqAt

\* Two bytes of the peer's stream never share a sequence number.
LEMMA PeerSeqInjective ==
  ASSUME NEW a \in 0 .. PeerBytes, NEW b \in 0 .. PeerBytes, PeerSeqAt(a) = PeerSeqAt(b)
  PROVE  a = b
<1>1. ASSUME NEW m \in 0 .. PeerBytes, NEW n \in 0 .. PeerBytes, n <= m,
             PeerSeqAt(m) = PeerSeqAt(n)
      PROVE  m = n
  <2>1. 0 <= m - n /\ m - n < SeqMod /\ m \in Int /\ n \in Int
    BY <1>1, ConnConstants, SeqModType
  <2>2. SeqSub(PeerSeqAt(m), PeerSeqAt(n)) = m - n
    BY <2>1, ConnConstants, SeqSubOffsets DEF PeerSeqAt
  <2>3. n - n \in Int /\ 0 <= n - n /\ n - n < SeqMod /\ n - n = 0 BY <2>1, SeqModType
  <2>4. SeqSub(PeerSeqAt(n), PeerSeqAt(n)) = n - n
    BY <2>1, <2>3, ConnConstants, SeqSubOffsets DEF PeerSeqAt
  <2> QED BY <1>1, <2>1, <2>2, <2>3, <2>4
<1>2. a \in Int /\ b \in Int BY ConnConstants
<1>3. CASE a <= b BY <1>1, <1>3
<1>4. CASE b <= a BY <1>1, <1>4
<1> QED BY <1>2, <1>3, <1>4

\* RCV.NXT is a sequence number, and moves with the stream.
LEMMA PeerSeqMoves ==
  ASSUME NEW a \in Int, NEW n \in Int
  PROVE  /\ PeerSeqAt(a) \in SeqNums
         /\ SeqAdd(PeerSeqAt(a), n) = PeerSeqAt(a + n)
BY ConnConstants, SeqArithType, SeqAddAdd DEF PeerSeqAt

\* The segments that may arrive are well formed.
LEMMA SegFacts ==
  ASSUME SendTypeOK, NEW seg \in HonestSegs
  PROVE  seg \in SegType /\ seg.lo <= seg.hi /\ seg.wnd \in Windows
<1>1. ASSUME NEW a \in Ackable PROVE a \in SeqNums
  <2>1. SendUnacked \in Int /\ SendSeqNum \in Int
    BY SeqModType DEF SendTypeOK, SeqNums
  <2>2. SeqSub(SendSeqNum, SendUnacked) \in Nat BY <2>1, SeqArithType, SeqModType DEF SeqNums
  <2>3. \A d \in 0 .. SeqSub(SendSeqNum, SendUnacked) : SeqAdd(SendUnacked, d) \in SeqNums
    BY <2>1, <2>2, SeqArithType
  <2>4. SeqAt(0) \in SeqNums BY ConstantFacts, SeqArithType DEF SeqAt
  <2>5. SeqAdd(SendSeqNum, 1) \in SeqNums BY <2>1, SeqArithType
  <2> QED BY <2>3, <2>4, <2>5 DEF Ackable
<1>2. PICK c \in Intervals, f \in BOOLEAN, h \in BOOLEAN, a \in Ackable, w \in Windows :
        seg = [lo |-> c.lo, hi |-> c.hi, fin |-> f, hasAck |-> h, ack |-> a, wnd |-> w]
  BY DEF HonestSegs, PeerSegs
<1>3. c.lo \in 0 .. PeerBytes /\ c.hi \in 0 .. PeerBytes /\ c.lo <= c.hi BY DEF Intervals
<1>4. a \in SeqNums /\ w \in 0 .. MaxWindow BY <1>1, ConnConstants
<1> QED BY <1>2, <1>3, <1>4 DEF SegType

------------------------------------------------------------------------------
(***************************************************************************)
(* The connection uses its send half as TCPSend says.                      *)
(***************************************************************************)

\* processAck of a segment of the peer is one of TCPSend's acknowledgements.
LEMMA ProcessAckIsSendStep ==
  ASSUME NEW seg \in SegType, seg.wnd \in Windows, processAck(seg)
  PROVE  SendNext
<1>1. AckOf(seg) \in PeerAcks BY ConnConstants DEF AckOf, PeerAcks, SegType
<1> QED BY <1>1 DEF processAck, SendNext

\* Every step of the connection is a step of the send half or leaves it alone.
LEMMA ConnStepIsSendStep ==
  ASSUME SendTypeOK, CurOK, [ConnNext]_connVars
  PROVE  [SendNext]_sendVars
<1>1. ASSUME NEW seg \in HonestSegs, RecvEstablished(seg) PROVE UNCHANGED sendVars
  BY <1>1 DEF RecvEstablished
<1>2. CASE RecvAck
  <2>1. cur \in SegType /\ cur.wnd \in Windows BY <1>2 DEF RecvAck, CurOK
  <2> QED BY <1>2, <2>1, ProcessAckIsSendStep DEF RecvAck
<1>3. CASE RecvData BY <1>3 DEF RecvData
<1>4. CASE RecvPush BY <1>4 DEF RecvPush
<1>5. CASE RecvFin BY <1>5 DEF RecvFin
<1>6. CASE RecvCloseCh BY <1>6 DEF RecvCloseCh
<1>7. ASSUME NEW seg \in HonestSegs, RecvFinWait1(seg) PROVE SendNext
  BY <1>7, SegFacts, ProcessAckIsSendStep DEF RecvFinWait1
<1>8. ASSUME NEW seg \in HonestSegs, RecvFinWait2(seg) PROVE UNCHANGED sendVars
  BY <1>8 DEF RecvFinWait2
<1>9. ASSUME NEW seg \in HonestSegs, RecvFinalAck(seg) PROVE [SendNext]_sendVars
  BY <1>9 DEF RecvFinalAck, SendNext
<1>10. ASSUME NEW o \in 0 .. (PeerBytes + 1), RecvRST(o) PROVE SendNext
  BY <1>10 DEF RecvRST, SendNext
<1>11. CASE TimeWaitExpires BY <1>11 DEF TimeWaitExpires, SendNext
<1>12. ASSUME NEW n \in ReadSizes, AppRead(n) PROVE UNCHANGED sendVars
  BY <1>12 DEF AppRead
<1>13. ASSUME NEW n \in WriteSizes, SendOnly(Write(n)) PROVE SendNext
  BY <1>13 DEF SendOnly, SendNext
<1>14. CASE \/ SendOnly(TimerExpires) \/ SendOnly(OnRTOIdle) \/ SendOnly(OnRTORetransmit)
            \/ SendOnly(CloseSendFIN) \/ SendOnly(CloseLoad) \/ SendOnly(CloseStore)
  BY <1>14 DEF SendOnly, SendNext
<1>15. CASE CloseReadState BY <1>15 DEF CloseReadState
<1>16. CASE CloseWriteState BY <1>16 DEF CloseWriteState
<1>17. CASE UNCHANGED connVars BY <1>17 DEF connVars
<1> QED BY <1>1, <1>2, <1>3, <1>4, <1>5, <1>6, <1>7, <1>8, <1>9, <1>10, <1>11, <1>12,
           <1>13, <1>14, <1>15, <1>16, <1>17 DEF ConnNext, RecvStep

------------------------------------------------------------------------------
(***************************************************************************)
(* The receive half: one lemma per step of handleSegment, Read and Close.  *)
(***************************************************************************)

\* The marks in the peer's stream are offsets of it.
LEMMA PipeTypes ==
  ASSUME RecvIInv
  PROVE  /\ AfterOverflow \in 0 .. PeerBytes /\ AfterChannel \in 0 .. PeerBytes
         /\ AfterPush \in 0 .. PeerBytes
         /\ \A i \in 1 .. Len(readCh) : readCh[i] \in Intervals
<1>1. \A i \in 1 .. Len(readCh) : readCh[i] \in Intervals BY DEF RecvIInv, ConnTypeOK
<1>2. AfterOverflow \in 0 .. PeerBytes
  BY DEF RecvIInv, ConnTypeOK, AfterOverflow, Intervals
<1>3. AfterChannel \in 0 .. PeerBytes
  <2>1. CASE readCh = <<>> BY <1>2, <2>1 DEF AfterChannel
  <2>2. CASE readCh # <<>>
    <3>1. Len(readCh) \in 1 .. Len(readCh) BY <2>2 DEF RecvIInv, ConnTypeOK
    <3> QED BY <1>1, <2>2, <3>1 DEF AfterChannel, Intervals
  <2> QED BY <2>1, <2>2
<1>4. AfterPush \in 0 .. PeerBytes
  BY <1>3 DEF RecvIInv, CurOK, SegType, AfterPush
<1> QED BY <1>1, <1>2, <1>3, <1>4

\* Steps that touch neither the receive half nor the closing states.
LEMMA RecvUnchanged ==
  ASSUME RecvIInv, UNCHANGED <<recvVars, readVars, lifeVars>>
  PROVE  RecvIInv'
BY DEF RecvIInv, recvVars, readVars, lifeVars, ConnTypeOK, CurOK, PipeOK, Aligned,
       ChannelOpen, CleanupOK, AfterPush, AfterChannel, AfterOverflow

\* The pipe between the receive loop and the application is left alone while
\* no chunk waits before or after the step.
LEMMA PipeUnchanged ==
  ASSUME RecvIInv, UNCHANGED readVars, recvPc # "push", recvPc' # "push"
  PROVE  PipeOK' /\ AfterPush' = AfterPush
BY DEF RecvIInv, PipeOK, readVars, AfterPush, AfterChannel, AfterOverflow

(* Taking a segment from the socket only records where the receive loop is. *)
LEMMA RecvEstablishedStep ==
  ASSUME SendTypeOK, RecvIInv, NEW seg \in HonestSegs, RecvEstablished(seg)
  PROVE  RecvIInv'
<1> USE DEF RecvEstablished
<1>1. seg \in SegType /\ seg.lo <= seg.hi /\ seg.wnd \in Windows BY SegFacts
<1>2. PipeOK' /\ AfterPush' = AfterPush BY PipeUnchanged
<1>3. CurOK' BY <1>1 DEF CurOK
<1>4. ConnTypeOK' BY <1>1 DEF RecvIInv, ConnTypeOK, readVars, lifeVars
<1>5. Aligned' BY <1>2, PeerSeqMoves DEF RecvIInv, Aligned, PeerSeqAt
<1>6. ChannelOpen' BY DEF RecvIInv, ChannelOpen, readVars
<1>7. CleanupOK' BY DEF RecvIInv, CleanupOK, lifeVars
<1> QED BY <1>2, <1>3, <1>4, <1>5, <1>6, <1>7 DEF RecvIInv

(* The acknowledgement's part of the ESTABLISHED case leaves the receive half alone. *)
LEMMA RecvAckStep == ASSUME RecvIInv, RecvAck PROVE RecvIInv'
<1> USE DEF RecvAck
<1>1. NoSeg \in SegType /\ NoSeg.lo <= NoSeg.hi
  BY ConnConstants, SeqModType DEF NoSeg, SegType, SeqNums
<1>2. PipeOK' /\ AfterPush' = AfterPush BY PipeUnchanged
<1>3. CurOK' BY <1>1 DEF RecvIInv, CurOK
<1>4. ConnTypeOK' BY <1>1 DEF RecvIInv, ConnTypeOK, readVars, lifeVars
<1>5. Aligned' BY <1>2 DEF RecvIInv, Aligned, PeerSeqAt
<1>6. ChannelOpen' BY DEF RecvIInv, ChannelOpen, readVars
<1>7. CleanupOK' BY DEF RecvIInv, CleanupOK, lifeVars
<1> QED BY <1>2, <1>3, <1>4, <1>5, <1>6, <1>7 DEF RecvIInv

\* Data is taken only where the stream goes on.
LEMMA RecvDataStep == ASSUME RecvIInv, RecvData PROVE RecvIInv'
<1> USE DEF RecvData
<1>1. CASE ~(cur.lo < cur.hi /\ PeerSeqAt(cur.lo) = RecvSeqNum)
  <2>1. recvPc' = "fin" /\ RecvSeqNum' = RecvSeqNum BY <1>1
  <2>2. PipeOK' /\ AfterPush' = AfterPush BY <2>1, PipeUnchanged
  <2>3. ConnTypeOK' BY <2>1 DEF RecvIInv, ConnTypeOK, readVars, lifeVars
  <2>4. CurOK' BY <2>1 DEF RecvIInv, CurOK
  <2>5. Aligned' BY <2>1, <2>2 DEF RecvIInv, Aligned, PeerSeqAt
  <2>6. ChannelOpen' BY <2>1 DEF RecvIInv, ChannelOpen, readVars
  <2>7. CleanupOK' BY <2>1 DEF RecvIInv, CleanupOK, lifeVars
  <2> QED BY <2>2, <2>3, <2>4, <2>5, <2>6, <2>7 DEF RecvIInv
<1>2. CASE cur.lo < cur.hi /\ PeerSeqAt(cur.lo) = RecvSeqNum
  <2>1. recvPc' = "push" /\ RecvSeqNum' = SeqAdd(RecvSeqNum, cur.hi - cur.lo) BY <1>2
  <2>2. AfterChannel \in 0 .. PeerBytes /\ AfterPush = AfterChannel
    BY PipeTypes DEF AfterPush
  <2>3. cur.lo \in 0 .. PeerBytes /\ cur.hi \in 0 .. PeerBytes BY DEF RecvIInv, CurOK, SegType
  <2>4. cur.lo = AfterChannel
    <3>1. RecvSeqNum = PeerSeqAt(AfterChannel) BY <2>2 DEF RecvIInv, Aligned
    <3> QED BY <1>2, <2>2, <2>3, <3>1, PeerSeqInjective
  <2>5. AfterChannel' = AfterChannel /\ AfterOverflow' = AfterOverflow
    BY DEF AfterChannel, AfterOverflow, readVars
  <2>6. RecvSeqNum' = PeerSeqAt(cur.hi) /\ RecvSeqNum' \in SeqNums
    <3>1. cur.lo \in Int /\ cur.hi \in Int /\ cur.hi - cur.lo \in Int
          /\ cur.lo + (cur.hi - cur.lo) = cur.hi
      BY <2>3, ConnConstants
    <3>2. SeqAdd(PeerSeqAt(cur.lo), cur.hi - cur.lo) = PeerSeqAt(cur.lo + (cur.hi - cur.lo))
      BY <3>1, PeerSeqMoves
    <3> QED BY <1>2, <2>1, <3>1, <3>2, PeerSeqMoves
  <2>7. PipeOK' BY <2>1, <2>4, <2>5 DEF RecvIInv, PipeOK, readVars
  <2>8. ConnTypeOK' BY <2>1, <2>6 DEF RecvIInv, ConnTypeOK, readVars, lifeVars
  <2>9. CurOK' BY <2>1 DEF RecvIInv, CurOK
  <2>10. Aligned' BY <2>1, <2>6 DEF Aligned, AfterPush, PeerSeqAt
  <2>11. ChannelOpen' BY <2>1 DEF RecvIInv, ChannelOpen, readVars
  <2>12. CleanupOK' BY <2>1 DEF RecvIInv, CleanupOK, lifeVars
  <2> QED BY <2>7, <2>8, <2>9, <2>10, <2>11, <2>12 DEF RecvIInv
<1> QED BY <1>1, <1>2

\* The chunk joins the channel behind what is already there.
LEMMA RecvPushStep == ASSUME RecvIInv, RecvPush PROVE RecvIInv'
<1> USE DEF RecvPush
<1> DEFINE c == [lo |-> cur.lo, hi |-> cur.hi]
<1>1. cur \in SegType /\ cur.lo <= cur.hi /\ c \in Intervals
  BY DEF RecvIInv, CurOK, SegType, Intervals
<1>2. readCh \in Seq(Intervals) /\ Len(readCh) \in Nat /\ ReadChCap \in Nat
  BY ConnConstants DEF RecvIInv, ConnTypeOK
<1>3. /\ readCh' \in Seq(Intervals) /\ Len(readCh') = Len(readCh) + 1 /\ readCh' # <<>>
      /\ \A i \in 1 .. Len(readCh) : readCh'[i] = readCh[i]
      /\ readCh'[Len(readCh) + 1] = c
  BY <1>1, <1>2
<1> HIDE DEF c
<1>4. ConnTypeOK' BY <1>2, <1>3 DEF RecvIInv, ConnTypeOK, lifeVars
<1>5. CurOK' BY DEF RecvIInv, CurOK
<1>6. AfterChannel' = cur.hi BY <1>2, <1>3 DEF AfterChannel, c
<1>7. AfterOverflow' = AfterOverflow BY DEF AfterOverflow
<1>8. PipeOK'
  <2>1. readCh'[1].lo = AfterOverflow
    <3>1. CASE readCh = <<>>
      BY <1>2, <1>3, <3>1 DEF RecvIInv, PipeOK, AfterChannel, c
    <3>2. CASE readCh # <<>>
      <4>1. 1 \in 1 .. Len(readCh) BY <1>2, <3>2
      <4> QED BY <1>3, <3>2, <4>1 DEF RecvIInv, PipeOK
    <3> QED BY <3>1, <3>2
  <2>2. ASSUME NEW i \in 1 .. (Len(readCh') - 1) PROVE readCh'[i].hi = readCh'[i + 1].lo
    <3>1. i \in 1 .. Len(readCh) BY <1>2, <1>3, <2>2
    <3>2. CASE i = Len(readCh)
      <4>1. readCh # <<>> BY <3>1, <3>2
      <4>2. readCh[i].hi = AfterChannel BY <3>2, <4>1 DEF AfterChannel
      <4>3. cur.lo = AfterChannel BY DEF RecvIInv, PipeOK
      <4> QED BY <1>3, <3>1, <3>2, <4>2, <4>3 DEF c
    <3>3. CASE i # Len(readCh)
      <4>1. i \in 1 .. (Len(readCh) - 1) /\ i + 1 \in 1 .. Len(readCh) BY <1>2, <3>1, <3>3
      <4> QED BY <1>3, <3>1, <4>1 DEF RecvIInv, PipeOK
    <3> QED BY <3>2, <3>3
  <2> QED BY <1>7, <2>1, <2>2 DEF RecvIInv, PipeOK
<1>9. Aligned' BY <1>6 DEF RecvIInv, Aligned, AfterPush, PeerSeqAt
<1>10. ChannelOpen' BY DEF RecvIInv, ChannelOpen
<1>11. CleanupOK' BY DEF RecvIInv, CleanupOK, lifeVars
<1> QED BY <1>4, <1>5, <1>8, <1>9, <1>10, <1>11 DEF RecvIInv

\* RCV.NXT stays a sequence number when it moves over the FIN.
LEMMA RecvNextType == ASSUME RecvIInv PROVE SeqAdd(RecvSeqNum, 1) \in SeqNums
<1>1. RecvSeqNum \in Int BY SeqModType DEF RecvIInv, ConnTypeOK, SeqNums
<1> QED BY <1>1, SeqArithType

(* A FIN moves the state to CLOSE_WAIT and starts the closing of readCh. *)
LEMMA RecvFinStep == ASSUME RecvIInv, RecvFin PROVE RecvIInv'
<1> USE DEF RecvFin
<1>1. NoSeg \in SegType /\ NoSeg.lo <= NoSeg.hi
  BY ConnConstants, SeqModType DEF NoSeg, SegType, SeqNums
<1>2. PipeOK' /\ AfterPush' = AfterPush BY PipeUnchanged
<1>3. CurOK' BY <1>1 DEF RecvIInv, CurOK
<1>4. SeqAdd(RecvSeqNum, 1) \in SeqNums BY RecvNextType
<1>5. ConnTypeOK' BY <1>1, <1>4 DEF RecvIInv, ConnTypeOK, readVars, lifeVars, States
<1>6. Aligned' BY <1>2 DEF RecvIInv, Aligned, PeerSeqAt
<1>7. ChannelOpen' BY DEF RecvIInv, ChannelOpen, readVars
<1>8. CleanupOK' BY DEF RecvIInv, CleanupOK, lifeVars
<1> QED BY <1>2, <1>3, <1>5, <1>6, <1>7, <1>8 DEF RecvIInv

(* closeReadChLocked closes the channel once, when no push is under way. *)
LEMMA RecvCloseChStep == ASSUME RecvIInv, RecvCloseCh PROVE RecvIInv'
<1> USE DEF RecvCloseCh
<1>1. NoSeg \in SegType /\ NoSeg.lo <= NoSeg.hi
  BY ConnConstants, SeqModType DEF NoSeg, SegType, SeqNums
<1>2. PipeOK' BY DEF RecvIInv, PipeOK, AfterChannel, AfterOverflow
<1>3. CurOK' BY <1>1 DEF CurOK
<1>4. ConnTypeOK' BY <1>1 DEF RecvIInv, ConnTypeOK, lifeVars
<1>5. Aligned' /\ ChannelOpen' BY DEF RecvIInv, Aligned, ChannelOpen
<1>6. CleanupOK' BY DEF RecvIInv, CleanupOK, lifeVars
<1> QED BY <1>2, <1>3, <1>4, <1>5, <1>6 DEF RecvIInv

\* Steps of the receive loop behind ESTABLISHED, of the cleanup and of Close:
\* they move State, RCV.NXT and the bookkeeping of the life cycle only.
LEMMA ClosingStep ==
  ASSUME RecvIInv, UNCHANGED <<recvPc, cur, readCh, overflow, delivered, eof>>,
         State' # "ESTABLISHED", State' \in States, RecvSeqNum' \in SeqNums,
         RecvSeqNum' = RecvSeqNum \/ recvPc = "idle",
         readChClosed' = readChClosed \/ (readChClosed' = TRUE /\ recvPc = "idle"),
         closeSaw' \in States \cup {"none", "done"}, timeWaits' \in Nat,
         inTable' \in BOOLEAN, CleanupOK'
  PROVE  RecvIInv'
<1>1. PipeOK' /\ AfterPush' = AfterPush
  BY DEF RecvIInv, PipeOK, AfterPush, AfterChannel, AfterOverflow
<1>2. CurOK' BY DEF RecvIInv, CurOK
<1>3. ConnTypeOK' BY DEF RecvIInv, ConnTypeOK
<1>4. Aligned' BY <1>1 DEF RecvIInv, Aligned, PeerSeqAt
<1>5. ChannelOpen' BY DEF RecvIInv, ChannelOpen
<1> QED BY <1>1, <1>2, <1>3, <1>4, <1>5 DEF RecvIInv

(* In FIN_WAIT_1, FIN_WAIT_2, CLOSING and LAST_ACK nothing is delivered, and a step into
   TIME_WAIT leaves the states from which another could follow. *)
LEMMA FinWaitStep ==
  ASSUME RecvIInv, NEW seg, RecvFinWait1(seg) \/ RecvFinWait2(seg) \/ RecvFinalAck(seg)
  PROVE  RecvIInv'
<1>1. CASE RecvFinWait1(seg)
  <2>1. CleanupOK' BY <1>1 DEF RecvFinWait1, RecvIInv, CleanupOK
  <2> QED BY <1>1, <2>1, RecvNextType, ClosingStep
          DEF RecvFinWait1, RecvIInv, CleanupOK, ConnTypeOK, readVars, States
<1>2. CASE RecvFinWait2(seg)
  <2>1. CleanupOK' BY <1>2 DEF RecvFinWait2, RecvIInv, CleanupOK
  <2> QED BY <1>2, <2>1, RecvNextType, ClosingStep
          DEF RecvFinWait2, RecvIInv, CleanupOK, ConnTypeOK, readVars, States
<1>3. CASE RecvFinalAck(seg)
  <2>1. /\ UNCHANGED <<RecvSeqNum, recvPc, cur, readVars, closeSaw>> /\ recvPc = "idle"
        /\ \/ State = "CLOSING" /\ State' = "TIME_WAIT" /\ timeWaits' = timeWaits + 1
              /\ inTable' = inTable
           \/ State = "LAST_ACK" /\ State' = "CLOSED" /\ timeWaits' = timeWaits
              /\ inTable' = FALSE
    BY <1>3, Zenon DEF RecvFinalAck
  <2>2. CleanupOK' BY <2>1 DEF RecvIInv, CleanupOK
  <2>3. State' \in States /\ State' # "ESTABLISHED" /\ timeWaits' \in Nat
    BY <2>1 DEF RecvIInv, ConnTypeOK, States
  <2>4. inTable' \in BOOLEAN BY <2>1, Zenon DEF RecvIInv, ConnTypeOK
  <2> QED BY <2>1, <2>2, <2>3, <2>4, ClosingStep DEF RecvIInv, ConnTypeOK, readVars
<1> QED BY <1>1, <1>2, <1>3

(* abortConnection closes the channel and leaves what was delivered in place. *)
LEMMA RecvRSTStep == ASSUME RecvIInv, NEW o, RecvRST(o) PROVE RecvIInv'
<1>1. CleanupOK' BY DEF RecvRST, RecvIInv, CleanupOK
<1> QED BY <1>1, ClosingStep DEF RecvRST, RecvIInv, ConnTypeOK, States

(* The cleanup goroutine that removes the connection is the one that was started. *)
LEMMA TimeWaitExpiresStep == ASSUME RecvIInv, TimeWaitExpires PROVE RecvIInv'
<1>1. CleanupOK' /\ timeWaits' \in Nat BY DEF TimeWaitExpires, RecvIInv, CleanupOK
<1>2. /\ State' = "CLOSED" /\ inTable' = FALSE
      /\ UNCHANGED <<RecvSeqNum, recvPc, cur, readVars, closeSaw>>
  BY DEF TimeWaitExpires
<1> QED BY <1>1, <1>2, ClosingStep DEF RecvIInv, ConnTypeOK, readVars, States

(* Close reads the state, which later writes may make stale. *)
LEMMA CloseReadStateStep == ASSUME RecvIInv, CloseReadState PROVE RecvIInv'
BY DEF CloseReadState, RecvIInv, recvVars, readVars, ConnTypeOK, CurOK, PipeOK,
       Aligned, ChannelOpen, CleanupOK, AfterPush, AfterChannel, AfterOverflow, States

(* Close stores a closing state computed from the value it read. *)
LEMMA CloseWriteStateStep == ASSUME RecvIInv, CloseWriteState PROVE RecvIInv'
<1>1. CleanupOK' BY DEF CloseWriteState, RecvIInv, CleanupOK, States
<1>2. CASE State' # "ESTABLISHED"
  BY <1>1, <1>2, ClosingStep DEF CloseWriteState, RecvIInv, ConnTypeOK, readVars, States
<1>3. CASE State' = "ESTABLISHED"
  BY <1>1, <1>3 DEF CloseWriteState, RecvIInv, readVars, ConnTypeOK, CurOK, PipeOK,
       Aligned, ChannelOpen, AfterPush, AfterChannel, AfterOverflow, States
<1> QED BY <1>2, <1>3

\* Taking bytes off a chunk that begins where the reader stands.
LEMMA TakesFacts ==
  ASSUME NEW c \in Intervals, NEW n \in Nat, delivered \in 0 .. PeerBytes, c.lo = delivered,
         Takes(c, n)
  PROVE  /\ overflow' \in Intervals /\ delivered' \in 0 .. PeerBytes
         /\ AfterOverflow' = c.hi
         /\ overflow'.lo < overflow'.hi => overflow'.lo = delivered'
<1> DEFINE m == Lesser(n, c.hi - c.lo)
<1>1. c.lo \in 0 .. PeerBytes /\ c.hi \in 0 .. PeerBytes /\ c.lo <= c.hi /\ PeerBytes \in Nat
  BY ConnConstants DEF Intervals
<1>2. m \in Nat /\ m <= c.hi - c.lo BY <1>1 DEF Lesser
<1>3. delivered' = delivered + m /\ overflow' = [lo |-> c.lo + m, hi |-> c.hi] BY DEF Takes
<1> HIDE DEF m
<1>4. overflow'.lo = c.lo + m /\ overflow'.hi = c.hi BY <1>3
<1>5. overflow' \in Intervals /\ delivered' \in 0 .. PeerBytes
  BY <1>1, <1>2, <1>3 DEF Intervals
<1>6. AfterOverflow' = c.hi BY <1>1, <1>2, <1>3, <1>4 DEF AfterOverflow
<1> QED BY <1>1, <1>2, <1>3, <1>4, <1>5, <1>6

\* Read takes bytes from the front of the pipe and closes the gap behind them.
LEMMA AppReadStep == ASSUME RecvIInv, NEW n \in ReadSizes, AppRead(n) PROVE RecvIInv'
<1> USE DEF AppRead
<1>1. UNCHANGED <<recvVars, readChClosed, lifeVars>> BY Zenon
<1>2. n \in Nat \ {0} BY ConnConstants
<1>3. /\ readCh \in Seq(Intervals) /\ Len(readCh) <= ReadChCap /\ ReadChCap \in Nat
      /\ overflow \in Intervals /\ delivered \in 0 .. PeerBytes /\ PeerBytes \in Nat
      /\ cur \in SegType
  BY ConnConstants DEF RecvIInv, ConnTypeOK, CurOK
<1>4. SUFFICES ASSUME TRUE
               PROVE  /\ readCh' \in Seq(Intervals) /\ Len(readCh') <= ReadChCap
                      /\ overflow' \in Intervals /\ delivered' \in 0 .. PeerBytes
                      /\ eof' \in BOOLEAN /\ AfterChannel' = AfterChannel /\ PipeOK'
                      /\ eof' => readChClosed /\ readCh' = <<>> /\ overflow'.lo = overflow'.hi
  <2>1. AfterPush' = AfterPush BY <1>1, <1>4 DEF AfterPush, recvVars
  <2>2. ConnTypeOK' BY <1>1, <1>4 DEF RecvIInv, ConnTypeOK, recvVars, lifeVars
  <2>3. CurOK' BY <1>1 DEF RecvIInv, CurOK, recvVars
  <2>4. Aligned' BY <1>1, <2>1 DEF RecvIInv, Aligned, recvVars, PeerSeqAt
  <2>5. ChannelOpen' BY <1>1, <1>4 DEF RecvIInv, ChannelOpen, recvVars
  <2>6. CleanupOK' BY <1>1 DEF RecvIInv, CleanupOK, recvVars, lifeVars
  <2> QED BY <1>4, <2>2, <2>3, <2>4, <2>5, <2>6 DEF RecvIInv
<1>5. CASE overflow.lo < overflow.hi
  <2>1. Takes(overflow, n) /\ readCh' = readCh /\ eof' = eof /\ ~eof BY <1>5
  <2>2. overflow.lo = delivered /\ AfterOverflow = overflow.hi
    BY <1>5 DEF RecvIInv, PipeOK, AfterOverflow
  <2>3. n \in Nat BY <1>2
  <2>4. /\ overflow' \in Intervals /\ delivered' \in 0 .. PeerBytes
        /\ overflow'.lo < overflow'.hi => overflow'.lo = delivered'
        /\ AfterOverflow' = overflow.hi
    BY <1>3, <2>1, <2>2, <2>3, TakesFacts
  <2>5. AfterOverflow' = AfterOverflow BY <2>2, <2>4
  <2>6. AfterChannel' = AfterChannel BY <2>1, <2>5 DEF AfterChannel
  <2>7. PipeOK' BY <1>1, <2>1, <2>4, <2>5, <2>6 DEF RecvIInv, PipeOK, recvVars
  <2>8. eof' \in BOOLEAN BY <2>1, Zenon DEF RecvIInv, ConnTypeOK
  <2> QED BY <1>3, <2>1, <2>4, <2>6, <2>7, <2>8
<1>6. CASE ~(overflow.lo < overflow.hi) /\ readCh # <<>>
  <2> DEFINE c == Head(readCh)
  <2>1. Takes(c, n) /\ readCh' = Tail(readCh) /\ eof' = eof /\ ~eof BY <1>6
  <2>2. c = readCh[1] /\ c \in Intervals /\ 1 \in 1 .. Len(readCh) BY <1>3, <1>6
  <2>3. c.lo = delivered BY <1>6, <2>2 DEF RecvIInv, PipeOK, AfterOverflow
  <2> HIDE DEF c
  <2>4. n \in Nat BY <1>2
  <2>5. /\ overflow' \in Intervals /\ delivered' \in 0 .. PeerBytes
        /\ overflow'.lo < overflow'.hi => overflow'.lo = delivered'
        /\ AfterOverflow' = c.hi
    BY <1>3, <2>1, <2>2, <2>3, <2>4, TakesFacts
  <2>6. AfterOverflow' = c.hi BY <2>5
  <2>7. /\ readCh' \in Seq(Intervals) /\ Len(readCh') = Len(readCh) - 1
        /\ Len(readCh) \in Nat
        /\ \A i \in 1 .. Len(readCh') : readCh'[i] = readCh[i + 1]
    BY <1>3, <1>6, <2>1
  <2>8. readCh' = <<>> <=> Len(readCh) = 1
    <3>1. \A s \in Seq(Intervals) : s = <<>> <=> Len(s) = 0 OBVIOUS
    <3>2. readCh' = <<>> <=> Len(readCh') = 0 BY <2>7, <3>1
    <3> QED BY <2>7, <3>2
  <2>9. AfterChannel' = AfterChannel
    <3>1. CASE Len(readCh) = 1
      BY <1>6, <2>2, <2>6, <2>8, <3>1 DEF AfterChannel
    <3>2. CASE Len(readCh) # 1
      <4>1. Len(readCh') \in 1 .. Len(readCh') BY <2>2, <2>7, <3>2
      <4>2. readCh'[Len(readCh')] = readCh[Len(readCh)] BY <2>7, <4>1
      <4> QED BY <1>6, <2>8, <3>2, <4>2 DEF AfterChannel
    <3> QED BY <3>1, <3>2
  <2>10. PipeOK'
    <3>1. overflow'.lo < overflow'.hi => overflow'.lo = delivered' BY <2>5
    <3>2. readCh' # <<>> => readCh'[1].lo = AfterOverflow'
      <4>1. SUFFICES ASSUME readCh' # <<>> PROVE readCh'[1].lo = c.hi BY <2>6
      <4>2. 1 \in 1 .. Len(readCh') /\ 1 \in 1 .. (Len(readCh) - 1)
        BY <2>2, <2>7, <2>8, <4>1
      <4>3. readCh[1].hi = readCh[1 + 1].lo BY <4>2 DEF RecvIInv, PipeOK
      <4> QED BY <2>2, <2>7, <4>2, <4>3
    <3>3. ASSUME NEW i \in 1 .. (Len(readCh') - 1) PROVE readCh'[i].hi = readCh'[i + 1].lo
      <4>1. /\ i \in 1 .. Len(readCh') /\ i + 1 \in 1 .. Len(readCh')
            /\ i + 1 \in 1 .. (Len(readCh) - 1)
        BY <2>7, <3>3
      <4> QED BY <2>7, <4>1 DEF RecvIInv, PipeOK
    <3>4. recvPc' = "push" => cur'.lo = AfterChannel'
      BY <1>1, <2>9 DEF RecvIInv, PipeOK, recvVars
    <3> QED BY <3>1, <3>2, <3>3, <3>4 DEF PipeOK
  <2>11. eof' \in BOOLEAN BY <2>1, Zenon DEF RecvIInv, ConnTypeOK
  <2>12. Len(readCh') <= ReadChCap BY <1>3, <2>7
  <2> QED BY <2>1, <2>5, <2>7, <2>9, <2>10, <2>11, <2>12
<1>7. CASE ~(overflow.lo < overflow.hi) /\ readCh = <<>>
  <2>1. readChClosed /\ eof' = TRUE /\ UNCHANGED <<readCh, overflow, delivered>> BY <1>7
  <2>2. AfterChannel' = AfterChannel /\ AfterOverflow' = AfterOverflow
    BY <2>1 DEF AfterChannel, AfterOverflow
  <2>3. PipeOK' BY <1>1, <2>1, <2>2 DEF RecvIInv, PipeOK, recvVars
  <2>4. overflow.lo = overflow.hi BY <1>3, <1>7 DEF Intervals
  <2> QED BY <1>3, <1>7, <2>1, <2>2, <2>3, <2>4
<1> QED BY <1>5, <1>6, <1>7

------------------------------------------------------------------------------
(***************************************************************************)
(* The invariant of the connection, and what follows from it.              *)
(***************************************************************************)

\* A connection that has just been established satisfies the invariant.
LEMMA ConnInitInvariant == ConnInit => ConnIInv
<1> SUFFICES ASSUME ConnInit PROVE ConnIInv OBVIOUS
<1> USE DEF ConnInit
<1>1. SendIInv BY InitInvariant
<1>2. PeerBytes \in Nat /\ ReadChCap \in Nat \ {0} /\ PeerSeqAt(0) \in SeqNums
  BY ConnConstants, PeerSeqMoves
<1>3. NoSeg \in SegType /\ NoSeg.lo <= NoSeg.hi
  BY ConnConstants, SeqModType DEF NoSeg, SegType, SeqNums
<1>4. ConnTypeOK
  <2>1. overflow \in Intervals /\ delivered \in 0 .. PeerBytes BY <1>2 DEF Intervals
  <2>2. readCh \in Seq(Intervals) /\ Len(readCh) <= ReadChCap BY <1>2
  <2> QED BY <1>2, <1>3, <2>1, <2>2 DEF ConnTypeOK, States
<1>5. CurOK BY <1>3 DEF CurOK
<1>6. PipeOK BY DEF PipeOK
<1>7. Aligned BY DEF Aligned, AfterPush, AfterChannel, AfterOverflow
<1>8. ChannelOpen /\ CleanupOK BY DEF ChannelOpen, CleanupOK
<1> QED BY <1>1, <1>4, <1>5, <1>6, <1>7, <1>8 DEF ConnIInv, RecvIInv

\* The invariant is inductive.
LEMMA ConnStepInvariant == ConnIInv /\ [ConnNext]_connVars => ConnIInv'
<1> SUFFICES ASSUME ConnIInv, [ConnNext]_connVars PROVE ConnIInv' OBVIOUS
<1>1. RecvIInv /\ SendIInv /\ SendTypeOK /\ CurOK BY DEF ConnIInv, SendIInv, RecvIInv
<1>2. SendIInv' BY <1>1, ConnStepIsSendStep, StepInvariant
<1> SUFFICES RecvIInv' BY <1>2 DEF ConnIInv
<1>3. ASSUME NEW seg \in HonestSegs, RecvEstablished(seg) PROVE RecvIInv'
  BY <1>1, <1>3, RecvEstablishedStep
<1>4. CASE RecvStep
  BY <1>1, <1>4, RecvAckStep, RecvDataStep, RecvPushStep, RecvFinStep, RecvCloseChStep
  DEF RecvStep
<1>5. ASSUME NEW seg \in HonestSegs,
             RecvFinWait1(seg) \/ RecvFinWait2(seg) \/ RecvFinalAck(seg)
      PROVE  RecvIInv'
  BY <1>1, <1>5, FinWaitStep
<1>6. ASSUME NEW o \in 0 .. (PeerBytes + 1), RecvRST(o) PROVE RecvIInv'
  BY <1>1, <1>6, RecvRSTStep
<1>7. CASE TimeWaitExpires BY <1>1, <1>7, TimeWaitExpiresStep
<1>8. ASSUME NEW n \in ReadSizes, AppRead(n) PROVE RecvIInv' BY <1>1, <1>8, AppReadStep
<1>9. ASSUME NEW n \in WriteSizes, SendOnly(Write(n)) PROVE RecvIInv'
  BY <1>1, <1>9, RecvUnchanged DEF SendOnly
<1>10. CASE \/ SendOnly(TimerExpires) \/ SendOnly(OnRTOIdle) \/ SendOnly(OnRTORetransmit)
            \/ SendOnly(CloseSendFIN) \/ SendOnly(CloseLoad) \/ SendOnly(CloseStore)
  BY <1>1, <1>10, RecvUnchanged DEF SendOnly
<1>11. CASE CloseReadState BY <1>1, <1>11, CloseReadStateStep
<1>12. CASE CloseWriteState BY <1>1, <1>12, CloseWriteStateStep
<1>13. CASE UNCHANGED connVars BY <1>1, <1>13, RecvUnchanged DEF connVars
<1> QED BY <1>3, <1>4, <1>5, <1>6, <1>7, <1>8, <1>9, <1>10, <1>11, <1>12, <1>13
        DEF ConnNext

\* The invariant holds in every reachable state.
LEMMA ConnInvariant == ConnSpec => []ConnIInv
BY ConnInitInvariant, ConnStepInvariant, PTL DEF ConnSpec

\* The whole connection, with its receive loop, its closing states and its
\* unlocked Close, uses the send half only as TCPSend describes, so all the
\* theorems about TCPSend hold of it.
THEOREM ConnImplementsTCPSend == ConnSpec => ImplementsTCPSend
<1>1. ConnInit => SendInit BY DEF ConnInit
<1>2. ConnIInv /\ [ConnNext]_connVars => [SendNext]_sendVars
  BY ConnStepIsSendStep DEF ConnIInv, SendIInv, RecvIInv
<1> QED BY <1>1, <1>2, ConnInvariant, PTL DEF ConnSpec, ImplementsTCPSend, SendSpec

\* Every variable of the receive half keeps its type; readCh never holds more
\* chunks than it has room for, and no more is delivered than was sent.
THEOREM ConnTypeCorrect == ConnSpec => []ConnTypeOK
<1>1. ConnIInv => ConnTypeOK BY DEF ConnIInv, RecvIInv
<1> QED BY <1>1, ConnInvariant, PTL

\* A sequence of three parts, the first and the last of which have at most
\* one element.
LEMMA ThreeParts ==
  ASSUME NEW C, NEW a \in Seq(C), NEW s \in Seq(C), NEW z \in Seq(C),
         Len(a) \in {0, 1}, Len(z) \in {0, 1}
  PROVE  LET p == (a \o s) \o z IN
         /\ Len(p) = Len(a) + Len(s) + Len(z)
         /\ Len(a) = 1 => p[1] = a[1]
         /\ \A i \in 1 .. Len(s) : p[Len(a) + i] = s[i]
         /\ Len(z) = 1 => p[Len(a) + Len(s) + 1] = z[1]
<1> DEFINE q == a \o s
           p == q \o z
<1>1. /\ q \in Seq(C) /\ Len(q) = Len(a) + Len(s) /\ Len(s) \in Nat
      /\ \A i \in 1 .. Len(q) : q[i] = IF i <= Len(a) THEN a[i] ELSE s[i - Len(a)]
  BY ConcatFacts
<1>0. q \in Seq(C) BY <1>1
<1> HIDE DEF q
<1>2. /\ Len(p) = Len(q) + Len(z)
      /\ \A i \in 1 .. Len(p) : p[i] = IF i <= Len(q) THEN q[i] ELSE z[i - Len(q)]
  BY <1>0, ConcatFacts
<1> HIDE DEF p
<1>3. Len(a) = 1 => p[1] = a[1]
  <2>1. SUFFICES ASSUME Len(a) = 1 PROVE p[1] = a[1] OBVIOUS
  <2>2. 1 \in 1 .. Len(p) /\ 1 \in 1 .. Len(q) /\ 1 <= Len(q) BY <1>1, <1>2, <2>1
  <2> QED BY <1>1, <1>2, <2>1, <2>2
<1>4. ASSUME NEW i \in 1 .. Len(s) PROVE p[Len(a) + i] = s[i]
  <2>1. /\ Len(a) + i \in 1 .. Len(p) /\ Len(a) + i \in 1 .. Len(q)
        /\ ~(Len(a) + i <= Len(a)) /\ (Len(a) + i) - Len(a) = i
    BY <1>1, <1>2, SMTT(40)
  <2> QED BY <1>1, <1>2, <2>1
<1>5. Len(z) = 1 => p[Len(a) + Len(s) + 1] = z[1]
  <2>1. SUFFICES ASSUME Len(z) = 1 PROVE p[Len(q) + 1] = z[1] BY <1>1
  <2>2. Len(q) + 1 \in 1 .. Len(p) /\ ~(Len(q) + 1 <= Len(q)) /\ (Len(q) + 1) - Len(q) = 1
    BY <1>1, <1>2, <2>1
  <2> QED BY <1>2, <2>2
<1> QED BY <1>1, <1>2, <1>3, <1>4, <1>5 DEF p, q

\* InPipe, seen from its ends.
LEMMA InPipeFacts ==
  ASSUME RecvIInv
  PROVE  /\ Received = AfterPush
         /\ InPipe # <<>> => InPipe[1].lo = delivered
         /\ \A i \in 1 .. (Len(InPipe) - 1) : InPipe[i].hi = InPipe[i + 1].lo
         /\ InPipe = <<>> <=> ~(overflow.lo < overflow.hi) /\ readCh = <<>> /\ recvPc # "push"
<1> DEFINE c == [lo |-> cur.lo, hi |-> cur.hi]
           a == IF overflow.lo < overflow.hi THEN <<overflow>> ELSE <<>>
           z == IF recvPc = "push" THEN <<c>> ELSE <<>>
           n == Len(readCh)
<1>1. readCh \in Seq(Intervals) /\ n \in Nat /\ overflow \in Intervals
  BY DEF RecvIInv, ConnTypeOK
<1>2. c \in Intervals /\ c.lo = cur.lo /\ c.hi = cur.hi
  BY DEF RecvIInv, CurOK, SegType, Intervals
<1> HIDE DEF c
<1>3. a \in Seq(Intervals) /\ Len(a) \in {0, 1} /\ (Len(a) = 1 <=> overflow.lo < overflow.hi)
      /\ (Len(a) = 1 => a[1] = overflow)
  BY <1>1
<1>4. z \in Seq(Intervals) /\ Len(z) \in {0, 1} /\ (Len(z) = 1 <=> recvPc = "push")
      /\ (Len(z) = 1 => z[1] = c)
  BY <1>2
<1>5. InPipe = (a \o readCh) \o z BY DEF InPipe, c
<1> HIDE DEF a, z
<1>6. InPipe \in Seq(Intervals) BY <1>1, <1>3, <1>4, <1>5
<1>7. /\ Len(InPipe) = Len(a) + n + Len(z)
      /\ Len(a) = 1 => InPipe[1] = overflow
      /\ \A i \in 1 .. n : InPipe[Len(a) + i] = readCh[i]
      /\ Len(z) = 1 => InPipe[Len(a) + n + 1] = c
  BY <1>1, <1>3, <1>4, <1>5, ThreeParts
<1>8. n = 0 <=> readCh = <<>> BY <1>1
<1>9. Len(InPipe) = 0 <=> InPipe = <<>> BY <1>6
<1>10. /\ Len(a) = 1 => overflow.lo = delivered /\ AfterOverflow = overflow.hi
       /\ Len(a) = 0 => AfterOverflow = delivered
       /\ n # 0 => readCh[1].lo = AfterOverflow /\ AfterChannel = readCh[n].hi
       /\ n = 0 => AfterChannel = AfterOverflow
       /\ \A i \in 1 .. (n - 1) : readCh[i].hi = readCh[i + 1].lo
       /\ Len(z) = 1 => c.lo = AfterChannel /\ AfterPush = c.hi
       /\ Len(z) = 0 => AfterPush = AfterChannel
  <2>1. Len(a) = 0 => ~(overflow.lo < overflow.hi) BY <1>3
  <2>2. Len(z) = 0 => recvPc # "push" BY <1>4
  <2> QED BY <1>2, <1>3, <1>4, <1>8, <2>1, <2>2
          DEF RecvIInv, PipeOK, AfterOverflow, AfterChannel, AfterPush
<1>11. InPipe # <<>> => InPipe[1].lo = delivered
  <2>1. CASE Len(a) = 1 BY <1>7, <1>10, <2>1
  <2>2. CASE Len(a) = 0 /\ n # 0
    <3>1. 1 \in 1 .. n /\ Len(a) + 1 = 1 BY <1>1, <2>2
    <3> QED BY <1>7, <1>10, <2>2, <3>1
  <2>3. CASE Len(a) = 0 /\ n = 0 /\ Len(z) = 1 BY <1>7, <1>10, <2>3
  <2> QED BY <1>3, <1>4, <1>7, <1>9, <2>1, <2>2, <2>3
<1>12. ASSUME NEW i \in 1 .. (Len(InPipe) - 1) PROVE InPipe[i].hi = InPipe[i + 1].lo
  <2>1. PICK k \in Int, e \in Int :
          k = Len(a) /\ e = Len(z) /\ 0 <= k /\ k <= 1 /\ 0 <= e /\ e <= 1
    <3>1. \A x \in {0, 1} : x \in Int /\ 0 <= x /\ x <= 1 OBVIOUS
    <3> QED BY <1>3, <1>4, <3>1, Zenon
  <2>2. i \in Int /\ 1 <= i /\ i <= (k + n + e) - 1 /\ n \in Nat BY <1>1, <1>7, <2>1
  <2> HIDE DEF n
  <2>3. CASE k = 1 /\ i = 1
    <3>1. CASE n # 0
      <4>1. 1 \in 1 .. n /\ i + 1 = k + 1 BY <2>2, <2>3, <3>1
      <4> QED BY <1>7, <1>10, <2>1, <2>3, <3>1, <4>1
    <3>2. CASE n = 0
      <4>1. e = 1 /\ i + 1 = k + n + 1 BY <2>1, <2>2, <2>3, <3>2
      <4> QED BY <1>7, <1>10, <2>1, <2>3, <3>2, <4>1
    <3> QED BY <3>1, <3>2
  <2>4. CASE i > k
    <3> DEFINE j == i - k
    <3>1. j \in 1 .. n /\ i = k + j /\ j \in Int BY <2>1, <2>2, <2>4
    <3> HIDE DEF j
    <3>2. CASE j < n
      <4>1. j \in 1 .. (n - 1) /\ j + 1 \in 1 .. n /\ i + 1 = k + (j + 1)
        BY <2>2, <3>1, <3>2
      <4> QED BY <1>7, <1>10, <2>1, <3>1, <4>1
    <3>3. CASE j = n
      <4>1. e = 1 /\ i + 1 = k + n + 1 /\ n # 0 BY <2>1, <2>2, <3>1, <3>3
      <4> QED BY <1>7, <1>10, <2>1, <3>1, <3>3, <4>1
    <3> QED BY <2>2, <3>1, <3>2, <3>3
  <2>5. i > k \/ (k = 1 /\ i = 1) BY <2>1, <2>2
  <2> QED BY <2>3, <2>4, <2>5
<1>13. Received = AfterPush
  <2>1. CASE Len(z) = 1
    <3>1. Len(InPipe) = Len(a) + n + 1 /\ InPipe # <<>> BY <1>1, <1>3, <1>7, <1>9, <2>1
    <3> QED BY <1>7, <1>10, <2>1, <3>1 DEF Received
  <2>2. CASE Len(z) = 0 /\ n # 0
    <3>1. Len(InPipe) = Len(a) + n /\ InPipe # <<>> /\ n \in 1 .. n
      BY <1>1, <1>3, <1>7, <1>9, <2>2
    <3> QED BY <1>7, <1>10, <2>2, <3>1 DEF Received
  <2>3. CASE Len(z) = 0 /\ n = 0 /\ Len(a) = 1
    <3>1. Len(InPipe) = 1 /\ InPipe # <<>> BY <1>7, <1>9, <2>3
    <3> QED BY <1>7, <1>10, <2>3, <3>1 DEF Received
  <2>4. CASE Len(z) = 0 /\ n = 0 /\ Len(a) = 0
    <3>1. InPipe = <<>> BY <1>7, <1>9, <2>4
    <3> QED BY <1>10, <2>4, <3>1 DEF Received
  <2> QED BY <1>3, <1>4, <2>1, <2>2, <2>3, <2>4
<1>14. InPipe = <<>> <=> ~(overflow.lo < overflow.hi) /\ readCh = <<>> /\ recvPc # "push"
  BY <1>1, <1>3, <1>4, <1>7, <1>8, <1>9
<1> QED BY <1>11, <1>12, <1>13, <1>14

\* The application reads the peer's bytes in order and each once, and while
\* the connection is ESTABLISHED RCV.NXT is the first byte not taken yet:
\* whatever segments are lost, repeated or reordered, however Read cuts the
\* chunks, and although Close writes State without a lock.
THEOREM AlwaysDeliveredInOrder == ConnSpec => []DeliveredInOrder
<1>1. ConnIInv => DeliveredInOrder
  BY InPipeFacts DEF ConnIInv, RecvIInv, Aligned, DeliveredInOrder
<1> QED BY <1>1, ConnInvariant, PTL

\* handleSegment never sends on a closed readCh (which would panic), and Read
\* reports the end only when everything taken has been read.
THEOREM ChannelAlwaysDisciplined == ConnSpec => []ChannelDiscipline
<1>1. ConnIInv => ChannelDiscipline
  <2>1. SUFFICES ASSUME ConnIInv PROVE ChannelDiscipline OBVIOUS
  <2>2. RecvIInv /\ ChannelOpen BY <2>1 DEF ConnIInv, RecvIInv
  <2>3. eof => ~(overflow.lo < overflow.hi)
    BY <2>2 DEF RecvIInv, ConnTypeOK, ChannelOpen, Intervals
  <2> QED BY <2>2, <2>3, InPipeFacts DEF ChannelOpen, ChannelDiscipline
<1> QED BY <1>1, ConnInvariant, PTL

\* A connection in TIME_WAIT has exactly one goroutine that will remove it,
\* and there is never a second one.
THEOREM AlwaysOneCleanup == ConnSpec => []OneCleanup
<1>1. ConnIInv => OneCleanup BY DEF ConnIInv, RecvIInv, CleanupOK, OneCleanup
<1> QED BY <1>1, ConnInvariant, PTL

=============================================================================
