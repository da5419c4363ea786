---------------------------- MODULE TCPConnection ----------------------------
(***************************************************************************)
(* A whole TCP connection of src/tcp after its handshake: the send half    *)
(* (TCPSend), the receive half, and the closing states.                    *)
(*                                                                         *)
(* Four kinds of goroutine share it.  The receive loop runs handleSegment  *)
(* for one segment at a time; the application reads, writes and finally    *)
(* calls Close; runtime timers run onRTO; timeWaitCleanup removes the      *)
(* connection.  State and RecvSeqNum are written without c.mu by           *)
(* handleSegment and Close, so the steps of handleSegment in ESTABLISHED   *)
(* and those of Close are separate actions.  In the states after Close the *)
(* application no longer touches the connection and a handler is one       *)
(* action.                                                                 *)
(*                                                                         *)
(* The peer is external.  It is honest, but the network loses, duplicates  *)
(* and reorders: at any time any segment that such a peer may have sent    *)
(* can arrive.  Its stream has PeerBytes bytes and ends with a FIN; data   *)
(* is again represented by intervals of stream offsets.                    *)
(***************************************************************************)
EXTENDS TCPSend

CONSTANTS
  PeerBytes,     \* length of the peer's stream
  ReadSizes,     \* sizes of the buffers the application passes to Read
  ReadChCap      \* capacity of readCh (16 in the code)

\* The peer acknowledges with the sequence numbers of its own stream.
ASSUME ConnAssumption ==
  /\ PeerBytes \in Nat /\ ReadSizes \subseteq Nat \ {0} /\ ReadChCap \in Nat \ {0}
  /\ \A o \in 0 .. PeerBytes : SeqAdd(IRS + 1, o) \in PeerSeqs

\* The network here keeps segments for ever, so its peer sends less than a
\* whole turn of the sequence space: with TCP's maximum segment lifetime no
\* segment meets a byte that is one turn younger.
ASSUME LifetimeAssumption == PeerBytes < SeqMod

VARIABLES
  State,
  RecvSeqNum,    \* RCV.NXT
  readCh,        \* received chunks, oldest first
  readChClosed,
  overflow,      \* rest of a chunk that did not fit the reader's buffer
  delivered,     \* bytes that Read has returned so far
  eof,           \* Read has returned io.EOF
  recvPc,        \* where handleSegment is: "idle" between two segments
  cur,           \* the segment handleSegment works on
  closeSaw,      \* what Close read from State; "none" before, "done" after
  timeWaits,     \* sleeping timeWaitCleanup goroutines
  inTable        \* s.connections has the connection

recvVars == <<State, RecvSeqNum, recvPc, cur>>
readVars == <<readCh, readChClosed, overflow, delivered, eof>>
lifeVars == <<closeSaw, timeWaits, inTable>>
connVars == <<sendVars, recvVars, readVars, lifeVars>>

States == {"ESTABLISHED", "FIN_WAIT_1", "FIN_WAIT_2", "CLOSING", "TIME_WAIT",
           "CLOSE_WAIT", "LAST_ACK", "CLOSED"}

\* The peer's byte o travels under this sequence number.
PeerSeqAt(o) == SeqAdd(IRS + 1, o)

Intervals == {c \in [lo : 0 .. PeerBytes, hi : 0 .. PeerBytes] : c.lo <= c.hi}

\* Acknowledgement numbers an honest peer may send: anything in flight, our
\* FIN as soon as it is out, and old ones.
Ackable ==
  {SeqAdd(SendUnacked, d) : d \in 0 .. SeqSub(SendSeqNum, SendUnacked)}
    \cup {SeqAt(0)}
    \cup (IF closing \in {"finSent", "loaded"} THEN {SeqAdd(SendSeqNum, 1)} ELSE {})

\* Segments (other than RST) that may arrive.  The FIN follows the last byte.
PeerSegs ==
  {[lo |-> c.lo, hi |-> c.hi, fin |-> f, hasAck |-> h, ack |-> a, wnd |-> w] :
     c \in Intervals, f \in BOOLEAN, h \in BOOLEAN, a \in Ackable, w \in Windows}

HonestSegs == {seg \in PeerSegs : seg.fin => seg.hi = PeerBytes}

AckOf(seg) == [seq |-> PeerSeqAt(seg.lo), ack |-> seg.ack, wnd |-> seg.wnd]

NoSeg == [lo |-> 0, hi |-> 0, fin |-> FALSE, hasAck |-> FALSE, ack |-> 0, wnd |-> 0]

ConnInit ==
  /\ SendInit
  /\ State = "ESTABLISHED" /\ RecvSeqNum = PeerSeqAt(0)
  /\ readCh = <<>> /\ readChClosed = FALSE
  /\ overflow = [lo |-> 0, hi |-> 0] /\ delivered = 0 /\ eof = FALSE
  /\ recvPc = "idle" /\ cur = NoSeg
  /\ closeSaw = "none" /\ timeWaits = 0 /\ inTable = TRUE

------------------------------------------------------------------------------
(***************************************************************************)
(* The receive loop.                                                       *)
(***************************************************************************)

\* processAck; it answers whether the caller goes on with the segment.
processAck(seg) == ProcessNewAck(AckOf(seg)) \/ ProcessOtherAck(AckOf(seg))
GoesOn(seg) == seg.hasAck /\ ~seqGT(seg.ack, SendSeqNum)

\* handleSegment reads State and finds ESTABLISHED.
RecvEstablished(seg) ==
  /\ recvPc = "idle" /\ inTable /\ State = "ESTABLISHED"
  /\ recvPc' = "ack" /\ cur' = seg
  /\ UNCHANGED <<sendVars, State, RecvSeqNum, readVars, lifeVars>>

RecvAck ==
  /\ recvPc = "ack"
  /\ IF cur.hasAck THEN processAck(cur) ELSE UNCHANGED sendVars
  /\ recvPc' = IF GoesOn(cur) THEN "data" ELSE "idle"
  /\ cur' = IF GoesOn(cur) THEN cur ELSE NoSeg
  /\ UNCHANGED <<State, RecvSeqNum, readVars, lifeVars>>

\* Seeded fault: any data that arrives is taken, in order or not.
RecvData_AnyOrder ==
  /\ recvPc = "data"
  /\ IF cur.lo < cur.hi
     THEN RecvSeqNum' = SeqAdd(RecvSeqNum, cur.hi - cur.lo) /\ recvPc' = "push"
     ELSE RecvSeqNum' = RecvSeqNum /\ recvPc' = "fin"
  /\ UNCHANGED <<sendVars, State, cur, readVars, lifeVars>>

\* Data that continues the stream is acknowledged; anything else is dropped.
RecvData ==
  /\ recvPc = "data"
  /\ IF cur.lo < cur.hi /\ PeerSeqAt(cur.lo) = RecvSeqNum
     THEN RecvSeqNum' = SeqAdd(RecvSeqNum, cur.hi - cur.lo) /\ recvPc' = "push"
     ELSE RecvSeqNum' = RecvSeqNum /\ recvPc' = "fin"
  /\ UNCHANGED <<sendVars, State, cur, readVars, lifeVars>>

\* readCh <- data blocks while the channel is full.
RecvPush ==
  /\ recvPc = "push" /\ Len(readCh) < ReadChCap
  /\ readCh' = Append(readCh, [lo |-> cur.lo, hi |-> cur.hi])
  /\ recvPc' = "fin"
  /\ UNCHANGED <<sendVars, State, RecvSeqNum, cur, readChClosed, overflow,
                 delivered, eof, lifeVars>>

\* Seeded fault: the FIN moves RCV.NXT but not the state.
RecvFin_KeepsState ==
  /\ recvPc = "fin"
  /\ IF cur.fin
     THEN /\ RecvSeqNum' = SeqAdd(RecvSeqNum, 1)
          /\ recvPc' = "closeCh" /\ UNCHANGED <<State, cur>>
     ELSE recvPc' = "idle" /\ cur' = NoSeg /\ UNCHANGED <<State, RecvSeqNum>>
  /\ UNCHANGED <<sendVars, readVars, lifeVars>>

\* A FIN moves the connection to CLOSE_WAIT whatever its sequence number is.
RecvFin ==
  /\ recvPc = "fin"
  /\ IF cur.fin
     THEN /\ RecvSeqNum' = SeqAdd(RecvSeqNum, 1)
          /\ State' = "CLOSE_WAIT"
          /\ recvPc' = "closeCh" /\ UNCHANGED cur
     ELSE recvPc' = "idle" /\ cur' = NoSeg /\ UNCHANGED <<State, RecvSeqNum>>
  /\ UNCHANGED <<sendVars, readVars, lifeVars>>

\* Seeded fault: the reader is not told that the stream has ended.
RecvCloseCh_Forgets ==
  /\ recvPc = "closeCh"
  /\ recvPc' = "idle" /\ cur' = NoSeg
  /\ UNCHANGED <<sendVars, State, RecvSeqNum, readVars, lifeVars>>

RecvCloseCh ==
  /\ recvPc = "closeCh"
  /\ readChClosed' = TRUE
  /\ recvPc' = "idle" /\ cur' = NoSeg
  /\ UNCHANGED <<sendVars, State, RecvSeqNum, readCh, overflow, delivered, eof,
                 lifeVars>>

\* FIN_WAIT_1: a FIN ends in TIME_WAIT; any other segment that passes
\* processAck counts as the acknowledgement of our FIN.  (The branch to
\* CLOSING needs a FIN without ACK, which processAck has already refused.)
RecvFinWait1(seg) ==
  /\ recvPc = "idle" /\ inTable /\ State = "FIN_WAIT_1" /\ seg.hasAck
  /\ processAck(seg)
  /\ IF ~GoesOn(seg) THEN UNCHANGED <<State, RecvSeqNum, timeWaits>>
     ELSE IF seg.fin
     THEN /\ State' = "TIME_WAIT" /\ RecvSeqNum' = SeqAdd(RecvSeqNum, 1)
          /\ timeWaits' = timeWaits + 1
     ELSE State' = "FIN_WAIT_2" /\ UNCHANGED <<RecvSeqNum, timeWaits>>
  /\ UNCHANGED <<recvPc, cur, readVars, closeSaw, inTable>>

\* Seeded fault: a FIN in FIN_WAIT_2 starts the cleanup and stays there.
RecvFinWait2_Stays(seg) ==
  /\ recvPc = "idle" /\ inTable /\ State = "FIN_WAIT_2" /\ seg.fin
  /\ timeWaits < 3
  /\ RecvSeqNum' = SeqAdd(RecvSeqNum, 1) /\ timeWaits' = timeWaits + 1
  /\ UNCHANGED <<sendVars, State, recvPc, cur, readVars, closeSaw, inTable>>

\* FIN_WAIT_2 only waits for the FIN: it does not look at acknowledgements.
RecvFinWait2(seg) ==
  /\ recvPc = "idle" /\ inTable /\ State = "FIN_WAIT_2" /\ seg.fin
  /\ State' = "TIME_WAIT" /\ RecvSeqNum' = SeqAdd(RecvSeqNum, 1)
  /\ timeWaits' = timeWaits + 1
  /\ UNCHANGED <<sendVars, recvPc, cur, readVars, closeSaw, inTable>>

\* CLOSING and LAST_ACK take any acknowledgement for that of our FIN.
RecvFinalAck(seg) ==
  /\ recvPc = "idle" /\ inTable /\ State \in {"CLOSING", "LAST_ACK"} /\ seg.hasAck
  /\ IF State = "CLOSING"
     THEN /\ State' = "TIME_WAIT" /\ timeWaits' = timeWaits + 1
          /\ UNCHANGED <<sendVars, inTable>>
     ELSE /\ State' = "CLOSED" /\ inTable' = FALSE /\ Teardown
          /\ UNCHANGED timeWaits
  /\ UNCHANGED <<RecvSeqNum, recvPc, cur, readVars, closeSaw>>

\* A RST with the expected sequence number: abortConnection.  It is looked
\* for before the state is.  (Any other RST is ignored.)
RecvRST(o) ==
  /\ recvPc = "idle" /\ inTable /\ PeerSeqAt(o) = RecvSeqNum
  /\ State # "CLOSED"
  /\ State' = "CLOSED" /\ Teardown
  /\ readChClosed' = TRUE /\ inTable' = FALSE
  /\ UNCHANGED <<RecvSeqNum, recvPc, cur, readCh, overflow, delivered, eof,
                 closeSaw, timeWaits>>

\* Seeded fault: the connection is removed but its timer is left running.
TimeWaitExpires_LeavesTimer ==
  /\ timeWaits > 0
  /\ timeWaits' = timeWaits - 1
  /\ State' = "CLOSED" /\ inTable' = FALSE
  /\ sendQueue' = <<>> /\ sendUnsent' = [sendUnsent EXCEPT !.lo = sendUnsent.hi]
  /\ torn' = TRUE /\ out' = {}
  /\ UNCHANGED <<seqVars, timerVars, closing, loaded, finAt, RecvSeqNum, recvPc,
                 cur, readVars, closeSaw>>

\* timeWaitCleanup wakes up: State = CLOSED, removeConnection.  One step here:
\* nothing in the connection reacts to a segment that finds it CLOSED.  The
\* table, where the two are seen apart, is TCPStack's.
TimeWaitExpires ==
  /\ timeWaits > 0
  /\ timeWaits' = timeWaits - 1
  /\ State' = "CLOSED" /\ inTable' = FALSE /\ Teardown
  /\ UNCHANGED <<RecvSeqNum, recvPc, cur, readVars, closeSaw>>

------------------------------------------------------------------------------
(***************************************************************************)
(* The application and the timer.                                          *)
(***************************************************************************)

\* Take at most n bytes of chunk c; the rest becomes the overflow.
Takes(c, n) ==
  LET m == Lesser(n, c.hi - c.lo) IN
  /\ delivered' = delivered + m
  /\ overflow' = [lo |-> c.lo + m, hi |-> c.hi]

\* Seeded fault: the rest of a chunk replaces what is still in overflow.
AppRead_SkipsOverflow(n) ==
  /\ closing = "no" /\ readCh # <<>>
  /\ Takes(Head(readCh), n) /\ readCh' = Tail(readCh)
  /\ UNCHANGED <<sendVars, recvVars, readChClosed, eof, lifeVars>>

\* Read drains the overflow, then the channel, then reports the end; it
\* blocks on an empty open channel.
AppRead(n) ==
  /\ closing = "no" /\ ~eof
  /\ IF overflow.lo < overflow.hi
     THEN Takes(overflow, n) /\ UNCHANGED <<readCh, eof>>
     ELSE IF readCh # <<>>
     THEN Takes(Head(readCh), n) /\ readCh' = Tail(readCh) /\ UNCHANGED eof
     ELSE readChClosed /\ eof' = TRUE /\ UNCHANGED <<readCh, overflow, delivered>>
  /\ UNCHANGED <<sendVars, recvVars, readChClosed, lifeVars>>

\* Steps of Write, Close and onRTO that only concern the send half.
SendOnly(A) == A /\ UNCHANGED <<recvVars, readVars, lifeVars>>

\* The end of Close: read State ...
CloseReadState ==
  /\ closing = "yes" /\ closeSaw = "none"
  /\ closeSaw' = State
  /\ UNCHANGED <<sendVars, recvVars, readVars, timeWaits, inTable>>

\* ... and write it.
CloseWriteState ==
  /\ closeSaw \in States
  /\ State' = IF closeSaw = "ESTABLISHED" THEN "FIN_WAIT_1"
              ELSE IF closeSaw = "CLOSE_WAIT" THEN "LAST_ACK" ELSE State
  /\ closeSaw' = "done"
  /\ UNCHANGED <<sendVars, RecvSeqNum, recvPc, cur, readVars, timeWaits, inTable>>

\* What handleSegment does after it has read State.
RecvStep == RecvAck \/ RecvData \/ RecvPush \/ RecvFin \/ RecvCloseCh

ConnNext ==
  \/ \E seg \in HonestSegs : RecvEstablished(seg)
  \/ RecvStep
  \/ \E seg \in HonestSegs : RecvFinWait1(seg)
  \/ \E seg \in HonestSegs : RecvFinWait2(seg)
  \/ \E seg \in HonestSegs : RecvFinalAck(seg)
  \/ \E o \in 0 .. (PeerBytes + 1) : RecvRST(o)
  \/ TimeWaitExpires
  \/ \E n \in ReadSizes : AppRead(n)
  \/ \E n \in WriteSizes : SendOnly(Write(n))
  \/ SendOnly(TimerExpires)
  \/ SendOnly(OnRTOIdle)
  \/ SendOnly(OnRTORetransmit)
  \/ SendOnly(CloseSendFIN)
  \/ SendOnly(CloseLoad)
  \/ SendOnly(CloseStore)
  \/ CloseReadState
  \/ CloseWriteState

ConnSpec == ConnInit /\ [][ConnNext]_connVars

\* The receive loop goes on with a segment it has begun, and the application
\* goes on reading until it closes.
ConnFairSpec ==
  /\ ConnSpec
  /\ WF_connVars(RecvStep)
  /\ WF_connVars(\E n \in ReadSizes : AppRead(n))

------------------------------------------------------------------------------
(***************************************************************************)
(* Properties.                                                             *)
(***************************************************************************)

\* The types of the variables of the receive half.
ConnTypeOK ==
  /\ State \in States /\ RecvSeqNum \in SeqNums
  /\ readCh \in Seq(Intervals) /\ Len(readCh) <= ReadChCap
  /\ readChClosed \in BOOLEAN /\ eof \in BOOLEAN
  /\ overflow \in Intervals /\ delivered \in 0 .. PeerBytes
  /\ recvPc \in {"idle", "ack", "data", "push", "fin", "closeCh"}
  /\ cur.lo <= cur.hi
  /\ closeSaw \in States \cup {"none", "done"}
  /\ timeWaits \in Nat /\ inTable \in BOOLEAN

\* What is on its way from the receive loop to the application.
InPipe ==
  (IF overflow.lo < overflow.hi THEN <<overflow>> ELSE <<>>)
    \o readCh
    \o (IF recvPc = "push" THEN <<[lo |-> cur.lo, hi |-> cur.hi]>> ELSE <<>>)

Received == IF InPipe = <<>> THEN delivered ELSE InPipe[Len(InPipe)].hi

\* The application reads the peer's bytes in order, each once, whatever the
\* network does to the segments and however Read cuts the chunks; and while
\* the connection is ESTABLISHED, RCV.NXT is the first byte not yet taken.
DeliveredInOrder ==
  /\ InPipe # <<>> => InPipe[1].lo = delivered
  /\ \A i \in 1 .. (Len(InPipe) - 1) : InPipe[i].hi = InPipe[i + 1].lo
  /\ State = "ESTABLISHED" => RecvSeqNum = PeerSeqAt(Received)

\* The receive loop never sends on readCh after it was closed (a panic),
\* and the application sees the end only after all that was taken.
ChannelDiscipline ==
  /\ recvPc \in {"data", "push"} => ~readChClosed
  /\ eof => readChClosed /\ InPipe = <<>>

\* A connection in TIME_WAIT has exactly one goroutine that will remove it.
OneCleanup ==
  /\ timeWaits <= 1
  /\ State = "TIME_WAIT" => timeWaits = 1

\* The whole connection uses its send half only as TCPSend describes, so
\* all that is proved of TCPSend holds of it.
ImplementsTCPSend == SendSpec

\* A peer that ends its stream, or resets the connection, never leaves the
\* application hanging in Read.
ReaderIsReleased ==
  (State \in {"CLOSE_WAIT", "CLOSED"}) ~> (eof \/ closing # "no")

\* What TCP_SEQ_NUMBERS.md says of the acknowledgement number we send, which
\* is RecvSeqNum: "I have everything up to" it, the FIN counting as one.
AckMeansReceived ==
  \/ RecvSeqNum = PeerSeqAt(Received)
  \/ RecvSeqNum = PeerSeqAt(PeerBytes + 1) /\ Received = PeerBytes

\* What the mutex is documented to guarantee for State: Close is not undone
\* by the receive loop.
CloseTakesEffect ==
  closeSaw = "done" /\ recvPc = "idle" => State \notin {"ESTABLISHED", "CLOSE_WAIT"}

=============================================================================
