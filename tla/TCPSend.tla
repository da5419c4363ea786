------------------------------- MODULE TCPSend -------------------------------
(***************************************************************************)
(* The send half of one TCP connection of src/tcp, from the moment the     *)
(* three-way handshake is over: Write, the window-limited pump, the        *)
(* retransmission queue and its timer, acknowledgement processing, the     *)
(* FIN that Close sends, and the teardown of the connection.               *)
(*                                                                         *)
(* Three goroutines touch this state: the application (Write, Close), the  *)
(* receive loop (processAck, abort and removal) and the runtime timer      *)
(* (onRTO).  What runs under c.mu is one action; Close takes no lock, so   *)
(* its transmission of the FIN and the load and the store of               *)
(* c.SendSeqNum++ are three actions.                                       *)
(*                                                                         *)
(* The bytes themselves do not matter, only which byte of the application  *)
(* stream travels under which sequence number.  So a chunk of data is an   *)
(* interval lo..hi-1 of stream offsets, counted from the first byte the    *)
(* application writes.                                                     *)
(***************************************************************************)
EXTENDS SeqNum, Sequences

CONSTANTS
  ISS,            \* our initial send sequence number (generateISN)
  IRS,            \* the sequence number of the peer's SYN
  MSS,            \* c.MSS; 0 makes the pump fall back on defaultMSS
  defaultMSS,
  MaxWindow,      \* largest value of the 16-bit window field
  initialRTO,
  maxRTO,
  PeerSeqs,       \* sequence numbers of the peer's acknowledging segments
  Windows,        \* windows the peer advertises
  WriteSizes,     \* sizes of the application's writes
  MaxBytes,       \* bound on the length of the application's stream
  MaxCallbacks    \* bound on expired timers whose onRTO waits for c.mu

ASSUME SendAssumption ==
  /\ ISS \in SeqNums /\ IRS \in SeqNums
  /\ MSS \in Nat /\ defaultMSS \in Nat \ {0}
  /\ MaxWindow \in Nat /\ MaxWindow + 1 < Half
  /\ initialRTO \in Nat \ {0} /\ maxRTO \in Nat /\ initialRTO <= maxRTO
  /\ PeerSeqs \subseteq SeqNums
  /\ Windows \subseteq 0 .. MaxWindow
  /\ WriteSizes \subseteq Nat
  /\ MaxBytes \in Nat /\ MaxCallbacks \in Nat

VARIABLES
  SendSeqNum,     \* SND.NXT
  SendUnacked,    \* SND.UNA
  SendWindow,     \* SND.WND
  WL1, WL2,       \* SEG.SEQ and SEG.ACK of the last window update
  sendUnsent,     \* written but not yet in a segment: offsets lo..hi-1
  sendQueue,      \* sent but not fully acknowledged segments, oldest first
  rto,            \* current timeout; 0 until the first transmission
  rtoTimer,       \* "nil", "armed", or "fired": expired and not yet reset
  pending,        \* onRTO calls started by an expiry, waiting for c.mu
  closing,        \* progress of Close: "no", "finSent", "loaded", "yes"
  loaded,         \* what Close read from SendSeqNum in SendSeqNum++
  finAt,          \* number of stream bytes in segments when the FIN went out
  torn,           \* abortConnection or removeConnection has run
  out             \* data and FIN segments the last step put on the wire

seqVars   == <<SendSeqNum, SendUnacked, SendWindow, WL1, WL2>>
dataVars  == <<sendUnsent, sendQueue>>
timerVars == <<rto, rtoTimer, pending>>
closeVars == <<closing, loaded, finAt, torn>>
sendVars  == <<seqVars, dataVars, timerVars, closeVars, out>>

Segments == [seqNum : SeqNums, lo : Nat, hi : Nat, fin : BOOLEAN]

mss == IF MSS = 0 THEN defaultMSS ELSE MSS

Lesser(a, b) == IF a <= b THEN a ELSE b

\* The sequence number that byte o of the stream must travel under.
SeqAt(o) == SeqAdd(ISS + 1, o)

Elements(s) == {s[i] : i \in 1 .. Len(s)}

------------------------------------------------------------------------------
SendInit ==
  /\ SendSeqNum = SeqAt(0) /\ SendUnacked = SeqAt(0)
  /\ SendWindow \in Windows
  /\ WL1 = IRS /\ WL2 = 0
  /\ sendUnsent = [lo |-> 0, hi |-> 0]
  /\ sendQueue = <<>>
  /\ rto = 0 /\ rtoTimer = "nil" /\ pending = 0
  /\ closing = "no" /\ loaded = 0 /\ finAt = 0 /\ torn = FALSE
  /\ out = {}

\* Seeded fault: the pump forgets the bytes already in flight.
PumpBytes_IgnoresInFlight(unsent, una, wnd) ==
  Lesser(unsent.hi - unsent.lo, wnd)

\* How many of the unsent bytes the pump moves into segments.  Every chunk
\* it sends raises the bytes in flight by its size, so the loop stops when
\* the buffer is empty or the window is full.
PumpBytes(unsent, una, wnd) ==
  LET inFlight == SeqSub(SendSeqNum, una) IN
  IF inFlight >= wnd THEN 0
  ELSE Lesser(unsent.hi - unsent.lo, wnd - inFlight)

\* Seeded fault: the last chunk is not limited to what remains.
Chunks_FullSize(unsent, n) ==
  [i \in 1 .. ((n + mss - 1) \div mss) |->
     [seqNum |-> SeqAdd(SendSeqNum, (i - 1) * mss),
      lo |-> unsent.lo + (i - 1) * mss, hi |-> unsent.lo + i * mss,
      fin |-> FALSE]]

\* Seeded fault: SND.NXT is advanced once after the loop, not per chunk.
Chunks_OneSeq(unsent, n) ==
  [i \in 1 .. ((n + mss - 1) \div mss) |->
     [seqNum |-> SendSeqNum,
      lo |-> unsent.lo + (i - 1) * mss,
      hi |-> unsent.lo + Lesser(i * mss, n), fin |-> FALSE]]

\* The segments the pump cuts n bytes into: all of size mss but the last.
Chunks(unsent, n) ==
  [i \in 1 .. ((n + mss - 1) \div mss) |->
     [seqNum |-> SeqAdd(SendSeqNum, (i - 1) * mss),
      lo     |-> unsent.lo + (i - 1) * mss,
      hi     |-> unsent.lo + Lesser(i * mss, n),
      fin    |-> FALSE]]

\* startRTOIfIdleLocked / restartRTOLocked: a zero rto means never used.
UsedRTO(r) == IF r = 0 THEN initialRTO ELSE r

\* pumpSendLocked, run at the end of a step that has already made the buffer,
\* the queue, SND.UNA, the window, the timer and rto what the arguments say.
pumpSendLocked(unsent, queue, una, wnd, timer, r) ==
  LET n == PumpBytes(unsent, una, wnd)
      starts == n > 0 /\ timer = "nil"
  IN /\ sendUnsent' = [unsent EXCEPT !.lo = @ + n]
     /\ sendQueue' = queue \o Chunks(unsent, n)
     /\ SendSeqNum' = SeqAdd(SendSeqNum, n)
     /\ out' = Elements(Chunks(unsent, n))
     /\ rtoTimer' = IF starts THEN "armed" ELSE timer
     /\ rto' = IF starts THEN UsedRTO(r) ELSE r

\* The application writes n bytes.  main.go closes the connection only after
\* its last write.  Write looks at no connection state: it also runs after
\* an abort.
Write(n) ==
  /\ closing = "no"
  /\ sendUnsent.hi + n <= MaxBytes
  /\ pumpSendLocked([sendUnsent EXCEPT !.hi = @ + n], sendQueue, SendUnacked,
                    SendWindow, rtoTimer, rto)
  /\ UNCHANGED <<SendUnacked, SendWindow, WL1, WL2, pending, closeVars>>

\* Seeded fault: the drain compares the start of a segment, not its end.
FullyAcked_ByStart(s, ack) == seqLE(s.seqNum, ack)

\* Segments of the queue that an acknowledgement number covers completely.
FullyAcked(s, ack) == seqLE(SeqAdd(s.seqNum, s.hi - s.lo), ack)

\* The drain loop stops at the first segment that is not fully acknowledged;
\* k is the number of segments it removes.
Drains(k, ack) ==
  /\ \A i \in 1 .. k : FullyAcked(sendQueue[i], ack)
  /\ k < Len(sendQueue) => ~FullyAcked(sendQueue[k + 1], ack)

\* Only a segment at least as fresh as the last update may set the window.
WindowIsFresh(seg) ==
  seqLT(WL1, seg.seq) \/ (WL1 = seg.seq /\ seqLE(WL2, seg.ack))

AckIsNew(ack) == ~seqGT(ack, SendSeqNum) /\ seqGT(ack, SendUnacked)

\* processAck, new acknowledgement: advance SND.UNA, drain the queue, stop
\* or restart the timer, take over the window, send what now fits.
ProcessNewAck(seg) ==
  /\ ~torn
  /\ AckIsNew(seg.ack)
  /\ SendUnacked' = seg.ack
  /\ IF WindowIsFresh(seg)
     THEN SendWindow' = seg.wnd /\ WL1' = seg.seq /\ WL2' = seg.ack
     ELSE UNCHANGED <<SendWindow, WL1, WL2>>
  /\ \E k \in 0 .. Len(sendQueue) :
       /\ Drains(k, seg.ack)
       /\ LET queue == SubSeq(sendQueue, k + 1, Len(sendQueue)) IN
          pumpSendLocked(sendUnsent, queue, seg.ack, SendWindow',
            IF queue = <<>> THEN "nil" ELSE "armed",
            IF queue = <<>> THEN initialRTO ELSE UsedRTO(rto))
  /\ UNCHANGED <<pending, closeVars>>

\* processAck, old or duplicate acknowledgement, or one for data never sent:
\* nothing of the send half changes.  (The challenge ACK that answers the
\* latter carries no stream data.)
ProcessOtherAck(seg) ==
  /\ ~torn
  /\ ~AckIsNew(seg.ack)
  /\ out' = {}
  /\ UNCHANGED <<seqVars, dataVars, timerVars, closeVars>>

PeerAcks == [seq : PeerSeqs, ack : SeqNums, wnd : Windows]

\* The runtime timer expires and starts onRTO in a goroutine of its own.
TimerExpires ==
  /\ rtoTimer = "armed" /\ pending < MaxCallbacks
  /\ rtoTimer' = "fired" /\ pending' = pending + 1
  /\ out' = {}
  /\ UNCHANGED <<seqVars, dataVars, rto, closeVars>>

\* Seeded fault: onRTO doubles the timeout before it looks at the queue.
OnRTOIdle_BacksOff ==
  /\ pending > 0 /\ sendQueue = <<>>
  /\ pending' = pending - 1
  /\ rto' = Lesser(rto * 2, maxRTO)
  /\ out' = {}
  /\ UNCHANGED <<seqVars, dataVars, rtoTimer, closeVars>>

\* onRTO gets c.mu after an ACK drained the queue: nothing to do.
OnRTOIdle ==
  /\ pending > 0 /\ sendQueue = <<>>
  /\ pending' = pending - 1
  /\ out' = {}
  /\ UNCHANGED <<seqVars, dataVars, rto, rtoTimer, closeVars>>

\* Seeded faults in onRTO: the cap on the timeout is missing; the timer is
\* not reset; the segment is resent under SND.NXT, not under its own number.
OnRTO_Faulty(newRTO, newTimer, seqNum) ==
  /\ pending > 0 /\ sendQueue # <<>> /\ rtoTimer # "nil"
  /\ pending' = pending - 1
  /\ rto' = newRTO /\ rtoTimer' = newTimer
  /\ out' = {[Head(sendQueue) EXCEPT !.seqNum = seqNum]}
  /\ UNCHANGED <<seqVars, dataVars, closeVars>>

OnRTORetransmit_NoCap ==
  OnRTO_Faulty(rto * 2, "armed", Head(sendQueue).seqNum)

OnRTORetransmit_NoReset ==
  OnRTO_Faulty(Lesser(rto * 2, maxRTO), rtoTimer, Head(sendQueue).seqNum)

OnRTORetransmit_AtSndNxt ==
  OnRTO_Faulty(Lesser(rto * 2, maxRTO), "armed", SendSeqNum)

\* onRTO retransmits the head of the queue, backs off and resets the timer
\* (a nil rtoTimer would be a nil dereference: the step needs a timer).
OnRTORetransmit ==
  /\ pending > 0 /\ sendQueue # <<>> /\ rtoTimer # "nil"
  /\ pending' = pending - 1
  /\ rto' = Lesser(rto * 2, maxRTO)
  /\ out' = {Head(sendQueue)}
  /\ rtoTimer' = "armed"
  /\ UNCHANGED <<seqVars, dataVars, closeVars>>

\* Close, which holds no lock: the FIN goes out at SND.NXT ...
CloseSendFIN ==
  /\ closing = "no"
  /\ closing' = "finSent" /\ finAt' = sendUnsent.lo
  /\ out' = {[seqNum |-> SendSeqNum, lo |-> sendUnsent.lo,
              hi |-> sendUnsent.lo, fin |-> TRUE]}
  /\ UNCHANGED <<seqVars, dataVars, timerVars, loaded, torn>>

\* ... then c.SendSeqNum++ reads ...
CloseLoad ==
  /\ closing = "finSent"
  /\ closing' = "loaded" /\ loaded' = SendSeqNum
  /\ out' = {}
  /\ UNCHANGED <<seqVars, dataVars, timerVars, finAt, torn>>

\* ... and writes SND.NXT back.
CloseStore ==
  /\ closing = "loaded"
  /\ closing' = "yes" /\ SendSeqNum' = SeqAdd(loaded, 1)
  /\ out' = {}
  /\ UNCHANGED <<SendUnacked, SendWindow, WL1, WL2, dataVars, timerVars,
                 loaded, finAt, torn>>

\* The part of abortConnection and of removeConnection under c.mu that
\* concerns the send half: stop the timer, drop everything buffered.
Teardown ==
  /\ torn' = TRUE
  /\ sendQueue' = <<>> /\ sendUnsent' = [sendUnsent EXCEPT !.lo = sendUnsent.hi]
  /\ rtoTimer' = "nil" /\ rto' = initialRTO
  /\ out' = {}
  /\ UNCHANGED <<seqVars, pending, closing, loaded, finAt>>

SendNext ==
  \/ \E n \in WriteSizes : Write(n)
  \/ \E seg \in PeerAcks : ProcessNewAck(seg)
  \/ \E seg \in PeerAcks : ProcessOtherAck(seg)
  \/ TimerExpires
  \/ OnRTOIdle
  \/ OnRTORetransmit
  \/ CloseSendFIN
  \/ CloseLoad
  \/ CloseStore
  \/ Teardown

SendSpec == SendInit /\ [][SendNext]_sendVars
------------------------------------------------------------------------------
(***************************************************************************)
(* Properties.                                                             *)
(***************************************************************************)

\* The types of the variables.
SendTypeOK ==
  /\ SendSeqNum \in SeqNums /\ SendUnacked \in SeqNums
  /\ SendWindow \in 0 .. MaxWindow
  /\ WL1 \in SeqNums /\ WL2 \in SeqNums
  /\ sendUnsent \in [lo : Nat, hi : Nat] /\ sendUnsent.lo <= sendUnsent.hi
  /\ sendQueue \in Seq(Segments)
  /\ rto \in 0 .. maxRTO
  /\ rtoTimer \in {"nil", "armed", "fired"}
  /\ pending \in Nat
  /\ closing \in {"no", "finSent", "loaded", "yes"}
  /\ loaded \in SeqNums /\ finAt \in Nat /\ torn \in BOOLEAN
  /\ out \subseteq Segments

\* The FIN, if any, went out with nothing left to send, and the connection
\* has not been torn down.
Clean == ~torn /\ (closing # "no" => finAt = sendUnsent.hi)

FinCount == IF closing = "yes" THEN 1 ELSE 0

\* SND.NXT and SND.UNA as unwrapped offsets into the stream (the FIN counts
\* as one position).
NxtOffset == sendUnsent.lo + FinCount
UnaOffset == NxtOffset - SeqSub(SendSeqNum, SendUnacked)

\* The retransmission queue is the stream cut into consecutive non-empty
\* segments of at most mss bytes that end where the unsent bytes begin:
\* whatever the interleaving of writes, acknowledgements and an unlocked
\* Close, pump and drain neither lose, duplicate nor reorder bytes.
QueueTilesStream ==
  /\ \A i \in 1 .. Len(sendQueue) :
       /\ sendQueue[i].lo < sendQueue[i].hi
       /\ sendQueue[i].hi - sendQueue[i].lo <= mss
       /\ ~sendQueue[i].fin
  /\ \A i \in 1 .. (Len(sendQueue) - 1) : sendQueue[i].hi = sendQueue[i + 1].lo
  /\ sendQueue # <<>> => sendQueue[Len(sendQueue)].hi = sendUnsent.lo

\* Every byte keeps its sequence number: the queued segments and SND.NXT are
\* where the stream says, also across the wrap of the sequence space.
SeqPlacement ==
  Clean =>
    /\ SendSeqNum = SeqAt(NxtOffset)
    /\ closing = "loaded" => loaded = SendSeqNum
    /\ \A i \in 1 .. Len(sendQueue) :
         sendQueue[i].seqNum = SeqAt(sendQueue[i].lo)

\* No byte is dropped before it is acknowledged, and none is kept after: no
\* more than a window (and the FIN) is in flight, and SND.UNA lies in the
\* head of the queue, whatever acknowledgement numbers the peer makes up.
UnackedRetained ==
  Clean =>
    /\ SeqSub(SendSeqNum, SendUnacked) <= MaxWindow + FinCount
    /\ 0 <= UnaOffset
    /\ IF sendQueue = <<>>
       THEN UnaOffset >= sendUnsent.lo
       ELSE sendQueue[1].lo <= UnaOffset /\ UnaOffset < sendQueue[1].hi

\* The retransmission timer exists exactly while something is unacknowledged
\* (so onRTO never resets a nil timer), and an expired timer always has an
\* onRTO on its way that will reset it: retransmission cannot stall.
TimerMatchesQueue ==
  /\ sendQueue # <<>> <=> rtoTimer # "nil"
  /\ rtoTimer = "fired" => pending > 0

\* The timeout stays between its bounds while in use, and every backoff is
\* forgotten once the queue is empty, even when a late onRTO of an already
\* stopped timer runs after that.
BackoffBounded ==
  IF sendQueue = <<>> THEN rto \in {0, initialRTO}
  ELSE initialRTO <= rto /\ rto <= maxRTO

\* What goes on the wire carries the bytes its sequence number stands for,
\* is not longer than mss, is not acknowledged yet, and the FIN comes after
\* the last byte of the stream.
WireSound ==
  Clean =>
    \A s \in out :
      /\ s.seqNum = SeqAt(s.lo)
      /\ s.hi - s.lo <= mss /\ s.hi <= sendUnsent.lo
      /\ IF s.fin THEN s.lo = sendUnsent.hi ELSE UnaOffset < s.hi

\* The send half with its wrapping sequence numbers, queue and timer
\* implements the sliding window over an unbounded stream, until it is torn
\* down or the application closes it with bytes still unsent.
Window == INSTANCE SlidingWindow
  WITH una <- UnaOffset, nxt <- NxtOffset, written <- sendUnsent.hi,
       wnd <- SendWindow, fin <- (closing = "yes"), over <- ~Clean
ImplementsSlidingWindow == Window!Spec

\* What Write's comment promises without condition: a byte that does not
\* fit into the window waits in the buffer and is sent later, under the
\* sequence number that continues the stream.
BufferedBytesKeepTheirPlace ==
  ~torn => \A s \in out : s.seqNum = SeqAt(s.lo)

=============================================================================
