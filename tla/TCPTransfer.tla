----------------------------- MODULE TCPTransfer -----------------------------
(***************************************************************************)
(* One established connection sending to a peer over a network that loses, *)
(* duplicates and reorders segments in both directions.  The send half is  *)
(* TCPSend (src/tcp/connection.go, processAck of src/tcp/stack.go); the    *)
(* network and the peer are external: the peer is a TCP receiver that      *)
(* takes the bytes it expects next by their sequence numbers, keeps no     *)
(* out-of-order data and acknowledges every segment it gets.               *)
(*                                                                         *)
(* The connection stays ESTABLISHED: processAck runs for every             *)
(* acknowledgement that arrives, and nobody closes or aborts.              *)
(***************************************************************************)
EXTENDS TCPSend

CONSTANT PeerSeq          \* the peer sends no data: all its ACKs have this SEQ

ASSUME PeerSeqAssumption == PeerSeq \in PeerSeqs

\* The network may keep a segment for ever, so the stream is shorter than a
\* turn of the sequence space: with TCP's maximum segment lifetime no old
\* segment or acknowledgement meets a byte that is one turn younger.
ASSUME TurnAssumption == MaxBytes < SeqMod

VARIABLES
  toPeer,                 \* segments on their way to the peer
  toUs,                   \* acknowledgements on their way to us
  peerBuf                 \* the bytes the peer has taken, as stream offsets

netVars == <<toPeer, toUs, peerBuf>>
transferVars == <<sendVars, netVars>>

TransferInit ==
  /\ SendInit
  /\ toPeer = {} /\ toUs = {} /\ peerBuf = <<>>

\* A step of our goroutines; what it sends joins what is under way.
Sends(A) == A /\ toPeer' = toPeer \cup out' /\ UNCHANGED <<toUs, peerBuf>>

\* The position of segment s relative to the byte the peer expects next,
\* which is all the peer can see of it: a sequence number and a length.
Skip(s) == SeqSub(SeqAt(Len(peerBuf)), s.seqNum)

\* Has segment s the byte that the peer expects next?
IsNext(s) == Skip(s) < s.hi - s.lo

\* The peer receives s, takes the new part of it, if it continues the stream,
\* and acknowledges what it has.  The network may keep a copy of s.
PeerReceives(s, kept, wnd) ==
  /\ s \in toPeer
  /\ peerBuf' = IF IsNext(s)
                THEN peerBuf \o [i \in 1 .. (s.hi - s.lo) - Skip(s) |->
                                   s.lo + Skip(s) + i - 1]
                ELSE peerBuf
  /\ toPeer' = IF kept THEN toPeer ELSE toPeer \ {s}
  /\ toUs' = toUs \cup {[seq |-> PeerSeq, ack |-> SeqAt(Len(peerBuf')), wnd |-> wnd]}
  /\ UNCHANGED sendVars

\* An acknowledgement arrives; the network may keep a copy of it.
AckArrives(seg, kept) ==
  /\ seg \in toUs
  /\ ProcessNewAck(seg) \/ ProcessOtherAck(seg)
  /\ toPeer' = toPeer \cup out'
  /\ toUs' = IF kept THEN toUs ELSE toUs \ {seg}
  /\ UNCHANGED peerBuf

LoseSegment(s) ==
  s \in toPeer /\ toPeer' = toPeer \ {s} /\ UNCHANGED <<sendVars, toUs, peerBuf>>

LoseAck(seg) ==
  seg \in toUs /\ toUs' = toUs \ {seg} /\ UNCHANGED <<sendVars, toPeer, peerBuf>>

AppWrites == \E n \in WriteSizes : Sends(Write(n))
Expiry == Sends(TimerExpires)
RunsOnRTO == Sends(OnRTOIdle) \/ Sends(OnRTORetransmit)

TransferNext ==
  \/ AppWrites
  \/ Expiry
  \/ RunsOnRTO
  \/ \E s \in toPeer, kept \in BOOLEAN, wnd \in Windows : PeerReceives(s, kept, wnd)
  \/ \E seg \in toUs, kept \in BOOLEAN : AckArrives(seg, kept)
  \/ \E s \in toPeer : LoseSegment(s)
  \/ \E seg \in toUs : LoseAck(seg)

\* Progress the network owes us: a byte the peer waits for, if sent again
\* and again, is received in the end, and so is a new acknowledgement.
NextByteArrives ==
  \E s \in toPeer, wnd \in Windows : IsNext(s) /\ PeerReceives(s, FALSE, wnd)
\* A segment the peer has already taken, resent again and again because its
\* acknowledgement was lost, is received and acknowledged in the end.
OldSegmentArrives ==
  \E s \in toPeer, wnd \in Windows : ~IsNext(s) /\ PeerReceives(s, FALSE, wnd)
NewAckArrives ==
  \E seg \in toUs : AckIsNew(seg.ack) /\ AckArrives(seg, FALSE)

\* The runtime runs expired timers and their callbacks; the network loses
\* much, but not everything for ever.
TransferFairness ==
  /\ WF_transferVars(Expiry)
  /\ WF_transferVars(RunsOnRTO)
  /\ SF_transferVars(NextByteArrives)
  /\ SF_transferVars(OldSegmentArrives)
  /\ SF_transferVars(NewAckArrives)

TransferSpec ==
  TransferInit /\ [][TransferNext]_transferVars /\ TransferFairness

------------------------------------------------------------------------------
\* What the peer has read is the written stream, byte for byte: no loss,
\* duplication, reordering or retransmission across the wrap of the sequence
\* space hands it a wrong byte; and nothing counts as acknowledged that the
\* peer has not taken.
PeerReadsTheStream ==
  /\ \A i \in 1 .. Len(peerBuf) : peerBuf[i] = i - 1
  /\ UnaOffset <= Len(peerBuf) /\ Len(peerBuf) <= sendUnsent.lo

\* Every byte the application has written is acknowledged in the end,
\* although any transmission and any acknowledgement may get lost, provided
\* the peer never closes its window (there is no zero-window probe).
EverythingIsAcked == []<>(UnaOffset = sendUnsent.hi)

=============================================================================
