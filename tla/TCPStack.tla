------------------------------ MODULE TCPStack ------------------------------
(***************************************************************************)
(* The connection table of src/tcp/stack.go: how connections are created   *)
(* by a SYN, complete the handshake, reach the application through the     *)
(* listener's accept channel, move through the closing states and leave    *)
(* the table.                                                              *)
(*                                                                         *)
(* One goroutine, recvLoop, handles all segments of all connections; main  *)
(* accepts; each accepted connection has an application goroutine that     *)
(* ends with Close; each connection in TIME_WAIT has a timeWaitCleanup     *)
(* goroutine.  The data of a connection is the subject of TCPConnection    *)
(* and left out here: of a segment only the flags remain, and whether its  *)
(* numbers make the code accept it.                                        *)
(*                                                                         *)
(* A connection object is a number, its key the peer it belongs to: the    *)
(* server has one address and one port with a listener.                    *)
(***************************************************************************)
EXTENDS Integers, Sequences

CONSTANTS
  Peers,        \* remote addresses and ports
  AcceptCap,    \* capacity of the accept channel (16 in the code)
  MaxConns      \* bound on the connection objects ever created

ASSUME StackAssumption ==
  AcceptCap \in Nat \ {0} /\ MaxConns \in Nat /\ 0 \notin Peers

VARIABLES
  used,         \* connection objects created so far
  key,          \* the peer of each connection object
  State,
  connections,  \* s.connections: the connection of a peer, 0 if it has none
  accept,       \* the accept channel
  recv,         \* what recvLoop is in the middle of
  app,          \* the application goroutine of each connection: "none" before
                \* Accept, "serving", a state once Close has read it, "closed"
  cleaners,     \* connections with a sleeping timeWaitCleanup
  removing      \* connections whose timeWaitCleanup is on its way to the table

stackVars == <<used, key, State, connections, accept, recv, app, cleaners, removing>>

ConnIds == 1 .. MaxConns

States == {"SYN_RECEIVED", "ESTABLISHED", "FIN_WAIT_1", "FIN_WAIT_2", "CLOSING",
           "TIME_WAIT", "CLOSE_WAIT", "LAST_ACK", "CLOSED"}

\* valid: SEG.SEQ is RCV.NXT, for a RST; the acknowledgement is not one for
\* data we have not sent, otherwise.
SegmentFlags == [ACK : BOOLEAN, FIN : BOOLEAN, RST : BOOLEAN, valid : BOOLEAN]

NoSegment == [ACK |-> FALSE, FIN |-> FALSE, RST |-> FALSE, valid |-> FALSE]

\* recvLoop waits for the next frame.
Waiting == [at |-> "recvfrom", conn |-> 0, seg |-> NoSegment]

StackInit ==
  /\ used = 0
  /\ key = [c \in ConnIds |-> 0]
  /\ State = [c \in ConnIds |-> "CLOSED"]
  /\ connections = [p \in Peers |-> 0]
  /\ accept = <<>> /\ recv = Waiting
  /\ app = [c \in ConnIds |-> "none"]
  /\ cleaners = {} /\ removing = {}

------------------------------------------------------------------------------
(***************************************************************************)
(* recvLoop: handleRaw, handleSYN and handleSegment.                       *)
(***************************************************************************)

\* A SYN for a peer without a connection: handleSYN.
HandleSYN(p) ==
  /\ recv = Waiting /\ connections[p] = 0 /\ used < MaxConns
  /\ LET c == used + 1 IN
     /\ used' = c
     /\ key' = [key EXCEPT ![c] = p]
     /\ State' = [State EXCEPT ![c] = "SYN_RECEIVED"]
     /\ connections' = [connections EXCEPT ![p] = c]
  /\ UNCHANGED <<accept, recv, app, cleaners, removing>>

\* handleRaw has found connection c for a segment of peer p, in state st.
Handles(p, c, st) ==
  recv = Waiting /\ connections[p] # 0 /\ c = connections[p] /\ State[c] = st

\* The entry of c's key goes, whatever connection it leads to by now.
Delete(c) == connections' = [connections EXCEPT ![key[c]] = 0]

\* recvLoop has closed connection c and goes on to its entry in the table.
Closes(c) ==
  /\ State' = [State EXCEPT ![c] = "CLOSED"]
  /\ recv' = [at |-> "delete", conn |-> c, seg |-> NoSegment]
  /\ UNCHANGED <<used, key, connections, accept, app, cleaners, removing>>

\* abortConnection, for a RST that is in sequence, in any state but CLOSED: a
\* connection that timeWaitCleanup has just closed is left to it.
HandleRST(p, seg) ==
  /\ recv = Waiting /\ connections[p] # 0
  /\ seg.RST /\ seg.valid
  /\ State[connections[p]] # "CLOSED"
  /\ Closes(connections[p])

\* The end of abortConnection and of removeConnection in recvLoop.
FinishDelete ==
  /\ recv.at = "delete" /\ Delete(recv.conn)
  /\ recv' = Waiting
  /\ UNCHANGED <<used, key, State, accept, app, cleaners, removing>>

\* Seeded fault: the third segment of the handshake leaves the state as it is.
HandleSynReceived_KeepsState(p, seg) ==
  \E c \in ConnIds :
    /\ Handles(p, c, "SYN_RECEIVED") /\ ~seg.RST /\ seg.ACK
    /\ recv' = [at |-> "accept<-", conn |-> c, seg |-> seg]
    /\ UNCHANGED <<used, key, State, connections, accept, app, cleaners, removing>>

\* SYN_RECEIVED: any acknowledgement completes the handshake.
HandleSynReceived(p, seg) ==
  \E c \in ConnIds :
    /\ Handles(p, c, "SYN_RECEIVED") /\ ~seg.RST /\ seg.ACK
    /\ State' = [State EXCEPT ![c] = "ESTABLISHED"]
    /\ recv' = [at |-> "accept<-", conn |-> c, seg |-> seg]
    /\ UNCHANGED <<used, key, connections, accept, app, cleaners, removing>>

\* Seeded fault: a connection is dropped when the channel is full.
PushAccept_DropsWhenFull ==
  /\ recv.at = "accept<-"
  /\ accept' = IF Len(accept) < AcceptCap THEN Append(accept, recv.conn) ELSE accept
  /\ recv' = [recv EXCEPT !.at = "established"]
  /\ UNCHANGED <<used, key, State, connections, app, cleaners, removing>>

\* Seeded fault: the channel is a queue without bound.
PushAccept_Unbounded ==
  /\ recv.at = "accept<-"
  /\ accept' = Append(accept, recv.conn)
  /\ recv' = [recv EXCEPT !.at = "established"]
  /\ UNCHANGED <<used, key, State, connections, app, cleaners, removing>>

\* l.accept <- conn blocks while the channel is full.
PushAccept ==
  /\ recv.at = "accept<-" /\ Len(accept) < AcceptCap
  /\ accept' = Append(accept, recv.conn)
  /\ recv' = [recv EXCEPT !.at = "established"]
  /\ UNCHANGED <<used, key, State, connections, app, cleaners, removing>>

\* handleSegment has read ESTABLISHED (or falls through to that case).
HandleEstablished(p, seg) ==
  \E c \in ConnIds :
    /\ Handles(p, c, "ESTABLISHED") /\ ~seg.RST
    /\ recv' = [at |-> "established", conn |-> c, seg |-> seg]
    /\ UNCHANGED <<used, key, State, connections, accept, app, cleaners, removing>>

\* The ESTABLISHED case: a FIN of an accepted segment leads to CLOSE_WAIT.
FinishEstablished ==
  /\ recv.at = "established"
  /\ State' = IF recv.seg.ACK /\ recv.seg.valid /\ recv.seg.FIN
              THEN [State EXCEPT ![recv.conn] = "CLOSE_WAIT"] ELSE State
  /\ recv' = Waiting
  /\ UNCHANGED <<used, key, connections, accept, app, cleaners, removing>>

\* FIN_WAIT_1: processAck, then FIN and ACK together, or the ACK alone.  (The
\* FIN without ACK that leads to CLOSING does not pass processAck.)
HandleFinWait1(p, seg) ==
  \E c \in ConnIds :
    /\ Handles(p, c, "FIN_WAIT_1") /\ ~seg.RST /\ seg.ACK /\ seg.valid
    /\ IF seg.FIN
       THEN State' = [State EXCEPT ![c] = "TIME_WAIT"] /\ cleaners' = cleaners \cup {c}
       ELSE State' = [State EXCEPT ![c] = "FIN_WAIT_2"] /\ UNCHANGED cleaners
    /\ UNCHANGED <<used, key, connections, accept, recv, app, removing>>

\* FIN_WAIT_2 only waits for the FIN.
HandleFinWait2(p, seg) ==
  \E c \in ConnIds :
    /\ Handles(p, c, "FIN_WAIT_2") /\ ~seg.RST /\ seg.FIN
    /\ State' = [State EXCEPT ![c] = "TIME_WAIT"] /\ cleaners' = cleaners \cup {c}
    /\ UNCHANGED <<used, key, connections, accept, recv, app, removing>>

\* Seeded fault: the connection is closed but stays in the table.
HandleLastAck_NotRemoved(p, seg) ==
  \E c \in ConnIds :
    /\ Handles(p, c, "LAST_ACK") /\ ~seg.RST /\ seg.ACK
    /\ State' = [State EXCEPT ![c] = "CLOSED"]
    /\ UNCHANGED <<used, key, connections, accept, recv, app, cleaners, removing>>

\* LAST_ACK: any acknowledgement ends the connection.  (The case CLOSING of
\* handleSegment has no action here: no connection ever gets there.)
HandleLastAck(p, seg) ==
  \E c \in ConnIds :
    Handles(p, c, "LAST_ACK") /\ ~seg.RST /\ seg.ACK /\ Closes(c)

------------------------------------------------------------------------------
(***************************************************************************)
(* The other goroutines.                                                   *)
(***************************************************************************)

\* main takes a connection from the channel and starts its goroutine.
Accept ==
  /\ accept # <<>>
  /\ app' = [app EXCEPT ![Head(accept)] = "serving"]
  /\ accept' = Tail(accept)
  /\ UNCHANGED <<used, key, State, connections, recv, cleaners, removing>>

\* Close, after its FIN: it reads State ...
CloseReadState(c) ==
  /\ app[c] = "serving"
  /\ app' = [app EXCEPT ![c] = State[c]]
  /\ UNCHANGED <<used, key, State, connections, accept, recv, cleaners, removing>>

\* ... and writes it, holding no lock in between.
CloseWriteState(c) ==
  /\ app[c] \in States
  /\ State' = CASE app[c] = "ESTABLISHED" -> [State EXCEPT ![c] = "FIN_WAIT_1"]
                [] app[c] = "CLOSE_WAIT"  -> [State EXCEPT ![c] = "LAST_ACK"]
                [] OTHER                  -> State
  /\ app' = [app EXCEPT ![c] = "closed"]
  /\ UNCHANGED <<used, key, connections, accept, recv, cleaners, removing>>

\* timeWaitCleanup wakes up and closes the connection, without a lock ...
TimeWaitCleanup(c) ==
  /\ c \in cleaners
  /\ State' = [State EXCEPT ![c] = "CLOSED"]
  /\ cleaners' = cleaners \ {c} /\ removing' = removing \cup {c}
  /\ UNCHANGED <<used, key, connections, accept, recv, app>>

\* ... and its removeConnection gets to the table.  In between recvLoop may
\* find the closed connection, and does nothing with it.
RemoveConnection(c) ==
  /\ c \in removing /\ Delete(c)
  /\ removing' = removing \ {c}
  /\ UNCHANGED <<used, key, State, accept, recv, app, cleaners>>

StackNext ==
  \/ \E p \in Peers : HandleSYN(p)
  \/ \E p \in Peers, seg \in SegmentFlags : HandleRST(p, seg)
  \/ FinishDelete
  \/ \E p \in Peers, seg \in SegmentFlags : HandleSynReceived(p, seg)
  \/ PushAccept
  \/ \E p \in Peers, seg \in SegmentFlags : HandleEstablished(p, seg)
  \/ FinishEstablished
  \/ \E p \in Peers, seg \in SegmentFlags : HandleFinWait1(p, seg)
  \/ \E p \in Peers, seg \in SegmentFlags : HandleFinWait2(p, seg)
  \/ \E p \in Peers, seg \in SegmentFlags : HandleLastAck(p, seg)
  \/ Accept
  \/ \E c \in ConnIds : CloseReadState(c)
  \/ \E c \in ConnIds : CloseWriteState(c)
  \/ \E c \in ConnIds : TimeWaitCleanup(c)
  \/ \E c \in ConnIds : RemoveConnection(c)

StackSpec == StackInit /\ [][StackNext]_stackVars

\* main accepts for ever, and recvLoop pushes when the channel has room.  It
\* may stay in the ESTABLISHED case for ever: the push of data may block.
StackFairSpec == StackSpec /\ WF_stackVars(Accept) /\ WF_stackVars(PushAccept)

------------------------------------------------------------------------------
(***************************************************************************)
(* Properties.                                                             *)
(***************************************************************************)

\* The types of the variables.
StackTypeOK ==
  /\ used \in 0 .. MaxConns
  /\ key \in [ConnIds -> Peers \cup {0}]
  /\ State \in [ConnIds -> States]
  /\ connections \in [Peers -> 0 .. used]
  /\ accept \in Seq(1 .. used) /\ Len(accept) <= AcceptCap
  /\ recv \in [at : {"recvfrom", "accept<-", "established", "delete"},
               conn : 0 .. used, seg : SegmentFlags]
  /\ app \in [ConnIds -> States \cup {"none", "serving", "closed"}]
  /\ cleaners \subseteq 1 .. used /\ removing \subseteq 1 .. used

\* Where a connection is on its way to the application.
Pushing(c) == recv.at = "accept<-" /\ recv.conn = c
Queued(c) == \E i \in 1 .. Len(accept) : accept[i] = c
Served(c) == app[c] # "none"

\* A connection is handed to the application once the handshake is over and
\* never twice, whatever duplicates of the third segment arrive, also when
\* the accept channel is full: two goroutines never serve one connection.
HandedOverOnce ==
  /\ \A i, j \in 1 .. Len(accept) : accept[i] = accept[j] => i = j
  /\ \A c \in 1 .. used :
       /\ ~(Pushing(c) /\ Queued(c))
       /\ Served(c) => ~Pushing(c) /\ ~Queued(c)
       /\ State[c] = "SYN_RECEIVED" => ~Pushing(c) /\ ~Queued(c) /\ ~Served(c)
       /\ State[c] \notin {"SYN_RECEIVED", "CLOSED"} =>
            Pushing(c) \/ Queued(c) \/ Served(c)

\* Somebody is about to delete the entry of c's key for c.
Leaving(c) == c \in removing \/ (recv.at = "delete" /\ recv.conn = c)

\* An entry of the table leads to a connection of that peer, and to a closed
\* one only while recvLoop or timeWaitCleanup is between closing it and
\* deleting the entry: no closed connection stays behind and keeps its peer
\* from connecting again.  (The entry is deleted by key, so another
\* connection of the same peer may go with it: OpenConnectionsAreFound.)
TableSound ==
  \A p \in Peers :
    LET c == connections[p] IN
    c # 0 => key[c] = p /\ (State[c] = "CLOSED" => Leaving(c))

\* Every connection that completes the handshake reaches the application,
\* although recvLoop may have to wait for room in the channel.
AcceptedEventually ==
  \A c \in ConnIds : (State[c] = "ESTABLISHED") ~> (app[c] # "none")

\* What TCP_PLAN.md says of a segment that arrives: its connection is found in
\* the map.  So a connection stays there as long as it is open.
OpenConnectionsAreFound ==
  \A c \in 1 .. used :
    State[c] \in {"SYN_RECEIVED", "ESTABLISHED"} => connections[key[c]] = c

=============================================================================
