--------------------------- MODULE TCPStackProofs ---------------------------
(***************************************************************************)
(* Proofs about TCPStack for any set of peers, any capacity of the accept  *)
(* channel and any number of connections: a closed connection never stays  *)
(* in the table, and a connection is handed over exactly once.             *)
(***************************************************************************)
EXTENDS TCPStack, TLAPS

\* Connections that do not exist yet are nowhere, and while recvLoop is in
\* the ESTABLISHED case its connection is already with the application.
HandoverState ==
  /\ \A c \in ConnIds : Served(c) => c \in 1 .. used
  /\ recv.at # "recvfrom" => recv.conn \in 1 .. used
  /\ recv.at = "established" => Queued(recv.conn) \/ Served(recv.conn)

\* The inductive invariant.
StackIInv == StackTypeOK /\ HandedOverOnce /\ TableSound /\ HandoverState

\* Initially no connection exists.
LEMMA StackInitInvariant == StackInit => StackIInv
<1> SUFFICES ASSUME StackInit PROVE StackIInv  OBVIOUS
<1> USE StackAssumption DEF StackInit, Waiting, NoSegment
<1>1. StackTypeOK  BY DEF StackTypeOK, ConnIds, States, SegmentFlags
<1>2. HandedOverOnce  BY DEF HandedOverOnce
<1>3. TableSound  BY DEF TableSound
<1>4. HandoverState  BY DEF HandoverState, Served
<1> QED  BY <1>1, <1>2, <1>3, <1>4 DEF StackIInv

\* A new connection object is not on its way to the application yet, and its
\* peer had no entry in the table.
LEMMA HandleSYNStep ==
  ASSUME StackIInv, NEW p \in Peers, HandleSYN(p)  PROVE StackIInv'
<1> USE StackAssumption DEF StackIInv, HandleSYN
<1>1. StackTypeOK'
  BY DEF StackTypeOK, ConnIds, States
<1>2. used + 1 \in ConnIds /\ used' = used + 1 /\ used \in Nat
  BY DEF StackTypeOK, ConnIds
<1>3. HandedOverOnce'
  <2>1. PICK n : n = used + 1  OBVIOUS
  <2>2. \A c \in 1 .. used : c \in ConnIds /\ State'[c] = State[c]
    BY <1>2 DEF StackTypeOK, ConnIds
  <2>3. State'[n] = "SYN_RECEIVED"
    BY <1>2, <2>1 DEF StackTypeOK
  <2>4. ~Pushing(n)' /\ ~Served(n)'
    BY <1>2, <2>1 DEF Pushing, Served, HandoverState, Waiting
  <2>5. ~Queued(n)'
    <3>1. \A i \in 1 .. Len(accept) : accept[i] \in 1 .. used  BY DEF StackTypeOK
    <3> QED  BY <1>2, <2>1, <3>1 DEF Queued
  <2>6. \A c : (Pushing(c)' <=> Pushing(c)) /\ (Queued(c)' <=> Queued(c))
               /\ (Served(c)' <=> Served(c))
    BY DEF Pushing, Queued, Served
  <2>7. \A c \in 1 .. used' : c \in 1 .. used \/ c = n
    BY <1>2, <2>1
  <2> QED
    BY <2>2, <2>3, <2>4, <2>5, <2>6, <2>7 DEF HandedOverOnce
<1>4. TableSound'
  BY <1>2 DEF TableSound, Leaving, StackTypeOK, ConnIds
<1>5. HandoverState'
  BY <1>2 DEF HandoverState, Served, Queued, StackTypeOK, ConnIds, Waiting
<1> QED  BY <1>1, <1>3, <1>4, <1>5

\* The places of recvLoop.
Places == {"recvfrom", "accept<-", "established", "delete"}

\* A step that moves connection c from one state after the handshake to
\* another, with somebody about to delete its entry if it closes it, and lets
\* nobody accept or close: all the cases of handleSegment but the handshake,
\* and timeWaitCleanup.
LEMMA MoveStep ==
  ASSUME StackIInv, NEW c \in 1 .. used, NEW st \in States \ {"SYN_RECEIVED"},
         State[c] # "SYN_RECEIVED" \/ st = "CLOSED",
         State' = [State EXCEPT ![c] = st],
         st # "CLOSED" => State[c] # "CLOSED" \/ Served(c) \/ Queued(c),
         st = "CLOSED" => Leaving(c)',
         cleaners' \subseteq cleaners \cup {c},
         removing \subseteq removing', removing' \subseteq removing \cup {c},
         \/ recv' = recv
         \/ recv.at = "established" /\ recv' = Waiting
         \/ recv.at = "recvfrom" /\ recv' = [at |-> "delete", conn |-> c, seg |-> NoSegment],
         UNCHANGED <<used, key, connections, accept, app>>
  PROVE StackIInv'
<1> USE StackAssumption DEF StackIInv
<1>1. c \in ConnIds /\ used \in Nat  BY DEF StackTypeOK, ConnIds
<1>2. State'[c] = st /\ \A d \in ConnIds : d # c => State'[d] = State[d]
  BY <1>1 DEF StackTypeOK
<1>3. recv' \in [at : Places, conn : 0 .. used, seg : SegmentFlags]
  <2>1. Waiting \in [at : Places, conn : 0 .. used, seg : SegmentFlags]
    BY <1>1 DEF Waiting, NoSegment, SegmentFlags, Places
  <2>2. [at |-> "delete", conn |-> c, seg |-> NoSegment]
          \in [at : Places, conn : 0 .. used, seg : SegmentFlags]
    BY <1>1 DEF NoSegment, SegmentFlags, Places
  <2> QED  BY <2>1, <2>2 DEF StackTypeOK, Places
<1>4. StackTypeOK'
  BY <1>1, <1>3 DEF StackTypeOK, Places
<1>5. \A d \in 1 .. used : (Pushing(d)' <=> Pushing(d)) /\ (Queued(d)' <=> Queued(d))
                            /\ (Served(d)' <=> Served(d))
  BY DEF Pushing, Queued, Served, Waiting
<1>6. HandedOverOnce'
  <2>1. \A d \in 1 .. used : d # c => State'[d] = State[d]
    BY <1>1, <1>2 DEF ConnIds, StackTypeOK
  <2>2. State'[c] # "CLOSED" => Pushing(c) \/ Queued(c) \/ Served(c)
    BY <1>2 DEF HandedOverOnce
  <2> QED  BY <1>2, <1>5, <2>1, <2>2 DEF HandedOverOnce
<1>7. TableSound'
  <2> SUFFICES ASSUME NEW p \in Peers, connections[p] # 0
               PROVE key[connections[p]] = p
                     /\ (State'[connections[p]] = "CLOSED" => Leaving(connections[p])')
    BY DEF TableSound
  <2>1. connections[p] \in ConnIds
    BY DEF StackTypeOK, ConnIds
  <2>2. key[connections[p]] = p
        /\ (State[connections[p]] = "CLOSED" => Leaving(connections[p]))
    BY DEF TableSound
  <2>3. CASE connections[p] = c
    BY <1>2, <2>2, <2>3
  <2>4. CASE connections[p] # c
    BY <1>2, <2>1, <2>2, <2>4 DEF Leaving
  <2> QED  BY <2>3, <2>4
<1>8. HandoverState'
  BY <1>1, <1>5 DEF HandoverState, Served, Queued, Waiting
<1> QED  BY <1>4, <1>6, <1>7, <1>8

\* The entry of c's key is deleted, by recvLoop or by timeWaitCleanup: it was
\* c's own or leads to a connection that somebody else leaves or that is open.
LEMMA DeleteStep ==
  ASSUME StackIInv, NEW c \in 1 .. used, Delete(c),
         \/ recv.at = "delete" /\ recv.conn = c /\ recv' = Waiting /\ removing' = removing
         \/ recv' = recv /\ removing' = removing \ {c},
         UNCHANGED <<used, key, State, accept, app, cleaners>>
  PROVE StackIInv'
<1> USE StackAssumption DEF StackIInv
<1>0. used \in Nat /\ connections \in [Peers -> 0 .. used]  BY DEF StackTypeOK
<1>1. /\ connections' \in [Peers -> 0 .. used]
      /\ \A p \in Peers : connections'[p] # 0 => connections'[p] = connections[p] /\ key[c] # p
  <2>1. PICK k : k = key[c]  OBVIOUS
  <2>2. connections' = [connections EXCEPT ![k] = 0]  BY <2>1 DEF Delete
  <2>3. connections' \in [Peers -> 0 .. used]
    <3>1. 0 \in 0 .. used  BY <1>0
    <3> QED  BY <1>0, <2>2, <3>1, Zenon
  <2>4. \A p \in Peers : connections'[p] = IF p = k THEN 0 ELSE connections[p]
    BY <1>0, <2>2
  <2> QED  BY <2>1, <2>3, <2>4
<1>2. StackTypeOK'
  <2>1. recv' \in [at : Places, conn : 0 .. used, seg : SegmentFlags]
    <3>1. Waiting \in [at : Places, conn : 0 .. used, seg : SegmentFlags]
      BY <1>0 DEF Waiting, NoSegment, SegmentFlags, Places
    <3> QED  BY <3>1 DEF StackTypeOK, Places
  <2> QED  BY <1>1, <2>1 DEF StackTypeOK, Places
<1>3. \A d : (Pushing(d)' <=> Pushing(d)) /\ (Queued(d)' <=> Queued(d))
             /\ (Served(d)' <=> Served(d))
  BY DEF Pushing, Queued, Served, Waiting
<1>4. HandedOverOnce'  BY <1>3 DEF HandedOverOnce
<1>5. TableSound'
  <2> SUFFICES ASSUME NEW p \in Peers, connections'[p] # 0
               PROVE key[connections[p]] = p
                     /\ (State[connections[p]] = "CLOSED" => Leaving(connections[p])')
    BY <1>1 DEF TableSound
  <2>1. /\ connections'[p] = connections[p]
        /\ connections[p] # 0 /\ key[connections[p]] = p /\ connections[p] # c
        /\ State[connections[p]] = "CLOSED" => Leaving(connections[p])
    BY <1>1 DEF TableSound
  <2>2. CASE recv' = recv /\ removing' = removing \ {c}
    BY <2>1, <2>2 DEF Leaving
  <2>3. CASE recv.at = "delete" /\ recv.conn = c /\ recv' = Waiting /\ removing' = removing
    BY <2>1, <2>3 DEF Leaving
  <2> QED  BY <2>1, <2>2, <2>3
<1>6. HandoverState'  BY <1>3 DEF HandoverState, Waiting
<1> QED  BY <1>2, <1>4, <1>5, <1>6

\* recvLoop closes a connection it has found.
LEMMA ClosesStep ==
  ASSUME StackIInv, NEW c \in 1 .. used, recv.at = "recvfrom", Closes(c)
  PROVE StackIInv'
<1>1. Leaving(c)'  BY DEF Closes, Leaving
<1>2. "CLOSED" \in States \ {"SYN_RECEIVED"}  BY DEF States
<1> QED  BY <1>1, <1>2, MoveStep DEF Closes

\* The connection that handleRaw finds for a segment exists.
LEMMA HandlesFound ==
  ASSUME StackIInv, NEW p \in Peers, NEW c, NEW st, Handles(p, c, st)
  PROVE c \in 1 .. used /\ State[c] = st /\ recv.at = "recvfrom"
        /\ c = connections[p] /\ c \in ConnIds
<1>1. connections[p] \in 0 .. used /\ used \in 0 .. MaxConns
  BY DEF StackIInv, StackTypeOK
<1>2. c = connections[p] /\ c # 0 /\ State[c] = st  BY DEF Handles
<1>3. recv.at = "recvfrom"  BY DEF Handles, Waiting
<1> QED  BY <1>1, <1>2, <1>3, StackAssumption DEF ConnIds

\* The handshake ends: recvLoop now holds the connection.
LEMMA HandleSynReceivedStep ==
  ASSUME StackIInv, NEW p \in Peers, NEW seg \in SegmentFlags,
         HandleSynReceived(p, seg)
  PROVE StackIInv'
<1> USE StackAssumption DEF StackIInv
<1>1. PICK c \in ConnIds :
        /\ Handles(p, c, "SYN_RECEIVED")
        /\ State' = [State EXCEPT ![c] = "ESTABLISHED"]
        /\ recv' = [at |-> "accept<-", conn |-> c, seg |-> seg]
        /\ UNCHANGED <<used, key, connections, accept, app, cleaners, removing>>
  BY DEF HandleSynReceived
<1>2. c \in 1 .. used /\ State[c] = "SYN_RECEIVED" /\ recv.at = "recvfrom"
      /\ used \in Nat
  BY <1>1, HandlesFound DEF StackTypeOK
<1>3. StackTypeOK'
  BY <1>1, <1>2 DEF StackTypeOK, States
<1>4. State'[c] = "ESTABLISHED" /\ \A d \in ConnIds : d # c => State'[d] = State[d]
  BY <1>1 DEF StackTypeOK
<1>5. HandedOverOnce'
  <2>1. \A d \in 1 .. used : /\ ~Pushing(d) /\ (Pushing(d)' <=> d = c)
                             /\ (Queued(d)' <=> Queued(d)) /\ (Served(d)' <=> Served(d))
    BY <1>1, <1>2 DEF Pushing, Queued, Served
  <2>2. ~Queued(c) /\ ~Served(c)
    BY <1>2 DEF HandedOverOnce
  <2>3. \A d \in 1 .. used : d \in ConnIds
    BY DEF StackTypeOK, ConnIds
  <2> QED  BY <1>1, <1>4, <2>1, <2>2, <2>3 DEF HandedOverOnce
<1>6. TableSound'
  BY <1>1, <1>2, <1>4 DEF TableSound, Leaving, StackTypeOK, ConnIds
<1>7. HandoverState'
  BY <1>1, <1>2 DEF HandoverState, Served
<1> QED  BY <1>3, <1>5, <1>6, <1>7

\* The connection goes from recvLoop into the channel.
LEMMA PushAcceptStep == ASSUME StackIInv, PushAccept  PROVE StackIInv'
<1> USE StackAssumption DEF StackIInv, PushAccept
<1> DEFINE n == Len(accept)
<1>1. recv.conn \in 1 .. used /\ n \in Nat /\ accept \in Seq(1 .. used) /\ used \in Nat
  BY DEF HandoverState, StackTypeOK
<1>2. /\ accept' \in Seq(1 .. used) /\ Len(accept') = n + 1
      /\ accept'[n + 1] = recv.conn
      /\ \A i \in 1 .. n : accept'[i] = accept[i]
  BY <1>1
<1>3. recv' = [at |-> "established", conn |-> recv.conn, seg |-> recv.seg]
  BY DEF StackTypeOK
<1>4. StackTypeOK'
  <2>1. Len(accept') <= AcceptCap  BY <1>1, <1>2
  <2>2. recv' \in [at : Places,
                   conn : 0 .. used, seg : SegmentFlags]
    BY <1>1, <1>3 DEF StackTypeOK, Places
  <2> QED  BY <1>2, <2>1, <2>2 DEF StackTypeOK, Places
<1>5. \A d \in 1 .. used : /\ ~Pushing(d)' /\ (Pushing(d) <=> d = recv.conn)
                           /\ (Queued(d)' <=> Queued(d) \/ d = recv.conn)
                           /\ (Served(d)' <=> Served(d))
  BY <1>1, <1>2, <1>3 DEF Pushing, Queued, Served
<1>6. HandedOverOnce'
  <2>1. ~Queued(recv.conn) /\ ~Served(recv.conn) /\ State[recv.conn] # "SYN_RECEIVED"
    BY <1>1, <1>5 DEF HandedOverOnce
  <2>2. \A i, j \in 1 .. Len(accept') : accept'[i] = accept'[j] => i = j
    BY <1>1, <1>2, <2>1 DEF HandedOverOnce, Queued
  <2> QED  BY <1>5, <2>1, <2>2 DEF HandedOverOnce
<1>7. TableSound'  BY <1>3 DEF TableSound, Leaving
<1>8. HandoverState'
  BY <1>1, <1>3, <1>5 DEF HandoverState, Served
<1> QED  BY <1>4, <1>6, <1>7, <1>8

\* main takes the oldest connection from the channel.
LEMMA AcceptStep == ASSUME StackIInv, Accept  PROVE StackIInv'
<1> USE StackAssumption DEF StackIInv, Accept
<1> DEFINE n == Len(accept)
<1>0. PICK h : h = Head(accept)  OBVIOUS
<1>1. /\ accept \in Seq(1 .. used) /\ n \in Nat \ {0} /\ h = accept[1]
      /\ h \in 1 .. used /\ used \in Nat /\ h \in ConnIds
  BY <1>0 DEF StackTypeOK, ConnIds
<1>2. /\ accept' \in Seq(1 .. used) /\ Len(accept') = n - 1
      /\ \A i \in 1 .. (n - 1) : accept'[i] = accept[i + 1]
  BY <1>1
<1>3. app'[h] = "serving" /\ \A d \in ConnIds : d # h => app'[d] = app[d]
  BY <1>0, <1>1 DEF StackTypeOK
<1>4. StackTypeOK'
  BY <1>0, <1>1, <1>2 DEF StackTypeOK
<1>5. Queued(h) /\ ~Queued(h)' /\ Served(h)'
  BY <1>1, <1>2, <1>3 DEF Queued, Served, HandedOverOnce
<1>6. \A d \in ConnIds : d # h => (Queued(d)' <=> Queued(d)) /\ (Served(d)' <=> Served(d))
  <2> SUFFICES ASSUME NEW d \in ConnIds, d # h
               PROVE (Queued(d)' <=> Queued(d)) /\ (Served(d)' <=> Served(d))
    OBVIOUS
  <2>1. Served(d)' <=> Served(d)  BY <1>3 DEF Served
  <2>2. ASSUME Queued(d) PROVE Queued(d)'
    <3>1. PICK i \in 1 .. n : accept[i] = d  BY <2>2 DEF Queued
    <3>2. i - 1 \in 1 .. (n - 1) /\ (i - 1) + 1 = i  BY <1>1, <3>1
    <3> QED  BY <1>2, <3>1, <3>2 DEF Queued
  <2>3. ASSUME Queued(d)' PROVE Queued(d)
    <3>1. PICK i \in 1 .. (n - 1) : accept'[i] = d  BY <1>2, <2>3 DEF Queued
    <3>2. i + 1 \in 1 .. n  BY <1>1, <3>1
    <3> QED  BY <1>2, <3>1, <3>2 DEF Queued
  <2> QED  BY <2>1, <2>2, <2>3
<1>7. \A d \in ConnIds : Pushing(d)' <=> Pushing(d)  BY DEF Pushing
<1>8. \A d \in 1 .. used : d \in ConnIds  BY DEF StackTypeOK, ConnIds
<1>9. HandedOverOnce'
  <2>1. \A i, j \in 1 .. Len(accept') : accept'[i] = accept'[j] => i = j
    BY <1>1, <1>2 DEF HandedOverOnce
  <2>2. ~Pushing(h) /\ State[h] # "SYN_RECEIVED"
    BY <1>1, <1>5 DEF HandedOverOnce
  <2> QED  BY <1>1, <1>5, <1>6, <1>7, <1>8, <2>1, <2>2 DEF HandedOverOnce
<1>10. TableSound'  BY DEF TableSound, Leaving
<1>11. HandoverState'
  <2>1. \A d \in ConnIds : Served(d)' => d \in 1 .. used
    BY <1>1, <1>6 DEF HandoverState
  <2>2. recv.at = "established" => Queued(recv.conn)' \/ Served(recv.conn)'
    BY <1>5, <1>6, <1>8 DEF HandoverState
  <2> QED  BY <2>1, <2>2 DEF HandoverState
<1> QED  BY <1>4, <1>9, <1>10, <1>11

\* Close runs only for connections that the application serves.
LEMMA CloseStep ==
  ASSUME StackIInv, NEW c \in ConnIds, CloseReadState(c) \/ CloseWriteState(c)
  PROVE StackIInv'
<1> USE StackAssumption DEF StackIInv
<1>1. Served(c) /\ c \in 1 .. used /\ used \in Nat
  BY DEF CloseReadState, CloseWriteState, Served, States, HandoverState, StackTypeOK
<1>2. /\ app' \in [ConnIds -> States \cup {"none", "serving", "closed"}]
      /\ \A d \in ConnIds : Served(d)' <=> Served(d)
      /\ UNCHANGED <<used, key, connections, accept, recv, cleaners, removing>>
  <2>1. CASE CloseReadState(c)
    <3>1. State[c] \in States /\ State[c] # "none"  BY DEF StackTypeOK, States
    <3> QED  BY <2>1, <3>1, <1>1 DEF CloseReadState, StackTypeOK, Served
  <2>2. CASE CloseWriteState(c)
    BY <2>2, <1>1 DEF CloseWriteState, StackTypeOK, Served
  <2> QED  BY <2>1, <2>2
<1>3. /\ State' \in [ConnIds -> States]
      /\ \A d \in ConnIds : State'[d] = State[d]
                            \/ (d = c /\ State'[d] \notin {"SYN_RECEIVED", "CLOSED"})
  BY DEF CloseReadState, CloseWriteState, StackTypeOK, States
<1>4. StackTypeOK'  BY <1>2, <1>3 DEF StackTypeOK
<1>5. \A d \in 1 .. used : d \in ConnIds  BY DEF StackTypeOK, ConnIds
<1>6. \A d : (Pushing(d)' <=> Pushing(d)) /\ (Queued(d)' <=> Queued(d))
  BY <1>2 DEF Pushing, Queued
<1>7. HandedOverOnce'
  BY <1>1, <1>2, <1>3, <1>5, <1>6 DEF HandedOverOnce
<1>8. TableSound'
  <2>1. \A p \in Peers : connections[p] # 0 => connections[p] \in ConnIds
    BY DEF StackTypeOK, ConnIds
  <2> QED  BY <1>2, <1>3, <2>1 DEF TableSound, Leaving
<1>9. HandoverState'  BY <1>2, <1>5, <1>6 DEF HandoverState
<1> QED  BY <1>4, <1>7, <1>8, <1>9

\* recvLoop reads ESTABLISHED for a connection the application already has.
LEMMA HandleEstablishedStep ==
  ASSUME StackIInv, NEW p \in Peers, NEW seg \in SegmentFlags,
         HandleEstablished(p, seg)
  PROVE StackIInv'
<1> USE StackAssumption DEF StackIInv
<1>1. PICK c \in ConnIds :
        /\ Handles(p, c, "ESTABLISHED")
        /\ recv' = [at |-> "established", conn |-> c, seg |-> seg]
        /\ UNCHANGED <<used, key, State, connections, accept, app, cleaners, removing>>
  BY DEF HandleEstablished
<1>2. c \in 1 .. used /\ State[c] = "ESTABLISHED" /\ recv.at = "recvfrom"
  BY <1>1, HandlesFound
<1>3. StackTypeOK'  BY <1>1, <1>2 DEF StackTypeOK
<1>4. \A d \in 1 .. used : ~Pushing(d) /\ ~Pushing(d)'
  BY <1>1, <1>2 DEF Pushing
<1>5. \A d : (Queued(d)' <=> Queued(d)) /\ (Served(d)' <=> Served(d))
  BY <1>1 DEF Queued, Served
<1>6. HandedOverOnce'  BY <1>1, <1>4, <1>5 DEF HandedOverOnce
<1>7. TableSound'  BY <1>1, <1>2 DEF TableSound, Leaving
<1>8. Queued(c) \/ Served(c)  BY <1>2, <1>4 DEF HandedOverOnce
<1>9. HandoverState'  BY <1>1, <1>2, <1>5, <1>8 DEF HandoverState
<1> QED  BY <1>3, <1>6, <1>7, <1>9

\* Every step keeps the invariant.
LEMMA StackStepInvariant == StackIInv /\ [StackNext]_stackVars => StackIInv'
<1> SUFFICES ASSUME StackIInv, [StackNext]_stackVars PROVE StackIInv'  OBVIOUS
<1> USE StackAssumption
<1>1. ASSUME NEW p \in Peers, HandleSYN(p) PROVE StackIInv'
  BY <1>1, HandleSYNStep
<1>2. ASSUME NEW p \in Peers, NEW seg \in SegmentFlags, HandleRST(p, seg)
      PROVE StackIInv'
  <2>1. connections[p] \in 1 .. used /\ recv.at = "recvfrom" /\ Closes(connections[p])
    BY <1>2 DEF HandleRST, StackIInv, StackTypeOK, Waiting
  <2> QED  BY <2>1, ClosesStep
<1>3. ASSUME NEW p \in Peers, NEW seg \in SegmentFlags, HandleSynReceived(p, seg)
      PROVE StackIInv'
  BY <1>3, HandleSynReceivedStep
<1>4. CASE PushAccept  BY <1>4, PushAcceptStep
<1>5. ASSUME NEW p \in Peers, NEW seg \in SegmentFlags, HandleEstablished(p, seg)
      PROVE StackIInv'
  BY <1>5, HandleEstablishedStep
<1>6. CASE FinishEstablished
  <2>1. recv.conn \in 1 .. used /\ (Queued(recv.conn) \/ Served(recv.conn))
    BY <1>6 DEF FinishEstablished, StackIInv, HandoverState
  <2>2. State[recv.conn] # "SYN_RECEIVED"
    BY <2>1 DEF StackIInv, HandedOverOnce
  <2>3. CASE recv.seg.ACK /\ recv.seg.valid /\ recv.seg.FIN
    BY <1>6, <2>1, <2>2, <2>3, MoveStep, "CLOSE_WAIT" \in States \ {"SYN_RECEIVED"}
       DEF FinishEstablished, States
  <2>4. CASE ~(recv.seg.ACK /\ recv.seg.valid /\ recv.seg.FIN)
    <3>1. recv' = Waiting /\ recv.at = "established"
          /\ UNCHANGED <<used, key, State, connections, accept, app, cleaners, removing>>
      BY <1>6, <2>4 DEF FinishEstablished
    <3>2. StackTypeOK'
      BY <3>1 DEF StackIInv, StackTypeOK, Waiting, NoSegment, SegmentFlags
    <3>3. \A d : /\ ~Pushing(d) /\ ~Pushing(d)'
                 /\ (Queued(d)' <=> Queued(d)) /\ (Served(d)' <=> Served(d))
      BY <3>1 DEF Pushing, Queued, Served, Waiting
    <3>4. HandedOverOnce'  BY <3>1, <3>3 DEF StackIInv, HandedOverOnce
    <3>5. TableSound'  BY <3>1 DEF StackIInv, TableSound, Leaving, Waiting
    <3>6. HandoverState'  BY <3>1, <3>3 DEF StackIInv, HandoverState, Waiting
    <3> QED  BY <3>2, <3>4, <3>5, <3>6 DEF StackIInv
  <2> QED  BY <2>3, <2>4
<1>7. ASSUME NEW p \in Peers, NEW seg \in SegmentFlags, HandleFinWait1(p, seg)
      PROVE StackIInv'
  <2>1. PICK c \in ConnIds : /\ Handles(p, c, "FIN_WAIT_1")
          /\ \E st \in {"TIME_WAIT", "FIN_WAIT_2"} : State' = [State EXCEPT ![c] = st]
          /\ cleaners' \subseteq cleaners \cup {c}
          /\ UNCHANGED <<used, key, connections, accept, recv, app, removing>>
    BY <1>7 DEF HandleFinWait1
  <2>2. PICK st \in {"TIME_WAIT", "FIN_WAIT_2"} : State' = [State EXCEPT ![c] = st]
    BY <2>1
  <2>3. c \in 1 .. used /\ State[c] = "FIN_WAIT_1"  BY <2>1, HandlesFound
  <2>4. st \in States \ {"SYN_RECEIVED"} /\ st # "CLOSED"  BY DEF States
  <2> QED  BY <2>1, <2>2, <2>3, <2>4, MoveStep
<1>8. ASSUME NEW p \in Peers, NEW seg \in SegmentFlags, HandleFinWait2(p, seg)
      PROVE StackIInv'
  <2>1. PICK c \in ConnIds : /\ Handles(p, c, "FIN_WAIT_2")
          /\ State' = [State EXCEPT ![c] = "TIME_WAIT"]
          /\ cleaners' \subseteq cleaners \cup {c}
          /\ UNCHANGED <<used, key, connections, accept, recv, app, removing>>
    BY <1>8 DEF HandleFinWait2
  <2>2. c \in 1 .. used /\ State[c] = "FIN_WAIT_2"  BY <2>1, HandlesFound
  <2> QED  BY <2>1, <2>2, MoveStep, "TIME_WAIT" \in States \ {"SYN_RECEIVED"} DEF States
<1>9. ASSUME NEW p \in Peers, NEW seg \in SegmentFlags, HandleLastAck(p, seg)
      PROVE StackIInv'
  <2>1. PICK c \in ConnIds : Handles(p, c, "LAST_ACK") /\ Closes(c)
    BY <1>9 DEF HandleLastAck
  <2>2. c \in 1 .. used /\ recv.at = "recvfrom"  BY <2>1, HandlesFound
  <2> QED  BY <2>1, <2>2, ClosesStep
<1>10. CASE Accept  BY <1>10, AcceptStep
<1>11. ASSUME NEW c \in ConnIds, CloseReadState(c) PROVE StackIInv'
  BY <1>11, CloseStep
<1>12. ASSUME NEW c \in ConnIds, CloseWriteState(c) PROVE StackIInv'
  BY <1>12, CloseStep
<1>13. ASSUME NEW c \in ConnIds, TimeWaitCleanup(c) PROVE StackIInv'
  <2>1. c \in 1 .. used  BY <1>13 DEF TimeWaitCleanup, StackIInv, StackTypeOK
  <2>2. Leaving(c)'  BY <1>13 DEF TimeWaitCleanup, Leaving
  <2> QED  BY <1>13, <2>1, <2>2, MoveStep, "CLOSED" \in States \ {"SYN_RECEIVED"}
           DEF TimeWaitCleanup, States
<1>15. CASE FinishDelete
  <2>1. recv.conn \in 1 .. used
    BY <1>15 DEF FinishDelete, StackIInv, HandoverState
  <2> QED  BY <1>15, <2>1, DeleteStep DEF FinishDelete
<1>16. ASSUME NEW c \in ConnIds, RemoveConnection(c) PROVE StackIInv'
  <2>1. c \in 1 .. used  BY <1>16 DEF RemoveConnection, StackIInv, StackTypeOK
  <2> QED  BY <1>16, <2>1, DeleteStep DEF RemoveConnection
<1>14. CASE UNCHANGED stackVars
  <2>1. \A d : /\ (Pushing(d)' <=> Pushing(d)) /\ (Queued(d)' <=> Queued(d))
               /\ (Served(d)' <=> Served(d))
    BY <1>14 DEF stackVars, Pushing, Queued, Served
  <2>2. StackTypeOK' /\ TableSound'
    BY <1>14 DEF stackVars, StackIInv, StackTypeOK, TableSound, Leaving
  <2>3. HandedOverOnce' /\ HandoverState'
    BY <1>14, <2>1 DEF stackVars, StackIInv, HandedOverOnce, HandoverState
  <2> QED  BY <2>2, <2>3 DEF StackIInv
<1> QED
  BY <1>1, <1>2, <1>3, <1>4, <1>5, <1>6, <1>7, <1>8, <1>9, <1>10, <1>11, <1>12,
     <1>13, <1>14, <1>15, <1>16 DEF StackNext

\* All of the invariant holds in every reachable state.
LEMMA StackInvariant == StackSpec => []StackIInv
BY StackInitInvariant, StackStepInvariant, PTL DEF StackSpec

\* Every variable of the stack keeps its type; in particular the accept
\* channel never holds more than its capacity.
THEOREM StackTypeCorrect == StackSpec => []StackTypeOK
<1>1. StackIInv => StackTypeOK  BY DEF StackIInv
<1> QED  BY <1>1, StackInvariant, PTL

\* Every connection that completes its handshake is handed to exactly one
\* application goroutine, however many there are and however segments are
\* repeated.
THEOREM AlwaysHandedOverOnce == StackSpec => []HandedOverOnce
<1>1. StackIInv => HandedOverOnce  BY DEF StackIInv
<1> QED  BY <1>1, StackInvariant, PTL

\* An entry of the table leads to a connection of its own peer, and to a
\* closed one only while recvLoop or timeWaitCleanup is on its way to delete
\* it, although the two and an unlocked Close interfere.
THEOREM TableAlwaysSound == StackSpec => []TableSound
<1>1. StackIInv => TableSound  BY DEF StackIInv
<1> QED  BY <1>1, StackInvariant, PTL

=============================================================================
