---------------------------- MODULE TLSConnProofs ----------------------------
(***************************************************************************)
(* Proofs about TLSConn, for every set of clients, every maximal record    *)
(* size and every bound on the data: the nonces of the server's records    *)
(* never repeat, a failed handshake is final, a client that follows the    *)
(* RFC accepts everything the server sends and has the same keys at the    *)
(* same record number, and the connection is a secure channel.             *)
(*                                                                         *)
(* All of a connection's secrets and handshake messages are functions of   *)
(* the ClientHello h, so the invariant can say exactly what the server has *)
(* sent after n records and what the client knows after reading them.      *)
(***************************************************************************)
EXTENDS TLSConn, NaturalsInduction, WellFoundedInduction, TLAPS

------------------------------------------------------------------------------
(***************************************************************************)
(* The messages and the secrets of the handshake that h begins.            *)
(***************************************************************************)

HelloMessage(h) == <<"client_hello", h>>

Transcript1(h) == <<HelloMessage(h)>>
Transcript2(h) == <<HelloMessage(h), ServerHello(h)>>
Transcript3(h) == Append(Transcript2(h), <<"encrypted_extensions", <<>>>>)
Transcript4(h) == Append(Transcript3(h), <<"certificate", "certDER">>)
Transcript5(h) == Append(Transcript4(h), <<"certificate_verify", Transcript4(h)>>)

HandshakeKeys(h) ==
  newKeySchedule(<<findKeyShare(h).key, "server_share">>, Transcript2(h))

Finished(h) == <<"finished", verifyData(HandshakeKeys(h).sHS, Transcript5(h))>>

Transcript6(h) == Append(Transcript5(h), Finished(h))

ApplicationKeys(h) == SetServerFinishedTranscript(HandshakeKeys(h), Transcript6(h))

ClientFinished(h) == <<"finished", verifyData(HandshakeKeys(h).cHS, Transcript6(h))>>

------------------------------------------------------------------------------
(***************************************************************************)
(* The invariant.                                                          *)
(***************************************************************************)

\* s is a sequence, of whatever.
IsSeq(s) == Len(s) \in Nat /\ s = [i \in 1 .. Len(s) |-> s[i]]

IsKeys(k) == k.seq \in Nat /\ k = [secret |-> k.secret, seq |-> k.seq]

\* The shapes of the variables.
Shapes ==
  /\ pc \in {"idle", "ClientHello", "ChangeCipherSpec", "ClientFinished"} \cup DOMAIN After
  /\ handshakeDone \in BOOLEAN
  /\ IsKeys(readKeys) /\ IsKeys(writeKeys)
  /\ pending \in Nat /\ written \in Nat /\ pending <= written /\ written <= ServerBytes
  /\ IsSeq(hsBuf) /\ IsSeq(s2c) /\ IsSeq(c2s) /\ IsSeq(delivered) /\ IsSeq(inAppData)
  /\ \A i \in 1 .. Len(c2s) : IsSeq(c2s[i].data)

ClientShape ==
  /\ client = [at |-> client.at, plan |-> client.plan, hello |-> client.hello,
               tx |-> client.tx, sched |-> client.sched, read |-> client.read,
               write |-> client.write, out |-> client.out, next |-> client.next,
               sent |-> client.sent, got |-> client.got, rejects |-> client.rejects]
  /\ \E c \in Clients : client.hello = c.hello
  /\ IsKeys(client.write) /\ IsSeq(client.write.secret)
  /\ IsSeq(client.out) /\ IsSeq(client.got)
  /\ client.sent \in Nat /\ client.next \in Nat

\* How many records the server has sent at each place of runHandshake.
SentAt ==
  /\ pc = "ClientHello" => Len(s2c) = 0
  /\ pc = "ChangeCipherSpec" => Len(s2c) = 1
  /\ pc = "encrypted_extensions" => Len(s2c) = 2
  /\ pc = "certificate" => Len(s2c) = 3
  /\ pc = "certificate_verify" => Len(s2c) = 4
  /\ pc = "finished" => Len(s2c) = 5
  /\ pc = "ClientFinished" => Len(s2c) = 6
  /\ pc = "idle" /\ handshakeErr = "nil" /\ ~handshakeDone => Len(s2c) = 0
  /\ handshakeDone => pc = "idle" /\ handshakeErr = "nil" /\ hsBuf = <<>> /\ Len(s2c) >= 6
  /\ pc # "idle" => handshakeErr = "nil"
  /\ ~handshakeDone => pending = 0 /\ written = 0 /\ delivered = <<>> /\ inAppData = <<>>
                       /\ Len(s2c) <= 6 /\ appErr = "nil"

\* The transcript and the secrets after so many records.
Knows(h) ==
  \/ Len(s2c) = 0 /\ tx = <<>> /\ schedule = NoSchedule
  \/ Len(s2c) \in {1, 2} /\ tx = Transcript2(h) /\ schedule = HandshakeKeys(h)
  \/ Len(s2c) = 3 /\ tx = Transcript3(h) /\ schedule = HandshakeKeys(h)
  \/ Len(s2c) = 4 /\ tx = Transcript4(h) /\ schedule = HandshakeKeys(h)
  \/ Len(s2c) = 5 /\ tx = Transcript5(h) /\ schedule = HandshakeKeys(h)
  \/ Len(s2c) >= 6 /\ tx = Transcript6(h) /\ schedule = ApplicationKeys(h)

\* The keys in use.
UsesKeys(h) ==
  /\ Len(s2c) = 0 => readKeys = NoKeys /\ writeKeys = NoKeys
  /\ Len(s2c) > 0 => /\ readKeys.secret # <<>> /\ writeKeys.secret # <<>>
                     /\ HasShare(h)
  /\ pc # "idle" /\ Len(s2c) > 0 =>
       /\ readKeys.secret = HandshakeKeys(h).cHS
       /\ writeKeys.secret = HandshakeKeys(h).sHS
       /\ writeKeys.seq = IF Len(s2c) = 1 THEN 0 ELSE Len(s2c) - 2
  /\ handshakeDone =>
       /\ readKeys.secret = ApplicationKeys(h).cApp
       /\ writeKeys.secret = ApplicationKeys(h).sApp
       /\ appErr # "write" => writeKeys.seq = Len(s2c) - 6
       /\ appErr = "write" => writeKeys.seq = Len(s2c) - 5

HandshakeRecord(h, n, m) ==
  Seal([secret |-> HandshakeKeys(h).sHS, seq |-> n], Handshake, <<m>>)

\* Every record sent.
Sent(h) ==
  /\ Len(s2c) >= 1 => s2c[1] = Plaintext(Handshake, <<ServerHello(h)>>)
  /\ Len(s2c) >= 2 => s2c[2] = Plaintext(ChangeCipherSpec, <<>>)
  /\ Len(s2c) >= 3 => s2c[3] = HandshakeRecord(h, 0, <<"encrypted_extensions", <<>>>>)
  /\ Len(s2c) >= 4 => s2c[4] = HandshakeRecord(h, 1, <<"certificate", "certDER">>)
  /\ Len(s2c) >= 5 => s2c[5] = HandshakeRecord(h, 2, <<"certificate_verify", Transcript4(h)>>)
  /\ Len(s2c) >= 6 => s2c[6] = HandshakeRecord(h, 3, Finished(h))
  /\ \A i \in 7 .. Len(s2c) :
       /\ s2c[i].outer = ApplicationData /\ s2c[i].inner = ApplicationData
       /\ s2c[i].secret = ApplicationKeys(h).sApp /\ s2c[i].seq = i - 7

\* The server's part of the invariant.
ServerOK == SentAt /\ Knows(client.hello) /\ UsesKeys(client.hello) /\ Sent(client.hello)

\* The client after it has read client.next - 1 records.
ClientKnows(h) ==
  \/ /\ client.next = 1 /\ client.at \in {"start", "hello", "ended"}
     /\ client.read = NoKeys /\ client.write = NoKeys
     /\ client.tx \in {<<>>, Transcript1(h), <<<<"finished", <<>>>>>>}
  \/ /\ client.next \in {2, 3, 4, 5, 6} /\ client.at \in {"hello", "ended"}
     /\ client.sched = HandshakeKeys(h)
     /\ client.read = [secret |-> HandshakeKeys(h).sHS,
                       seq |-> IF client.next = 2 THEN 0 ELSE client.next - 3]
     /\ client.write.secret # <<>>
     /\ client.next \in {2, 3} => client.tx = Transcript2(h)
     /\ client.next = 4 => client.tx = Transcript3(h)
     /\ client.next = 5 => client.tx = Transcript4(h)
     /\ client.next = 6 => client.tx = Transcript5(h)
  \/ /\ client.next >= 7 /\ client.at \in {"ccs", "finish", "open", "ended"}
     /\ client.tx = Transcript6(h) /\ client.sched = ApplicationKeys(h)
     /\ client.read = [secret |-> ApplicationKeys(h).sApp, seq |-> client.next - 7]
     /\ client.write.secret # <<>>

\* The client's part.
ClientOK ==
  /\ client.next <= Len(s2c) + 1
  /\ client.rejects = FALSE
  /\ Len(s2c) >= 1 /\ client.next = 1 => client.tx = Transcript1(client.hello)
  /\ client.at = "start" <=> client.tx = <<>> /\ client.at # "ended"
  /\ ClientKnows(client.hello)

\* m is the Finished that the server expects.
Answers(m, h) == m[1] = "finished" /\ m[2] = verifyData(HandshakeKeys(h).cHS, Transcript6(h))

\* u is a piece of the client's first message, as far as the server can
\* tell, and the client's Finished is nobody's but the client's.
Genuine(u) ==
  /\ Len(s2c) = 0 => client.tx # <<>> /\ u[1] = client.tx[1]
  /\ HasShare(client.hello) /\ Answers(u[1], client.hello) => client.next >= 7

\* The pieces of handshake messages everywhere on their way.
PiecesOK ==
  /\ \A i \in 1 .. Len(hsBuf) : Genuine(hsBuf[i])
  /\ \A i \in 1 .. Len(client.out) : Genuine(client.out[i])
  /\ \A i \in 1 .. Len(c2s) : c2s[i].inner = Handshake =>
       \A j \in 1 .. Len(c2s[i].data) : Genuine(c2s[i].data[j])

Size(r, type) == IF r.inner = type THEN Len(r.data) ELSE 0

\* f counts the content of the given type in the records of q.
Counts(f, q, type, from, to) ==
  /\ f \in [0 .. Len(q) -> Nat]
  /\ f[0] = from /\ f[Len(q)] = to
  /\ \A i \in 1 .. Len(q) : f[i] = f[i - 1] + Size(q[i], type)
  /\ \A i, j \in 0 .. Len(q) : i <= j => f[i] <= f[j]

\* The data in q goes from one byte to another without a gap.
InOrder(f, q, from, to) ==
  /\ Counts(f, q, ApplicationData, from, to)
  /\ \A i \in 1 .. Len(q) : q[i].inner = ApplicationData =>
       q[i].data = [k \in 1 .. Len(q[i].data) |-> f[i - 1] + k]

\* The client's data: what has been read, then what is in the records under
\* way, without a gap.
DataInOrder(f) == InOrder(f, c2s, Len(delivered) + Len(inAppData), client.sent)

\* The client's data at the server.
FromClient ==
  /\ \A i \in 1 .. Len(delivered) : delivered[i] = i
  /\ \A i \in 1 .. Len(inAppData) : inAppData[i] = Len(delivered) + i
  /\ Len(delivered) + Len(inAppData) <= client.sent
  /\ handshakeErr = "nil" /\ appErr = "nil" => \E f : DataInOrder(f)

\* The server's data at the client: every record goes on where the one before
\* it ends.
ToClient ==
  /\ \A i \in 1 .. Len(client.got) : client.got[i] = i
  /\ \A i \in 7 .. Len(s2c) :
       /\ s2c[i].data # <<>> /\ IsSeq(s2c[i].data)
       /\ \A k \in 1 .. Len(s2c[i].data) : s2c[i].data[k] = s2c[i].data[1] + k - 1
       /\ s2c[i].data[1] = IF i = 7 THEN 1 ELSE s2c[i - 1].data[1] + Len(s2c[i - 1].data)
  /\ IF Len(s2c) <= 6 THEN written = pending
     ELSE s2c[Len(s2c)].data[1] + Len(s2c[Len(s2c)].data) = written - pending + 1
  /\ IF client.next <= 7 THEN client.got = <<>>
     ELSE s2c[client.next - 1].data[1] + Len(s2c[client.next - 1].data) = Len(client.got) + 1

\* No record holds more than the application has handed over.
WithinWritten ==
  \A i \in 7 .. Len(s2c) : s2c[i].data[1] + Len(s2c[i].data) \in 1 .. written - pending + 1

\* The two streams of the application.
StreamsOK == FromClient /\ ToClient

Faithful == client.plan \in {"honest", "update"}

\* The units of its current message that the client has begun to send.
Whole ==
  IF client.tx = <<>> \/ (Len(s2c) > 0 /\ client.next < 7) THEN 0 ELSE HeaderLen + BodyLen

\* The handshake messages in q go from one piece to another; none is empty
\* and no ChangeCipherSpec comes after the first piece.
HandshakePieces(f, q, from, to) ==
  /\ Counts(f, q, Handshake, from, to)
  /\ \A i \in 1 .. Len(q) : /\ q[i].inner = Handshake => Len(q[i].data) > 0
                            /\ q[i].outer = ChangeCipherSpec => f[i] = 0

\* The handshake messages of a faithful client, on their way to the server.
HandshakeInOrder(f) == HandshakePieces(f, c2s, Len(hsBuf), Whole - Len(client.out))

IsHandshake(r) == r.outer = ChangeCipherSpec \/ r.inner = Handshake

\* Behind the first records those of q are sealed with key, with the numbers
\* from n on.
Numbered(q, first, key, n) ==
  \A i \in first + 1 .. Len(q) :
    /\ q[i].outer = ApplicationData /\ q[i].inner # NoType
    /\ q[i].secret = key /\ q[i].seq = n + (i - first - 1)

\* The client seals with its application keys all but the first records.
SwitchedKeys(first) ==
  /\ first >= 0
  /\ client.write.secret = ApplicationKeys(client.hello).cApp
  /\ \A i \in 1 .. first : IsHandshake(c2s[i])
  /\ Numbered(c2s, first, ApplicationKeys(client.hello).cApp, 0)

\* The records under way to a server that is in its handshake.
HandshakeUnderWay ==
  /\ \E f : HandshakeInOrder(f)
  /\ client.at = "ccs" => Len(client.out) = HeaderLen + BodyLen
  /\ client.at = "finish" => client.out # <<>>
  /\ client.next >= 7 /\ client.out = <<>> => SwitchedKeys(Len(c2s) - client.write.seq)

\* The records under way once the handshake is done.
DataUnderWay ==
  /\ client.out = <<>> /\ client.at \in {"open", "ended"}
  /\ client.write.secret = ApplicationKeys(client.hello).cApp
  /\ readKeys.seq + Len(c2s) = client.write.seq
  /\ Numbered(c2s, 0, ApplicationKeys(client.hello).cApp, readKeys.seq)

\* How far the client's record numbers are ahead of the server's.
WriteInStep ==
  /\ client.at \in {"start", "hello", "ccs", "finish"} =>
       \A i \in 1 .. Len(c2s) : IsHandshake(c2s[i])
  /\ Faithful /\ ~handshakeDone /\ handshakeErr = "nil" => HandshakeUnderWay
  /\ Faithful /\ handshakeDone => DataUnderWay

\* A client that has not read the server's Finished cannot complete the
\* server's handshake.
Agreed == handshakeDone => client.next >= 7

\* The inductive invariant.
TLSIInv ==
  /\ Shapes /\ ClientShape
  /\ ServerOK /\ ClientOK /\ PiecesOK /\ Agreed
  /\ StreamsOK /\ WithinWritten /\ WriteInStep

------------------------------------------------------------------------------
(***************************************************************************)
(* Sequences of whatever.                                                  *)
(***************************************************************************)

\* What IsSeq says, in terms of Seq.
LEMMA SeqIsSeq ==
  ASSUME NEW s, IsSeq(s)
  PROVE  /\ s \in Seq({s[i] : i \in 1 .. Len(s)})
         /\ Len(s) \in Nat /\ DOMAIN s = 1 .. Len(s)
<1> DEFINE S == {s[i] : i \in 1 .. Len(s)}
<1>1. Len(s) \in Nat /\ s = [i \in 1 .. Len(s) |-> s[i]]
  BY DEF IsSeq
<1>2. \A i \in 1 .. Len(s) : s[i] \in S
  OBVIOUS
<1>3. s \in [1 .. Len(s) -> S]
  BY <1>1, <1>2, Zenon
<1> QED
  BY <1>1, <1>3

\* A sequence over some set is a sequence.
LEMMA SeqHasShape ==
  ASSUME NEW S, NEW s \in Seq(S)
  PROVE  IsSeq(s)
BY DEF IsSeq

\* A sequence over a set is one over a larger set.
LEMMA SeqMonotone ==
  ASSUME NEW A, NEW B, A \subseteq B, NEW s \in Seq(A)
  PROVE  s \in Seq(B)
OBVIOUS

\* Append.
LEMMA SeqAppend ==
  ASSUME NEW s, NEW x, IsSeq(s)
  PROVE  /\ IsSeq(Append(s, x)) /\ Len(Append(s, x)) = Len(s) + 1
         /\ \A i \in 1 .. Len(s) : Append(s, x)[i] = s[i]
         /\ Append(s, x)[Len(s) + 1] = x
<1> DEFINE S == {s[i] : i \in 1 .. Len(s)} \cup {x}
<1>0. s \in Seq({s[i] : i \in 1 .. Len(s)})
  BY SeqIsSeq
<1>a. {s[i] : i \in 1 .. Len(s)} \subseteq S /\ x \in S
  OBVIOUS
<1> HIDE DEF S
<1>1. s \in Seq(S) /\ x \in S
  BY <1>0, <1>a, SeqMonotone, Zenon
<1>2. Append(s, x) \in Seq(S)
  BY <1>1
<1>3. IsSeq(Append(s, x))
  BY <1>2, SeqHasShape
<1> QED
  BY <1>1, <1>3


\* Head and Tail.
LEMMA SeqTail ==
  ASSUME NEW s, IsSeq(s), s # <<>>
  PROVE  /\ Len(s) > 0 /\ Head(s) = s[1]
         /\ IsSeq(Tail(s)) /\ Len(Tail(s)) = Len(s) - 1
         /\ \A i \in 1 .. Len(s) - 1 : Tail(s)[i] = s[i + 1]
<1> DEFINE S == {s[i] : i \in 1 .. Len(s)}
<1>1. s \in Seq(S)
  BY SeqIsSeq
<1> HIDE DEF S
<1>2. Tail(s) \in Seq(S)
  BY <1>1
<1>3. IsSeq(Tail(s))
  BY <1>2, SeqHasShape
<1> QED
  BY <1>1, <1>3

\* Concatenation.
LEMMA SeqConcat ==
  ASSUME NEW s, NEW t, IsSeq(s), IsSeq(t)
  PROVE  /\ IsSeq(s \o t) /\ Len(s \o t) = Len(s) + Len(t)
         /\ \A i \in 1 .. Len(s) : (s \o t)[i] = s[i]
         /\ \A i \in 1 .. Len(t) : (s \o t)[Len(s) + i] = t[i]
<1> DEFINE S == {s[i] : i \in 1 .. Len(s)} \cup {t[i] : i \in 1 .. Len(t)}
<1>0. s \in Seq({s[i] : i \in 1 .. Len(s)}) /\ t \in Seq({t[i] : i \in 1 .. Len(t)})
  BY SeqIsSeq
<1>a. {s[i] : i \in 1 .. Len(s)} \subseteq S /\ {t[i] : i \in 1 .. Len(t)} \subseteq S
  OBVIOUS
<1> HIDE DEF S
<1>1. s \in Seq(S) /\ t \in Seq(S)
  BY <1>0, <1>a, SeqMonotone, Zenon
<1>2. s \o t \in Seq(S)
  BY <1>1
<1>3. IsSeq(s \o t)
  BY <1>2, SeqHasShape
<1> QED
  BY <1>1, <1>3

\* A part of a sequence.
LEMMA SeqPart ==
  ASSUME NEW s, IsSeq(s), NEW a \in Nat \ {0}, NEW b \in Nat, b <= Len(s), a <= b + 1
  PROVE  /\ IsSeq(SubSeq(s, a, b)) /\ Len(SubSeq(s, a, b)) = b - a + 1
         /\ \A i \in 1 .. b - a + 1 : SubSeq(s, a, b)[i] = s[a + i - 1]
<1> DEFINE S == {s[i] : i \in 1 .. Len(s)}
<1>1. s \in Seq(S)
  BY SeqIsSeq
<1> HIDE DEF S
<1>2. SubSeq(s, a, b) = [i \in 1 .. b - a + 1 |-> s[a + i - 1]]
  BY <1>1
<1>3. SubSeq(s, a, b) \in Seq(S)
  BY <1>1, <1>2
<1>4. IsSeq(SubSeq(s, a, b))
  BY <1>3, SeqHasShape
<1> QED
  BY <1>1, <1>2, <1>4

\* An empty sequence.
LEMMA SeqEmpty ==
  /\ IsSeq(<<>>) /\ Len(<<>>) = 0
  /\ \A s : IsSeq(s) => (s = <<>> <=> Len(s) = 0)
<1>1. IsSeq(<<>>) /\ Len(<<>>) = 0
  BY DEF IsSeq
<1>2. ASSUME NEW s, IsSeq(s), Len(s) = 0 PROVE s = <<>>
  BY <1>2, SeqIsSeq
<1> QED
  BY <1>1, <1>2
------------------------------------------------------------------------------
(***************************************************************************)
(* The key schedule.                                                       *)
(***************************************************************************)

\* Two sequences with the same length and the same elements are equal.
LEMMA SeqEqual ==
  ASSUME NEW s, NEW t, IsSeq(s), IsSeq(t), Len(s) = Len(t),
         \A i \in 1 .. Len(s) : s[i] = t[i]
  PROVE  s = t
BY DEF IsSeq

\* Appending one element is concatenating a sequence of one element.
LEMMA AppendIsConcat ==
  ASSUME NEW s, NEW x, IsSeq(s)
  PROVE  s \o <<x>> = Append(s, x)
<1>1. IsSeq(<<x>>) /\ Len(<<x>>) = 1 /\ <<x>>[1] = x
  BY DEF IsSeq
<1>2. \A i \in 1 .. Len(s) + 1 : (s \o <<x>>)[i] = Append(s, x)[i]
  <2>1. Len(s) \in Nat
    BY SeqIsSeq
  <2>2. SUFFICES ASSUME NEW i \in 1 .. Len(s) + 1 PROVE (s \o <<x>>)[i] = Append(s, x)[i]
    OBVIOUS
  <2>3. CASE i \in 1 .. Len(s)
    BY <1>1, <2>3, SeqConcat, SeqAppend
  <2>4. CASE i = Len(s) + 1
    BY <1>1, <2>4, SeqConcat, SeqAppend
  <2> QED
    BY <2>1, <2>3, <2>4
<1> QED
  BY <1>1, <1>2, SeqConcat, SeqAppend, SeqEqual

\* The same for two elements.
LEMMA AppendTwoIsConcat ==
  ASSUME NEW s, NEW x, NEW y, IsSeq(s)
  PROVE  s \o <<x, y>> = Append(Append(s, x), y)
<1>1. IsSeq(<<x, y>>) /\ Len(<<x, y>>) = 2 /\ <<x, y>>[1] = x /\ <<x, y>>[2] = y
  BY DEF IsSeq
<1>2. Len(s) \in Nat
  BY SeqIsSeq
<1>3. /\ IsSeq(Append(s, x)) /\ Len(Append(s, x)) = Len(s) + 1
      /\ \A i \in 1 .. Len(s) : Append(s, x)[i] = s[i]
      /\ Append(s, x)[Len(s) + 1] = x
  BY SeqAppend, Zenon
<1>4. /\ IsSeq(Append(Append(s, x), y)) /\ Len(Append(Append(s, x), y)) = Len(s) + 2
      /\ \A i \in 1 .. Len(s) + 1 : Append(Append(s, x), y)[i] = Append(s, x)[i]
      /\ Append(Append(s, x), y)[Len(s) + 2] = y
  BY <1>2, <1>3, SeqAppend
<1>5. /\ IsSeq(s \o <<x, y>>) /\ Len(s \o <<x, y>>) = Len(s) + 2
      /\ \A i \in 1 .. Len(s) : (s \o <<x, y>>)[i] = s[i]
      /\ (s \o <<x, y>>)[Len(s) + 1] = x /\ (s \o <<x, y>>)[Len(s) + 2] = y
  BY <1>1, <1>2, SeqConcat
<1>6. \A i \in 1 .. Len(s) + 2 : (s \o <<x, y>>)[i] = Append(Append(s, x), y)[i]
  <2>1. SUFFICES ASSUME NEW i \in 1 .. Len(s) + 2
                 PROVE  (s \o <<x, y>>)[i] = Append(Append(s, x), y)[i]
    OBVIOUS
  <2>2. i \in 1 .. Len(s) \/ i = Len(s) + 1 \/ i = Len(s) + 2
    BY <1>2
  <2> QED
    BY <1>2, <1>3, <1>4, <1>5, <2>2
<1> QED
  BY <1>4, <1>5, <1>6, SeqEqual

\* A sequence of one element and one more.
LEMMA AppendOne ==
  ASSUME NEW a, NEW b
  PROVE  Append(<<a>>, b) = <<a, b>>
<1>1. IsSeq(<<a>>) /\ Len(<<a>>) = 1 /\ IsSeq(<<a, b>>) /\ Len(<<a, b>>) = 2
  BY DEF IsSeq
<1>2. /\ IsSeq(Append(<<a>>, b)) /\ Len(Append(<<a>>, b)) = Len(<<a>>) + 1
      /\ \A i \in 1 .. Len(<<a>>) : Append(<<a>>, b)[i] = <<a>>[i]
      /\ Append(<<a>>, b)[Len(<<a>>) + 1] = b
  BY <1>1, SeqAppend, Zenon
<1>3. \A i \in 1 .. 2 : Append(<<a>>, b)[i] = <<a, b>>[i]
  BY <1>1, <1>2
<1> DEFINE p == Append(<<a>>, b)
           q == <<a, b>>
<1>4. IsSeq(p) /\ IsSeq(q) /\ Len(p) = 2 /\ Len(q) = 2 /\ \A i \in 1 .. 2 : p[i] = q[i]
  BY <1>1, <1>2, <1>3
<1> HIDE DEF p, q
<1>5. p = q
  BY <1>4, SeqEqual
<1> QED
  BY <1>5 DEF p, q

\* The handshake secret, element by element.
LEMMA HandshakeSecretIs ==
  ASSUME NEW e
  PROVE  /\ HandshakeSecret(e) = <<<<"extract", <<>>>>, <<"derived", <<>>>>, <<"extract", e>>>>
         /\ IsSeq(HandshakeSecret(e)) /\ Len(HandshakeSecret(e)) = 3
<1>1. \A a, b, c : Append(Append(Append(<<>>, a), b), c) = <<a, b, c>>
  <2> SUFFICES ASSUME NEW a, NEW b, NEW c
               PROVE  Append(Append(Append(<<>>, a), b), c) = <<a, b, c>>
    OBVIOUS
  <2>1. Append(<<>>, a) = <<a>>
    OBVIOUS
  <2>2. Append(<<a>>, b) = <<a, b>>
    BY AppendOne
  <2>3. Append(<<a, b>>, c) = <<a, b, c>>
    <3>1. IsSeq(<<a, b>>) /\ Len(<<a, b>>) = 2 /\ IsSeq(<<a, b, c>>) /\ Len(<<a, b, c>>) = 3
      BY DEF IsSeq
    <3>2. /\ IsSeq(Append(<<a, b>>, c)) /\ Len(Append(<<a, b>>, c)) = Len(<<a, b>>) + 1
          /\ \A i \in 1 .. Len(<<a, b>>) : Append(<<a, b>>, c)[i] = <<a, b>>[i]
          /\ Append(<<a, b>>, c)[Len(<<a, b>>) + 1] = c
      BY <3>1, SeqAppend, Zenon
    <3>3. \A i \in 1 .. 3 : Append(<<a, b>>, c)[i] = <<a, b, c>>[i]
      BY <3>1, <3>2
    <3> DEFINE p == Append(<<a, b>>, c)
               q == <<a, b, c>>
    <3>4. IsSeq(p) /\ IsSeq(q) /\ Len(p) = 3 /\ Len(q) = 3 /\ \A i \in 1 .. 3 : p[i] = q[i]
      BY <3>1, <3>2, <3>3
    <3> HIDE DEF p, q
    <3>5. p = q
      BY <3>4, SeqEqual
    <3> QED
      BY <3>5 DEF p, q
  <2> QED
    BY <2>1, <2>2, <2>3
<1>2. HandshakeSecret(e) = <<<<"extract", <<>>>>, <<"derived", <<>>>>, <<"extract", e>>>>
  BY <1>1, Zenon DEF HandshakeSecret, hkdfExtract, deriveSecret
<1>3. \A a, b, c : IsSeq(<<a, b, c>>) /\ Len(<<a, b, c>>) = 3
  BY DEF IsSeq
<1> QED
  BY <1>2, <1>3, Zenon

\* The four traffic secrets are sequences of 4 and of 6 elements, and the
\* two of a kind differ.
LEMMA TrafficSecrets ==
  ASSUME NEW e, NEW t, NEW u
  PROVE  LET k == newKeySchedule(e, t)
             j == SetServerFinishedTranscript(k, u) IN
         /\ IsSeq(k.cHS) /\ Len(k.cHS) = 4 /\ IsSeq(k.sHS) /\ Len(k.sHS) = 4
         /\ IsSeq(j.cApp) /\ Len(j.cApp) = 6 /\ IsSeq(j.sApp) /\ Len(j.sApp) = 6
         /\ j.cHS = k.cHS /\ j.sHS = k.sHS
<1> DEFINE hs == HandshakeSecret(e)
           d == <<"derived", <<>>>>
           x == <<"extract", <<>>>>
           master == Append(Append(hs, d), x)
<1>1. IsSeq(hs) /\ Len(hs) = 3
  BY HandshakeSecretIs
<1> HIDE DEF hs, d, x
<1>2. IsSeq(Append(hs, d)) /\ Len(Append(hs, d)) = Len(hs) + 1
  BY <1>1, SeqAppend, Zenon
<1>3. IsSeq(master) /\ Len(master) = Len(Append(hs, d)) + 1
  BY <1>2, SeqAppend, Zenon
<1> HIDE DEF master
<1>4. \A y : IsSeq(Append(hs, y)) /\ Len(Append(hs, y)) = Len(hs) + 1
  BY <1>1, SeqAppend, Zenon
<1>5. \A y : IsSeq(Append(master, y)) /\ Len(Append(master, y)) = Len(master) + 1
  BY <1>3, SeqAppend, Zenon
<1> DEFINE c4 == Append(hs, <<"c_hs_traffic", t>>)
           s4 == Append(hs, <<"s_hs_traffic", t>>)
           c6 == Append(master, <<"c_ap_traffic", u>>)
           s6 == Append(master, <<"s_ap_traffic", u>>)
           k == newKeySchedule(e, t)
           j == SetServerFinishedTranscript(k, u)
<1>6. k = [handshake |-> hs, cHS |-> c4, sHS |-> s4, cApp |-> <<>>, sApp |-> <<>>]
  BY DEF newKeySchedule, deriveSecret, hs
<1>7. j = [k EXCEPT !.cApp = c6, !.sApp = s6]
  <2>1. k.handshake = hs
    BY <1>6
  <2> QED
    BY <2>1, Zenon DEF SetServerFinishedTranscript, deriveSecret, hkdfExtract, master, d, x
<1>8. Len(hs) + 1 = 4 /\ Len(master) + 1 = 6
  BY <1>1, <1>2, <1>3
<1>9. /\ IsSeq(c4) /\ Len(c4) = 4 /\ IsSeq(s4) /\ Len(s4) = 4
      /\ IsSeq(c6) /\ Len(c6) = 6 /\ IsSeq(s6) /\ Len(s6) = 6
  BY <1>4, <1>5, <1>8, Zenon
<1> HIDE DEF c4, s4, c6, s6, k, j
<1>10. j = [handshake |-> hs, cHS |-> c4, sHS |-> s4, cApp |-> c6, sApp |-> s6]
  BY <1>6, <1>7
<1>11. /\ IsSeq(k.cHS) /\ Len(k.cHS) = 4 /\ IsSeq(k.sHS) /\ Len(k.sHS) = 4
       /\ IsSeq(j.cApp) /\ Len(j.cApp) = 6 /\ IsSeq(j.sApp) /\ Len(j.sApp) = 6
       /\ j.cHS = k.cHS /\ j.sHS = k.sHS
  BY <1>6, <1>9, <1>10
<1> QED
  BY <1>11 DEF k, j

\* The server's key schedule is the client's.
LEMMA SchedulesAgree ==
  ASSUME NEW e, NEW t, NEW u
  PROVE  /\ newKeySchedule(e, t) = ClientSecrets(e, t)
         /\ SetServerFinishedTranscript(newKeySchedule(e, t), u)
              = ClientAppSecrets(newKeySchedule(e, t), u)
<1> DEFINE hs == HandshakeSecret(e)
<1>1. /\ hs = <<<<"extract", <<>>>>, <<"derived", <<>>>>, <<"extract", e>>>>
      /\ IsSeq(hs)
  BY HandshakeSecretIs
<1> HIDE DEF hs
<1>2. \A x : hs \o <<x>> = Append(hs, x)
  BY <1>1, AppendIsConcat
<1>3. newKeySchedule(e, t) = ClientSecrets(e, t)
  BY <1>1, <1>2 DEF newKeySchedule, deriveSecret, ClientSecrets, hs
<1>4. newKeySchedule(e, t).handshake = hs
  BY DEF newKeySchedule, hs
<1> DEFINE d == <<"derived", <<>>>>
           x == <<"extract", <<>>>>
           master == Append(Append(hs, d), x)
<1> HIDE DEF d, x
<1>5. master = hs \o <<d, x>>
  BY <1>1, AppendTwoIsConcat
<1>6. IsSeq(master)
  BY <1>1, SeqAppend, Zenon
<1> HIDE DEF master
<1>7. \A y : master \o <<y>> = Append(master, y)
  BY <1>6, AppendIsConcat, Zenon
<1>8. SetServerFinishedTranscript(newKeySchedule(e, t), u)
        = ClientAppSecrets(newKeySchedule(e, t), u)
  <2> DEFINE k == newKeySchedule(e, t)
  <2>1. SetServerFinishedTranscript(k, u) =
          [k EXCEPT !.cApp = Append(master, <<"c_ap_traffic", u>>),
                    !.sApp = Append(master, <<"s_ap_traffic", u>>)]
    BY <1>4, Zenon DEF SetServerFinishedTranscript, deriveSecret, hkdfExtract, master, d, x
  <2>2. ClientAppSecrets(k, u) =
          [k EXCEPT !.cApp = master \o <<<<"c_ap_traffic", u>>>>,
                    !.sApp = master \o <<<<"s_ap_traffic", u>>>>]
    BY <1>4, <1>5, Zenon DEF ClientAppSecrets, d, x
  <2>3. master \o <<<<"c_ap_traffic", u>>>> = Append(master, <<"c_ap_traffic", u>>)
    BY <1>7, Zenon
  <2>4. master \o <<<<"s_ap_traffic", u>>>> = Append(master, <<"s_ap_traffic", u>>)
    BY <1>7, Zenon
  <2> QED
    BY <2>1, <2>2, <2>3, <2>4, Zenon
<1> QED
  BY <1>3, <1>8

\* The check value of a Finished is the same on both sides, and not empty.
LEMMA FinishedAgrees ==
  ASSUME NEW s, NEW t, IsSeq(s)
  PROVE  verifyData(s, t) = FinishedMAC(s, t) /\ verifyData(s, t) # <<>>
<1> DEFINE x == <<"finished", <<>>>>
           y == <<"hmac", t>>
<1>1. verifyData(s, t) = Append(Append(s, x), y)
  BY DEF verifyData, deriveSecret
<1>2. FinishedMAC(s, t) = s \o <<x, y>>
  BY DEF FinishedMAC
<1> HIDE DEF x, y
<1>3. IsSeq(Append(s, x))
  BY SeqAppend, Zenon
<1>4. /\ IsSeq(Append(Append(s, x), y))
      /\ Len(Append(Append(s, x), y)) = Len(Append(s, x)) + 1
      /\ Len(Append(s, x)) \in Nat
  BY <1>3, SeqAppend, SeqIsSeq, Zenon
<1>5. Append(Append(s, x), y) # <<>>
  <2> DEFINE z == Append(Append(s, x), y)
  <2>1. IsSeq(z) /\ Len(z) # 0
    BY <1>4
  <2> HIDE DEF z
  <2>2. z # <<>>
    BY <2>1, SeqEmpty
  <2> QED
    BY <2>2 DEF z
<1>6. s \o <<x, y>> = Append(Append(s, x), y)
  BY AppendTwoIsConcat
<1> QED
  BY <1>1, <1>2, <1>5, <1>6, Zenon

\* A set of natural numbers with a member has a least one.
LEMMA LeastMember ==
  ASSUME NEW T \in SUBSET Nat, T # {}
  PROVE  \E n \in T : \A m \in T : n <= m
<1>1. IsWellFoundedOn(OpToRel(<, Nat), Nat)
  BY NatLessThanWellFounded
<1>2. PICK n \in T : \A m \in T : ~(<<m, n>> \in OpToRel(<, Nat))
  BY <1>1, WFMin
<1>3. \A m \in T : ~(m < n)
  BY <1>2 DEF OpToRel
<1>4. QED
  BY <1>3

\* The share the server takes is the one the client takes.
LEMMA OwnShareFound ==
  ASSUME NEW c \in Clients, NEW h, h = c.hello, HasShare(h)
  PROVE  h.keyShares[OwnShare(h)] = findKeyShare(h)
<1> DEFINE D == DOMAIN h.keyShares
           Mine(i) == h.keyShares[i].group = "x25519"
           mine == {i \in D : Mine(i)}
           Least1(i) == \A j \in mine : i <= j
           Least2(i) == Mine(i) /\ \A j \in 1 .. i - 1 : h.keyShares[j].group # "x25519"
<1>1. PICK n \in Nat : D = 1 .. n
  BY TLSAssumption
<1>2. mine # {} /\ mine \in SUBSET Nat
  BY <1>1 DEF HasShare
<1>3. PICK m \in mine : Least1(m)
  BY <1>2, LeastMember
<1>4. \A i \in D : Mine(i) <=> i \in mine
  OBVIOUS
<1> HIDE DEF D
<1>5. \A i \in D : (i \in mine /\ Least1(i)) <=> i = m
  <2>1. \A i \in mine : i \in Nat
    BY <1>1
  <2> HIDE DEF mine
  <2> QED
    BY <1>3, <2>1
<1>6. \A i \in D : Least2(i) <=> i = m
  <2>1. m \in D /\ Mine(m)
    BY <1>3
  <2>2. \A j \in D : Mine(j) => m <= j
    BY <1>3
  <2>3. \A i \in D : Least2(i) <=> (Mine(i) /\ \A j \in 1 .. i - 1 : ~Mine(j))
    OBVIOUS
  <2> HIDE DEF Least2, mine, Mine
  <2> QED
    BY <1>1, <2>1, <2>2, <2>3
<1>7. findKeyShare(h) = h.keyShares[m]
  <2>1. findKeyShare(h) = h.keyShares[CHOOSE i \in mine : Least1(i)]
    BY Zenon DEF findKeyShare, D
  <2>2. \A i \in mine : i \in D
    OBVIOUS
  <2> HIDE DEF mine, Least1
  <2>3. (CHOOSE i \in mine : Least1(i)) = m
    BY <1>3, <1>5, <2>2, Zenon
  <2> QED
    BY <2>1, <2>3
<1>8. OwnShare(h) = m
  <2>1. OwnShare(h) = CHOOSE i \in D : Least2(i)
    BY Zenon DEF OwnShare, D
  <2>2. m \in D
    BY <1>3
  <2> HIDE DEF Least2
  <2> QED
    BY <1>6, <2>1, <2>2, Zenon
<1> QED
  BY <1>7, <1>8

\* What the proofs need to know of the messages and secrets of a handshake.
LEMMA Script ==
  ASSUME NEW h
  PROVE  /\ IsSeq(HandshakeKeys(h).cHS) /\ Len(HandshakeKeys(h).cHS) = 4
         /\ IsSeq(HandshakeKeys(h).sHS) /\ Len(HandshakeKeys(h).sHS) = 4
         /\ IsSeq(ApplicationKeys(h).cApp) /\ Len(ApplicationKeys(h).cApp) = 6
         /\ IsSeq(ApplicationKeys(h).sApp) /\ Len(ApplicationKeys(h).sApp) = 6
         /\ ApplicationKeys(h).cHS = HandshakeKeys(h).cHS
         /\ ApplicationKeys(h).sHS = HandshakeKeys(h).sHS
         /\ HandshakeKeys(h) = ClientSecrets(<<findKeyShare(h).key, "server_share">>, Transcript2(h))
         /\ ApplicationKeys(h) = ClientAppSecrets(HandshakeKeys(h), Transcript6(h))
         /\ Finished(h) = <<"finished", FinishedMAC(HandshakeKeys(h).sHS, Transcript5(h))>>
         /\ ClientFinished(h) = <<"finished", FinishedMAC(HandshakeKeys(h).cHS, Transcript6(h))>>
         /\ FinishedMAC(HandshakeKeys(h).cHS, Transcript6(h)) # <<>>
<1> DEFINE e == <<findKeyShare(h).key, "server_share">>
           t == Transcript2(h)
           u == Transcript6(h)
           k == HandshakeKeys(h)
           j == ApplicationKeys(h)
<1>1. k = newKeySchedule(e, t) /\ j = SetServerFinishedTranscript(newKeySchedule(e, t), u)
  BY Zenon DEF HandshakeKeys, ApplicationKeys
<1> HIDE DEF e, t, u
<1>2. /\ IsSeq(k.cHS) /\ Len(k.cHS) = 4 /\ IsSeq(k.sHS) /\ Len(k.sHS) = 4
      /\ IsSeq(j.cApp) /\ Len(j.cApp) = 6 /\ IsSeq(j.sApp) /\ Len(j.sApp) = 6
      /\ j.cHS = k.cHS /\ j.sHS = k.sHS
  BY <1>1, TrafficSecrets, ZenonT(40)
<1>3. k = ClientSecrets(e, t) /\ j = ClientAppSecrets(k, u)
  BY <1>1, SchedulesAgree, Zenon
<1>4. /\ Finished(h) = <<"finished", FinishedMAC(k.sHS, Transcript5(h))>>
      /\ ClientFinished(h) = <<"finished", FinishedMAC(k.cHS, Transcript6(h))>>
      /\ FinishedMAC(k.cHS, Transcript6(h)) # <<>>
  BY <1>2, FinishedAgrees, Zenon DEF Finished, ClientFinished
<1> QED
  BY <1>2, <1>3, <1>4, Zenon DEF e, t, u

\* The secrets differ from each other and from no secret at all.
LEMMA SecretsDiffer ==
  ASSUME NEW h
  PROVE  /\ HandshakeKeys(h).cHS # <<>> /\ HandshakeKeys(h).sHS # <<>>
         /\ ApplicationKeys(h).cApp # <<>> /\ ApplicationKeys(h).sApp # <<>>
         /\ HandshakeKeys(h).sHS # ApplicationKeys(h).sApp
         /\ HandshakeKeys(h).cHS # ApplicationKeys(h).cApp
<1> DEFINE a == HandshakeKeys(h).cHS
           b == HandshakeKeys(h).sHS
           c == ApplicationKeys(h).cApp
           d == ApplicationKeys(h).sApp
<1>1. Len(a) = 4 /\ Len(b) = 4 /\ Len(c) = 6 /\ Len(d) = 6
  BY Script, Zenon
<1> HIDE DEF a, b, c, d
<1>2. a # <<>> /\ b # <<>> /\ c # <<>> /\ d # <<>> /\ a # c /\ b # d
  BY <1>1
<1> QED
  BY <1>2 DEF a, b, c, d

\* The transcripts are of the lengths their names say.
LEMMA TranscriptLengths ==
  ASSUME NEW h
  PROVE  /\ Len(Transcript1(h)) = 1 /\ Len(Transcript2(h)) = 2 /\ Len(Transcript3(h)) = 3
         /\ Len(Transcript4(h)) = 4 /\ Len(Transcript5(h)) = 5
         /\ Transcript1(h)[1] = HelloMessage(h)
         /\ Append(Transcript1(h), ServerHello(h)) = Transcript2(h)
<1>0. \A m : <<m>>[1] = m /\ Len(<<m>>) = 1
  OBVIOUS
<1>1. Len(Transcript1(h)) = 1 /\ Transcript1(h)[1] = HelloMessage(h)
  BY <1>0, Zenon DEF Transcript1
<1>2. \A m, s : IsSeq(<<m, s>>) /\ Len(<<m, s>>) = 2
  BY DEF IsSeq
<1>3. IsSeq(Transcript2(h)) /\ Len(Transcript2(h)) = 2
  BY <1>2, Zenon DEF Transcript2
<1>4. IsSeq(Transcript3(h)) /\ Len(Transcript3(h)) = Len(Transcript2(h)) + 1
  BY <1>3, SeqAppend, Zenon DEF Transcript3
<1>5. IsSeq(Transcript4(h)) /\ Len(Transcript4(h)) = Len(Transcript3(h)) + 1
  BY <1>4, SeqAppend, Zenon DEF Transcript4
<1>6. IsSeq(Transcript5(h)) /\ Len(Transcript5(h)) = Len(Transcript4(h)) + 1
  BY <1>5, SeqAppend, Zenon DEF Transcript5
<1>7. Append(Transcript1(h), ServerHello(h)) = Transcript2(h)
  <2>1. \A a, b : Append(<<a>>, b) = <<a, b>>
    BY AppendOne
  <2> QED
    BY <2>1, Zenon DEF Transcript1, Transcript2
<1> QED
  BY <1>1, <1>3, <1>4, <1>5, <1>6, <1>7

------------------------------------------------------------------------------
(***************************************************************************)
(* The server's steps keep the server's part.                              *)
(***************************************************************************)

\* The order of the encrypted messages.
LEMMA AfterIs ==
  /\ DOMAIN After = {"encrypted_extensions", "certificate", "certificate_verify", "finished"}
  /\ After["encrypted_extensions"] = "certificate"
  /\ After["certificate"] = "certificate_verify"
  /\ After["certificate_verify"] = "finished"
  /\ After["finished"] = "ClientFinished"
BY DEF After

\* readRecord never changes the secret, opens a record with it or fails, and
\* leaves plaintext alone while there are no keys.
LEMMA ReadRecordFacts ==
  ASSUME NEW r, IsKeys(readKeys)
  PROVE  /\ IsKeys(readRecord(r).keys) /\ readRecord(r).keys.secret = readKeys.secret
         /\ readRecord(r).type = r.inner
         /\ readKeys = NoKeys => readRecord(r).keys = NoKeys /\ readRecord(r).err = "nil"
         /\ readRecord(r).err = "nil" /\ readKeys # NoKeys /\ r.outer # ChangeCipherSpec =>
              /\ r.outer = ApplicationData /\ r.secret = readKeys.secret
              /\ r.seq = readKeys.seq
              /\ readRecord(r).keys.seq = readKeys.seq + 1
         /\ r.outer = ChangeCipherSpec => readRecord(r).keys = readKeys
         /\ readRecord(r).err # "write"
         /\ r.outer = ApplicationData /\ r.secret = readKeys.secret /\ r.seq = readKeys.seq
              /\ readKeys # NoKeys /\ r.inner # NoType =>
              readRecord(r).err = "nil" /\ readRecord(r).keys.seq = readKeys.seq + 1
BY DEF readRecord, Open, Advance, IsKeys, NoKeys, NoType, ChangeCipherSpec, ApplicationData

\* The server sends one more record.
LEMMA OneMoreSent ==
  ASSUME NEW r, IsSeq(s2c), s2c' = Append(s2c, r)
  PROVE  /\ IsSeq(s2c') /\ Len(s2c) \in Nat /\ Len(s2c') = Len(s2c) + 1
         /\ \A i \in 1 .. Len(s2c) : s2c'[i] = s2c[i]
         /\ s2c'[Len(s2c) + 1] = r
<1>1. PICK s, t : s = s2c /\ t = s2c'
  OBVIOUS
<1>2. IsSeq(s) /\ t = Append(s, r)
  BY <1>1
<1>3. /\ IsSeq(t) /\ Len(s) \in Nat /\ Len(t) = Len(s) + 1
      /\ \A i \in 1 .. Len(s) : t[i] = s[i]
      /\ t[Len(s) + 1] = r
  BY <1>2, SeqAppend, SeqIsSeq, ZenonT(40)
<1> QED
  BY <1>1, <1>3

\* The client sends one more record.
LEMMA OneMoreToServer ==
  ASSUME NEW r, IsSeq(c2s), c2s' = Append(c2s, r)
  PROVE  /\ IsSeq(c2s') /\ Len(c2s) \in Nat /\ Len(c2s') = Len(c2s) + 1
         /\ \A i \in 1 .. Len(c2s) : c2s'[i] = c2s[i]
         /\ c2s'[Len(c2s) + 1] = r
<1>1. PICK s, t : s = c2s /\ t = c2s'
  OBVIOUS
<1>2. IsSeq(s) /\ t = Append(s, r)
  BY <1>1
<1>3. /\ IsSeq(t) /\ Len(s) \in Nat /\ Len(t) = Len(s) + 1
      /\ \A i \in 1 .. Len(s) : t[i] = s[i]
      /\ t[Len(s) + 1] = r
  BY <1>2, SeqAppend, SeqIsSeq, ZenonT(40)
<1> QED
  BY <1>1, <1>3

\* The server takes the first record.
LEMMA OneLessToServer ==
  ASSUME IsSeq(c2s), c2s # <<>>, c2s' = Tail(c2s)
  PROVE  /\ IsSeq(c2s') /\ Len(c2s) \in Nat /\ Len(c2s) > 0 /\ Len(c2s') = Len(c2s) - 1
         /\ Head(c2s) = c2s[1]
         /\ \A i \in 1 .. Len(c2s) - 1 : c2s'[i] = c2s[i + 1]
BY SeqTail, SeqIsSeq

\* A failure keeps the server's part.
LEMMA FailStep ==
  ASSUME Shapes, ServerOK, pc # "idle", NEW err, err # "nil",
         pc' = "idle", handshakeErr' = err,
         UNCHANGED <<handshakeVars, appVars, s2c>>, client' = client,
         IsKeys(readKeys'), readKeys'.secret = readKeys.secret,
         readKeys = NoKeys => readKeys' = NoKeys,
         IsSeq(hsBuf'), IsSeq(c2s'), \A i \in 1 .. Len(c2s') : IsSeq(c2s'[i].data)
  PROVE  Shapes' /\ ServerOK'
<1>1. Shapes'
  BY DEF Shapes, handshakeVars, appVars
<1>2. SentAt'
  BY DEF ServerOK, SentAt, Shapes, handshakeVars, appVars
<1>3. Knows(client.hello)' /\ Sent(client.hello)'
  BY DEF ServerOK, Knows, Sent, handshakeVars, appVars
<1>4. UsesKeys(client.hello)'
  BY <1>2 DEF ServerOK, SentAt, UsesKeys, Shapes, handshakeVars, appVars
<1> QED
  BY <1>1, <1>2, <1>3, <1>4 DEF ServerOK

\* The first call of Handshake.
LEMMA CallHandshakeStep ==
  ASSUME Shapes, ServerOK, CallHandshake
  PROVE  Shapes' /\ ServerOK'
<1> USE DEF CallHandshake, appVars
<1>1. Shapes'
  BY DEF Shapes
<1>2. Len(s2c) = 0
  BY DEF ServerOK, SentAt
<1>3. SentAt'
  BY <1>2 DEF ServerOK, SentAt, Shapes
<1>4. Knows(client.hello)'
  BY <1>2 DEF ServerOK, Knows
<1>5. UsesKeys(client.hello)' /\ Sent(client.hello)'
  BY <1>2 DEF ServerOK, UsesKeys, Sent
<1> QED
  BY <1>1, <1>3, <1>4, <1>5 DEF ServerOK

\* A record is read in the handshake.
LEMMA ReadHandshakeRecordStep ==
  ASSUME Shapes, ServerOK, ReadHandshakeRecord
  PROVE  Shapes' /\ ServerOK'
<1> DEFINE r == readRecord(Head(c2s))
<1>1. /\ IsKeys(r.keys) /\ r.keys.secret = readKeys.secret
      /\ readKeys = NoKeys => r.keys = NoKeys
  BY ReadRecordFacts DEF Shapes
<1>2. /\ pc # "idle" /\ c2s # <<>> /\ c2s' = Tail(c2s) /\ readKeys' = r.keys
      /\ hsBuf' = hsBuf \o Head(c2s).data \/ hsBuf' = hsBuf
  BY DEF ReadHandshakeRecord
<1>3. Head(c2s) = c2s[1] /\ Len(c2s) \in Nat /\ Len(c2s) > 0
  BY <1>2, SeqTail, SeqIsSeq DEF Shapes
<1>4. IsSeq(hsBuf')
  <2>1. IsSeq(hsBuf) /\ IsSeq(Head(c2s).data)
    BY <1>3 DEF Shapes
  <2>2. IsSeq(hsBuf \o Head(c2s).data)
    BY <2>1, SeqConcat, Zenon
  <2> QED
    BY <1>2, <2>1, <2>2, Zenon
<1>5. IsSeq(c2s') /\ \A i \in 1 .. Len(c2s') : IsSeq(c2s'[i].data)
  <2>1. /\ IsSeq(c2s') /\ Len(c2s') = Len(c2s) - 1
        /\ \A i \in 1 .. Len(c2s) - 1 : c2s'[i] = c2s[i + 1]
    BY <1>2, SeqTail DEF Shapes
  <2> QED
    BY <1>3, <2>1 DEF Shapes
<1> DEFINE good == r.err = "nil" /\ r.type \in {ChangeCipherSpec, Handshake}
           bad == IF r.err # "nil" THEN r.err
                  ELSE IF r.type = Alert THEN "peer_alert" ELSE "record_type"
<1>6. CASE good
  <2>1. UNCHANGED <<pc, handshakeVars, handshakeErr, appVars, s2c, ended, client>>
    BY <1>6 DEF ReadHandshakeRecord
  <2> HIDE DEF r, good
  <2>2. Shapes'
    BY <1>1, <1>2, <1>4, <1>5, <2>1 DEF Shapes, handshakeVars, appVars
  <2>3. SentAt'
    BY <1>2, <2>1 DEF ServerOK, SentAt, handshakeVars, appVars
  <2>4. Knows(client.hello)' /\ Sent(client.hello)'
    BY <2>1 DEF ServerOK, Knows, Sent, handshakeVars, appVars
  <2>5. UsesKeys(client.hello)'
    BY <1>1, <1>2, <2>1 DEF ServerOK, SentAt, UsesKeys, Shapes, handshakeVars, appVars
  <2> QED
    BY <2>2, <2>3, <2>4, <2>5 DEF ServerOK
<1>7. CASE ~good
  <2>1. HandshakeFails(bad)
    BY <1>7 DEF ReadHandshakeRecord
  <2>2. bad # "nil"
    OBVIOUS
  <2> HIDE DEF r, good, bad
  <2>3. /\ pc' = "idle" /\ handshakeErr' = bad
        /\ UNCHANGED <<handshakeVars, appVars, s2c>> /\ client' = client
    BY <2>1 DEF HandshakeFails
  <2>4. /\ IsKeys(readKeys') /\ readKeys'.secret = readKeys.secret
        /\ readKeys = NoKeys => readKeys' = NoKeys
    BY <1>1, <1>2
  <2> QED
    BY <1>2, <1>4, <1>5, <2>2, <2>3, <2>4, FailStep
<1> QED
  BY <1>6, <1>7

\* The message at the front of a buffer that holds a whole one.
LEMMA TakenFacts ==
  ASSUME Shapes, Buffered
  PROVE  /\ Len(hsBuf) >= HeaderLen + BodyLen /\ 1 \in 1 .. Len(hsBuf)
         /\ IsSeq(Untaken) /\ Len(Untaken) = Len(hsBuf) - (HeaderLen + BodyLen)
         /\ \A i \in 1 .. Len(Untaken) : Untaken[i] = hsBuf[i + HeaderLen + BodyLen]
<1> DEFINE a == HeaderLen + BodyLen + 1
<1>1. IsSeq(hsBuf) /\ Len(hsBuf) \in Nat /\ Len(hsBuf) >= 3 /\ a = 4
  BY SeqIsSeq DEF Shapes, Buffered, HeaderLen, BodyLen
<1>2. a \in Nat \ {0} /\ Len(hsBuf) <= Len(hsBuf) /\ a <= Len(hsBuf) + 1
  BY <1>1
<1> DEFINE b == Len(hsBuf)
<1> HIDE DEF a, b
<1>3. /\ IsSeq(SubSeq(hsBuf, a, b)) /\ Len(SubSeq(hsBuf, a, b)) = b - a + 1
      /\ \A i \in 1 .. b - a + 1 : SubSeq(hsBuf, a, b)[i] = hsBuf[a + i - 1]
  <2>1. IsSeq(hsBuf) /\ a \in Nat \ {0} /\ b \in Nat /\ b <= Len(hsBuf) /\ a <= b + 1
    BY <1>1, <1>2 DEF b
  <2> QED
    BY <2>1, SeqPart
<1>4. Untaken = SubSeq(hsBuf, a, b)
  BY DEF Untaken, a, b
<1> QED
  BY <1>1, <1>3, <1>4 DEF HeaderLen, BodyLen, b

\* The stream ends in the handshake, or the ServerHello cannot be sent.
LEMMA HandshakeStopsStep ==
  ASSUME Shapes, ServerOK, ReadHandshakeEnd \/ WriteServerHelloFails
  PROVE  Shapes' /\ ServerOK'
<1>1. PICK err : err # "nil" /\ HandshakeFails(err) /\ UNCHANGED <<readKeys, c2s>>
                 /\ pc # "idle" /\ IsSeq(hsBuf')
  <2>1. CASE ReadHandshakeEnd
    <3>1. EndError(ended) # "nil"
      BY DEF EndError
    <3>2. hsBuf' = hsBuf /\ IsSeq(hsBuf)
      BY <2>1 DEF ReadHandshakeEnd, Shapes
    <3> QED
      BY <2>1, <3>1, <3>2 DEF ReadHandshakeEnd
  <2>2. CASE WriteServerHelloFails
    <3>1. Buffered /\ hsBuf' = Untaken
      BY <2>2 DEF WriteServerHelloFails
    <3>2. IsSeq(hsBuf')
      BY <3>1, TakenFacts, Zenon
    <3> QED
      BY <2>2, <3>2 DEF WriteServerHelloFails
  <2> QED
    BY <2>1, <2>2
<1>2. /\ pc' = "idle" /\ handshakeErr' = err
      /\ UNCHANGED <<handshakeVars, appVars, s2c>> /\ client' = client
  BY <1>1 DEF HandshakeFails
<1>3. /\ IsKeys(readKeys') /\ readKeys'.secret = readKeys.secret
      /\ readKeys = NoKeys => readKeys' = NoKeys
      /\ IsSeq(hsBuf') /\ IsSeq(c2s') /\ \A i \in 1 .. Len(c2s') : IsSeq(c2s'[i].data)
  BY <1>1 DEF Shapes
<1> QED
  BY <1>1, <1>2, <1>3, FailStep

\* The transport refuses a record of the server's flight.
LEMMA WriteFailsStep ==
  ASSUME Shapes, ServerOK, WriteFails
  PROVE  Shapes' /\ ServerOK'
<1>1. /\ pc \in {"ChangeCipherSpec"} \cup DOMAIN After /\ pc # "idle"
      /\ pc' = "idle" /\ handshakeErr' = "write" /\ client' = client
      /\ UNCHANGED <<tx, schedule, handshakeDone, readKeys, hsBuf, s2c, c2s>>
      /\ UNCHANGED <<inAppData, appErr, pending, written, delivered>>
      /\ writeKeys' = Advance(writeKeys) \/ writeKeys' = writeKeys
  BY AfterIs DEF WriteFails, appVars
<1>2. IsKeys(writeKeys') /\ writeKeys'.secret = writeKeys.secret
  BY <1>1 DEF Shapes, IsKeys, Advance
<1>3. Len(s2c) > 0 /\ ~handshakeDone
  <2>1. pc \in {"ChangeCipherSpec", "encrypted_extensions", "certificate", "certificate_verify",
                "finished"}
    BY <1>1, AfterIs
  <2>2. \/ Len(s2c) = 1 \/ Len(s2c) = 2 \/ Len(s2c) = 3 \/ Len(s2c) = 4 \/ Len(s2c) = 5
    BY <2>1, Zenon DEF ServerOK, SentAt
  <2>3. ~handshakeDone
    BY <1>1, Zenon DEF ServerOK, SentAt
  <2> QED
    BY <2>2, <2>3
<1>4. Shapes'
  BY <1>1, <1>2 DEF Shapes
<1>5. SentAt'
  BY <1>1, <1>3 DEF ServerOK, SentAt
<1>6. Knows(client.hello)' /\ Sent(client.hello)'
  BY <1>1 DEF ServerOK, Knows, Sent
<1>7. UsesKeys(client.hello)'
  BY <1>1, <1>2, <1>3 DEF ServerOK, UsesKeys
<1> QED
  BY <1>4, <1>5, <1>6, <1>7 DEF ServerOK

\* The ClientHello the server answers is the one the client sent.
LEMMA HelloIsTheClients ==
  ASSUME Shapes, ClientShape, ServerOK, ClientOK, PiecesOK, pc = "ClientHello", Buffered,
         HelloError(Taken) = "nil"
  PROVE  /\ Taken = HelloMessage(client.hello) /\ Taken[2] = client.hello
         /\ client.tx = Transcript1(client.hello) /\ HasShare(client.hello)
         /\ client.next = 1
<1>1. Len(s2c) = 0
  BY DEF ServerOK, SentAt
<1>2. Genuine(hsBuf[1])
  BY TakenFacts DEF PiecesOK
<1>3. client.tx # <<>> /\ Taken = client.tx[1]
  BY <1>1, <1>2 DEF Genuine, Taken
<1>4. client.next = 1 /\ client.tx \in {Transcript1(client.hello), <<<<"finished", <<>>>>>>}
  <2>1. client.next <= 1
    BY <1>1 DEF ClientOK
  <2> QED
    BY <1>3, <2>1 DEF ClientOK, ClientKnows, ClientShape
<1>5. Taken[1] = "client_hello"
  BY DEF HelloError
<1>6. client.tx # <<<<"finished", <<>>>>>>
  BY <1>3, <1>5
<1>7. Taken = HelloMessage(client.hello)
  BY <1>3, <1>4, <1>6, TranscriptLengths
<1>8. Taken[2] = client.hello
  BY <1>7 DEF HelloMessage
<1>9. HasShare(client.hello)
  BY <1>8 DEF HelloError, validateClientHello
<1> QED
  BY <1>4, <1>6, <1>7, <1>8, <1>9

\* The ClientHello.
LEMMA HandleClientHelloStep ==
  ASSUME Shapes, ClientShape, ServerOK, ClientOK, PiecesOK, HandleClientHello
  PROVE  Shapes' /\ ServerOK'
<1>0. pc = "ClientHello" /\ Buffered /\ hsBuf' = Untaken
  BY DEF HandleClientHello
<1>1. CASE HelloError(Taken) # "nil"
  <2> DEFINE err == HelloError(Taken)
  <2>1. HandshakeFails(err) /\ UNCHANGED <<readKeys, c2s>> /\ err # "nil"
    BY <1>1 DEF HandleClientHello
  <2> HIDE DEF err
  <2>2. /\ pc' = "idle" /\ handshakeErr' = err
        /\ UNCHANGED <<handshakeVars, appVars, s2c>> /\ client' = client
    BY <2>1 DEF HandshakeFails
  <2>3. /\ IsKeys(readKeys') /\ readKeys'.secret = readKeys.secret
        /\ readKeys = NoKeys => readKeys' = NoKeys
        /\ IsSeq(c2s') /\ \A i \in 1 .. Len(c2s') : IsSeq(c2s'[i].data)
    BY <2>1 DEF Shapes
  <2>4. IsSeq(hsBuf')
    BY <1>0, TakenFacts
  <2> QED
    BY <1>0, <2>1, <2>2, <2>3, <2>4, FailStep
<1>2. CASE HelloError(Taken) = "nil"
  <2> DEFINE h == client.hello
             k == HandshakeKeys(h)
  <2>1. Taken = HelloMessage(h) /\ Taken[2] = h /\ HasShare(h)
    BY <1>0, <1>2, HelloIsTheClients
  <2>2. /\ s2c' = Append(s2c, Plaintext(Handshake, <<ServerHello(h)>>))
        /\ tx' = Transcript2(h) /\ schedule' = k
        /\ readKeys' = [secret |-> k.cHS, seq |-> 0]
        /\ writeKeys' = [secret |-> k.sHS, seq |-> 0]
        /\ pc' = "ChangeCipherSpec"
        /\ UNCHANGED <<handshakeDone, handshakeErr, appVars, c2s, ended, client>>
    BY <1>2, <2>1, Zenon DEF HandleClientHello, HandshakeKeys, Transcript2, newRecordKeysFromSecret
  <2>3. k.cHS # <<>> /\ k.sHS # <<>>
    BY SecretsDiffer, Zenon
  <2>4. Len(s2c) = 0 /\ IsSeq(s2c)
    BY <1>0 DEF ServerOK, SentAt, Shapes
  <2>5. IsSeq(s2c') /\ Len(s2c') = 1 /\ s2c'[1] = Plaintext(Handshake, <<ServerHello(h)>>)
    <3>1. /\ IsSeq(s2c') /\ Len(s2c') = Len(s2c) + 1
          /\ s2c'[Len(s2c) + 1] = Plaintext(Handshake, <<ServerHello(h)>>)
      <4> DEFINE r == Plaintext(Handshake, <<ServerHello(h)>>)
      <4>1. IsSeq(s2c) /\ s2c' = Append(s2c, r)
        BY <2>2, <2>4
      <4> HIDE DEF r
      <4>2. IsSeq(s2c') /\ Len(s2c') = Len(s2c) + 1 /\ s2c'[Len(s2c) + 1] = r
        BY <4>1, OneMoreSent, Zenon
      <4> QED
        BY <4>2 DEF r
    <3> QED
      BY <2>4, <3>1
  <2>6. client'.hello = h
    BY <2>2
  <2> HIDE DEF h, k
  <2>7. Shapes'
    <3>1. IsSeq(hsBuf')
      BY <1>0, TakenFacts
    <3>2. IsKeys(readKeys') /\ IsKeys(writeKeys')
      BY <2>2 DEF IsKeys
    <3> QED
      BY <2>2, <2>5, <3>1, <3>2 DEF Shapes, appVars
  <2>8. SentAt'
    BY <1>0, <2>2, <2>5 DEF ServerOK, SentAt, Shapes, appVars
  <2>9. Knows(client.hello)'
    BY <2>2, <2>5, <2>6 DEF Knows, k
  <2>10. UsesKeys(client.hello)'
    BY <1>0, <2>1, <2>2, <2>3, <2>5, <2>6, <2>8 DEF UsesKeys, k, SentAt
  <2>11. Sent(client.hello)'
    BY <2>5, <2>6 DEF Sent
  <2> QED
    BY <2>7, <2>8, <2>9, <2>10, <2>11 DEF ServerOK
<1> QED
  BY <1>1, <1>2

\* The ChangeCipherSpec.
LEMMA WriteChangeCipherSpecStep ==
  ASSUME Shapes, ServerOK, WriteChangeCipherSpec
  PROVE  Shapes' /\ ServerOK'
<1> DEFINE r == Plaintext(ChangeCipherSpec, <<>>)
<1>1. /\ pc = "ChangeCipherSpec" /\ s2c' = Append(s2c, r) /\ pc' = "encrypted_extensions"
      /\ UNCHANGED <<handshakeVars, readKeys, hsBuf, handshakeErr, appVars, c2s, ended, client>>
  BY DEF WriteChangeCipherSpec
<1> HIDE DEF r
<1>2. Len(s2c) = 1 /\ IsSeq(s2c)
  BY <1>1 DEF ServerOK, SentAt, Shapes
<1>3. IsSeq(s2c') /\ Len(s2c') = 2 /\ s2c'[1] = s2c[1] /\ s2c'[2] = r
  <2>1. /\ IsSeq(s2c') /\ Len(s2c') = Len(s2c) + 1
        /\ \A i \in 1 .. Len(s2c) : s2c'[i] = s2c[i]
        /\ s2c'[Len(s2c) + 1] = r
    <3>1. IsSeq(s2c) /\ s2c' = Append(s2c, r)
      BY <1>1, <1>2
    <3> QED
      BY <3>1, OneMoreSent, Zenon
  <2> QED
    BY <1>2, <2>1
<1>4. Shapes'
  BY <1>1, <1>3, AfterIs DEF Shapes, handshakeVars, appVars
<1>5. SentAt'
  BY <1>1, <1>3 DEF ServerOK, SentAt, handshakeVars, appVars
<1>6. Knows(client.hello)'
  BY <1>1, <1>2, <1>3 DEF ServerOK, Knows, handshakeVars
<1>7. UsesKeys(client.hello)'
  BY <1>1, <1>2, <1>3 DEF ServerOK, UsesKeys, handshakeVars
<1>8. Sent(client.hello)'
  BY <1>1, <1>2, <1>3 DEF ServerOK, Sent, r
<1> QED
  BY <1>4, <1>5, <1>6, <1>7, <1>8 DEF ServerOK

\* One encrypted message of the server's flight.
LEMMA WriteFlightStep ==
  ASSUME Shapes, ServerOK, WriteFlight
  PROVE  Shapes' /\ ServerOK'
<1> DEFINE h == client.hello
           k == HandshakeKeys(h)
           m == FlightMessage(pc)
           r == Seal(writeKeys, Handshake, <<m>>)
<1>1. /\ pc \in DOMAIN After /\ s2c' = Append(s2c, r) /\ tx' = Append(tx, m)
      /\ writeKeys' = Advance(writeKeys)
      /\ pc' = After[pc]
      /\ schedule' = IF pc = "finished" THEN SetServerFinishedTranscript(schedule, tx')
                                        ELSE schedule
      /\ UNCHANGED <<handshakeDone, readKeys, hsBuf, handshakeErr, appVars, c2s, ended, client>>
  BY DEF WriteFlight
<1>2. pc \in {"encrypted_extensions", "certificate", "certificate_verify", "finished"}
  BY <1>1, AfterIs
<1>n. Len(s2c) \in Nat
  BY SeqIsSeq DEF Shapes
<1>3. /\ IsKeys(writeKeys) /\ Len(s2c) \in 2 .. 5 /\ handshakeErr = "nil" /\ ~handshakeDone
      /\ writeKeys.secret = k.sHS /\ writeKeys.seq = Len(s2c) - 2
      /\ readKeys.secret = k.cHS /\ HasShare(h) /\ schedule = k
  <2>0. handshakeErr = "nil" /\ ~handshakeDone /\ IsKeys(writeKeys)
    BY <1>2 DEF ServerOK, SentAt, Shapes
  <2>1. CASE pc = "encrypted_extensions"
    <3>1. Len(s2c) = 2
      BY <2>1 DEF ServerOK, SentAt
    <3>2. schedule = k
      BY <3>1 DEF ServerOK, Knows
    <3>3. /\ writeKeys.secret = k.sHS /\ writeKeys.seq = 0
          /\ readKeys.secret = k.cHS /\ HasShare(h)
      BY <2>1, <3>1 DEF ServerOK, UsesKeys
    <3> QED
      BY <2>0, <3>1, <3>2, <3>3
  <2>2. CASE pc = "certificate"
    <3>1. Len(s2c) = 3
      BY <2>2 DEF ServerOK, SentAt
    <3>2. schedule = k
      BY <3>1 DEF ServerOK, Knows
    <3>3. /\ writeKeys.secret = k.sHS /\ writeKeys.seq = 1
          /\ readKeys.secret = k.cHS /\ HasShare(h)
      BY <2>2, <3>1 DEF ServerOK, UsesKeys
    <3> QED
      BY <2>0, <3>1, <3>2, <3>3
  <2>3. CASE pc = "certificate_verify"
    <3>1. Len(s2c) = 4
      BY <2>3 DEF ServerOK, SentAt
    <3>2. schedule = k
      BY <3>1 DEF ServerOK, Knows
    <3>3. /\ writeKeys.secret = k.sHS /\ writeKeys.seq = 2
          /\ readKeys.secret = k.cHS /\ HasShare(h)
      BY <2>3, <3>1 DEF ServerOK, UsesKeys
    <3> QED
      BY <2>0, <3>1, <3>2, <3>3
  <2>4. CASE pc = "finished"
    <3>1. Len(s2c) = 5
      BY <2>4 DEF ServerOK, SentAt
    <3>2. schedule = k
      BY <3>1 DEF ServerOK, Knows
    <3>3. /\ writeKeys.secret = k.sHS /\ writeKeys.seq = 3
          /\ readKeys.secret = k.cHS /\ HasShare(h)
      BY <2>4, <3>1 DEF ServerOK, UsesKeys
    <3> QED
      BY <2>0, <3>1, <3>2, <3>3
  <2> QED
    BY <1>2, <2>1, <2>2, <2>3, <2>4
<1>4. /\ IsKeys(writeKeys') /\ writeKeys'.secret = k.sHS /\ writeKeys'.seq = Len(s2c) - 1
  BY <1>1, <1>3 DEF IsKeys, Advance
<1>5. r = HandshakeRecord(h, Len(s2c) - 2, m)
  BY <1>3 DEF HandshakeRecord, Seal
<1>6. k.cHS # <<>> /\ k.sHS # <<>>
  BY SecretsDiffer, Zenon
<1>7. /\ pc = "encrypted_extensions" =>
           /\ pc' = "certificate" /\ Len(s2c) = 2 /\ tx = Transcript2(h)
           /\ m = <<"encrypted_extensions", <<>>>>
      /\ pc = "certificate" =>
           /\ pc' = "certificate_verify" /\ Len(s2c) = 3 /\ tx = Transcript3(h)
           /\ m = <<"certificate", "certDER">>
      /\ pc = "certificate_verify" =>
           /\ pc' = "finished" /\ Len(s2c) = 4 /\ tx = Transcript4(h)
           /\ m = <<"certificate_verify", Transcript4(h)>>
      /\ pc = "finished" =>
           /\ pc' = "ClientFinished" /\ Len(s2c) = 5 /\ tx = Transcript5(h) /\ m = Finished(h)
  <2>1. CASE pc = "encrypted_extensions"
    <3>1. Len(s2c) = 2 /\ pc' = "certificate"
      BY <1>1, <2>1, AfterIs DEF ServerOK, SentAt
    <3>2. tx = Transcript2(h)
      BY <3>1 DEF ServerOK, Knows
    <3>3. m = <<"encrypted_extensions", <<>>>>
      BY <2>1 DEF FlightMessage
    <3> QED
      BY <2>1, <3>1, <3>2, <3>3
  <2>2. CASE pc = "certificate"
    <3>1. Len(s2c) = 3 /\ pc' = "certificate_verify"
      BY <1>1, <2>2, AfterIs DEF ServerOK, SentAt
    <3>2. tx = Transcript3(h)
      BY <3>1 DEF ServerOK, Knows
    <3>3. m = <<"certificate", "certDER">>
      BY <2>2 DEF FlightMessage
    <3> QED
      BY <2>2, <3>1, <3>2, <3>3
  <2>3. CASE pc = "certificate_verify"
    <3>1. Len(s2c) = 4 /\ pc' = "finished"
      BY <1>1, <2>3, AfterIs DEF ServerOK, SentAt
    <3>2. tx = Transcript4(h)
      BY <3>1 DEF ServerOK, Knows
    <3>3. m = <<"certificate_verify", Transcript4(h)>>
      BY <2>3, <3>2 DEF FlightMessage
    <3> QED
      BY <2>3, <3>1, <3>2, <3>3
  <2>4. CASE pc = "finished"
    <3>1. Len(s2c) = 5 /\ pc' = "ClientFinished"
      BY <1>1, <2>4, AfterIs DEF ServerOK, SentAt
    <3>2. tx = Transcript5(h)
      BY <3>1 DEF ServerOK, Knows
    <3>3. m = Finished(h)
      BY <1>3, <2>4, <3>2 DEF FlightMessage, Finished
    <3> QED
      BY <2>4, <3>1, <3>2, <3>3
  <2> QED
    BY <1>2, <2>1, <2>2, <2>3, <2>4
<1> HIDE DEF m, r
<1>8. /\ IsSeq(s2c') /\ Len(s2c') = Len(s2c) + 1
      /\ \A i \in 1 .. Len(s2c) : s2c'[i] = s2c[i]
      /\ s2c'[Len(s2c) + 1] = r
  <2>1. IsSeq(s2c) /\ s2c' = Append(s2c, r)
    BY <1>1 DEF Shapes
  <2> QED
    BY <2>1, OneMoreSent, Zenon
<1>9. /\ pc = "encrypted_extensions" => tx' = Transcript3(h) /\ schedule' = k
      /\ pc = "certificate" => tx' = Transcript4(h) /\ schedule' = k
      /\ pc = "certificate_verify" => tx' = Transcript5(h) /\ schedule' = k
      /\ pc = "finished" => tx' = Transcript6(h) /\ schedule' = ApplicationKeys(h)
  BY <1>1, <1>3, <1>7, Zenon
     DEF Transcript3, Transcript4, Transcript5, Transcript6, ApplicationKeys
<1> HIDE DEF k, h
<1>10. client'.hello = h
  BY <1>1 DEF h
<1>11. Shapes'
  BY <1>1, <1>2, <1>4, <1>7, <1>8, AfterIs DEF Shapes, appVars
<1>a. \/ pc' = "certificate" /\ Len(s2c') = 3 /\ tx' = Transcript3(h) /\ schedule' = k
      \/ pc' = "certificate_verify" /\ Len(s2c') = 4 /\ tx' = Transcript4(h) /\ schedule' = k
      \/ pc' = "finished" /\ Len(s2c') = 5 /\ tx' = Transcript5(h) /\ schedule' = k
      \/ /\ pc' = "ClientFinished" /\ Len(s2c') = 6 /\ tx' = Transcript6(h)
         /\ schedule' = ApplicationKeys(h)
  <2>1. CASE pc = "encrypted_extensions"
    <3>0. Len(s2c) = 2
      BY <2>1 DEF ServerOK, SentAt
    <3>1. Len(s2c') = 3
      BY <3>0, <1>8
    <3> QED
      BY <2>1, <3>1, <1>7, <1>9
  <2>2. CASE pc = "certificate"
    <3>0. Len(s2c) = 3
      BY <2>2 DEF ServerOK, SentAt
    <3>1. Len(s2c') = 4
      BY <3>0, <1>8
    <3> QED
      BY <2>2, <3>1, <1>7, <1>9
  <2>3. CASE pc = "certificate_verify"
    <3>0. Len(s2c) = 4
      BY <2>3 DEF ServerOK, SentAt
    <3>1. Len(s2c') = 5
      BY <3>0, <1>8
    <3> QED
      BY <2>3, <3>1, <1>7, <1>9
  <2>4. CASE pc = "finished"
    <3>0. Len(s2c) = 5
      BY <2>4 DEF ServerOK, SentAt
    <3>1. Len(s2c') = 6
      BY <3>0, <1>8
    <3> QED
      BY <2>4, <3>1, <1>7, <1>9
  <2> QED
    BY <1>2, <2>1, <2>2, <2>3, <2>4
<1>b. /\ ~handshakeDone' /\ handshakeErr' = "nil"
      /\ UNCHANGED <<pending, written, delivered, inAppData, appErr>>
  BY <1>1, <1>3 DEF appVars
<1>12. SentAt'
  BY <1>n, <1>3, <1>8, <1>a, <1>b DEF ServerOK, SentAt
<1>13. Knows(client.hello)'
  BY <1>n, <1>8, <1>a, <1>10 DEF Knows, k
<1>14. UsesKeys(client.hello)'
  <2>1. Len(s2c') > 1 /\ Len(s2c') # 0 /\ Len(s2c') # 1 /\ Len(s2c) - 1 = Len(s2c') - 2
    <3>1. Len(s2c) \in 2 .. 5 /\ Len(s2c') = Len(s2c) + 1
      BY <1>3, <1>8
    <3> QED
      BY <3>1
  <2>2. /\ readKeys'.secret = k.cHS /\ writeKeys'.secret = k.sHS
        /\ writeKeys'.seq = Len(s2c') - 2
    BY <1>1, <1>3, <1>4, <2>1
  <2>3. HasShare(h) /\ k = HandshakeKeys(h)
    BY <1>3 DEF k
  <2> QED
    BY <1>6, <1>10, <1>b, <2>1, <2>2, <2>3 DEF UsesKeys
<1>15. Sent(client.hello)'
  <2>1. Sent(h)
    BY DEF ServerOK, h
  <2>2. Len(s2c) \in 2 .. 5 /\ Len(s2c') = Len(s2c) + 1
    BY <1>3, <1>8
  <2>3. \A i \in 1 .. Len(s2c) : s2c'[i] = s2c[i]
    BY <1>8
  <2>4. /\ Len(s2c) = 2 => s2c'[3] = HandshakeRecord(h, 0, <<"encrypted_extensions", <<>>>>)
        /\ Len(s2c) = 3 => s2c'[4] = HandshakeRecord(h, 1, <<"certificate", "certDER">>)
        /\ Len(s2c) = 4 => s2c'[5] = HandshakeRecord(h, 2, <<"certificate_verify", Transcript4(h)>>)
        /\ Len(s2c) = 5 => s2c'[6] = HandshakeRecord(h, 3, Finished(h))
    <3>1. CASE pc = "encrypted_extensions"
      <4>0. Len(s2c) = 2
        BY <3>1 DEF ServerOK, SentAt
      <4>1. Len(s2c) - 2 = 0 /\ Len(s2c) = 2 /\ Len(s2c) + 1 = 3
        BY <4>0
      <4>2. s2c'[3] = HandshakeRecord(h, 0, m)
        BY <4>1, <1>5, <1>8
      <4> QED
        BY <3>1, <4>1, <4>2, <1>7
    <3>2. CASE pc = "certificate"
      <4>0. Len(s2c) = 3
        BY <3>2 DEF ServerOK, SentAt
      <4>1. Len(s2c) - 2 = 1 /\ Len(s2c) = 3 /\ Len(s2c) + 1 = 4
        BY <4>0
      <4>2. s2c'[4] = HandshakeRecord(h, 1, m)
        BY <4>1, <1>5, <1>8
      <4> QED
        BY <3>2, <4>1, <4>2, <1>7
    <3>3. CASE pc = "certificate_verify"
      <4>0. Len(s2c) = 4
        BY <3>3 DEF ServerOK, SentAt
      <4>1. Len(s2c) - 2 = 2 /\ Len(s2c) = 4 /\ Len(s2c) + 1 = 5
        BY <4>0
      <4>2. s2c'[5] = HandshakeRecord(h, 2, m)
        BY <4>1, <1>5, <1>8
      <4> QED
        BY <3>3, <4>1, <4>2, <1>7
    <3>4. CASE pc = "finished"
      <4>0. Len(s2c) = 5
        BY <3>4 DEF ServerOK, SentAt
      <4>1. Len(s2c) - 2 = 3 /\ Len(s2c) = 5 /\ Len(s2c) + 1 = 6
        BY <4>0
      <4>2. s2c'[6] = HandshakeRecord(h, 3, m)
        BY <4>1, <1>5, <1>8
      <4> QED
        BY <3>4, <4>1, <4>2, <1>7
    <3> QED
      BY <1>2, <3>1, <3>2, <3>3, <3>4
  <2>5. CASE Len(s2c) = 2
    BY <1>10, <2>1, <2>2, <2>3, <2>4, <2>5 DEF Sent
  <2>6. CASE Len(s2c) = 3
    BY <1>10, <2>1, <2>2, <2>3, <2>4, <2>6 DEF Sent
  <2>7. CASE Len(s2c) = 4
    BY <1>10, <2>1, <2>2, <2>3, <2>4, <2>7 DEF Sent
  <2>8. CASE Len(s2c) = 5
    BY <1>10, <2>1, <2>2, <2>3, <2>4, <2>8 DEF Sent
  <2> QED
    BY <2>2, <2>5, <2>6, <2>7, <2>8
<1> QED
  BY <1>11, <1>12, <1>13, <1>14, <1>15 DEF ServerOK

\* The client's Finished.
LEMMA HandleClientFinishedStep ==
  ASSUME Shapes, ServerOK, HandleClientFinished
  PROVE  Shapes' /\ ServerOK'
<1>0. pc = "ClientFinished" /\ Buffered /\ hsBuf' = Untaken
  BY DEF HandleClientFinished
<1> DEFINE refuse == Taken[1] # "finished" \/ Taken[2] # verifyData(schedule.cHS, tx)
<1>1. CASE refuse
  <2>1. PICK err : err # "nil" /\ HandshakeFails(err) /\ UNCHANGED <<readKeys, c2s>>
    BY <1>1 DEF HandleClientFinished
  <2>2. /\ pc' = "idle" /\ handshakeErr' = err
        /\ UNCHANGED <<handshakeVars, appVars, s2c>> /\ client' = client
    BY <2>1 DEF HandshakeFails
  <2>3. /\ IsKeys(readKeys') /\ readKeys'.secret = readKeys.secret
        /\ readKeys = NoKeys => readKeys' = NoKeys
        /\ IsSeq(c2s') /\ \A i \in 1 .. Len(c2s') : IsSeq(c2s'[i].data)
    BY <2>1 DEF Shapes
  <2>4. IsSeq(hsBuf')
    BY <1>0, TakenFacts
  <2> QED
    BY <1>0, <2>1, <2>2, <2>3, <2>4, FailStep
<1>2. CASE ~refuse
  <2> DEFINE h == client.hello
             k == ApplicationKeys(h)
  <2>1. /\ readKeys' = [secret |-> schedule.cApp, seq |-> 0]
        /\ writeKeys' = [secret |-> schedule.sApp, seq |-> 0]
        /\ pc' = "idle"
        /\ handshakeDone' = (Untaken = <<>>)
        /\ handshakeErr' = IF Untaken = <<>> THEN "nil" ELSE "trailing_bytes"
        /\ UNCHANGED <<tx, schedule, appVars, s2c, c2s, ended, client>>
    BY <1>2 DEF HandleClientFinished, newRecordKeysFromSecret
  <2>2. Len(s2c) = 6 /\ schedule = k /\ ~handshakeDone
    <3>1. Len(s2c) = 6
      BY <1>0 DEF ServerOK, SentAt
    <3>2. ~handshakeDone
      BY <1>0 DEF ServerOK, SentAt
    <3>3. schedule = k
      BY <3>1 DEF ServerOK, Knows
    <3> QED
      BY <3>1, <3>2, <3>3
  <2>3. k.cApp # <<>> /\ k.sApp # <<>>
    BY SecretsDiffer, Zenon
  <2> HIDE DEF k
  <2>4. IsSeq(hsBuf')
    BY <1>0, TakenFacts
  <2>5. Shapes'
    <3>1. IsKeys(readKeys') /\ IsKeys(writeKeys')
      BY <2>1 DEF IsKeys
    <3>2. handshakeDone' \in BOOLEAN
      BY <2>1, Zenon
    <3> QED
      BY <2>1, <2>4, <3>1, <3>2 DEF Shapes, appVars
  <2>6. SentAt'
    <3>1. handshakeDone' => hsBuf' = <<>> /\ handshakeErr' = "nil"
      BY <1>0, <2>1
    <3>2. ~handshakeDone' => handshakeErr' # "nil"
      BY <2>1
    <3> QED
      BY <1>0, <2>1, <2>2, <3>1, <3>2 DEF ServerOK, SentAt, appVars
  <2>7. Knows(client.hello)' /\ Sent(client.hello)'
    BY <2>1 DEF ServerOK, Knows, Sent
  <2>8. UsesKeys(client.hello)'
    <3>1. HasShare(h)
      BY <2>2 DEF ServerOK, UsesKeys
    <3>2. appErr' # "write"
      BY <2>1, <2>2 DEF ServerOK, SentAt, appVars
    <3> QED
      BY <2>1, <2>2, <2>3, <3>1, <3>2 DEF UsesKeys, k
  <2> QED
    BY <2>5, <2>6, <2>7, <2>8 DEF ServerOK
<1> QED
  BY <1>1, <1>2

\* What Deliver does: the next bytes of data go to the caller, the rest stays.
LEMMA DeliverFacts ==
  ASSUME NEW data, NEW n \in Nat, NEW k, k = Least(n, Len(data)), IsSeq(data), IsSeq(delivered),
         delivered' = delivered \o SubSeq(data, 1, k),
         inAppData' = SubSeq(data, k + 1, Len(data))
  PROVE  /\ k \in 0 .. Len(data) /\ Len(data) \in Nat /\ Len(delivered) \in Nat
         /\ IsSeq(delivered') /\ Len(delivered') = Len(delivered) + k
         /\ \A i \in 1 .. Len(delivered) : delivered'[i] = delivered[i]
         /\ \A i \in 1 .. k : delivered'[Len(delivered) + i] = data[i]
         /\ IsSeq(inAppData') /\ Len(inAppData') = Len(data) - k
         /\ \A i \in 1 .. Len(data) - k : inAppData'[i] = data[k + i]
<1>1. Len(data) \in Nat /\ Len(delivered) \in Nat
  BY SeqIsSeq
<1>2. k \in 0 .. Len(data)
  BY <1>1 DEF Least
<1> DEFINE a == SubSeq(data, 1, k)
           b == SubSeq(data, k + 1, Len(data))
<1>3. IsSeq(a) /\ Len(a) = k /\ \A i \in 1 .. k : a[i] = data[i]
  <2>1. 1 \in Nat \ {0} /\ k \in Nat /\ k <= Len(data) /\ 1 <= k + 1
    BY <1>1, <1>2
  <2>2. IsSeq(a) /\ Len(a) = k - 1 + 1 /\ \A i \in 1 .. k - 1 + 1 : a[i] = data[1 + i - 1]
    BY <2>1, SeqPart
  <2> HIDE DEF a
  <2> QED
    BY <2>1, <2>2
<1>4. IsSeq(b) /\ Len(b) = Len(data) - k /\ \A i \in 1 .. Len(data) - k : b[i] = data[k + i]
  <2> DEFINE c == k + 1
             d == Len(data)
  <2>1. c \in Nat \ {0} /\ d \in Nat /\ d <= Len(data) /\ c <= d + 1
    BY <1>1, <1>2
  <2>2. b = SubSeq(data, c, d)
    OBVIOUS
  <2> HIDE DEF b, c, d
  <2>3. IsSeq(b) /\ Len(b) = d - c + 1 /\ \A i \in 1 .. d - c + 1 : b[i] = data[c + i - 1]
    BY <2>1, <2>2, SeqPart
  <2> QED
    BY <1>1, <1>2, <2>3, SMTT(40) DEF c, d
<1> HIDE DEF a, b
<1>5. delivered' = delivered \o a /\ inAppData' = b
  BY DEF a, b
<1>6. PICK s, t : s = delivered /\ t = delivered'
  OBVIOUS
<1>7. IsSeq(s) /\ t = s \o a
  BY <1>5, <1>6
<1>8. /\ IsSeq(t) /\ Len(t) = Len(s) + Len(a)
      /\ \A i \in 1 .. Len(s) : t[i] = s[i]
      /\ \A i \in 1 .. Len(a) : t[Len(s) + i] = a[i]
  <2>1. IsSeq(a) /\ IsSeq(s)
    BY <1>3, <1>7
  <2>2. IsSeq(t) /\ Len(t) = Len(s) + Len(a)
    BY <1>7, <2>1, SeqConcat, Zenon
  <2>3. \A i \in 1 .. Len(s) : t[i] = s[i]
    BY <1>7, <2>1, SeqConcat
  <2>4. \A i \in 1 .. Len(a) : t[Len(s) + i] = a[i]
    BY <1>7, <2>1, SeqConcat
  <2> QED
    BY <2>2, <2>3, <2>4
<1>9. /\ IsSeq(delivered') /\ Len(delivered') = Len(delivered) + k
      /\ \A i \in 1 .. Len(delivered) : delivered'[i] = delivered[i]
      /\ \A i \in 1 .. k : delivered'[Len(delivered) + i] = data[i]
  BY <1>3, <1>6, <1>8
<1>10. /\ IsSeq(inAppData') /\ Len(inAppData') = Len(data) - k
       /\ \A i \in 1 .. Len(data) - k : inAppData'[i] = data[k + i]
  BY <1>4, <1>5
<1> QED
  BY <1>1, <1>2, <1>9, <1>10

\* new is old and the first part of data, rest the other part.
Shares(old, data, new, rest) ==
  \E k \in 0 .. Len(data) :
    /\ Len(new) = Len(old) + k /\ Len(rest) = Len(data) - k
    /\ \A i \in 1 .. Len(old) : new[i] = old[i]
    /\ \A i \in 1 .. k : new[Len(old) + i] = data[i]
    /\ \A i \in 1 .. Len(data) - k : rest[i] = data[k + i]

\* Data cut in two, the first part appended.
LEMMA CutShares ==
  ASSUME NEW old, NEW data, NEW k \in Nat, IsSeq(old), IsSeq(data), k <= Len(data)
  PROVE  Shares(old, data, old \o SubSeq(data, 1, k), SubSeq(data, k + 1, Len(data)))
<1> DEFINE a == SubSeq(data, 1, k)
           b == SubSeq(data, k + 1, Len(data))
<1>1. Len(data) \in Nat /\ Len(old) \in Nat
  BY SeqIsSeq
<1>2. IsSeq(a) /\ Len(a) = k /\ \A i \in 1 .. k : a[i] = data[i]
  <2>1. 1 \in Nat \ {0} /\ k \in Nat /\ k <= Len(data) /\ 1 <= k + 1
    BY <1>1
  <2>2. IsSeq(a) /\ Len(a) = k - 1 + 1 /\ \A i \in 1 .. k - 1 + 1 : a[i] = data[1 + i - 1]
    BY <2>1, SeqPart
  <2> HIDE DEF a
  <2> QED
    BY <2>1, <2>2
<1>3. Len(b) = Len(data) - k /\ \A i \in 1 .. Len(data) - k : b[i] = data[k + i]
  <2> DEFINE c == k + 1
             d == Len(data)
  <2>1. c \in Nat \ {0} /\ d \in Nat /\ d <= Len(data) /\ c <= d + 1
    BY <1>1
  <2>2. b = SubSeq(data, c, d)
    OBVIOUS
  <2> HIDE DEF b, c, d
  <2>3. Len(b) = d - c + 1 /\ \A i \in 1 .. d - c + 1 : b[i] = data[c + i - 1]
    BY <2>1, <2>2, SeqPart
  <2> QED
    BY <1>1, <2>3 DEF c, d
<1> HIDE DEF a, b
<1> DEFINE s == old \o a
<1>4. /\ Len(s) = Len(old) + Len(a)
      /\ \A i \in 1 .. Len(old) : s[i] = old[i]
      /\ \A i \in 1 .. Len(a) : s[Len(old) + i] = a[i]
  BY <1>2, SeqConcat
<1> HIDE DEF s
<1>5. k \in 0 .. Len(data)
  BY <1>1
<1>6. /\ Len(s) = Len(old) + k
      /\ \A i \in 1 .. Len(old) : s[i] = old[i]
      /\ \A i \in 1 .. k : s[Len(old) + i] = data[i]
  BY <1>2, <1>4
<1>7. Shares(old, data, s, b)
  BY <1>3, <1>5, <1>6 DEF Shares
<1> QED
  BY <1>7 DEF s, a, b

\* The application's reads and the beginning of a write.
LEMMA ApplicationStep ==
  ASSUME Shapes, ServerOK, NEW n \in Nat \ {0},
         ReadBuffered(n) \/ ReadAppRecord(n) \/ ReadAppEnd \/ Write(n)
  PROVE  Shapes' /\ ServerOK'
<1>0. n \in Nat /\ IsSeq(delivered) /\ IsSeq(inAppData) /\ IsSeq(c2s)
  BY DEF Shapes
<1>1. appErr' = "write" <=> appErr = "write"
  <2>1. CASE ReadBuffered(n) \/ Write(n)
    BY <2>1 DEF ReadBuffered, Write
  <2>2. CASE ReadAppRecord(n)
    <3>1. PICK r : /\ r = readRecord(Head(c2s)) /\ r.err # "write" /\ appErr = "nil"
                   /\ appErr' = IF r.err # "nil" THEN r.err
                                 ELSE IF r.type \in {ApplicationData, Handshake} THEN "nil"
                                 ELSE IF r.type = Alert THEN "peer_alert" ELSE "record_type"
      BY <2>2, ReadRecordFacts DEF ReadAppRecord, AppReads, Shapes
    <3> QED
      BY <3>1
  <2>3. CASE ReadAppEnd
    BY <2>3 DEF ReadAppEnd, AppReads, EndError
  <2> QED
    BY <2>1, <2>2, <2>3
<1>2. /\ pc = "idle" /\ handshakeDone /\ pending = 0
      /\ UNCHANGED <<pc, handshakeVars, hsBuf, handshakeErr, s2c, client>>
  BY DEF AppReads, ReadBuffered, ReadAppRecord, ReadAppEnd, Write
<1>3. IsSeq(delivered') /\ IsSeq(inAppData')
  <2>1. CASE ReadBuffered(n)
    BY <1>0, <2>1, DeliverFacts DEF ReadBuffered, Deliver
  <2>2. CASE ReadAppRecord(n)
    <3> DEFINE r == readRecord(Head(c2s))
    <3>1. CASE r.err = "nil" /\ r.type = ApplicationData
      <4>1. IsSeq(Head(c2s).data)
        BY <1>0, <2>2, SeqTail, SeqIsSeq DEF ReadAppRecord, Shapes
      <4>2. Deliver(Head(c2s).data, n)
        BY <2>2, <3>1 DEF ReadAppRecord
      <4> QED
        BY <1>0, <4>1, <4>2, DeliverFacts DEF Deliver
    <3>2. CASE ~(r.err = "nil" /\ r.type = ApplicationData)
      BY <1>0, <2>2, <3>2 DEF ReadAppRecord
    <3> QED
      BY <3>1, <3>2
  <2>3. CASE ReadAppEnd \/ Write(n)
    BY <1>0, <2>3 DEF ReadAppEnd, Write
  <2> QED
    BY <2>1, <2>2, <2>3
<1>4. IsSeq(c2s') /\ \A i \in 1 .. Len(c2s') : IsSeq(c2s'[i].data)
  <2>1. CASE ReadAppRecord(n)
    <3>1. c2s # <<>> /\ c2s' = Tail(c2s)
      BY <2>1 DEF ReadAppRecord
    <3>2. /\ IsSeq(c2s') /\ Len(c2s) \in Nat /\ Len(c2s) > 0 /\ Len(c2s') = Len(c2s) - 1
          /\ \A i \in 1 .. Len(c2s) - 1 : c2s'[i] = c2s[i + 1]
      BY <1>0, <3>1, OneLessToServer
    <3> QED
      BY <3>2 DEF Shapes
  <2>2. CASE ReadBuffered(n) \/ ReadAppEnd \/ Write(n)
    <3>1. c2s' = c2s
      BY <2>2 DEF ReadBuffered, ReadAppEnd, Write
    <3> QED
      BY <3>1 DEF Shapes
  <2> QED
    BY <2>1, <2>2
<1>5. /\ IsKeys(readKeys') /\ readKeys'.secret = readKeys.secret
  <2>1. CASE ReadAppRecord(n)
    BY <2>1, ReadRecordFacts DEF Shapes, ReadAppRecord
  <2>2. CASE ReadBuffered(n) \/ ReadAppEnd \/ Write(n)
    BY <2>2 DEF Shapes, ReadBuffered, ReadAppEnd, Write
  <2> QED
    BY <2>1, <2>2
<1>6. /\ pending' \in Nat /\ written' \in Nat /\ pending' <= written' /\ written' <= ServerBytes
  <2>1. CASE Write(n)
    BY <1>0, <1>2, <2>1 DEF Shapes, Write
  <2>2. CASE ReadBuffered(n) \/ ReadAppRecord(n) \/ ReadAppEnd
    BY <2>2 DEF Shapes, ReadBuffered, ReadAppRecord, ReadAppEnd
  <2> QED
    BY <2>1, <2>2
<1>7. Shapes'
  BY <1>2, <1>3, <1>4, <1>5, <1>6 DEF Shapes, handshakeVars
<1>8. SentAt'
  BY <1>2 DEF ServerOK, SentAt, handshakeVars
<1>9. Knows(client.hello)' /\ Sent(client.hello)'
  BY <1>2 DEF ServerOK, Knows, Sent, handshakeVars
<1>10. UsesKeys(client.hello)'
  <2>1. Len(s2c) > 0 /\ Len(s2c) # 0
    BY <1>2 DEF ServerOK, SentAt
  <2> QED
    BY <1>1, <1>2, <1>5, <2>1 DEF ServerOK, UsesKeys, handshakeVars
<1> QED
  BY <1>7, <1>8, <1>9, <1>10 DEF ServerOK

\* One record of the application's data.
LEMMA WriteChunkStep ==
  ASSUME Shapes, ServerOK, WriteChunk
  PROVE  Shapes' /\ ServerOK'
<1> DEFINE h == client.hello
           n == Least(pending, MaxPlain)
           r == Seal(writeKeys, ApplicationData, [i \in 1 .. n |-> written - pending + i])
<1>1. /\ pending > 0 /\ s2c' = Append(s2c, r) /\ writeKeys' = Advance(writeKeys)
      /\ pending' = pending - n /\ appErr # "write"
      /\ UNCHANGED <<pc, tx, schedule, handshakeDone, readKeys, hsBuf, handshakeErr, inAppData,
                     appErr, written, delivered, c2s, ended, client>>
  BY DEF WriteChunk
<1>2. n \in 1 .. pending /\ pending \in Nat
  BY <1>1, TLSAssumption DEF Least, Shapes
<1>3. handshakeDone /\ Len(s2c) >= 6 /\ Len(s2c) \in Nat
  <2>1. handshakeDone
    BY <1>1 DEF ServerOK, SentAt
  <2> QED
    BY <2>1, SeqIsSeq DEF ServerOK, SentAt, Shapes
<1>4. /\ r.outer = ApplicationData /\ r.inner = ApplicationData
      /\ r.secret = writeKeys.secret /\ r.seq = writeKeys.seq
  BY DEF Seal
<1> HIDE DEF n, r
<1>5. /\ IsSeq(s2c') /\ Len(s2c') = Len(s2c) + 1
      /\ \A i \in 1 .. Len(s2c) : s2c'[i] = s2c[i]
      /\ s2c'[Len(s2c) + 1] = r
  <2>1. IsSeq(s2c) /\ s2c' = Append(s2c, r)
    BY <1>1 DEF Shapes
  <2> QED
    BY <2>1, OneMoreSent, Zenon
<1>6. /\ writeKeys.secret = ApplicationKeys(h).sApp /\ writeKeys.seq = Len(s2c) - 6
      /\ readKeys.secret = ApplicationKeys(h).cApp /\ HasShare(h)
      /\ writeKeys.secret # <<>> /\ readKeys.secret # <<>>
  BY <1>1, <1>3 DEF ServerOK, UsesKeys
<1>7. IsKeys(writeKeys') /\ writeKeys'.secret = writeKeys.secret /\ writeKeys'.seq = Len(s2c) - 5
  BY <1>1, <1>3, <1>6 DEF Shapes, IsKeys, Advance
<1>8. Shapes'
  BY <1>1, <1>2, <1>5, <1>7 DEF Shapes
<1>9. SentAt'
  BY <1>1, <1>3, <1>5 DEF ServerOK, SentAt
<1>10. Knows(client.hello)'
  <2>1. tx = Transcript6(h) /\ schedule = ApplicationKeys(h)
    <3>1. PICK c \in Nat : c = Len(s2c) /\ c >= 6
      BY <1>3
    <3> QED
      BY <3>1 DEF ServerOK, Knows
  <2>2. Len(s2c') >= 6
    BY <1>3, <1>5
  <2> QED
    BY <1>1, <2>1, <2>2 DEF Knows
<1>11. UsesKeys(client.hello)'
  <2>1. Len(s2c') # 0 /\ Len(s2c) - 5 = Len(s2c') - 6
    BY <1>3, <1>5
  <2>2. pc' = "idle"
    BY <1>1, <1>3 DEF ServerOK, SentAt
  <2> QED
    BY <1>1, <1>6, <1>7, <2>1, <2>2 DEF UsesKeys
<1>12. Sent(client.hello)'
  <2>1. Sent(h) /\ client'.hello = h
    BY <1>1 DEF ServerOK
  <2> HIDE DEF h
  <2>2. \A i \in 7 .. Len(s2c') :
          /\ s2c'[i].outer = ApplicationData /\ s2c'[i].inner = ApplicationData
          /\ s2c'[i].secret = ApplicationKeys(h).sApp /\ s2c'[i].seq = i - 7
    <3> SUFFICES ASSUME NEW i \in 7 .. Len(s2c')
                 PROVE  /\ s2c'[i].outer = ApplicationData /\ s2c'[i].inner = ApplicationData
                        /\ s2c'[i].secret = ApplicationKeys(h).sApp /\ s2c'[i].seq = i - 7
      OBVIOUS
    <3>1. CASE i = Len(s2c) + 1
      BY <1>3, <1>4, <1>5, <1>6, <3>1
    <3>2. CASE i # Len(s2c) + 1
      <4>1. i \in 7 .. Len(s2c) /\ i \in 1 .. Len(s2c)
        BY <1>3, <1>5, <3>2
      <4> QED
        BY <1>5, <2>1, <4>1 DEF Sent
    <3> QED
      BY <3>1, <3>2
  <2>3. /\ s2c'[1] = s2c[1] /\ s2c'[2] = s2c[2] /\ s2c'[3] = s2c[3]
        /\ s2c'[4] = s2c[4] /\ s2c'[5] = s2c[5] /\ s2c'[6] = s2c[6]
    BY <1>3, <1>5
  <2> QED
    BY <1>3, <2>1, <2>2, <2>3 DEF Sent
<1> QED
  BY <1>8, <1>9, <1>10, <1>11, <1>12 DEF ServerOK

\* A record of data is sealed, and the transport refuses it.
LEMMA WriteChunkFailsStep ==
  ASSUME Shapes, ServerOK, WriteChunkFails
  PROVE  Shapes' /\ ServerOK'
<1>1. /\ pending > 0 /\ writeKeys' = Advance(writeKeys) /\ appErr # "write" /\ appErr' = "write"
      /\ UNCHANGED <<pc, tx, schedule, handshakeDone, readKeys, hsBuf, handshakeErr, inAppData,
                     pending, written, delivered, s2c, c2s, ended, client>>
  BY DEF WriteChunkFails
<1>2. handshakeDone /\ pc = "idle" /\ Len(s2c) >= 6 /\ Len(s2c) \in Nat
  <2>1. handshakeDone
    BY <1>1 DEF ServerOK, SentAt
  <2> QED
    BY <2>1, SeqIsSeq DEF ServerOK, SentAt, Shapes
<1>3. writeKeys.seq = Len(s2c) - 6
  BY <1>1, <1>2 DEF ServerOK, UsesKeys
<1>4. IsKeys(writeKeys') /\ writeKeys'.secret = writeKeys.secret /\ writeKeys'.seq = Len(s2c) - 5
  BY <1>1, <1>2, <1>3 DEF Shapes, IsKeys, Advance
<1>5. Shapes'
  BY <1>1, <1>4 DEF Shapes
<1>6. SentAt'
  BY <1>1, <1>2 DEF ServerOK, SentAt
<1>7. Knows(client.hello)' /\ Sent(client.hello)'
  BY <1>1 DEF ServerOK, Knows, Sent
<1>8. UsesKeys(client.hello)'
  BY <1>1, <1>2, <1>4 DEF ServerOK, UsesKeys
<1> QED
  BY <1>5, <1>6, <1>7, <1>8 DEF ServerOK

------------------------------------------------------------------------------
(***************************************************************************)
(* The client's steps keep the server's part and the client's.             *)
(***************************************************************************)

\* A step in which the client sends or leaves, and does not read.
ClientSpeaks ==
  \/ \E type \in {ApplicationData, NoType} : ClientSkipsFinished(type)
  \/ \E k \in 1 .. 2 * (HeaderLen + BodyLen) : ClientSends(k)
  \/ \E sends \in BOOLEAN : ClientChangeCipherSpec(sends)
  \/ \E k \in 0 .. MaxPlain : ClientWrites(k)
  \/ ClientKeyUpdate \/ ClientSendsPadding
  \/ \E how : ClientEnds(how, FALSE)
  \/ ClientEnds("clean", TRUE)

\* Every step of the client is one of three kinds.
LEMMA ClientKinds ==
  ASSUME Client
  PROVE  ClientStarts \/ ClientReceives \/ ClientSpeaks
BY DEF Client, ClientProgress, ClientSpeaks

\* What the client keeps when it speaks.
LEMMA SpeaksFields ==
  ASSUME ClientShape, ClientSpeaks
  PROVE  /\ UNCHANGED serverVars
         /\ client' = [at |-> client'.at, plan |-> client'.plan, hello |-> client.hello,
               tx |-> client.tx, sched |-> client.sched, read |-> client.read,
               write |-> client'.write, out |-> client'.out, next |-> client.next,
               sent |-> client'.sent, got |-> client.got, rejects |-> client.rejects]
<1>1. client = [at |-> client.at, plan |-> client.plan, hello |-> client.hello,
               tx |-> client.tx, sched |-> client.sched, read |-> client.read,
               write |-> client.write, out |-> client.out, next |-> client.next,
               sent |-> client.sent, got |-> client.got, rejects |-> client.rejects]
  BY DEF ClientShape
<1> DEFINE Goal == UNCHANGED serverVars /\ client' = [at |-> client'.at, plan |-> client'.plan, hello |-> client.hello,
                 tx |-> client.tx, sched |-> client.sched, read |-> client.read,
                 write |-> client'.write, out |-> client'.out, next |-> client.next,
                 sent |-> client'.sent, got |-> client.got, rejects |-> client.rejects]
<1>2. ASSUME NEW type \in {ApplicationData, NoType}, ClientSkipsFinished(type) PROVE Goal
  BY <1>1, <1>2 DEF ClientSkipsFinished
<1>3. ASSUME NEW k \in 1 .. 2 * (HeaderLen + BodyLen), ClientSends(k) PROVE Goal
  BY <1>1, <1>3 DEF ClientSends
<1>4. ASSUME NEW sends \in BOOLEAN, ClientChangeCipherSpec(sends) PROVE Goal
  BY <1>1, <1>4 DEF ClientChangeCipherSpec
<1>5. ASSUME NEW k \in 0 .. MaxPlain, ClientWrites(k) PROVE Goal
  BY <1>1, <1>5 DEF ClientWrites
<1>6. CASE ClientKeyUpdate \/ ClientSendsPadding
  BY <1>1, <1>6 DEF ClientKeyUpdate, ClientSendsPadding
<1>7. ASSUME NEW how, NEW alert, ClientEnds(how, alert) PROVE Goal
  BY <1>1, <1>7 DEF ClientEnds
<1> HIDE DEF Goal
<1>8. Goal
  BY <1>2, <1>3, <1>4, <1>5, <1>6, <1>7 DEF ClientSpeaks, Goal
<1> QED
  BY <1>8 DEF Goal

\* The client's record and its keys after it.
LEMMA ProtectFacts ==
  ASSUME NEW type, NEW data, IsKeys(client.write)
  PROVE  /\ Protect(type, data).inner = type /\ Protect(type, data).data = data
         /\ client.write = NoKeys => Protect(type, data).outer = type
         /\ client.write # NoKeys =>
              /\ Protect(type, data).outer = ApplicationData
              /\ Protect(type, data).secret = client.write.secret
              /\ Protect(type, data).seq = client.write.seq
              /\ NextWrite.seq = client.write.seq + 1
         /\ IsKeys(NextWrite) /\ NextWrite.secret = client.write.secret
         /\ client.write = NoKeys => NextWrite = NoKeys
BY DEF Protect, NextWrite, Plaintext, IsKeys, NoKeys, ApplicationData

\* A record that continues the client's data, if it holds data.
Continues(r) ==
  /\ IsSeq(r.data)
  /\ client'.sent = client.sent + Size(r, ApplicationData)
  /\ r.inner = ApplicationData => r.data = [i \in 1 .. Len(r.data) |-> client.sent + i]

\* A record whose handshake messages are the client's.
Repeats(r) ==
  r.inner = Handshake =>
    \/ client.at = "open"
    \/ \A j \in 1 .. Len(r.data) : \E i \in 1 .. Len(client.out) : r.data[j] = client.out[i]

\* The units of one message.
LEMMA UnitsAre ==
  ASSUME NEW m
  PROVE  /\ IsSeq(Units(m)) /\ Len(Units(m)) = 3
         /\ \A i \in 1 .. Len(Units(m)) : Units(m)[i][1] = m
BY DEF Units, HeaderLen, BodyLen, IsSeq

\* The pieces the client cuts from what is to be sent.
LEMMA CutFacts ==
  ASSUME NEW s, IsSeq(s), NEW k \in Nat \ {0}, k <= Len(s)
  PROVE  /\ IsSeq(SubSeq(s, 1, k)) /\ Len(SubSeq(s, 1, k)) = k
         /\ \A i \in 1 .. k : SubSeq(s, 1, k)[i] = s[i]
         /\ IsSeq(SubSeq(s, k + 1, Len(s))) /\ Len(SubSeq(s, k + 1, Len(s))) = Len(s) - k
         /\ \A i \in 1 .. Len(s) - k : SubSeq(s, k + 1, Len(s))[i] = s[k + i]
<1>1. Len(s) \in Nat
  BY SeqIsSeq
<1> DEFINE a == SubSeq(s, 1, k)
           b == SubSeq(s, k + 1, Len(s))
<1>2. IsSeq(a) /\ Len(a) = k /\ \A i \in 1 .. k : a[i] = s[i]
  <2>1. 1 \in Nat \ {0} /\ k \in Nat /\ k <= Len(s) /\ 1 <= k + 1
    BY <1>1
  <2>2. IsSeq(a) /\ Len(a) = k - 1 + 1 /\ \A i \in 1 .. k - 1 + 1 : a[i] = s[1 + i - 1]
    BY <2>1, SeqPart
  <2> HIDE DEF a
  <2> QED
    BY <2>1, <2>2
<1>3. IsSeq(b) /\ Len(b) = Len(s) - k /\ \A i \in 1 .. Len(s) - k : b[i] = s[k + i]
  <2> DEFINE c == k + 1
             d == Len(s)
  <2>1. c \in Nat \ {0} /\ d \in Nat /\ d <= Len(s) /\ c <= d + 1
    BY <1>1
  <2>2. b = SubSeq(s, c, d)
    OBVIOUS
  <2> HIDE DEF b, c, d
  <2>3. IsSeq(b) /\ Len(b) = d - c + 1 /\ \A i \in 1 .. d - c + 1 : b[i] = s[c + i - 1]
    BY <2>1, <2>2, SeqPart
  <2> QED
    BY <1>1, <2>3 DEF c, d
<1> QED
  BY <1>2, <1>3

\* What the client sends when it speaks, and what is left to send.
LEMMA SpeaksRecord ==
  ASSUME ClientShape, ClientSpeaks
  PROVE  /\ \/ c2s' = c2s /\ client'.sent = client.sent
            \/ \E r : c2s' = Append(c2s, r) /\ Continues(r) /\ Repeats(r)
         /\ IsKeys(client'.write) /\ client'.sent \in Nat /\ IsSeq(client'.out)
         /\ \A i \in 1 .. Len(client'.out) : \E j \in 1 .. Len(client.out) :
              client'.out[i] = client.out[j]
<1>0. /\ client = [at |-> client.at, plan |-> client.plan, hello |-> client.hello,
               tx |-> client.tx, sched |-> client.sched, read |-> client.read,
               write |-> client.write, out |-> client.out, next |-> client.next,
               sent |-> client.sent, got |-> client.got, rejects |-> client.rejects]
      /\ IsKeys(client.write) /\ IsSeq(client.out) /\ client.sent \in Nat
      /\ Len(client.out) \in Nat
  BY SeqIsSeq DEF ClientShape
<1> DEFINE Same == c2s' = c2s /\ client'.sent = client.sent
           One == \E r : c2s' = Append(c2s, r) /\ Continues(r) /\ Repeats(r)
           Rest == /\ IsKeys(client'.write) /\ client'.sent \in Nat /\ IsSeq(client'.out)
                   /\ \A i \in 1 .. Len(client'.out) : \E j \in 1 .. Len(client.out) :
                        client'.out[i] = client.out[j]
           Goal == (Same \/ One) /\ Rest
<1>a. IsKeys(NextWrite)
  BY <1>0, ProtectFacts
<1>b. /\ client'.out = client.out /\ client'.sent \in Nat => 
           IsSeq(client'.out) /\ \A i \in 1 .. Len(client'.out) :
             \E j \in 1 .. Len(client.out) : client'.out[i] = client.out[j]
  BY <1>0
<1>1. ASSUME NEW type \in {ApplicationData, NoType}, ClientSkipsFinished(type) PROVE Goal
  <2> DEFINE r == Protect(type, <<>>)
  <2>1. c2s' = Append(c2s, r) /\ client' = [client EXCEPT !.at = "ended"]
    BY <1>1 DEF ClientSkipsFinished
  <2>2. client'.out = client.out /\ client'.write = client.write /\ client'.sent = client.sent
    BY <1>0, <2>1
  <2>3. r.inner = type /\ r.data = <<>>
    BY <1>0, ProtectFacts
  <2> HIDE DEF r
  <2>4. Continues(r)
    BY <1>0, <2>2, <2>3, SeqEmpty DEF Continues, Size
  <2>5. Repeats(r)
    BY <2>3 DEF Repeats, Handshake, ApplicationData, NoType
  <2> QED
    BY <1>0, <1>b, <2>1, <2>2, <2>4, <2>5
<1>2. ASSUME NEW k \in 1 .. 2 * (HeaderLen + BodyLen), ClientSends(k) PROVE Goal
  <2> DEFINE d == SubSeq(client.out, 1, k)
             e == SubSeq(client.out, k + 1, Len(client.out))
             r == Protect(Handshake, d)
             w == IF k = Len(client.out) /\ client.at = "finish"
                    THEN [secret |-> client.sched.cApp, seq |-> 0] ELSE NextWrite
  <2>1. /\ c2s' = Append(c2s, r) /\ k <= Len(client.out)
        /\ \E a : client' = [client EXCEPT !.out = e, !.at = a, !.write = w]
    BY <1>2 DEF ClientSends
  <2>2. k \in Nat \ {0}
    BY DEF HeaderLen, BodyLen
  <2>3. IsKeys(w)
    BY <1>a DEF IsKeys
  <2> HIDE DEF w
  <2>4. /\ IsSeq(d) /\ Len(d) = k /\ \A i \in 1 .. k : d[i] = client.out[i]
        /\ IsSeq(e) /\ Len(e) = Len(client.out) - k
        /\ \A i \in 1 .. Len(client.out) - k : e[i] = client.out[k + i]
    BY <1>0, <2>1, <2>2, CutFacts
  <2>5. r.inner = Handshake /\ r.data = d
    BY <1>0, ProtectFacts, ZenonT(40)
  <2> HIDE DEF d, e, r
  <2>6. client'.out = e /\ client'.write = w /\ client'.sent = client.sent
    BY <1>0, <2>1
  <2>7. Continues(r)
    BY <1>0, <2>4, <2>5, <2>6 DEF Continues, Size, Handshake, ApplicationData
  <2>n. PICK n \in Nat : n = Len(client.out) /\ k <= n
    BY <1>0, <2>1
  <2>8. Repeats(r)
    <3> SUFFICES ASSUME NEW j \in 1 .. Len(r.data)
                 PROVE  \E i \in 1 .. Len(client.out) : r.data[j] = client.out[i]
      BY DEF Repeats
    <3>1. j \in 1 .. k /\ r.data[j] = d[j]
      BY <2>4, <2>5
    <3>2. j \in 1 .. Len(client.out) /\ d[j] = client.out[j]
      BY <2>2, <2>4, <2>n, <3>1
    <3> QED
      BY <3>1, <3>2
  <2>9. \A i \in 1 .. Len(e) : \E j \in 1 .. Len(client.out) : e[i] = client.out[j]
    <3> SUFFICES ASSUME NEW i \in 1 .. Len(e)
                 PROVE  \E j \in 1 .. Len(client.out) : e[i] = client.out[j]
      OBVIOUS
    <3>1. i \in 1 .. n - k /\ n - k = Len(client.out) - k
      BY <2>4, <2>n
    <3>2. e[i] = client.out[k + i]
      BY <2>4, <3>1
    <3>3. k + i \in 1 .. Len(client.out)
      BY <2>2, <2>n, <3>1
    <3> QED
      BY <3>2, <3>3
  <2> QED
    BY <1>0, <2>1, <2>3, <2>4, <2>6, <2>7, <2>8, <2>9
<1>3. ASSUME NEW sends \in BOOLEAN, ClientChangeCipherSpec(sends) PROVE Goal
  <2> DEFINE r == Plaintext(ChangeCipherSpec, <<>>)
  <2>1. /\ c2s' = c2s \/ c2s' = Append(c2s, r)
        /\ client' = [client EXCEPT !.at = "finish"]
    BY <1>3 DEF ClientChangeCipherSpec
  <2>2. client'.out = client.out /\ client'.write = client.write /\ client'.sent = client.sent
    BY <1>0, <2>1
  <2>3. r.inner = ChangeCipherSpec /\ r.data = <<>>
    BY DEF Plaintext
  <2> HIDE DEF r
  <2>4. Continues(r)
    BY <1>0, <2>2, <2>3, SeqEmpty DEF Continues, Size, ChangeCipherSpec, ApplicationData
  <2>5. Repeats(r)
    BY <2>3 DEF Repeats, Handshake, ChangeCipherSpec
  <2> QED
    BY <1>0, <1>b, <2>1, <2>2, <2>4, <2>5
<1>4. ASSUME NEW k \in 0 .. MaxPlain, ClientWrites(k) PROVE Goal
  <2> DEFINE d == [i \in 1 .. k |-> client.sent + i]
             r == Protect(ApplicationData, d)
  <2>1. /\ c2s' = Append(c2s, r)
        /\ client' = [client EXCEPT !.sent = client.sent + k, !.write = NextWrite]
    BY <1>4 DEF ClientWrites
  <2>2. /\ client'.out = client.out /\ client'.write = NextWrite
        /\ client'.sent = client.sent + k /\ k \in Nat
    BY <1>0, <2>1, TLSAssumption
  <2>3. r.inner = ApplicationData /\ r.data = d
    BY <1>0, ProtectFacts
  <2>4. IsSeq(d) /\ Len(d) = k
    BY <2>2 DEF IsSeq
  <2> HIDE DEF r
  <2>5. Continues(r)
    BY <2>2, <2>3, <2>4 DEF Continues, Size
  <2>6. Repeats(r)
    BY <2>3 DEF Repeats, Handshake, ApplicationData
  <2>7. client'.sent \in Nat
    BY <1>0, <2>2
  <2> QED
    BY <1>a, <1>b, <2>1, <2>2, <2>5, <2>6, <2>7
<1>5. CASE ClientKeyUpdate
  <2> DEFINE d == Units(<<"key_update", <<>>>>)
             r == Protect(Handshake, d)
             w == [secret |-> Append(client.write.secret, <<"traffic_upd", <<>>>>), seq |-> 0]
  <2>1. /\ client.at = "open" /\ c2s' = Append(c2s, r)
        /\ client' = [client EXCEPT !.plan = "updated", !.write = w]
    BY <1>5 DEF ClientKeyUpdate
  <2>2. IsKeys(w)
    BY DEF IsKeys
  <2>3. r.inner = Handshake /\ r.data = d
    BY <1>0, ProtectFacts
  <2>4. IsSeq(d)
    BY UnitsAre, Zenon
  <2> HIDE DEF d, r, w
  <2>5. client'.out = client.out /\ client'.write = w /\ client'.sent = client.sent
    BY <1>0, <2>1
  <2>6. Continues(r)
    BY <1>0, <2>3, <2>4, <2>5 DEF Continues, Size, Handshake, ApplicationData
  <2>7. Repeats(r)
    BY <2>1 DEF Repeats
  <2> QED
    BY <1>0, <1>b, <2>1, <2>2, <2>5, <2>6, <2>7
<1>6. ASSUME NEW how, NEW alert \in BOOLEAN, ClientEnds(how, alert) PROVE Goal
  <2> DEFINE r == Protect(Alert, <<>>)
  <2>1. /\ c2s' = c2s \/ c2s' = Append(c2s, r)
        /\ client' = [client EXCEPT !.at = "ended",
                                    !.write = IF alert THEN NextWrite ELSE client.write]
    BY <1>6 DEF ClientEnds
  <2>2. /\ client'.out = client.out /\ client'.sent = client.sent
        /\ client'.write = NextWrite \/ client'.write = client.write
    BY <1>0, <2>1
  <2>3. r.inner = Alert /\ r.data = <<>>
    BY <1>0, ProtectFacts
  <2> HIDE DEF r
  <2>4. Continues(r)
    BY <1>0, <2>2, <2>3, SeqEmpty DEF Continues, Size, Alert, ApplicationData
  <2>5. Repeats(r)
    BY <2>3 DEF Repeats, Handshake, Alert
  <2> QED
    BY <1>0, <1>a, <1>b, <2>1, <2>2, <2>4, <2>5
<1>7. CASE ClientSendsPadding
  <2> DEFINE r == Protect(NoType, <<>>)
  <2>1. /\ c2s' = Append(c2s, r)
        /\ client' = [client EXCEPT !.plan = "updated", !.write = NextWrite]
    BY <1>7 DEF ClientSendsPadding
  <2>2. client'.out = client.out /\ client'.write = NextWrite /\ client'.sent = client.sent
    BY <1>0, <2>1
  <2>3. r.inner = NoType /\ r.data = <<>>
    BY <1>0, ProtectFacts
  <2> HIDE DEF r
  <2>4. Continues(r)
    BY <1>0, <2>2, <2>3, SeqEmpty DEF Continues, Size, NoType, ApplicationData
  <2>5. Repeats(r)
    BY <2>3 DEF Repeats, Handshake, NoType
  <2> QED
    BY <1>0, <1>a, <1>b, <2>1, <2>2, <2>4, <2>5
<1> HIDE DEF Goal
<1>8. Goal
  BY <1>1, <1>2, <1>3, <1>4, <1>5, <1>6, <1>7 DEF ClientSpeaks, Goal
<1> QED
  BY <1>8 DEF Goal

\* Where the client is after it has spoken, and the secret it writes with.
LEMMA SpeaksAt ==
  ASSUME ClientShape, ClientOK, ClientSpeaks
  PROVE  /\ \/ client'.at = client.at /\ client.at # "start"
            \/ client'.at = "ended"
            \/ client.at = "ccs" /\ client'.at = "finish"
            \/ client.at = "finish" /\ client'.at = "open"
         /\ \/ /\ client'.write.secret = client.write.secret
               /\ client.write = NoKeys => client'.write = NoKeys
            \/ client.at = "finish" /\ client'.write.secret = client.sched.cApp
            \/ client.at = "open" /\ client'.write.secret # <<>> /\ IsSeq(client'.write.secret)
<1>0. /\ client = [at |-> client.at, plan |-> client.plan, hello |-> client.hello,
               tx |-> client.tx, sched |-> client.sched, read |-> client.read,
               write |-> client.write, out |-> client.out, next |-> client.next,
               sent |-> client.sent, got |-> client.got, rejects |-> client.rejects]
      /\ IsKeys(client.write) /\ IsSeq(client.write.secret)
  BY DEF ClientShape
<1>a. NextWrite.secret = client.write.secret /\ (client.write = NoKeys => NextWrite = NoKeys)
  BY <1>0, ProtectFacts
<1> DEFINE At == \/ client'.at = client.at /\ client.at # "start"
                 \/ client'.at = "ended"
                 \/ client.at = "ccs" /\ client'.at = "finish"
                 \/ client.at = "finish" /\ client'.at = "open"
           Writes == \/ /\ client'.write.secret = client.write.secret
                        /\ client.write = NoKeys => client'.write = NoKeys
                     \/ client.at = "finish" /\ client'.write.secret = client.sched.cApp
                     \/ /\ client.at = "open" /\ client'.write.secret # <<>>
                        /\ IsSeq(client'.write.secret)
           Goal == At /\ Writes
<1>1. ASSUME NEW type \in {ApplicationData, NoType}, ClientSkipsFinished(type) PROVE Goal
  <2>1. client'.at = "ended" /\ client'.write = client.write
    BY <1>0, <1>1 DEF ClientSkipsFinished
  <2> QED
    BY <2>1
<1>2. ASSUME NEW k \in 1 .. 2 * (HeaderLen + BodyLen), ClientSends(k) PROVE Goal
  <2> DEFINE last == k = Len(client.out) /\ client.at = "finish"
  <2>1. /\ client.at \in {"hello", "finish"}
        /\ client'.at = IF last THEN "open" ELSE client.at
        /\ client'.write = IF last THEN [secret |-> client.sched.cApp, seq |-> 0] ELSE NextWrite
    BY <1>0, <1>2 DEF ClientSends
  <2>2. CASE last
    BY <2>1, <2>2
  <2>3. CASE ~last
    BY <1>a, <2>1, <2>3
  <2> QED
    BY <2>2, <2>3
<1>3. ASSUME NEW sends \in BOOLEAN, ClientChangeCipherSpec(sends) PROVE Goal
  <2>1. client.at = "ccs" /\ client'.at = "finish" /\ client'.write = client.write
    BY <1>0, <1>3 DEF ClientChangeCipherSpec
  <2> QED
    BY <2>1
<1>4. ASSUME NEW k \in 0 .. MaxPlain, ClientWrites(k) PROVE Goal
  <2>1. client.at = "open" /\ client'.at = "open" /\ client'.write = NextWrite
    BY <1>0, <1>4 DEF ClientWrites
  <2> QED
    BY <1>a, <2>1
<1>5. CASE ClientKeyUpdate
  <2> DEFINE x == <<"traffic_upd", <<>>>>
             s == client.write.secret
  <2>1. /\ client.at = "open" /\ client'.at = "open"
        /\ client'.write = [secret |-> Append(s, x), seq |-> 0]
    BY <1>0, <1>5 DEF ClientKeyUpdate
  <2> HIDE DEF x, s
  <2>2. IsSeq(Append(s, x)) /\ Append(s, x) # <<>>
    <3>1. IsSeq(s)
      BY <1>0 DEF s
    <3>2. IsSeq(Append(s, x)) /\ Len(Append(s, x)) = Len(s) + 1 /\ Len(s) \in Nat
      BY <3>1, SeqAppend, SeqIsSeq, Zenon
    <3>3. PICK y : y = Append(s, x) /\ Len(y) = Len(s) + 1
      BY <3>2
    <3> QED
      BY <3>2, <3>3, SeqEmpty
  <2>3. client'.write.secret = Append(s, x)
    BY <2>1
  <2> QED
    BY <2>1, <2>2, <2>3, Zenon
<1>6. ASSUME NEW how, NEW alert \in BOOLEAN, ClientEnds(how, alert) PROVE Goal
  <2>1. client'.at = "ended" /\ client'.write = IF alert THEN NextWrite ELSE client.write
    BY <1>0, <1>6 DEF ClientEnds
  <2> QED
    BY <1>a, <2>1
<1>7. CASE ClientSendsPadding
  <2>1. client.at = "open" /\ client'.at = "open" /\ client'.write = NextWrite
    BY <1>0, <1>7 DEF ClientSendsPadding
  <2> QED
    BY <1>a, <2>1
<1> HIDE DEF Goal
<1>8. Goal
  BY <1>1, <1>2, <1>3, <1>4, <1>5, <1>6, <1>7 DEF ClientSpeaks, Goal
<1> QED
  BY <1>8 DEF Goal

\* A step of the client keeps the server's part.
LEMMA ClientKeepsServer ==
  ASSUME Shapes, ServerOK, UNCHANGED serverVars, client'.hello = client.hello,
         IsSeq(c2s'), \A i \in 1 .. Len(c2s') : IsSeq(c2s'[i].data)
  PROVE  Shapes' /\ ServerOK'
<1> USE DEF serverVars, handshakeVars, appVars
<1>1. Shapes'
  BY DEF Shapes
<1>2. SentAt'
  BY DEF ServerOK, SentAt
<1>3. Knows(client.hello)'
  BY DEF ServerOK, Knows
<1>4. UsesKeys(client.hello)'
  BY DEF ServerOK, UsesKeys
<1>5. Sent(client.hello)'
  BY DEF ServerOK, Sent
<1> QED
  BY <1>1, <1>2, <1>3, <1>4, <1>5 DEF ServerOK

\* The client's part when it speaks.
LEMMA SpeaksStep ==
  ASSUME Shapes, ServerOK, ClientShape, ClientOK, ClientSpeaks
  PROVE  Shapes' /\ ServerOK' /\ ClientShape' /\ ClientOK'
<1> DEFINE h == client.hello
<1>1. UNCHANGED serverVars
  BY SpeaksFields
<1>2. client' = [at |-> client'.at, plan |-> client'.plan, hello |-> client.hello,
               tx |-> client.tx, sched |-> client.sched, read |-> client.read,
               write |-> client'.write, out |-> client'.out, next |-> client.next,
               sent |-> client'.sent, got |-> client.got, rejects |-> client.rejects]
  BY SpeaksFields
<1>3. /\ client'.hello = client.hello /\ client'.tx = client.tx /\ client'.sched = client.sched
      /\ client'.read = client.read /\ client'.next = client.next /\ client'.got = client.got
      /\ client'.rejects = client.rejects
  BY <1>2
<1>4. IsSeq(c2s') /\ \A i \in 1 .. Len(c2s') : IsSeq(c2s'[i].data)
  <2>1. CASE c2s' = c2s
    BY <2>1 DEF Shapes
  <2>2. CASE c2s' # c2s
    <3>1. PICK r : c2s' = Append(c2s, r) /\ Continues(r)
      BY <2>2, SpeaksRecord
    <3>2. IsSeq(r.data)
      BY <3>1 DEF Continues
    <3>3. /\ IsSeq(c2s') /\ Len(c2s) \in Nat /\ Len(c2s') = Len(c2s) + 1
          /\ \A i \in 1 .. Len(c2s) : c2s'[i] = c2s[i]
          /\ c2s'[Len(c2s) + 1] = r
      <4>1. IsSeq(c2s)
        BY DEF Shapes
      <4> QED
        BY <3>1, <4>1, OneMoreToServer
    <3> QED
      BY <3>2, <3>3 DEF Shapes
  <2> QED
    BY <2>1, <2>2
<1>5. Shapes' /\ ServerOK'
  BY <1>1, <1>3, <1>4, ClientKeepsServer
<1>6. client.at = "finish" => client.sched.cApp # <<>> /\ IsSeq(client.sched.cApp)
  <2>1. client.at = "finish" => client.sched = ApplicationKeys(h)
    BY DEF ClientOK, ClientKnows
  <2>2. ApplicationKeys(h).cApp # <<>> /\ IsSeq(ApplicationKeys(h).cApp)
    BY Script, SecretsDiffer, Zenon
  <2> QED
    BY <2>1, <2>2
<1>7. ClientShape'
  <2>1. IsSeq(client'.write.secret)
    BY <1>6, SpeaksAt DEF ClientShape
  <2>2. IsKeys(client'.write) /\ client'.sent \in Nat /\ IsSeq(client'.out)
    BY SpeaksRecord
  <2>3. (\E c \in Clients : client'.hello = c.hello) /\ IsSeq(client'.got) /\ client'.next \in Nat
    BY <1>3 DEF ClientShape
  <2>4. client' = [at |-> client'.at, plan |-> client'.plan, hello |-> client'.hello,
               tx |-> client'.tx, sched |-> client'.sched, read |-> client'.read,
               write |-> client'.write, out |-> client'.out, next |-> client'.next,
               sent |-> client'.sent, got |-> client'.got, rejects |-> client'.rejects]
    BY <1>2, <1>3
  <2> QED
    BY <2>1, <2>2, <2>3, <2>4 DEF ClientShape
<1>8. ClientKnows(client.hello)'
  <2>1. \/ client'.at = client.at /\ client.at # "start"
        \/ client'.at = "ended"
        \/ client.at = "ccs" /\ client'.at = "finish"
        \/ client.at = "finish" /\ client'.at = "open"
    BY SpeaksAt
  <2>2. \/ /\ client'.write.secret = client.write.secret
           /\ client.write = NoKeys => client'.write = NoKeys
        \/ client.at \in {"finish", "open"} /\ client'.write.secret # <<>>
    BY <1>6, SpeaksAt
  <2>3. CASE client.next = 1 /\ client.at \in {"start", "hello", "ended"}
    BY <1>3, <2>1, <2>2, <2>3 DEF ClientOK, ClientKnows
  <2>4. CASE client.next \in {2, 3, 4, 5, 6} /\ client.at \in {"hello", "ended"}
    BY <1>3, <2>1, <2>2, <2>4 DEF ClientOK, ClientKnows
  <2>5. CASE client.next >= 7 /\ client.at \in {"ccs", "finish", "open", "ended"}
    BY <1>3, <2>1, <2>2, <2>5 DEF ClientOK, ClientKnows
  <2> QED
    BY <2>3, <2>4, <2>5 DEF ClientOK, ClientKnows
<1>9. client'.at = "start" <=> client'.tx = <<>> /\ client'.at # "ended"
  BY <1>3, SpeaksAt DEF ClientOK
<1>10. s2c' = s2c
  BY <1>1 DEF serverVars
<1> QED
  BY <1>3, <1>5, <1>7, <1>8, <1>9, <1>10 DEF ClientOK

\* The client's first step.
LEMMA StartsStep ==
  ASSUME Shapes, ServerOK, ClientShape, ClientOK, ClientStarts
  PROVE  /\ Shapes' /\ ServerOK' /\ ClientShape' /\ ClientOK'
         /\ client.tx = <<>> /\ Len(s2c) = 0 /\ client'.next = client.next
         /\ client'.hello = client.hello /\ client'.sent = client.sent
         /\ client'.got = client.got /\ client'.plan = client.plan
         /\ client'.write = client.write /\ client'.at = "hello"
         /\ \E m : /\ client'.tx = <<m>> /\ client'.out = Units(m)
                   /\ m \in {HelloMessage(client.hello), <<"finished", <<>>>>}
<1> DEFINE h == client.hello
<1>0. client = [at |-> client.at, plan |-> client.plan, hello |-> client.hello,
               tx |-> client.tx, sched |-> client.sched, read |-> client.read,
               write |-> client.write, out |-> client.out, next |-> client.next,
               sent |-> client.sent, got |-> client.got, rejects |-> client.rejects]
  BY DEF ClientShape
<1>1. PICK m : /\ m \in {HelloMessage(h), <<"finished", <<>>>>}
               /\ client' = [client EXCEPT !.at = "hello", !.tx = <<m>>, !.out = Units(m)]
  BY DEF ClientStarts, HelloMessage
<1>2. client.at = "start" /\ UNCHANGED serverVars /\ c2s' = c2s
  BY DEF ClientStarts
<1>3. /\ client.next = 1 /\ client.tx = <<>> /\ client.read = NoKeys /\ client.write = NoKeys
  BY <1>2 DEF ClientOK, ClientKnows
<1>4. Len(s2c) = 0
  <2>1. ~(Len(s2c) >= 1)
    BY <1>3, TranscriptLengths, Len(<<>>) = 0 DEF ClientOK
  <2>2. Len(s2c) \in Nat
    BY SeqIsSeq DEF Shapes
  <2> QED
    BY <2>1, <2>2
<1>5. client' = [at |-> "hello", plan |-> client.plan, hello |-> client.hello,
               tx |-> <<m>>, sched |-> client.sched, read |-> client.read,
               write |-> client.write, out |-> Units(m), next |-> client.next,
               sent |-> client.sent, got |-> client.got, rejects |-> client.rejects]
  BY <1>0, <1>1
<1>6. /\ client'.at = "hello" /\ client'.tx = <<m>> /\ client'.out = Units(m)
      /\ client'.plan = client.plan /\ client'.hello = h /\ client'.sched = client.sched
      /\ client'.read = client.read /\ client'.write = client.write
      /\ client'.next = client.next /\ client'.sent = client.sent
      /\ client'.got = client.got /\ client'.rejects = client.rejects
  BY <1>5
<1>7. Shapes' /\ ServerOK'
  <2>1. IsSeq(c2s') /\ \A i \in 1 .. Len(c2s') : IsSeq(c2s'[i].data)
    BY <1>2 DEF Shapes
  <2> QED
    BY <1>2, <1>6, <2>1, ClientKeepsServer
<1>8. ClientShape'
  <2>1. IsSeq(Units(m))
    BY UnitsAre, Zenon
  <2>2. client' = [at |-> client'.at, plan |-> client'.plan, hello |-> client'.hello,
               tx |-> client'.tx, sched |-> client'.sched, read |-> client'.read,
               write |-> client'.write, out |-> client'.out, next |-> client'.next,
               sent |-> client'.sent, got |-> client'.got, rejects |-> client'.rejects]
    BY <1>5, <1>6
  <2> QED
    BY <1>6, <2>1, <2>2 DEF ClientShape
<1>9. ClientOK'
  <2>1. s2c' = s2c
    BY <1>2 DEF serverVars
  <2>2. <<m>> \in {<<>>, Transcript1(h), <<<<"finished", <<>>>>>>}
    BY <1>1 DEF Transcript1
  <2>3. <<m>> # <<>>
    OBVIOUS
  <2>4. ClientKnows(client.hello)'
    BY <1>3, <1>6, <2>2 DEF ClientKnows
  <2>5. client'.at = "start" <=> client'.tx = <<>> /\ client'.at # "ended"
    BY <1>6, <2>3
  <2>6. ~(Len(s2c') >= 1) /\ client'.next <= Len(s2c') + 1 /\ client'.rejects = FALSE
    BY <1>4, <1>6, <2>1 DEF ClientOK
  <2> QED
    BY <2>4, <2>5, <2>6 DEF ClientOK
<1> QED
  BY <1>1, <1>3, <1>4, <1>6, <1>7, <1>8, <1>9

\* The record the client reads, and what it makes of it.
Received == s2c[client.next]

Bumped ==
  [client EXCEPT !.next = client.next + 1,
                 !.read = IF client.read = NoKeys THEN NoKeys
                          ELSE [client.read EXCEPT !.seq = client.read.seq + 1]]

OnServerHello(m) ==
  LET k == ClientSecrets(<<client.hello.keyShares[OwnShare(client.hello)].key, m[2][2]>>,
                         Append(client.tx, m)) IN
  [Bumped EXCEPT !.tx = Append(client.tx, m), !.sched = k,
                 !.read = [secret |-> k.sHS, seq |-> 0],
                 !.write = [secret |-> k.cHS, seq |-> 0]]

OnFinished(m) ==
  LET k == ClientAppSecrets(client.sched, Append(client.tx, m)) IN
  [Bumped EXCEPT !.at = "ccs", !.tx = Append(client.tx, m), !.sched = k,
                 !.read = [secret |-> k.sApp, seq |-> 0],
                 !.out = ClientFlight(<<"finished", FinishedMAC(k.cHS, Append(client.tx, m))>>)]

\* The outcomes of reading a record.
LEMMA ReceivesCases ==
  ASSUME ClientReceives
  PROVE  /\ client.at \in {"hello", "ccs", "finish", "open"} /\ client.next <= Len(s2c)
         /\ UNCHANGED serverVars /\ c2s' = c2s
         /\ client' =
              IF Received.outer = ChangeCipherSpec
              THEN [client EXCEPT !.next = client.next + 1]
              ELSE IF ~Opens(Received) THEN [client EXCEPT !.at = "ended", !.rejects = TRUE]
              ELSE IF Received.inner = ApplicationData
              THEN [Bumped EXCEPT !.got = client.got \o Received.data]
              ELSE IF ~Acceptable(Received.data[1])
              THEN [client EXCEPT !.at = "ended", !.rejects = TRUE]
              ELSE IF Received.data[1][1] = "server_hello" THEN OnServerHello(Received.data[1])
              ELSE IF Received.data[1][1] = "finished" THEN OnFinished(Received.data[1])
              ELSE [Bumped EXCEPT !.tx = Append(client.tx, Received.data[1])]
BY Zenon DEF ClientReceives, Received, Bumped, OnServerHello, OnFinished

\* The client reads the ServerHello.
LEMMA ReceivesServerHello ==
  ASSUME Shapes, ServerOK, ClientShape, ClientOK, ClientReceives, client.next = 1
  PROVE  LET h == client.hello IN
         client' = [at |-> client.at, plan |-> client.plan, hello |-> h, tx |-> Transcript2(h),
              sched |-> HandshakeKeys(h), read |-> [secret |-> HandshakeKeys(h).sHS, seq |-> 0], write |-> [secret |-> HandshakeKeys(h).cHS, seq |-> 0],
              out |-> client.out, next |-> client.next + 1, sent |-> client.sent,
              got |-> client.got, rejects |-> FALSE]
<1> DEFINE h == client.hello
           r == Received
           m == r.data[1]
<1>0. /\ client = [at |-> client.at, plan |-> client.plan, hello |-> h, tx |-> client.tx,
              sched |-> client.sched, read |-> client.read, write |-> client.write,
              out |-> client.out, next |-> client.next, sent |-> client.sent,
              got |-> client.got, rejects |-> client.rejects]
      /\ client.rejects = FALSE /\ client.next \in Nat
  BY DEF ClientShape, ClientOK
<1>1. r = Plaintext(Handshake, <<ServerHello(h)>>) /\ Len(s2c) >= 1
  BY ReceivesCases DEF Received, ServerOK, Sent
<1>2. /\ r.outer = Handshake /\ r.inner = Handshake /\ m = ServerHello(h)
      /\ m[1] = "server_hello" /\ m[2][2] = "server_share"
  BY <1>1 DEF Plaintext, ServerHello
<1>3. client.tx = Transcript1(h) /\ client.read = NoKeys
  BY <1>1 DEF ClientOK, ClientKnows
<1> HIDE DEF r, m
<1>4. Opens(r) /\ Acceptable(m)
  <2>1. Len(client.tx) = 1
    BY <1>3, TranscriptLengths, Zenon
  <2> QED
    BY <1>2, <1>3, <2>1 DEF Opens, Acceptable
<1>5. client' = OnServerHello(m)
  <2>1. r.outer # ChangeCipherSpec /\ r.inner # ApplicationData
    BY <1>2 DEF Handshake, ChangeCipherSpec, ApplicationData
  <2> QED
    BY <1>2, <1>4, <2>1, ReceivesCases, Zenon DEF r, m
<1>6. Append(client.tx, m) = Transcript2(h)
  BY <1>2, <1>3, TranscriptLengths, Zenon
<1>7. client.hello.keyShares[OwnShare(client.hello)] = findKeyShare(h)
  <2>1. HasShare(h)
    BY <1>1, SeqIsSeq DEF ServerOK, UsesKeys, Shapes
  <2> QED
    BY <2>1, OwnShareFound DEF ClientShape
<1>8. HandshakeKeys(h) = ClientSecrets(<<findKeyShare(h).key, "server_share">>, Transcript2(h))
  BY Script, Zenon
<1> DEFINE k == HandshakeKeys(h)
           b == Bumped
<1>9. client' = [b EXCEPT !.tx = Transcript2(h), !.sched = k,
                          !.read = [secret |-> k.sHS, seq |-> 0],
                          !.write = [secret |-> k.cHS, seq |-> 0]]
  BY <1>2, <1>5, <1>6, <1>7, <1>8, Zenon DEF OnServerHello
<1>10. b = [client EXCEPT !.next = client.next + 1, !.read = NoKeys]
  BY <1>3 DEF Bumped
<1> HIDE DEF b, k
<1> QED
  BY <1>0, <1>9, <1>10 DEF k

\* The client skips the ChangeCipherSpec.
LEMMA ReceivesChangeCipherSpec ==
  ASSUME Shapes, ServerOK, ClientShape, ClientOK, ClientReceives, client.next = 2
  PROVE  LET h == client.hello IN
         client' = [at |-> client.at, plan |-> client.plan, hello |-> h, tx |-> client.tx,
              sched |-> client.sched, read |-> client.read, write |-> client.write,
              out |-> client.out, next |-> client.next + 1, sent |-> client.sent,
              got |-> client.got, rejects |-> FALSE]
<1> DEFINE h == client.hello
           r == Received
           m == r.data[1]
<1>0. /\ client = [at |-> client.at, plan |-> client.plan, hello |-> h, tx |-> client.tx,
              sched |-> client.sched, read |-> client.read, write |-> client.write,
              out |-> client.out, next |-> client.next, sent |-> client.sent,
              got |-> client.got, rejects |-> client.rejects]
      /\ client.rejects = FALSE /\ client.next \in Nat
  BY DEF ClientShape, ClientOK
<1>1. r.outer = ChangeCipherSpec
  BY ReceivesCases DEF Received, ServerOK, Sent, Plaintext
<1>2. client' = [client EXCEPT !.next = client.next + 1]
  BY <1>1, ReceivesCases DEF r
<1> QED
  BY <1>0, <1>2

\* The client's keys and place after a record that is not its first one.
LEMMA BumpedIs ==
  ASSUME NEW s, NEW n \in Nat, client.read = [secret |-> s, seq |-> n], client.read # NoKeys
  PROVE  Bumped = [client EXCEPT !.next = client.next + 1,
                                 !.read = [secret |-> s, seq |-> n + 1]]
<1>1. [client.read EXCEPT !.seq = client.read.seq + 1] = [secret |-> s, seq |-> n + 1]
  OBVIOUS
<1>2. (IF client.read = NoKeys THEN NoKeys
       ELSE [client.read EXCEPT !.seq = client.read.seq + 1]) = [secret |-> s, seq |-> n + 1]
  BY <1>1, Zenon
<1> QED
  BY <1>2, Zenon DEF Bumped

\* The client reads the EncryptedExtensions message.
LEMMA ReceivesEncryptedExtensions ==
  ASSUME Shapes, ServerOK, ClientShape, ClientOK, ClientReceives, client.next = 3
  PROVE  LET h == client.hello IN
         client' = [at |-> client.at, plan |-> client.plan, hello |-> h, tx |-> Transcript3(h),
              sched |-> client.sched, read |-> [secret |-> HandshakeKeys(h).sHS, seq |-> 1], write |-> client.write,
              out |-> client.out, next |-> client.next + 1, sent |-> client.sent,
              got |-> client.got, rejects |-> FALSE]
<1> DEFINE h == client.hello
           r == Received
           m == r.data[1]
<1>0. /\ client = [at |-> client.at, plan |-> client.plan, hello |-> h, tx |-> client.tx,
              sched |-> client.sched, read |-> client.read, write |-> client.write,
              out |-> client.out, next |-> client.next, sent |-> client.sent,
              got |-> client.got, rejects |-> client.rejects]
      /\ client.rejects = FALSE /\ client.next \in Nat
  BY DEF ClientShape, ClientOK
<1>1. r = HandshakeRecord(h, 0, <<"encrypted_extensions", <<>>>>)
  BY ReceivesCases DEF Received, ServerOK, Sent
<1>2. /\ r.outer = ApplicationData /\ r.inner = Handshake /\ m = <<"encrypted_extensions", <<>>>>
      /\ r.secret = HandshakeKeys(h).sHS /\ r.seq = 0
  BY <1>1 DEF HandshakeRecord, Seal
<1>3. client.tx = Transcript2(h) /\ client.read = [secret |-> HandshakeKeys(h).sHS, seq |-> 0]
  BY DEF ClientOK, ClientKnows
<1> HIDE DEF r, m
<1>4. client.read # NoKeys
  <2>1. HandshakeKeys(h).sHS # <<>>
    BY SecretsDiffer, Zenon
  <2> QED
    BY <1>3, <2>1 DEF NoKeys
<1>5. Opens(r)
  BY <1>2, <1>3, <1>4 DEF Opens
<1>6. Acceptable(m) /\ m[1] # "server_hello" /\ m[1] # "finished"
  <2>1. Len(client.tx) = 2
    BY <1>3, TranscriptLengths, Zenon
  <2> QED
    BY <1>2, <1>3, <2>1 DEF Acceptable
<1> DEFINE b == Bumped
<1>7. client' = [b EXCEPT !.tx = Append(client.tx, m)]
  <2>1. r.outer # ChangeCipherSpec /\ r.inner # ApplicationData
    BY <1>2 DEF Handshake, ChangeCipherSpec, ApplicationData
  <2> QED
    BY <1>5, <1>6, <2>1, ReceivesCases, Zenon DEF r, m
<1>8. Append(client.tx, m) = Transcript3(h)
  BY <1>2, <1>3, Zenon DEF Transcript3
<1>9. b = [client EXCEPT !.next = client.next + 1,
                         !.read = [secret |-> HandshakeKeys(h).sHS, seq |-> 1]]
  <2>1. 0 \in Nat /\ 0 + 1 = 1
    OBVIOUS
  <2> QED
    BY <1>3, <1>4, <2>1, BumpedIs, Zenon
<1> HIDE DEF b
<1> QED
  BY <1>0, <1>7, <1>8, <1>9

\* The client reads the Certificate message.
LEMMA ReceivesCertificate ==
  ASSUME Shapes, ServerOK, ClientShape, ClientOK, ClientReceives, client.next = 4
  PROVE  LET h == client.hello IN
         client' = [at |-> client.at, plan |-> client.plan, hello |-> h, tx |-> Transcript4(h),
              sched |-> client.sched, read |-> [secret |-> HandshakeKeys(h).sHS, seq |-> 2], write |-> client.write,
              out |-> client.out, next |-> client.next + 1, sent |-> client.sent,
              got |-> client.got, rejects |-> FALSE]
<1> DEFINE h == client.hello
           r == Received
           m == r.data[1]
<1>0. /\ client = [at |-> client.at, plan |-> client.plan, hello |-> h, tx |-> client.tx,
              sched |-> client.sched, read |-> client.read, write |-> client.write,
              out |-> client.out, next |-> client.next, sent |-> client.sent,
              got |-> client.got, rejects |-> client.rejects]
      /\ client.rejects = FALSE /\ client.next \in Nat
  BY DEF ClientShape, ClientOK
<1>1. r = HandshakeRecord(h, 1, <<"certificate", "certDER">>)
  BY ReceivesCases DEF Received, ServerOK, Sent
<1>2. /\ r.outer = ApplicationData /\ r.inner = Handshake /\ m = <<"certificate", "certDER">>
      /\ r.secret = HandshakeKeys(h).sHS /\ r.seq = 1
  BY <1>1 DEF HandshakeRecord, Seal
<1>3. client.tx = Transcript3(h) /\ client.read = [secret |-> HandshakeKeys(h).sHS, seq |-> 1]
  BY DEF ClientOK, ClientKnows
<1> HIDE DEF r, m
<1>4. client.read # NoKeys
  <2>1. HandshakeKeys(h).sHS # <<>>
    BY SecretsDiffer, Zenon
  <2> QED
    BY <1>3, <2>1 DEF NoKeys
<1>5. Opens(r)
  BY <1>2, <1>3, <1>4 DEF Opens
<1>6. Acceptable(m) /\ m[1] # "server_hello" /\ m[1] # "finished"
  <2>1. Len(client.tx) = 3
    BY <1>3, TranscriptLengths, Zenon
  <2> QED
    BY <1>2, <1>3, <2>1 DEF Acceptable
<1> DEFINE b == Bumped
<1>7. client' = [b EXCEPT !.tx = Append(client.tx, m)]
  <2>1. r.outer # ChangeCipherSpec /\ r.inner # ApplicationData
    BY <1>2 DEF Handshake, ChangeCipherSpec, ApplicationData
  <2> QED
    BY <1>5, <1>6, <2>1, ReceivesCases, Zenon DEF r, m
<1>8. Append(client.tx, m) = Transcript4(h)
  BY <1>2, <1>3, Zenon DEF Transcript4
<1>9. b = [client EXCEPT !.next = client.next + 1,
                         !.read = [secret |-> HandshakeKeys(h).sHS, seq |-> 2]]
  <2>1. 1 \in Nat /\ 1 + 1 = 2
    OBVIOUS
  <2> QED
    BY <1>3, <1>4, <2>1, BumpedIs, Zenon
<1> HIDE DEF b
<1> QED
  BY <1>0, <1>7, <1>8, <1>9

\* The client reads the CertificateVerify message.
LEMMA ReceivesCertificateVerify ==
  ASSUME Shapes, ServerOK, ClientShape, ClientOK, ClientReceives, client.next = 5
  PROVE  LET h == client.hello IN
         client' = [at |-> client.at, plan |-> client.plan, hello |-> h, tx |-> Transcript5(h),
              sched |-> client.sched, read |-> [secret |-> HandshakeKeys(h).sHS, seq |-> 3], write |-> client.write,
              out |-> client.out, next |-> client.next + 1, sent |-> client.sent,
              got |-> client.got, rejects |-> FALSE]
<1> DEFINE h == client.hello
           r == Received
           m == r.data[1]
<1>0. /\ client = [at |-> client.at, plan |-> client.plan, hello |-> h, tx |-> client.tx,
              sched |-> client.sched, read |-> client.read, write |-> client.write,
              out |-> client.out, next |-> client.next, sent |-> client.sent,
              got |-> client.got, rejects |-> client.rejects]
      /\ client.rejects = FALSE /\ client.next \in Nat
  BY DEF ClientShape, ClientOK
<1>1. r = HandshakeRecord(h, 2, <<"certificate_verify", Transcript4(h)>>)
  BY ReceivesCases DEF Received, ServerOK, Sent
<1>2. /\ r.outer = ApplicationData /\ r.inner = Handshake /\ m = <<"certificate_verify", Transcript4(h)>>
      /\ r.secret = HandshakeKeys(h).sHS /\ r.seq = 2
  BY <1>1 DEF HandshakeRecord, Seal
<1>3. client.tx = Transcript4(h) /\ client.read = [secret |-> HandshakeKeys(h).sHS, seq |-> 2]
  BY DEF ClientOK, ClientKnows
<1> HIDE DEF r, m
<1>4. client.read # NoKeys
  <2>1. HandshakeKeys(h).sHS # <<>>
    BY SecretsDiffer, Zenon
  <2> QED
    BY <1>3, <2>1 DEF NoKeys
<1>5. Opens(r)
  BY <1>2, <1>3, <1>4 DEF Opens
<1>6. Acceptable(m) /\ m[1] # "server_hello" /\ m[1] # "finished"
  <2>1. Len(client.tx) = 4
    BY <1>3, TranscriptLengths, Zenon
  <2> QED
    BY <1>2, <1>3, <2>1 DEF Acceptable
<1> DEFINE b == Bumped
<1>7. client' = [b EXCEPT !.tx = Append(client.tx, m)]
  <2>1. r.outer # ChangeCipherSpec /\ r.inner # ApplicationData
    BY <1>2 DEF Handshake, ChangeCipherSpec, ApplicationData
  <2> QED
    BY <1>5, <1>6, <2>1, ReceivesCases, Zenon DEF r, m
<1>8. Append(client.tx, m) = Transcript5(h)
  BY <1>2, <1>3, Zenon DEF Transcript5
<1>9. b = [client EXCEPT !.next = client.next + 1,
                         !.read = [secret |-> HandshakeKeys(h).sHS, seq |-> 3]]
  <2>1. 2 \in Nat /\ 2 + 1 = 3
    OBVIOUS
  <2> QED
    BY <1>3, <1>4, <2>1, BumpedIs, Zenon
<1> HIDE DEF b
<1> QED
  BY <1>0, <1>7, <1>8, <1>9

\* The client reads the server's Finished and prepares its own.
LEMMA ReceivesFinished ==
  ASSUME Shapes, ServerOK, ClientShape, ClientOK, ClientReceives, client.next = 6
  PROVE  LET h == client.hello IN
         client' = [at |-> "ccs", plan |-> client.plan, hello |-> h, tx |-> Transcript6(h),
              sched |-> ApplicationKeys(h), read |-> [secret |-> ApplicationKeys(h).sApp, seq |-> 0], write |-> client.write,
              out |-> ClientFlight(ClientFinished(h)), next |-> client.next + 1, sent |-> client.sent,
              got |-> client.got, rejects |-> FALSE]
<1> DEFINE h == client.hello
           r == Received
           m == r.data[1]
<1>0. /\ client = [at |-> client.at, plan |-> client.plan, hello |-> h, tx |-> client.tx,
              sched |-> client.sched, read |-> client.read, write |-> client.write,
              out |-> client.out, next |-> client.next, sent |-> client.sent,
              got |-> client.got, rejects |-> client.rejects]
      /\ client.rejects = FALSE /\ client.next \in Nat
  BY DEF ClientShape, ClientOK
<1>1. r = HandshakeRecord(h, 3, Finished(h))
  BY ReceivesCases DEF Received, ServerOK, Sent
<1>2. /\ r.outer = ApplicationData /\ r.inner = Handshake /\ m = Finished(h)
      /\ r.secret = HandshakeKeys(h).sHS /\ r.seq = 3
  BY <1>1 DEF HandshakeRecord, Seal
<1>3. /\ client.tx = Transcript5(h) /\ client.sched = HandshakeKeys(h)
      /\ client.read = [secret |-> HandshakeKeys(h).sHS, seq |-> 3]
  BY DEF ClientOK, ClientKnows
<1> HIDE DEF r, m
<1>4. client.read # NoKeys
  <2>1. HandshakeKeys(h).sHS # <<>>
    BY SecretsDiffer, Zenon
  <2> QED
    BY <1>3, <2>1 DEF NoKeys
<1>5. Opens(r)
  BY <1>2, <1>3, <1>4 DEF Opens
<1>6. Finished(h) = <<"finished", FinishedMAC(HandshakeKeys(h).sHS, Transcript5(h))>>
  BY Script, Zenon
<1>7. m[1] = "finished" /\ m[1] # "server_hello"
  BY <1>2, <1>6
<1>8. Acceptable(m)
  <2>1. Len(client.tx) = 5
    BY <1>3, TranscriptLengths, Zenon
  <2>2. m = <<"finished", FinishedMAC(client.sched.sHS, client.tx)>>
    BY <1>2, <1>3, <1>6, Zenon
  <2> QED
    BY <2>1, <2>2, Zenon DEF Acceptable
<1>9. client' = OnFinished(m)
  <2>1. r.outer # ChangeCipherSpec /\ r.inner # ApplicationData
    BY <1>2 DEF Handshake, ChangeCipherSpec, ApplicationData
  <2> QED
    BY <1>5, <1>7, <1>8, <2>1, ReceivesCases, Zenon DEF r, m
<1>10. Append(client.tx, m) = Transcript6(h)
  BY <1>2, <1>3, Zenon DEF Transcript6
<1> DEFINE k == ApplicationKeys(h)
           b == Bumped
           f == ClientFlight(ClientFinished(h))
<1>11. k = ClientAppSecrets(client.sched, Transcript6(h))
  BY <1>3, Script, Zenon
<1>12. ClientFinished(h) = <<"finished", FinishedMAC(k.cHS, Transcript6(h))>>
  BY Script, Zenon
<1>13. client' = [b EXCEPT !.at = "ccs", !.tx = Transcript6(h), !.sched = k,
                           !.read = [secret |-> k.sApp, seq |-> 0], !.out = f]
  BY <1>9, <1>10, <1>11, <1>12, Zenon DEF OnFinished
<1>14. \E x : b = [client EXCEPT !.next = client.next + 1, !.read = x]
  BY DEF Bumped
<1> HIDE DEF b, k, f
<1> QED
  BY <1>0, <1>13, <1>14 DEF k, f

\* The client reads data.
LEMMA ReceivesData ==
  ASSUME Shapes, ServerOK, ClientShape, ClientOK, ClientReceives, client.next >= 7
  PROVE  LET h == client.hello IN
         client' = [at |-> client.at, plan |-> client.plan, hello |-> h, tx |-> client.tx,
              sched |-> client.sched, read |-> [secret |-> ApplicationKeys(h).sApp, seq |-> client.next - 6], write |-> client.write,
              out |-> client.out, next |-> client.next + 1, sent |-> client.sent,
              got |-> client.got \o s2c[client.next].data, rejects |-> FALSE]
<1> DEFINE h == client.hello
           r == Received
           m == r.data[1]
<1>0. /\ client = [at |-> client.at, plan |-> client.plan, hello |-> h, tx |-> client.tx,
              sched |-> client.sched, read |-> client.read, write |-> client.write,
              out |-> client.out, next |-> client.next, sent |-> client.sent,
              got |-> client.got, rejects |-> client.rejects]
      /\ client.rejects = FALSE /\ client.next \in Nat
  BY DEF ClientShape, ClientOK
<1>1. client.next \in 7 .. Len(s2c)
  BY <1>0, ReceivesCases, SeqIsSeq DEF Shapes
<1>2. /\ r.outer = ApplicationData /\ r.inner = ApplicationData
      /\ r.secret = ApplicationKeys(h).sApp /\ r.seq = client.next - 7
  BY <1>1 DEF Received, ServerOK, Sent
<1>3. client.read = [secret |-> ApplicationKeys(h).sApp, seq |-> client.next - 7]
  BY <1>1 DEF ClientOK, ClientKnows
<1>4. client.read # NoKeys
  <2>1. ApplicationKeys(h).sApp # <<>>
    BY SecretsDiffer, Zenon
  <2> QED
    BY <1>3, <2>1 DEF NoKeys
<1> HIDE DEF r
<1>5. Opens(r)
  BY <1>2, <1>3, <1>4 DEF Opens
<1> DEFINE b == Bumped
           g == client.got \o r.data
<1>6. client' = [b EXCEPT !.got = g]
  <2>1. r.outer # ChangeCipherSpec
    BY <1>2 DEF ChangeCipherSpec, ApplicationData
  <2> QED
    BY <1>2, <1>5, <2>1, ReceivesCases, Zenon DEF r
<1>7. b = [client EXCEPT !.next = client.next + 1,
             !.read = [secret |-> ApplicationKeys(h).sApp, seq |-> client.next - 6]]
  <2>1. client.next - 7 \in Nat /\ (client.next - 7) + 1 = client.next - 6
    BY <1>1
  <2> QED
    BY <1>3, <1>4, <2>1, BumpedIs, Zenon
<1>8. r = s2c[client.next]
  BY DEF r, Received
<1> HIDE DEF b
<1> QED
  BY <1>0, <1>6, <1>7, <1>8

\* What the client's second flight is.
LEMMA FlightIs ==
  ASSUME NEW m
  PROVE  IsSeq(ClientFlight(m)) /\ (Faithful => ClientFlight(m) = Units(m))
<1>1. IsSeq(Units(m)) /\ IsSeq(Units(<<"finished", <<>>>>)) /\ IsSeq(Units(<<"key_update", <<>>>>))
      /\ IsSeq(Units(<<"certificate", <<>>>>))
  BY UnitsAre, Zenon
<1>2. IsSeq(Units(m) \o Units(<<"key_update", <<>>>>))
  BY <1>1, SeqConcat, Zenon
<1>3. IsSeq(<<>>)
  BY SeqEmpty
<1> QED
  BY <1>1, <1>2, <1>3, Zenon DEF ClientFlight, Faithful

\* The client after a record that it accepts.
Accepts(a, t, k, r, w, o, g) ==
  client' = [at |-> a, plan |-> client.plan, hello |-> client.hello, tx |-> t, sched |-> k,
             read |-> r, write |-> w, out |-> o, next |-> client.next + 1,
             sent |-> client.sent, got |-> g, rejects |-> FALSE]

\* Its fields.
LEMMA AcceptsFields ==
  ASSUME ClientShape, NEW a, NEW t, NEW k, NEW r, NEW w, NEW o, NEW g,
         Accepts(a, t, k, r, w, o, g), IsKeys(w), IsSeq(w.secret), IsSeq(o), IsSeq(g)
  PROVE  /\ ClientShape'
         /\ client'.at = a /\ client'.tx = t /\ client'.sched = k /\ client'.read = r
         /\ client'.write = w /\ client'.out = o /\ client'.got = g
         /\ client'.plan = client.plan /\ client'.hello = client.hello
         /\ client'.next = client.next + 1 /\ client'.sent = client.sent
         /\ client'.rejects = FALSE
<1>1. /\ client'.at = a /\ client'.tx = t /\ client'.sched = k /\ client'.read = r
      /\ client'.write = w /\ client'.out = o /\ client'.got = g
      /\ client'.plan = client.plan /\ client'.hello = client.hello
      /\ client'.next = client.next + 1 /\ client'.sent = client.sent
      /\ client'.rejects = FALSE
  BY DEF Accepts
<1>2. client' = [at |-> client'.at, plan |-> client'.plan, hello |-> client'.hello,
               tx |-> client'.tx, sched |-> client'.sched, read |-> client'.read,
               write |-> client'.write, out |-> client'.out, next |-> client'.next,
               sent |-> client'.sent, got |-> client'.got, rejects |-> client'.rejects]
  BY <1>1 DEF Accepts
<1>3. /\ \E c \in Clients : client'.hello = c.hello
      /\ client'.sent \in Nat /\ client'.next \in Nat
  BY <1>1 DEF ClientShape
<1>4. /\ IsKeys(client'.write) /\ IsSeq(client'.write.secret)
      /\ IsSeq(client'.out) /\ IsSeq(client'.got)
  BY <1>1
<1> QED
  BY <1>1, <1>2, <1>3, <1>4 DEF ClientShape

\* No transcript is empty.
LEMMA TranscriptNotEmpty ==
  ASSUME NEW h
  PROVE  /\ Transcript2(h) # <<>> /\ Transcript3(h) # <<>> /\ Transcript4(h) # <<>>
         /\ Transcript5(h) # <<>> /\ Transcript6(h) # <<>>
<1>1. \A m, s : IsSeq(<<m, s>>) /\ Len(<<m, s>>) = 2
  BY DEF IsSeq
<1>2. IsSeq(Transcript2(h)) /\ Len(Transcript2(h)) = 2
  BY <1>1, Zenon DEF Transcript2
<1>3. IsSeq(Transcript3(h)) /\ Len(Transcript3(h)) = Len(Transcript2(h)) + 1
  BY <1>2, SeqAppend, Zenon DEF Transcript3
<1>4. IsSeq(Transcript4(h)) /\ Len(Transcript4(h)) = Len(Transcript3(h)) + 1
  BY <1>3, SeqAppend, Zenon DEF Transcript4
<1>5. IsSeq(Transcript5(h)) /\ Len(Transcript5(h)) = Len(Transcript4(h)) + 1
  BY <1>4, SeqAppend, Zenon DEF Transcript5
<1>6. IsSeq(Transcript6(h)) /\ Len(Transcript6(h)) = Len(Transcript5(h)) + 1
  BY <1>5, SeqAppend, Zenon DEF Transcript6
<1> QED
  BY <1>2, <1>3, <1>4, <1>5, <1>6, SeqEmpty

\* The client accepts every record of the server, and goes on as the script
\* says.
LEMMA ReceivesStep ==
  ASSUME Shapes, ServerOK, ClientShape, ClientOK, StreamsOK, ClientReceives
  PROVE  /\ Shapes' /\ ServerOK' /\ ClientShape' /\ ClientOK'
         /\ client.next <= Len(s2c) /\ client'.next = client.next + 1
         /\ client'.hello = client.hello /\ client'.plan = client.plan
         /\ client'.sent = client.sent
         /\ client.next # 6 => client'.out = client.out /\ client'.at = client.at
         /\ client.next = 6 => /\ client'.out = ClientFlight(ClientFinished(client.hello))
                               /\ client'.at = "ccs"
         /\ client.next # 1 => client'.write = client.write
         /\ client.next < 7 => client'.got = client.got
         /\ client.next >= 7 => client'.got = client.got \o s2c[client.next].data
<1> DEFINE h == client.hello
           Goal == /\ ClientShape' /\ client'.rejects = FALSE /\ ClientKnows(client.hello)'
                   /\ client'.tx # <<>> /\ client'.at \in {"hello", "ccs", "finish", "open"}
                   /\ client'.next = client.next + 1
                   /\ client'.hello = client.hello /\ client'.plan = client.plan
                   /\ client'.sent = client.sent
                   /\ client.next # 6 => client'.out = client.out /\ client'.at = client.at
                   /\ client.next = 6 => /\ client'.out = ClientFlight(ClientFinished(client.hello))
                                         /\ client'.at = "ccs"
                   /\ client.next # 1 => client'.write = client.write
                   /\ client.next < 7 => client'.got = client.got
                   /\ client.next >= 7 => client'.got = client.got \o s2c[client.next].data
<1>0. /\ IsKeys(client.write) /\ IsSeq(client.write.secret)
      /\ IsSeq(client.out) /\ IsSeq(client.got) /\ client.next \in Nat
  BY DEF ClientShape
<1>1. /\ client.at \in {"hello", "ccs", "finish", "open"} /\ client.next <= Len(s2c)
      /\ UNCHANGED serverVars /\ c2s' = c2s
  BY ReceivesCases
<1>2. /\ client.tx # <<>>
      /\ client.next \in {2, 3, 4, 5, 6} => client.write.secret # <<>>
  BY <1>1 DEF ClientOK, ClientKnows
<1>3. ASSUME client.next = 1 PROVE Goal
  <2> DEFINE w == [secret |-> HandshakeKeys(h).cHS, seq |-> 0]
             r == [secret |-> HandshakeKeys(h).sHS, seq |-> 0]
  <2>1. Accepts(client.at, Transcript2(h), HandshakeKeys(h), r, w, client.out, client.got)
    BY <1>3, ReceivesServerHello DEF Accepts
  <2>2. HandshakeKeys(h).cHS # <<>> /\ IsSeq(HandshakeKeys(h).cHS)
    BY SecretsDiffer, Script, Zenon
  <2>3. IsKeys(w) /\ IsSeq(w.secret) /\ w.secret # <<>>
    BY <2>2 DEF IsKeys
  <2> HIDE DEF w
  <2>4. /\ ClientShape' /\ client'.at = client.at /\ client'.tx = Transcript2(h)
        /\ client'.sched = HandshakeKeys(h) /\ client'.read = r /\ client'.write = w
        /\ client'.out = client.out /\ client'.got = client.got
        /\ client'.plan = client.plan /\ client'.hello = client.hello
        /\ client'.next = client.next + 1 /\ client'.sent = client.sent
        /\ client'.rejects = FALSE
    BY <1>0, <2>1, <2>3, AcceptsFields, Zenon DEF Accepts
  <2>5. client'.next = 2 /\ client.at \in {"hello", "ended"}
    BY <1>1, <1>3, <2>4 DEF ClientOK, ClientKnows
  <2>6. ClientKnows(client.hello)'
    BY <2>3, <2>4, <2>5 DEF ClientKnows
  <2>7. client'.tx # <<>>
    BY <2>4, TranscriptNotEmpty, Zenon
  <2> QED
    BY <1>1, <1>3, <2>4, <2>6, <2>7
<1>4. ASSUME client.next = 2 PROVE Goal
  <2> DEFINE r == client.read
  <2>1. Accepts(client.at, client.tx, client.sched, r, client.write, client.out, client.got)
    BY <1>4, ReceivesChangeCipherSpec DEF Accepts
  <2>2. /\ ClientShape' /\ client'.at = client.at /\ client'.tx = client.tx
        /\ client'.sched = client.sched /\ client'.read = r /\ client'.write = client.write
        /\ client'.out = client.out /\ client'.got = client.got
        /\ client'.plan = client.plan /\ client'.hello = client.hello
        /\ client'.next = client.next + 1 /\ client'.sent = client.sent
        /\ client'.rejects = FALSE
    BY <1>0, <2>1, AcceptsFields, Zenon DEF Accepts
  <2>3. /\ client'.next = 3 /\ client.at \in {"hello", "ended"}
        /\ client.sched = HandshakeKeys(h)
        /\ client.tx = Transcript2(h)
        /\ client.read = [secret |-> HandshakeKeys(h).sHS, seq |-> 0]
    BY <1>1, <1>4, <2>2 DEF ClientOK, ClientKnows
  <2>4. ClientKnows(client.hello)'
    BY <1>2, <1>4, <2>2, <2>3 DEF ClientKnows
  <2>5. client'.tx # <<>>
    BY <1>2, <2>2, TranscriptNotEmpty, Zenon
  <2> QED
    BY <1>1, <1>4, <2>2, <2>4, <2>5
<1>5. ASSUME client.next = 3 PROVE Goal
  <2> DEFINE r == [secret |-> HandshakeKeys(h).sHS, seq |-> 1]
  <2>1. Accepts(client.at, Transcript3(h), client.sched, r, client.write, client.out, client.got)
    BY <1>5, ReceivesEncryptedExtensions DEF Accepts
  <2>2. /\ ClientShape' /\ client'.at = client.at /\ client'.tx = Transcript3(h)
        /\ client'.sched = client.sched /\ client'.read = r /\ client'.write = client.write
        /\ client'.out = client.out /\ client'.got = client.got
        /\ client'.plan = client.plan /\ client'.hello = client.hello
        /\ client'.next = client.next + 1 /\ client'.sent = client.sent
        /\ client'.rejects = FALSE
    BY <1>0, <2>1, AcceptsFields, Zenon DEF Accepts
  <2>3. /\ client'.next = 4 /\ client.at \in {"hello", "ended"}
        /\ client.sched = HandshakeKeys(h)
    BY <1>1, <1>5, <2>2 DEF ClientOK, ClientKnows
  <2>4. ClientKnows(client.hello)'
    BY <1>2, <1>5, <2>2, <2>3 DEF ClientKnows
  <2>5. client'.tx # <<>>
    BY <1>2, <2>2, TranscriptNotEmpty, Zenon
  <2> QED
    BY <1>1, <1>5, <2>2, <2>4, <2>5
<1>6. ASSUME client.next = 4 PROVE Goal
  <2> DEFINE r == [secret |-> HandshakeKeys(h).sHS, seq |-> 2]
  <2>1. Accepts(client.at, Transcript4(h), client.sched, r, client.write, client.out, client.got)
    BY <1>6, ReceivesCertificate DEF Accepts
  <2>2. /\ ClientShape' /\ client'.at = client.at /\ client'.tx = Transcript4(h)
        /\ client'.sched = client.sched /\ client'.read = r /\ client'.write = client.write
        /\ client'.out = client.out /\ client'.got = client.got
        /\ client'.plan = client.plan /\ client'.hello = client.hello
        /\ client'.next = client.next + 1 /\ client'.sent = client.sent
        /\ client'.rejects = FALSE
    BY <1>0, <2>1, AcceptsFields, Zenon DEF Accepts
  <2>3. /\ client'.next = 5 /\ client.at \in {"hello", "ended"}
        /\ client.sched = HandshakeKeys(h)
    BY <1>1, <1>6, <2>2 DEF ClientOK, ClientKnows
  <2>4. ClientKnows(client.hello)'
    BY <1>2, <1>6, <2>2, <2>3 DEF ClientKnows
  <2>5. client'.tx # <<>>
    BY <1>2, <2>2, TranscriptNotEmpty, Zenon
  <2> QED
    BY <1>1, <1>6, <2>2, <2>4, <2>5
<1>7. ASSUME client.next = 5 PROVE Goal
  <2> DEFINE r == [secret |-> HandshakeKeys(h).sHS, seq |-> 3]
  <2>1. Accepts(client.at, Transcript5(h), client.sched, r, client.write, client.out, client.got)
    BY <1>7, ReceivesCertificateVerify DEF Accepts
  <2>2. /\ ClientShape' /\ client'.at = client.at /\ client'.tx = Transcript5(h)
        /\ client'.sched = client.sched /\ client'.read = r /\ client'.write = client.write
        /\ client'.out = client.out /\ client'.got = client.got
        /\ client'.plan = client.plan /\ client'.hello = client.hello
        /\ client'.next = client.next + 1 /\ client'.sent = client.sent
        /\ client'.rejects = FALSE
    BY <1>0, <2>1, AcceptsFields, Zenon DEF Accepts
  <2>3. /\ client'.next = 6 /\ client.at \in {"hello", "ended"}
        /\ client.sched = HandshakeKeys(h)
    BY <1>1, <1>7, <2>2 DEF ClientOK, ClientKnows
  <2>4. ClientKnows(client.hello)'
    BY <1>2, <1>7, <2>2, <2>3 DEF ClientKnows
  <2>5. client'.tx # <<>>
    BY <1>2, <2>2, TranscriptNotEmpty, Zenon
  <2> QED
    BY <1>1, <1>7, <2>2, <2>4, <2>5
<1>8. ASSUME client.next = 6 PROVE Goal
  <2> DEFINE r == [secret |-> ApplicationKeys(h).sApp, seq |-> 0]
             o == ClientFlight(ClientFinished(h))
  <2>1. Accepts("ccs", Transcript6(h), ApplicationKeys(h), r, client.write, o, client.got)
    BY <1>8, ReceivesFinished DEF Accepts
  <2>2. IsSeq(o)
    BY FlightIs, Zenon
  <2>3. /\ ClientShape' /\ client'.at = "ccs" /\ client'.tx = Transcript6(h)
        /\ client'.sched = ApplicationKeys(h) /\ client'.read = r
        /\ client'.write = client.write /\ client'.out = o /\ client'.got = client.got
        /\ client'.plan = client.plan /\ client'.hello = client.hello
        /\ client'.next = client.next + 1 /\ client'.sent = client.sent
        /\ client'.rejects = FALSE
    BY <1>0, <2>1, <2>2, AcceptsFields, ZenonT(40) DEF Accepts
  <2> HIDE DEF o
  <2>4. client'.next = 7
    BY <1>8, <2>3
  <2>5. ClientKnows(client.hello)'
    BY <1>2, <1>8, <2>3, <2>4 DEF ClientKnows
  <2>6. client'.tx # <<>>
    BY <2>3, TranscriptNotEmpty, Zenon
  <2> QED
    BY <1>1, <1>8, <2>3, <2>5, <2>6 DEF o
<1>9. ASSUME client.next >= 7 PROVE Goal
  <2> DEFINE d == s2c[client.next].data
             r == [secret |-> ApplicationKeys(h).sApp, seq |-> client.next - 6]
             g == client.got \o d
  <2>1. Accepts(client.at, client.tx, client.sched, r, client.write, client.out, g)
    BY <1>9, ReceivesData DEF Accepts
  <2>2. IsSeq(d)
    <3>1. client.next \in 7 .. Len(s2c)
      BY <1>0, <1>1, <1>9, SeqIsSeq DEF Shapes
    <3> QED
      BY <3>1 DEF StreamsOK, ToClient
  <2>3. IsSeq(g)
    BY <1>0, <2>2, SeqConcat, Zenon
  <2> HIDE DEF g
  <2>4. /\ ClientShape' /\ client'.at = client.at /\ client'.tx = client.tx
        /\ client'.sched = client.sched /\ client'.read = r /\ client'.write = client.write
        /\ client'.out = client.out /\ client'.got = g
        /\ client'.plan = client.plan /\ client'.hello = client.hello
        /\ client'.next = client.next + 1 /\ client'.sent = client.sent
        /\ client'.rejects = FALSE
    BY <1>0, <2>1, <2>3, AcceptsFields, Zenon DEF Accepts
  <2>5. /\ client.at \in {"ccs", "finish", "open", "ended"} /\ client.write.secret # <<>>
        /\ client.tx = Transcript6(h) /\ client.sched = ApplicationKeys(h)
    BY <1>9 DEF ClientOK, ClientKnows
  <2>6. client'.next >= 7 /\ client'.next - 7 = client.next - 6
    BY <1>0, <1>9, <2>4
  <2>7. ClientKnows(client.hello)'
    BY <2>4, <2>5, <2>6 DEF ClientKnows
  <2>8. client.next # 6 /\ client.next # 1 /\ ~(client.next < 7)
    BY <1>0, <1>9
  <2>9. client'.tx # <<>> /\ client'.at \in {"hello", "ccs", "finish", "open"}
    BY <1>1, <1>2, <2>4
  <2> QED
    BY <2>4, <2>7, <2>8, <2>9, Zenon DEF g
<1>10. client.next \in {1, 2, 3, 4, 5, 6} \/ client.next >= 7
  BY DEF ClientOK, ClientKnows
<1> HIDE DEF Goal
<1>11. Goal
  BY <1>3, <1>4, <1>5, <1>6, <1>7, <1>8, <1>9, <1>10
<1>12. Shapes' /\ ServerOK'
  <2>1. IsSeq(c2s') /\ (\A i \in 1 .. Len(c2s') : IsSeq(c2s'[i].data))
    BY <1>1 DEF Shapes
  <2>2. client'.hello = client.hello
    BY <1>11 DEF Goal
  <2> QED
    BY <1>1, <2>1, <2>2, ClientKeepsServer
<1>13. ClientOK'
  <2>1. /\ client'.next = client.next + 1 /\ client'.rejects = FALSE
        /\ ClientKnows(client.hello)' /\ client'.tx # <<>>
        /\ client'.at \in {"hello", "ccs", "finish", "open"}
    BY <1>11 DEF Goal
  <2>2. s2c' = s2c /\ Len(s2c) \in Nat
    BY <1>1, SeqIsSeq DEF Shapes, serverVars
  <2>3. client'.next <= Len(s2c') + 1 /\ client'.next # 1
    BY <1>0, <1>1, <1>10, <2>1, <2>2
  <2> QED
    BY <2>1, <2>3 DEF ClientOK
<1> QED
  BY <1>1, <1>11, <1>12, <1>13 DEF Goal

------------------------------------------------------------------------------
(***************************************************************************)
(* The server's steps together, and the client's part.                     *)
(***************************************************************************)

\* No step of the server changes the client, and its records only grow; the
\* first is sent to a client that has sent its ClientHello.
LEMMA ServerSends ==
  ASSUME Shapes, ClientShape, ServerOK, ClientOK, PiecesOK, Server
  PROVE  /\ client' = client
         /\ \/ s2c' = s2c
            \/ \E r : s2c' = Append(s2c, r)
         /\ s2c' = s2c \/ Len(s2c) >= 1 \/ client.tx = Transcript1(client.hello)
<1> DEFINE Goal == /\ client' = client
                   /\ s2c' = s2c \/ \E r : s2c' = Append(s2c, r)
                   /\ s2c' = s2c \/ Len(s2c) >= 1 \/ client.tx = Transcript1(client.hello)
<1>1. ASSUME \/ CallHandshake \/ ReadHandshakeEnd \/ WriteServerHelloFails \/ WriteFails
             \/ ReadAppEnd \/ WriteChunkFails
      PROVE  Goal
  BY <1>1 DEF CallHandshake, ReadHandshakeEnd, WriteServerHelloFails, WriteFails, HandshakeFails,
              ReadAppEnd, WriteChunkFails
<1>2. ASSUME ReadHandshakeRecord PROVE Goal
  BY <1>2 DEF ReadHandshakeRecord, HandshakeFails
<1>3. ASSUME HandleClientHello PROVE Goal
  <2>1. CASE HelloError(Taken) # "nil"
    BY <1>3, <2>1 DEF HandleClientHello, HandshakeFails
  <2>2. CASE HelloError(Taken) = "nil"
    <3>1. client.tx = Transcript1(client.hello)
      BY <1>3, <2>2, HelloIsTheClients DEF HandleClientHello
    <3> QED
      BY <1>3, <2>2, <3>1 DEF HandleClientHello
  <2> QED
    BY <2>1, <2>2
<1>4. ASSUME WriteChangeCipherSpec PROVE Goal
  <2>1. Len(s2c) = 1
    BY <1>4 DEF WriteChangeCipherSpec, ServerOK, SentAt
  <2> QED
    BY <1>4, <2>1 DEF WriteChangeCipherSpec
<1>5. ASSUME WriteFlight PROVE Goal
  <2>1. pc \in {"encrypted_extensions", "certificate", "certificate_verify", "finished"}
    BY <1>5, AfterIs DEF WriteFlight
  <2>2. Len(s2c) >= 1
    BY <2>1 DEF ServerOK, SentAt
  <2> QED
    BY <1>5, <2>2 DEF WriteFlight
<1>6. ASSUME HandleClientFinished PROVE Goal
  BY <1>6 DEF HandleClientFinished, HandshakeFails
<1>7. ASSUME NEW n, ReadBuffered(n) \/ ReadAppRecord(n) \/ Write(n) PROVE Goal
  BY <1>7 DEF ReadBuffered, ReadAppRecord, Write
<1>8. ASSUME WriteChunk PROVE Goal
  <2>1. handshakeDone
    BY <1>8 DEF WriteChunk, ServerOK, SentAt
  <2>2. Len(s2c) >= 6 /\ Len(s2c) \in Nat
    BY <2>1, SeqIsSeq DEF ServerOK, SentAt, Shapes
  <2>3. Len(s2c) >= 1
    BY <2>2
  <2> QED
    BY <1>8, <2>3 DEF WriteChunk
<1> HIDE DEF Goal
<1>9. Goal
  BY <1>1, <1>2, <1>3, <1>4, <1>5, <1>6, <1>7, <1>8 DEF Server
<1> QED
  BY <1>9 DEF Goal

\* The server's records after one of its steps.
LEMMA ServerGrows ==
  ASSUME Shapes, ClientShape, ServerOK, ClientOK, PiecesOK, Server
  PROVE  /\ client' = client /\ IsSeq(s2c') /\ Len(s2c) \in Nat /\ Len(s2c') \in Nat
         /\ Len(s2c) <= Len(s2c') /\ Len(s2c') <= Len(s2c) + 1
         /\ \A i \in 1 .. Len(s2c) : s2c'[i] = s2c[i]
         /\ Len(s2c) = Len(s2c') \/ Len(s2c) >= 1 \/ client.tx = Transcript1(client.hello)
<1>0. IsSeq(s2c) /\ Len(s2c) \in Nat
  BY SeqIsSeq DEF Shapes
<1>1. client' = client
  BY ServerSends
<1>2. CASE s2c' = s2c
  BY <1>0, <1>1, <1>2
<1>3. CASE s2c' # s2c
  <2>1. PICK r : s2c' = Append(s2c, r)
    BY <1>3, ServerSends
  <2>2. /\ IsSeq(s2c') /\ Len(s2c) \in Nat /\ Len(s2c') = Len(s2c) + 1
        /\ \A i \in 1 .. Len(s2c) : s2c'[i] = s2c[i]
    BY <1>0, <2>1, OneMoreSent, Zenon
  <2>3. Len(s2c) >= 1 \/ client.tx = Transcript1(client.hello)
    BY <1>3, ServerSends
  <2> QED
    BY <1>1, <2>2, <2>3
<1> QED
  BY <1>2, <1>3

\* Every step of the server keeps its own part and the client's.
LEMMA ServerStep ==
  ASSUME Shapes, ClientShape, ServerOK, ClientOK, PiecesOK, Server
  PROVE  Shapes' /\ ServerOK' /\ ClientShape' /\ ClientOK'
<1>1. Shapes' /\ ServerOK'
  <2>1. ASSUME NEW n \in ReadSizes, ReadBuffered(n) \/ ReadAppRecord(n) PROVE Shapes' /\ ServerOK'
    <3>1. n \in Nat \ {0}
      BY TLSAssumption
    <3> QED
      BY <2>1, <3>1, ApplicationStep
  <2>2. ASSUME NEW n \in WriteSizes, Write(n) PROVE Shapes' /\ ServerOK'
    <3>1. n \in Nat \ {0}
      BY TLSAssumption
    <3> QED
      BY <2>2, <3>1, ApplicationStep
  <2>3. ASSUME ReadAppEnd PROVE Shapes' /\ ServerOK'
    <3>1. 1 \in Nat \ {0}
      OBVIOUS
    <3> QED
      BY <2>3, <3>1, ApplicationStep
  <2> QED
    BY <2>1, <2>2, <2>3, CallHandshakeStep, ReadHandshakeRecordStep, HandshakeStopsStep,
       HandleClientHelloStep, WriteChangeCipherSpecStep, WriteFlightStep, WriteFailsStep,
       HandleClientFinishedStep, WriteChunkStep, WriteChunkFailsStep, Zenon DEF Server
<1>2. /\ client' = client /\ Len(s2c) \in Nat /\ Len(s2c') \in Nat /\ Len(s2c) <= Len(s2c')
      /\ Len(s2c) = Len(s2c') \/ Len(s2c) >= 1 \/ client.tx = Transcript1(client.hello)
  BY ServerGrows
<1>3. ClientShape'
  BY <1>2 DEF ClientShape
<1>4. client'.next <= Len(s2c') + 1 /\ client'.rejects = FALSE
  BY <1>2 DEF ClientShape, ClientOK
<1>5. Len(s2c') >= 1 /\ client'.next = 1 => client'.tx = Transcript1(client'.hello)
  BY <1>2 DEF ClientOK
<1>6. /\ client'.at = "start" <=> client'.tx = <<>> /\ client'.at # "ended"
      /\ ClientKnows(client.hello)'
  BY <1>2 DEF ClientOK, ClientKnows
<1>7. ClientOK'
  BY <1>4, <1>5, <1>6 DEF ClientOK
<1> QED
  BY <1>1, <1>3, <1>7

------------------------------------------------------------------------------
(***************************************************************************)
(* The pieces of handshake messages.                                       *)
(***************************************************************************)

\* What the server takes from its stream and what it keeps of it.
LEMMA ServerTakes ==
  ASSUME Shapes, Server
  PROVE  /\ \A i \in 1 .. Len(c2s') : \E j \in 1 .. Len(c2s) : c2s'[i] = c2s[j]
         /\ \A i \in 1 .. Len(hsBuf') :
              \/ \E j \in 1 .. Len(hsBuf) : hsBuf'[i] = hsBuf[j]
              \/ /\ 1 \in 1 .. Len(c2s) /\ c2s[1].inner = Handshake
                 /\ \E j \in 1 .. Len(c2s[1].data) : hsBuf'[i] = c2s[1].data[j]
<1> DEFINE CGoal == \A i \in 1 .. Len(c2s') : \E j \in 1 .. Len(c2s) : c2s'[i] = c2s[j]
           HGoal == \A i \in 1 .. Len(hsBuf') :
                      \/ \E j \in 1 .. Len(hsBuf) : hsBuf'[i] = hsBuf[j]
                      \/ /\ 1 \in 1 .. Len(c2s) /\ c2s[1].inner = Handshake
                         /\ \E j \in 1 .. Len(c2s[1].data) : hsBuf'[i] = c2s[1].data[j]
<1>1. IsSeq(c2s) /\ IsSeq(hsBuf) /\ Len(c2s) \in Nat /\ Len(hsBuf) \in Nat
  BY SeqIsSeq DEF Shapes
<1>2. c2s' = c2s => CGoal
  OBVIOUS
<1>3. hsBuf' = hsBuf => HGoal
  OBVIOUS
<1>4. ASSUME c2s # <<>>, c2s' = Tail(c2s)
      PROVE  CGoal /\ Head(c2s) = c2s[1] /\ 1 \in 1 .. Len(c2s)
  <2>1. /\ Len(c2s) > 0 /\ Len(c2s') = Len(c2s) - 1 /\ Head(c2s) = c2s[1]
        /\ \A i \in 1 .. Len(c2s) - 1 : c2s'[i] = c2s[i + 1]
    BY <1>1, <1>4, OneLessToServer
  <2>2. ASSUME NEW i \in 1 .. Len(c2s') PROVE \E j \in 1 .. Len(c2s) : c2s'[i] = c2s[j]
    <3>1. i \in 1 .. Len(c2s) - 1 /\ i + 1 \in 1 .. Len(c2s)
      BY <1>1, <2>1
    <3> QED
      BY <2>1, <3>1
  <2> QED
    BY <1>1, <2>1, <2>2
<1>5. ASSUME Buffered, hsBuf' = Untaken PROVE HGoal
  <2>1. /\ Len(Untaken) = Len(hsBuf) - 3 /\ Len(hsBuf) >= 3
        /\ \A i \in 1 .. Len(Untaken) : Untaken[i] = hsBuf[i + 3]
    BY <1>5, TakenFacts DEF HeaderLen, BodyLen
  <2>2. ASSUME NEW i \in 1 .. Len(hsBuf') PROVE \E j \in 1 .. Len(hsBuf) : hsBuf'[i] = hsBuf[j]
    <3> DEFINE u == Untaken
    <3> HIDE DEF u
    <3>1. hsBuf' = u /\ Len(u) = Len(hsBuf) - 3 /\ \A j \in 1 .. Len(u) : u[j] = hsBuf[j + 3]
      BY <1>5, <2>1 DEF u
    <3>2. i + 3 \in 1 .. Len(hsBuf) /\ hsBuf'[i] = hsBuf[i + 3]
      BY <1>1, <2>1, <3>1
    <3> QED
      BY <3>2
  <2> QED
    BY <2>2
<1>6. CASE ReadHandshakeRecord
  <2>1. c2s # <<>> /\ c2s' = Tail(c2s)
    BY <1>6 DEF ReadHandshakeRecord
  <2>2. Head(c2s) = c2s[1] /\ 1 \in 1 .. Len(c2s) /\ CGoal
    BY <2>1, <1>4, Zenon
  <2>3. \/ hsBuf' = hsBuf
        \/ c2s[1].inner = Handshake /\ hsBuf' = hsBuf \o c2s[1].data
    <3>1. readRecord(Head(c2s)).type = c2s[1].inner
      BY <2>2 DEF readRecord
    <3> QED
      BY <1>6, <2>2, <3>1 DEF ReadHandshakeRecord
  <2>4. CASE c2s[1].inner = Handshake /\ hsBuf' = hsBuf \o c2s[1].data
    <3> DEFINE d == c2s[1].data
    <3>1. IsSeq(d) /\ Len(d) \in Nat
      BY <2>2, SeqIsSeq DEF Shapes
    <3> HIDE DEF d
    <3>2. hsBuf' = hsBuf \o d
      BY <2>4 DEF d
    <3>3. /\ Len(hsBuf') = Len(hsBuf) + Len(d)
          /\ \A i \in 1 .. Len(hsBuf) : hsBuf'[i] = hsBuf[i]
          /\ \A i \in 1 .. Len(d) : hsBuf'[Len(hsBuf) + i] = d[i]
      BY <1>1, <3>1, <3>2, SeqConcat
    <3>4. ASSUME NEW i \in 1 .. Len(hsBuf'), ~(i \in 1 .. Len(hsBuf))
          PROVE  \E j \in 1 .. Len(d) : hsBuf'[i] = d[j]
      <4>1. i - Len(hsBuf) \in 1 .. Len(d) /\ Len(hsBuf) + (i - Len(hsBuf)) = i
        BY <1>1, <3>1, <3>3, <3>4
      <4> QED
        BY <3>3, <4>1
    <3>5. HGoal
      BY <2>2, <2>4, <3>3, <3>4 DEF d
    <3> QED
      BY <2>2, <3>5
  <2> QED
    BY <1>3, <2>2, <2>3, <2>4
<1>7. CASE HandleClientHello \/ WriteServerHelloFails
  <2>1. Buffered /\ hsBuf' = Untaken /\ c2s' = c2s
    BY <1>7 DEF HandleClientHello, WriteServerHelloFails, HandshakeFails
  <2> QED
    BY <1>2, <1>5, <2>1
<1>8. CASE HandleClientFinished
  <2>1. Buffered /\ hsBuf' = Untaken /\ c2s' = c2s
    BY <1>8 DEF HandleClientFinished, HandshakeFails
  <2> QED
    BY <1>2, <1>5, <2>1
<1>9. ASSUME NEW n, ReadAppRecord(n) PROVE CGoal /\ HGoal
  <2>1. c2s # <<>> /\ c2s' = Tail(c2s) /\ hsBuf' = hsBuf
    BY <1>9 DEF ReadAppRecord
  <2> QED
    BY <1>3, <1>4, <2>1
<1>10. CASE \/ CallHandshake \/ ReadHandshakeEnd \/ WriteFails \/ WriteChangeCipherSpec
            \/ WriteFlight \/ ReadAppEnd \/ WriteChunk \/ WriteChunkFails
            \/ \E n : ReadBuffered(n) \/ Write(n)
  <2>1. c2s' = c2s /\ hsBuf' = hsBuf
    BY <1>10 DEF CallHandshake, ReadHandshakeEnd, WriteFails, WriteChangeCipherSpec, WriteFlight,
                 ReadAppEnd, WriteChunk, WriteChunkFails, ReadBuffered, Write, HandshakeFails
  <2> QED
    BY <1>2, <1>3, <2>1
<1> HIDE DEF CGoal, HGoal
<1>11. CGoal /\ HGoal
  BY <1>6, <1>7, <1>8, <1>9, <1>10 DEF Server, CGoal, HGoal
<1> QED
  BY <1>11 DEF CGoal, HGoal

\* No step of the server makes a piece less genuine.
LEMMA ServerPieces ==
  ASSUME Shapes, ClientShape, ServerOK, ClientOK, PiecesOK, Server
  PROVE  PiecesOK'
<1>1. client' = client /\ Len(s2c) \in Nat /\ Len(s2c') \in Nat /\ Len(s2c) <= Len(s2c')
  BY ServerGrows
<1>2. ASSUME NEW u, Genuine(u) PROVE Genuine(u)'
  <2>1. Len(s2c') = 0 => Len(s2c) = 0
    BY <1>1
  <2> QED
    BY <1>1, <1>2, <2>1 DEF Genuine
<1>3. ASSUME NEW i \in 1 .. Len(c2s'), c2s'[i].inner = Handshake,
             NEW j \in 1 .. Len(c2s'[i].data)
      PROVE  Genuine(c2s'[i].data[j])
  <2>1. PICK k \in 1 .. Len(c2s) : c2s'[i] = c2s[k]
    BY ServerTakes
  <2>2. c2s[k].inner = Handshake /\ j \in 1 .. Len(c2s[k].data)
    BY <1>3, <2>1
  <2>3. Genuine(c2s[k].data[j])
    BY <2>2 DEF PiecesOK
  <2> QED
    BY <2>1, <2>3
<1>4. \A i \in 1 .. Len(hsBuf') : Genuine(hsBuf'[i])
  BY ServerTakes DEF PiecesOK
<1>5. \A i \in 1 .. Len(client'.out) : Genuine(client'.out[i])
  BY <1>1 DEF PiecesOK
<1> QED
  BY <1>2, <1>3, <1>4, <1>5 DEF PiecesOK

\* The client speaks its own messages only.
LEMMA SpeaksPieces ==
  ASSUME Shapes, ClientShape, ServerOK, ClientOK, PiecesOK, ClientSpeaks
  PROVE  PiecesOK'
<1>1. s2c' = s2c /\ hsBuf' = hsBuf
  BY SpeaksFields DEF serverVars
<1>2. client'.hello = client.hello /\ client'.tx = client.tx /\ client'.next = client.next
  BY SpeaksFields
<1>3. \A u : Genuine(u)' <=> Genuine(u)
  BY <1>1, <1>2 DEF Genuine
<1>4. \A i \in 1 .. Len(client'.out) : Genuine(client'.out[i])
  BY SpeaksRecord DEF PiecesOK
<1>5. \A i \in 1 .. Len(hsBuf') : Genuine(hsBuf'[i])
  BY <1>1 DEF PiecesOK
<1>6. \A i \in 1 .. Len(c2s') : c2s'[i].inner = Handshake =>
        \A j \in 1 .. Len(c2s'[i].data) : Genuine(c2s'[i].data[j])
  <2>1. CASE c2s' = c2s
    BY <2>1 DEF PiecesOK
  <2>2. CASE c2s' # c2s
    <3>1. PICK r : c2s' = Append(c2s, r) /\ Repeats(r)
      BY <2>2, SpeaksRecord
    <3>2. IsSeq(c2s)
      BY DEF Shapes
    <3>3. /\ Len(c2s) \in Nat /\ Len(c2s') = Len(c2s) + 1
          /\ \A i \in 1 .. Len(c2s) : c2s'[i] = c2s[i]
          /\ c2s'[Len(c2s) + 1] = r
      BY <3>1, <3>2, OneMoreToServer
    <3>4. r.inner = Handshake => \A j \in 1 .. Len(r.data) : Genuine(r.data[j])
      <4>1. CASE client.at = "open"
        <5>1. client.next >= 7 /\ client.next <= Len(s2c) + 1
          BY <4>1 DEF ClientOK, ClientKnows
        <5>2. Len(s2c) \in Nat /\ client.next \in Nat
          BY SeqIsSeq DEF Shapes, ClientShape
        <5>3. Len(s2c) # 0
          BY <5>1, <5>2
        <5> QED
          BY <5>1, <5>3 DEF Genuine
      <4>2. CASE client.at # "open"
        BY <3>1, <4>2 DEF Repeats, PiecesOK
      <4> QED
        BY <4>1, <4>2
    <3>5. ASSUME NEW i \in 1 .. Len(c2s'), c2s'[i].inner = Handshake,
                 NEW j \in 1 .. Len(c2s'[i].data)
          PROVE  Genuine(c2s'[i].data[j])
      <4>1. CASE i = Len(c2s) + 1
        BY <3>3, <3>4, <3>5, <4>1
      <4>2. CASE i # Len(c2s) + 1
        <5>1. i \in 1 .. Len(c2s) /\ c2s'[i] = c2s[i]
          BY <3>3, <4>2
        <5> QED
          BY <3>5, <5>1 DEF PiecesOK
      <4> QED
        BY <4>1, <4>2
    <3> QED
      BY <3>5
  <2> QED
    BY <2>1, <2>2
<1> QED
  BY <1>3, <1>4, <1>5, <1>6 DEF PiecesOK

\* The client's first message.
LEMMA StartsPieces ==
  ASSUME Shapes, ClientShape, ServerOK, ClientOK, PiecesOK, ClientStarts
  PROVE  PiecesOK' /\ hsBuf = <<>>
         /\ \A i \in 1 .. Len(c2s) : c2s[i].inner = Handshake => c2s[i].data = <<>>
<1>1. /\ client.tx = <<>> /\ Len(s2c) = 0 /\ client'.next = client.next
      /\ client'.hello = client.hello
  BY StartsStep
<1>2. PICK m : /\ client'.tx = <<m>> /\ client'.out = Units(m)
               /\ m \in {HelloMessage(client.hello), <<"finished", <<>>>>}
  BY StartsStep
<1>3. s2c' = s2c /\ hsBuf' = hsBuf /\ c2s' = c2s
  BY DEF ClientStarts, serverVars
<1>4. \A u : ~Genuine(u)
  BY <1>1 DEF Genuine
<1>5. ~Answers(m, client.hello)
  <2> DEFINE f == FinishedMAC(HandshakeKeys(client.hello).cHS, Transcript6(client.hello))
             g == verifyData(HandshakeKeys(client.hello).cHS, Transcript6(client.hello))
  <2>1. ClientFinished(client.hello) = <<"finished", f>> /\ f # <<>>
    BY Script, Zenon
  <2>2. ClientFinished(client.hello) = <<"finished", g>>
    BY Zenon DEF ClientFinished
  <2>3. ~Answers(m, client.hello) <=> ~(m[1] = "finished" /\ m[2] = g)
    BY Zenon DEF Answers
  <2> HIDE DEF f, g
  <2>4. g # <<>>
    BY <2>1, <2>2
  <2> QED
    BY <1>2, <2>3, <2>4 DEF HelloMessage
<1>6. \A i \in 1 .. Len(client'.out) : Genuine(client.out[i])'
  <2>1. \A i \in 1 .. Len(Units(m)) : Units(m)[i][1] = m
    BY UnitsAre, Zenon
  <2>2. client'.tx # <<>> /\ client'.tx[1] = m
    BY <1>2
  <2>3. ASSUME NEW i \in 1 .. Len(client'.out) PROVE Genuine(client.out[i])'
    <3>1. client'.out[i][1] = m
      BY <1>2, <2>1, Zenon
    <3> QED
      BY <1>1, <1>5, <2>2, <3>1 DEF Genuine
  <2> QED
    BY <2>3
<1>7. \A i \in 1 .. Len(hsBuf) : FALSE
  BY <1>4 DEF PiecesOK
<1>8. ASSUME NEW i \in 1 .. Len(c2s), c2s[i].inner = Handshake, NEW j \in 1 .. Len(c2s[i].data)
      PROVE FALSE
  BY <1>4, <1>8 DEF PiecesOK
<1>9. hsBuf = <<>>
  <2>1. IsSeq(hsBuf) /\ Len(hsBuf) \in Nat
    BY SeqIsSeq DEF Shapes
  <2>2. Len(hsBuf) = 0
    BY <1>7, <2>1
  <2> QED
    BY <2>1, <2>2, SeqEmpty
<1>10. ASSUME NEW i \in 1 .. Len(c2s), c2s[i].inner = Handshake PROVE c2s[i].data = <<>>
  <2> DEFINE d == c2s[i].data
  <2>1. IsSeq(d)
    BY DEF Shapes
  <2>2. Len(d) \in Nat
    BY <2>1, SeqIsSeq
  <2>3. \A j \in 1 .. Len(d) : FALSE
    BY <1>8, <1>10
  <2> HIDE DEF d
  <2>4. Len(d) = 0
    BY <2>2, <2>3
  <2>5. d = <<>>
    BY <2>1, <2>4, SeqEmpty
  <2> QED
    BY <2>5 DEF d
<1>11. PiecesOK'
  <2>1. \A i \in 1 .. Len(hsBuf') : Genuine(hsBuf[i])'
    BY <1>3, <1>7
  <2>2. \A i \in 1 .. Len(c2s') : c2s'[i].inner = Handshake =>
          \A j \in 1 .. Len(c2s'[i].data) : Genuine(c2s[i].data[j])'
    BY <1>3, <1>8
  <2> QED
    BY <1>6, <2>1, <2>2 DEF PiecesOK
<1> QED
  BY <1>9, <1>10, <1>11

\* Once the server has answered, what the client has read only makes more
\* pieces genuine.
LEMMA ReceivesPieces ==
  ASSUME Shapes, ClientShape, ServerOK, ClientOK, PiecesOK, StreamsOK, ClientReceives
  PROVE  PiecesOK'
<1>1. /\ client.next <= Len(s2c) /\ client'.next = client.next + 1
      /\ client'.hello = client.hello
      /\ client.next # 6 => client'.out = client.out
  BY ReceivesStep
<1>2. s2c' = s2c /\ hsBuf' = hsBuf /\ c2s' = c2s
  BY DEF ClientReceives, serverVars
<1>3. client.next \in Nat /\ client.next >= 1 /\ Len(s2c) \in Nat
  <2>1. client.next \in {1, 2, 3, 4, 5, 6} \/ client.next >= 7
    BY DEF ClientOK, ClientKnows
  <2> QED
    BY <2>1, SeqIsSeq DEF Shapes, ClientShape
<1>4. Len(s2c') # 0
  BY <1>1, <1>2, <1>3
<1>5. ASSUME NEW u, Genuine(u) PROVE Genuine(u)'
  BY <1>1, <1>3, <1>4, <1>5 DEF Genuine
<1>6. ASSUME client.next = 6, NEW u PROVE Genuine(u)'
  BY <1>1, <1>4, <1>6 DEF Genuine
<1>7. \A i \in 1 .. Len(client'.out) : Genuine(client.out[i])'
  <2>1. CASE client.next = 6
    BY <1>6, <2>1
  <2>2. CASE client.next # 6
    BY <1>1, <1>5, <2>2 DEF PiecesOK
  <2> QED
    BY <2>1, <2>2
<1>8. \A i \in 1 .. Len(hsBuf') : Genuine(hsBuf[i])'
  BY <1>2, <1>5 DEF PiecesOK
<1>9. \A i \in 1 .. Len(c2s') : c2s'[i].inner = Handshake =>
        \A j \in 1 .. Len(c2s'[i].data) : Genuine(c2s[i].data[j])'
  BY <1>2, <1>5 DEF PiecesOK
<1> QED
  BY <1>7, <1>8, <1>9 DEF PiecesOK

------------------------------------------------------------------------------
(***************************************************************************)
(* Counting what is in a queue of records.                                 *)
(***************************************************************************)

\* p is q with r at its end.
IsLonger(p, q, r) ==
  Len(p) = Len(q) + 1 /\ (\A i \in 1 .. Len(q) : p[i] = q[i]) /\ p[Len(q) + 1] = r

\* b with r is d.
Adds(b, r, type, d) == b \in Nat /\ Size(r, type) \in Nat /\ d = b + Size(r, type)

\* One more record.
LEMMA CountsAppend ==
  ASSUME NEW q, NEW p, NEW r, IsSeq(q), IsLonger(p, q, r),
         NEW type, NEW a, NEW b, NEW f, Counts(f, q, type, a, b),
         NEW d, Adds(b, r, type, d)
  PROVE  \E g : /\ Counts(g, p, type, a, d)
                /\ \A i \in 0 .. Len(q) : g[i] = f[i]
<1> DEFINE n == Len(q)
           c == Size(r, type)
           g == [i \in 0 .. n + 1 |-> IF i <= n THEN f[i] ELSE b + c]
<1>1. n \in Nat /\ c \in Nat /\ b \in Nat
  BY SeqIsSeq DEF Adds
<1>d. d = b + c
  BY DEF Adds
<1>2. /\ f \in [0 .. n -> Nat] /\ f[0] = a /\ f[n] = b
      /\ \A i \in 1 .. n : f[i] = f[i - 1] + Size(q[i], type)
      /\ \A i, j \in 0 .. n : i <= j => f[i] <= f[j]
      /\ Len(p) = n + 1 /\ \A i \in 1 .. n : p[i] = q[i]
      /\ c = Size(p[n + 1], type)
  BY DEF Counts, IsLonger
<1> HIDE DEF n, c
<1>3. g \in [0 .. n + 1 -> Nat] /\ g[0] = a /\ g[n + 1] = b + c
  BY <1>1, <1>2
<1>4. \A i \in 0 .. n : g[i] = f[i]
  BY <1>1
<1>5. ASSUME NEW i \in 1 .. n + 1 PROVE g[i] = g[i - 1] + Size(p[i], type)
  <2>1. CASE i = n + 1
    BY <1>1, <1>2, <2>1
  <2>2. CASE i # n + 1
    <3>1. i \in 1 .. n /\ i - 1 \in 0 .. n /\ i \in 0 .. n
      BY <1>1, <2>2
    <3>2. p[i] = q[i] /\ f[i] = f[i - 1] + Size(q[i], type)
      BY <1>2, <3>1
    <3> QED
      BY <1>4, <3>1, <3>2
  <2> QED
    BY <2>1, <2>2
<1>6. ASSUME NEW i \in 0 .. n + 1, NEW j \in 0 .. n + 1, i <= j PROVE g[i] <= g[j]
  <2>1. CASE j = n + 1
    <3>1. ASSUME NEW k \in 0 .. n PROVE f[k] <= b /\ f[k] \in Nat
      <4>1. n \in 0 .. n /\ k <= n
        BY <1>1
      <4>2. f[k] <= f[n]
        BY <1>2, <4>1
      <4> QED
        BY <1>2, <4>2
    <3> QED
      BY <1>1, <1>3, <2>1, <3>1
  <2>2. CASE j # n + 1
    BY <1>1, <1>2, <1>4, <1>6, <2>2
  <2> QED
    BY <2>1, <2>2
<1> HIDE DEF g
<1>7. Counts(g, p, type, a, d)
  BY <1>2, <1>3, <1>d, <1>5, <1>6 DEF Counts
<1> QED
  BY <1>4, <1>7 DEF n

\* p is q without its first record.
IsTail(p, q) ==
  Len(q) > 0 /\ Len(p) = Len(q) - 1 /\ \A i \in 1 .. Len(q) - 1 : p[i] = q[i + 1]

\* The first record taken.
LEMMA CountsTail ==
  ASSUME NEW q, NEW p, IsSeq(q), IsTail(p, q),
         NEW type, NEW a, NEW b, NEW f, Counts(f, q, type, a, b)
  PROVE  /\ \E g : /\ Counts(g, p, type, f[1], b)
                   /\ \A i \in 0 .. Len(p) : g[i] = f[i + 1]
         /\ f[0] = a /\ f[1] = a + Size(q[1], type) /\ f[1] \in Nat /\ f[1] <= b
<1> DEFINE n == Len(q)
           g == [i \in 0 .. n - 1 |-> f[i + 1]]
<1>1. n \in Nat /\ n > 0
  BY SeqIsSeq DEF IsTail
<1> HIDE DEF n
<1>2. /\ f \in [0 .. n -> Nat] /\ f[0] = a /\ f[n] = b
      /\ \A i \in 1 .. n : f[i] = f[i - 1] + Size(q[i], type)
      /\ \A i, j \in 0 .. n : i <= j => f[i] <= f[j]
      /\ Len(p) = n - 1 /\ \A i \in 1 .. n - 1 : p[i] = q[i + 1]
  BY DEF Counts, IsTail, n
<1>3. g \in [0 .. n - 1 -> Nat] /\ g[0] = f[1] /\ g[n - 1] = b
  BY <1>1, <1>2
<1>4. \A i \in 0 .. n - 1 : g[i] = f[i + 1]
  BY <1>1
<1>5. ASSUME NEW i \in 1 .. n - 1 PROVE g[i] = g[i - 1] + Size(p[i], type)
  <2>1. i + 1 \in 1 .. n /\ i \in 0 .. n - 1 /\ i - 1 \in 0 .. n - 1
        /\ (i + 1) - 1 = i /\ (i - 1) + 1 = i
    BY <1>1
  <2>2. p[i] = q[i + 1] /\ f[i + 1] = f[i] + Size(q[i + 1], type)
    BY <1>2, <2>1
  <2>3. g[i] = f[i + 1] /\ g[i - 1] = f[i]
    BY <1>4, <2>1
  <2> QED
    BY <2>2, <2>3
<1>6. ASSUME NEW i \in 0 .. n - 1, NEW j \in 0 .. n - 1, i <= j PROVE g[i] <= g[j]
  <2>1. i + 1 \in 0 .. n /\ j + 1 \in 0 .. n /\ i + 1 <= j + 1
    BY <1>1, <1>6
  <2> QED
    BY <1>2, <1>4, <2>1
<1> HIDE DEF g
<1>7. Counts(g, p, type, f[1], b)
  BY <1>2, <1>3, <1>5, <1>6 DEF Counts
<1>8. f[0] = a /\ f[1] = a + Size(q[1], type) /\ f[1] \in Nat /\ f[1] <= b
  <2>1. 1 \in 1 .. n /\ 1 \in 0 .. n /\ n \in 0 .. n /\ 1 <= n /\ 1 - 1 = 0
    BY <1>1
  <2> QED
    BY <1>2, <2>1
<1> QED
  BY <1>2, <1>4, <1>7, <1>8

------------------------------------------------------------------------------
(***************************************************************************)
(* The server's data at the client.                                        *)
(***************************************************************************)

\* The steps of the server that matter to its data.
LEMMA ServerWrites ==
  ASSUME Shapes, ServerOK, Server
  PROVE  \/ s2c' = s2c /\ written' = written /\ pending' = pending
         \/ ~handshakeDone'
         \/ \E n \in Nat \ {0} : Write(n)
         \/ WriteChunk
<1>1. CASE \/ CallHandshake \/ ReadHandshakeEnd \/ ReadHandshakeRecord \/ ReadAppEnd
           \/ WriteServerHelloFails \/ WriteFails \/ WriteChunkFails
  BY <1>1 DEF CallHandshake, ReadHandshakeEnd, ReadHandshakeRecord, ReadAppEnd, HandshakeFails,
              WriteServerHelloFails, WriteFails, WriteChunkFails, appVars
<1>2. CASE HandleClientHello \/ WriteChangeCipherSpec
  <2>1. ~handshakeDone /\ handshakeDone' = handshakeDone
    BY <1>2 DEF HandleClientHello, WriteChangeCipherSpec, HandshakeFails, handshakeVars,
                ServerOK, SentAt
  <2> QED
    BY <2>1
<1>3. CASE WriteFlight
  <2>1. pc # "idle"
    BY <1>3, AfterIs DEF WriteFlight
  <2>2. ~handshakeDone /\ handshakeDone' = handshakeDone
    BY <1>3, <2>1 DEF WriteFlight, ServerOK, SentAt
  <2> QED
    BY <2>2
<1>4. CASE HandleClientFinished
  BY <1>4 DEF HandleClientFinished, HandshakeFails, appVars
<1>5. ASSUME NEW n, ReadBuffered(n) \/ ReadAppRecord(n)
      PROVE s2c' = s2c /\ written' = written /\ pending' = pending
  BY <1>5 DEF ReadBuffered, ReadAppRecord
<1>6. WriteSizes \subseteq Nat \ {0}
  BY TLSAssumption
<1> QED
  BY <1>1, <1>2, <1>3, <1>4, <1>5, <1>6 DEF Server

\* The record that a round of Write's loop appends.
LEMMA WriteChunkFacts ==
  ASSUME Shapes, ServerOK, WriteChunk
  PROVE  \E n \in Nat \ {0} :
           /\ n <= pending /\ pending' = pending - n /\ written' = written
           /\ Len(s2c) \in Nat /\ Len(s2c) >= 6 /\ Len(s2c') = Len(s2c) + 1
           /\ \A i \in 1 .. Len(s2c) : s2c'[i] = s2c[i]
           /\ s2c'[Len(s2c) + 1].data = [i \in 1 .. n |-> written - pending + i]
<1> DEFINE n == Least(pending, MaxPlain)
           d == [i \in 1 .. n |-> written - pending + i]
           r == Seal(writeKeys, ApplicationData, d)
<1>1. /\ pending > 0 /\ s2c' = Append(s2c, r) /\ pending' = pending - n /\ written' = written
  BY DEF WriteChunk
<1>2. n \in Nat \ {0} /\ n <= pending
  BY <1>1, TLSAssumption DEF Least, Shapes
<1> HIDE DEF n, d
<1>3. r.data = d
  BY DEF Seal
<1> HIDE DEF r
<1>4. handshakeDone
  BY <1>1 DEF ServerOK, SentAt
<1>5. Len(s2c) >= 6 /\ IsSeq(s2c)
  BY <1>4 DEF ServerOK, SentAt, Shapes
<1>6. /\ Len(s2c) \in Nat /\ Len(s2c') = Len(s2c) + 1
      /\ \A i \in 1 .. Len(s2c) : s2c'[i] = s2c[i]
      /\ s2c'[Len(s2c) + 1] = r
  BY <1>1, <1>5, OneMoreSent, Zenon
<1> QED
  BY <1>1, <1>2, <1>3, <1>5, <1>6, Zenon DEF d

\* The server's steps.
LEMMA ServerToClient ==
  ASSUME Shapes, ClientShape, ServerOK, ClientOK, PiecesOK, ToClient, Server
  PROVE  ToClient'
<1>1. Shapes' /\ ServerOK' /\ ClientOK' /\ client' = client
  BY ServerStep, ServerGrows
<1>2. CASE s2c' = s2c /\ written' = written /\ pending' = pending
  BY <1>1, <1>2 DEF ToClient
<1>3. CASE ~handshakeDone'
  <2>1. Len(s2c') <= 6 /\ written' = 0 /\ pending' = 0
    BY <1>1, <1>3 DEF ServerOK, SentAt
  <2>2. Len(s2c) \in Nat /\ Len(s2c') \in Nat /\ Len(s2c) <= Len(s2c')
    BY ServerGrows
  <2>3. client.next <= Len(s2c) + 1 /\ client.next \in Nat
    BY DEF ClientOK, ClientShape
  <2>4. client.next <= 7 /\ \A i \in 7 .. Len(s2c') : FALSE
    BY <2>1, <2>2, <2>3
  <2> QED
    BY <1>1, <2>1, <2>4 DEF ToClient
<1>4. CASE \E n \in Nat \ {0} : Write(n)
  <2>1. PICK n \in Nat \ {0} : Write(n)
    BY <1>4
  <2>2. /\ pending = 0 /\ written' = written + n /\ pending' = n /\ s2c' = s2c
        /\ written \in Nat
    BY <2>1 DEF Write, Shapes
  <2>3. written' - pending' + 1 = written - pending + 1 /\ (written = pending => written' = pending')
    BY <2>2
  <2> QED
    BY <1>1, <2>2, <2>3 DEF ToClient
<1>5. CASE WriteChunk
  <2>1. PICK n \in Nat \ {0} :
           /\ n <= pending /\ pending' = pending - n /\ written' = written
           /\ Len(s2c) \in Nat /\ Len(s2c) >= 6 /\ Len(s2c') = Len(s2c) + 1
           /\ \A i \in 1 .. Len(s2c) : s2c'[i] = s2c[i]
           /\ s2c'[Len(s2c) + 1].data = [i \in 1 .. n |-> written - pending + i]
    BY <1>5, WriteChunkFacts
  <2> DEFINE d == s2c'[Len(s2c) + 1].data
  <2>2. /\ d # <<>> /\ IsSeq(d) /\ Len(d) = n
        /\ d[1] = written - pending + 1 /\ \A k \in 1 .. Len(d) : d[k] = d[1] + k - 1
    <3>0. written \in Nat /\ pending \in Nat
      BY DEF Shapes
    <3>1. d = [i \in 1 .. n |-> written - pending + i]
      BY <2>1
    <3> HIDE DEF d
    <3>2. Len(d) = n /\ IsSeq(d)
      BY <3>1 DEF IsSeq
    <3>3. d # <<>>
      BY <3>2, SeqEmpty
    <3>4. \A k \in 1 .. n : d[k] = written - pending + k
      BY <3>1
    <3>5. d[1] = written - pending + 1
      BY <3>4
    <3> QED
      BY <3>0, <3>2, <3>3, <3>4, <3>5
  <2> HIDE DEF d
  <2>3. Len(s2c) = 6 => written = pending
    BY DEF ToClient
  <2>4. ASSUME Len(s2c) # 6
        PROVE  s2c[Len(s2c)].data[1] + Len(s2c[Len(s2c)].data) = written - pending + 1
    <3>1. ~(Len(s2c) <= 6)
      <4>1. PICK c \in Nat : c = Len(s2c) /\ c >= 6
        BY <2>1
      <4> QED
        BY <2>4, <4>1
    <3> QED
      BY <3>1, Zenon DEF ToClient
  <2>5. d[1] = IF Len(s2c) + 1 = 7 THEN 1 ELSE s2c[Len(s2c)].data[1] + Len(s2c[Len(s2c)].data)
    <3>1. written \in Nat /\ pending \in Nat
      BY DEF Shapes
    <3>2. CASE Len(s2c) = 6
      BY <2>2, <2>3, <3>1, <3>2
    <3>3. CASE Len(s2c) # 6
      <4>1. Len(s2c) + 1 # 7
        <5>1. PICK c \in Nat : c = Len(s2c)
          BY <2>1
        <5> QED
          BY <3>3, <5>1
      <4> QED
        BY <2>2, <2>4, <3>3, <4>1, Zenon
    <3> QED
      BY <3>2, <3>3
  <2>6. ASSUME NEW i \in 7 .. Len(s2c')
        PROVE  /\ s2c'[i].data # <<>> /\ IsSeq(s2c'[i].data)
               /\ \A k \in 1 .. Len(s2c'[i].data) : s2c'[i].data[k] = s2c'[i].data[1] + k - 1
               /\ s2c'[i].data[1] = IF i = 7 THEN 1
                                    ELSE s2c'[i - 1].data[1] + Len(s2c'[i - 1].data)
    <3>1. CASE i = Len(s2c) + 1
      <4>1. i - 1 = Len(s2c) /\ Len(s2c) \in 1 .. Len(s2c)
        BY <2>1, <3>1
      <4>2. s2c'[i - 1] = s2c[Len(s2c)] /\ s2c'[i].data = d
        BY <2>1, <3>1, <4>1 DEF d
      <4> QED
        BY <2>2, <2>5, <3>1, <4>2
    <3>2. CASE i # Len(s2c) + 1
      <4>1. i \in 7 .. Len(s2c) /\ i \in 1 .. Len(s2c) /\ i - 1 \in 1 .. Len(s2c)
        BY <2>1, <3>2
      <4>2. s2c'[i] = s2c[i] /\ s2c'[i - 1] = s2c[i - 1]
        BY <2>1, <4>1
      <4> QED
        BY <4>1, <4>2 DEF ToClient
    <3> QED
      BY <3>1, <3>2
  <2>7. /\ ~(Len(s2c') <= 6)
        /\ s2c'[Len(s2c')].data[1] + Len(s2c'[Len(s2c')].data) = written' - pending' + 1
    <3>1. s2c'[Len(s2c')].data = d
      BY <2>1 DEF d
    <3>2. written \in Nat /\ pending \in Nat
      BY DEF Shapes
    <3> QED
      BY <2>1, <2>2, <3>1, <3>2
  <2>8. ASSUME ~(client.next <= 7)
        PROVE  s2c'[client.next - 1].data[1] + Len(s2c'[client.next - 1].data) = Len(client.got) + 1
    <3>1. client.next <= Len(s2c) + 1 /\ client.next \in Nat
      BY DEF ClientOK, ClientShape
    <3>2. client.next - 1 \in 1 .. Len(s2c)
      BY <2>1, <2>8, <3>1
    <3> QED
      BY <2>1, <2>8, <3>2 DEF ToClient
  <2>9. /\ \A i \in 1 .. Len(client'.got) : client'.got[i] = i
        /\ client.next <= 7 => client'.got = <<>>
    BY <1>1 DEF ToClient
  <2> QED
    BY <1>1, <2>6, <2>7, <2>8, <2>9 DEF ToClient
<1> QED
  BY <1>2, <1>3, <1>4, <1>5, ServerWrites

\* The server seals only what it was given.
LEMMA ServerWithinWritten ==
  ASSUME Shapes, ClientShape, ServerOK, ClientOK, PiecesOK, WithinWritten, Server
  PROVE  WithinWritten'
<1>1. ServerOK'
  BY ServerStep
<1>2. CASE s2c' = s2c /\ written' = written /\ pending' = pending
  BY <1>2 DEF WithinWritten
<1>3. CASE ~handshakeDone'
  <2>1. Len(s2c') <= 6 /\ Len(s2c') \in Nat
    BY <1>1, <1>3, ServerGrows DEF ServerOK, SentAt
  <2> QED
    BY <2>1 DEF WithinWritten
<1>4. CASE \E n \in Nat \ {0} : Write(n)
  <2>1. PICK n \in Nat \ {0} : Write(n)
    BY <1>4
  <2>2. /\ pending = 0 /\ written' = written + n /\ pending' = n /\ s2c' = s2c
        /\ written \in Nat
    BY <2>1 DEF Write, Shapes
  <2>3. written' - pending' + 1 = written - pending + 1
    BY <2>2
  <2> QED
    BY <2>2, <2>3 DEF WithinWritten
<1>5. CASE WriteChunk
  <2>1. PICK n \in Nat \ {0} :
           /\ n <= pending /\ pending' = pending - n /\ written' = written
           /\ Len(s2c) \in Nat /\ Len(s2c) >= 6 /\ Len(s2c') = Len(s2c) + 1
           /\ \A i \in 1 .. Len(s2c) : s2c'[i] = s2c[i]
           /\ s2c'[Len(s2c) + 1].data = [i \in 1 .. n |-> written - pending + i]
    BY <1>5, WriteChunkFacts
  <2>2. written \in Nat /\ pending \in Nat
    BY DEF Shapes
  <2> DEFINE end(r) == r.data[1] + Len(r.data)
  <2>3. end(s2c'[Len(s2c) + 1]) = written' - pending' + 1
    <3>1. PICK d : d = s2c'[Len(s2c) + 1].data /\ d = [i \in 1 .. n |-> written - pending + i]
      BY <2>1
    <3>2. Len(d) = n /\ d[1] = written - pending + 1
      BY <3>1
    <3>3. d[1] + Len(d) = written' - pending' + 1
      BY <2>1, <2>2, <3>2
    <3> QED
      BY <3>1, <3>3
  <2>4. PICK a \in Int, b \in Int : /\ a = written - pending + 1 /\ b = written' - pending' + 1
                                    /\ a <= b /\ 1 <= b
    <3>1. pending <= written
      BY DEF Shapes
    <3> QED
      BY <2>1, <2>2, <3>1
  <2>5. ASSUME NEW i \in 7 .. Len(s2c') PROVE end(s2c'[i]) \in 1 .. b
    <3>1. CASE i = Len(s2c) + 1
      BY <2>3, <2>4, <3>1
    <3>2. CASE i # Len(s2c) + 1
      <4>1. i \in 7 .. Len(s2c) /\ i \in 1 .. Len(s2c)
        BY <2>1, <3>2
      <4>2. s2c'[i] = s2c[i] /\ end(s2c[i]) \in 1 .. a
        BY <2>1, <2>4, <4>1 DEF WithinWritten
      <4> QED
        BY <2>4, <4>2
    <3> QED
      BY <3>1, <3>2
  <2> QED
    BY <2>4, <2>5 DEF WithinWritten
<1> QED
  BY <1>2, <1>3, <1>4, <1>5, ServerWrites

\* The client's steps.
LEMMA ClientToClient ==
  ASSUME Shapes, ClientShape, ServerOK, ClientOK, StreamsOK, Client
  PROVE  ToClient'
<1>0. ToClient
  BY DEF StreamsOK
<1>1. CASE ClientStarts \/ ClientSpeaks
  <2>1. client'.next = client.next /\ client'.got = client.got
    BY <1>1, StartsStep, SpeaksFields
  <2>2. s2c' = s2c /\ written' = written /\ pending' = pending
    BY <1>1, SpeaksFields DEF ClientStarts, serverVars, appVars
  <2> QED
    BY <1>0, <2>1, <2>2 DEF ToClient
<1>2. CASE ClientReceives
  <2>1. s2c' = s2c /\ written' = written /\ pending' = pending
    BY <1>2 DEF ClientReceives, serverVars, appVars
  <2>2. client.next <= Len(s2c) /\ client'.next = client.next + 1
    BY <1>2, ReceivesStep
  <2>3. client.next \in Nat /\ Len(s2c) \in Nat /\ IsSeq(client.got)
    BY SeqIsSeq DEF ClientShape, Shapes
  <2>4. CASE client.next < 7
    <3>1. client'.got = client.got
      BY <1>2, <2>4, ReceivesStep
    <3>2. client.next <= 7 /\ client'.next <= 7
      BY <2>2, <2>3, <2>4
    <3> QED
      BY <1>0, <2>1, <3>1, <3>2 DEF ToClient
  <2>5. CASE client.next >= 7
    <3> DEFINE d == s2c[client.next].data
    <3>1. client.next \in 7 .. Len(s2c)
      BY <2>2, <2>3, <2>5
    <3>2. /\ IsSeq(d) /\ \A k \in 1 .. Len(d) : d[k] = d[1] + k - 1
          /\ d[1] = IF client.next = 7 THEN 1
                    ELSE s2c[client.next - 1].data[1] + Len(s2c[client.next - 1].data)
      BY <1>0, <3>1 DEF ToClient
    <3>3. client'.got = client.got \o d
      BY <1>2, <2>5, ReceivesStep
    <3> HIDE DEF d
    <3>4. d[1] = Len(client.got) + 1
      <4>1. CASE client.next = 7
        <5>1. client.got = <<>>
          BY <1>0, <4>1 DEF ToClient
        <5>2. Len(client.got) = 0
          BY <5>1, SeqEmpty
        <5> QED
          BY <3>2, <4>1, <5>2
      <4>2. CASE client.next # 7
        <5>1. ~(client.next <= 7)
          BY <2>3, <2>5, <4>2
        <5> QED
          BY <1>0, <3>2, <4>2, <5>1 DEF ToClient
      <4> QED
        BY <4>1, <4>2
    <3>5. /\ Len(client'.got) = Len(client.got) + Len(d)
          /\ \A i \in 1 .. Len(client.got) : client'.got[i] = client.got[i]
          /\ \A i \in 1 .. Len(d) : client'.got[Len(client.got) + i] = d[i]
      BY <2>3, <3>2, <3>3, SeqConcat
    <3>6. Len(client.got) \in Nat /\ Len(d) \in Nat
      BY <2>3, <3>2, SeqIsSeq
    <3>7. ASSUME NEW i \in 1 .. Len(client'.got) PROVE client'.got[i] = i
      <4>1. CASE i \in 1 .. Len(client.got)
        BY <1>0, <3>5, <4>1 DEF ToClient
      <4>2. CASE ~(i \in 1 .. Len(client.got))
        <5>1. PICK k \in 1 .. Len(d) : i = Len(client.got) + k
          <6>1. i - Len(client.got) \in 1 .. Len(d) /\ i = Len(client.got) + (i - Len(client.got))
            BY <3>5, <3>6, <4>2
          <6> QED
            BY <6>1
        <5>2. client'.got[i] = d[k] /\ d[k] = d[1] + k - 1
          BY <3>2, <3>5, <5>1
        <5> QED
          BY <3>4, <3>6, <5>1, <5>2
      <4> QED
        BY <4>1, <4>2
    <3>8. /\ ~(client'.next <= 7) /\ client'.next - 1 = client.next
      BY <2>2, <2>3, <2>5
    <3>9. s2c'[client'.next - 1].data[1] + Len(s2c'[client'.next - 1].data) = Len(client'.got) + 1
      <4>1. s2c'[client'.next - 1].data = d
        BY <2>1, <3>8, Zenon DEF d
      <4>2. d[1] + Len(d) = Len(client'.got) + 1
        BY <3>4, <3>5, <3>6
      <4> QED
        BY <4>1, <4>2, Zenon
    <3> QED
      BY <1>0, <2>1, <3>7, <3>8, <3>9 DEF ToClient
  <2> QED
    BY <2>3, <2>4, <2>5
<1> QED
  BY <1>1, <1>2, ClientKinds

------------------------------------------------------------------------------
(***************************************************************************)
(* The client's data at the server.                                        *)
(***************************************************************************)

\* A step that leaves the data alone.
LEMMA DataUntouched ==
  ASSUME FromClient, delivered' = delivered, inAppData' = inAppData, c2s' = c2s,
         client'.sent = client.sent,
         handshakeErr' = "nil" /\ appErr' = "nil" => handshakeErr = "nil" /\ appErr = "nil"
  PROVE  FromClient'
<1>1. ASSUME handshakeErr' = "nil", appErr' = "nil" PROVE \E f : DataInOrder(f)'
  <2>1. PICK f : DataInOrder(f)
    BY <1>1 DEF FromClient
  <2>2. DataInOrder(f)'
    BY <2>1 DEF DataInOrder
  <2> QED
    BY <2>2
<1>2. /\ \A i \in 1 .. Len(delivered') : delivered'[i] = i
      /\ \A i \in 1 .. Len(inAppData') : inAppData'[i] = Len(delivered') + i
      /\ Len(delivered') + Len(inAppData') <= client'.sent
  BY DEF FromClient
<1> QED
  BY <1>1, <1>2 DEF FromClient

\* The data without the first record.
LEMMA InOrderTail ==
  ASSUME NEW q, NEW p, IsSeq(q), IsTail(p, q), NEW a, NEW b, NEW f, InOrder(f, q, a, b)
  PROVE  /\ \E g : InOrder(g, p, f[1], b)
         /\ f[0] = a /\ f[1] = a + Size(q[1], ApplicationData) /\ f[1] \in Nat /\ f[1] <= b
         /\ q[1].inner = ApplicationData =>
              q[1].data = [k \in 1 .. Len(q[1].data) |-> a + k]
<1>1. Counts(f, q, ApplicationData, a, b)
  BY DEF InOrder
<1>2. PICK g : /\ Counts(g, p, ApplicationData, f[1], b)
               /\ \A i \in 0 .. Len(p) : g[i] = f[i + 1]
  BY <1>1, CountsTail
<1>3. f[0] = a /\ f[1] = a + Size(q[1], ApplicationData) /\ f[1] \in Nat /\ f[1] <= b
  BY <1>1, CountsTail
<1>4. /\ Len(q) \in Nat /\ Len(q) > 0 /\ Len(p) = Len(q) - 1
      /\ \A i \in 1 .. Len(q) - 1 : p[i] = q[i + 1]
  BY SeqIsSeq DEF IsTail
<1>5. ASSUME NEW i \in 1 .. Len(p), p[i].inner = ApplicationData
      PROVE  p[i].data = [k \in 1 .. Len(p[i].data) |-> g[i - 1] + k]
  <2>1. /\ i \in 1 .. Len(q) - 1 /\ i + 1 \in 1 .. Len(q) /\ i - 1 \in 0 .. Len(p)
        /\ (i + 1) - 1 = i /\ (i - 1) + 1 = i
    BY <1>4
  <2>2. p[i] = q[i + 1] /\ g[i - 1] = f[i]
    BY <1>2, <1>4, <2>1
  <2>3. q[i + 1].data = [k \in 1 .. Len(q[i + 1].data) |-> f[(i + 1) - 1] + k]
    BY <1>5, <2>1, <2>2 DEF InOrder
  <2> QED
    BY <2>1, <2>2, <2>3
<1>6. InOrder(g, p, f[1], b)
  BY <1>2, <1>5 DEF InOrder
<1>7. q[1].inner = ApplicationData => q[1].data = [k \in 1 .. Len(q[1].data) |-> a + k]
  <2>1. 1 \in 1 .. Len(q) /\ 1 - 1 = 0
    BY <1>4
  <2> QED
    BY <1>3, <2>1 DEF InOrder
<1> QED
  BY <1>3, <1>6, <1>7

\* The server takes a record.
LEMMA DataTaken ==
  ASSUME Shapes, c2s # <<>>, c2s' = Tail(c2s), NEW f, DataInOrder(f)
  PROVE  /\ \E g : InOrder(g, c2s', f[1], client.sent)
         /\ f[0] = Len(delivered) + Len(inAppData) /\ f[1] <= client.sent
         /\ f[1] = Len(delivered) + Len(inAppData) + Size(c2s[1], ApplicationData)
         /\ c2s[1].inner = ApplicationData =>
              c2s[1].data = [k \in 1 .. Len(c2s[1].data) |-> Len(delivered) + Len(inAppData) + k]
<1> DEFINE a == Len(delivered) + Len(inAppData)
           b == client.sent
           p == c2s'
<1>1. IsSeq(c2s)
  BY DEF Shapes
<1>2. IsTail(p, c2s)
  BY <1>1, OneLessToServer DEF IsTail
<1>3. InOrder(f, c2s, a, b)
  BY DEF DataInOrder
<1> HIDE DEF a, b, p
<1>4. /\ \E g : InOrder(g, p, f[1], b)
      /\ f[0] = a /\ f[1] = a + Size(c2s[1], ApplicationData) /\ f[1] \in Nat /\ f[1] <= b
      /\ c2s[1].inner = ApplicationData =>
           c2s[1].data = [k \in 1 .. Len(c2s[1].data) |-> a + k]
  BY <1>1, <1>2, <1>3, InOrderTail
<1> QED
  BY <1>4 DEF a, b, p

\* A record of the handshake read by readHandshakeMessage.
LEMMA ReadHandshakeRecordData ==
  ASSUME Shapes, ServerOK, FromClient, ReadHandshakeRecord
  PROVE  FromClient'
<1>1. /\ pc \in {"ClientHello", "ClientFinished"} /\ c2s # <<>> /\ c2s' = Tail(c2s)
      /\ delivered' = delivered /\ inAppData' = inAppData /\ client' = client
      /\ appErr' = appErr
  BY DEF ReadHandshakeRecord, HandshakeFails, appVars
<1>2. handshakeErr = "nil"
  BY <1>1 DEF ServerOK, SentAt
<1>3. handshakeErr' = "nil" => c2s[1].inner # ApplicationData
  <2>1. Head(c2s) = c2s[1]
    BY <1>1, OneLessToServer DEF Shapes
  <2>2. readRecord(Head(c2s)).type = c2s[1].inner
    BY <2>1 DEF readRecord
  <2> QED
    BY <2>2 DEF ReadHandshakeRecord, HandshakeFails, ApplicationData, ChangeCipherSpec, Handshake
<1>4. ASSUME handshakeErr' = "nil", appErr' = "nil" PROVE \E g : DataInOrder(g)'
  <2>1. PICK f : DataInOrder(f)
    BY <1>1, <1>2, <1>4 DEF FromClient
  <2>2. PICK g : InOrder(g, c2s', f[1], client.sent)
    BY <1>1, <2>1, DataTaken
  <2>3. f[1] = Len(delivered) + Len(inAppData) + Size(c2s[1], ApplicationData)
    BY <1>1, <2>1, DataTaken
  <2>4. Size(c2s[1], ApplicationData) = 0
    BY <1>3, <1>4 DEF Size
  <2>5. Len(delivered) \in Nat /\ Len(inAppData) \in Nat
    BY SeqIsSeq DEF Shapes
  <2>6. Len(delivered') + Len(inAppData') = f[1]
    BY <1>1, <2>3, <2>4, <2>5
  <2>7. DataInOrder(g)'
    BY <1>1, <2>2, <2>6 DEF DataInOrder
  <2> QED
    BY <2>7
<1> QED
  BY <1>1, <1>4 DEF FromClient

\* What is delivered is in order if what it was cut from is.
LEMMA SharesInOrder ==
  ASSUME NEW old, NEW data, NEW new, NEW rest, Shares(old, data, new, rest),
         IsSeq(old), IsSeq(data), \A i \in 1 .. Len(old) : old[i] = i,
         \A i \in 1 .. Len(data) : data[i] = Len(old) + i
  PROVE  /\ \A i \in 1 .. Len(new) : new[i] = i
         /\ \A i \in 1 .. Len(rest) : rest[i] = Len(new) + i
         /\ Len(new) + Len(rest) = Len(old) + Len(data)
<1>1. Len(old) \in Nat /\ Len(data) \in Nat
  BY SeqIsSeq
<1>2. PICK k \in 0 .. Len(data) :
        /\ Len(new) = Len(old) + k /\ Len(rest) = Len(data) - k
        /\ \A i \in 1 .. Len(old) : new[i] = old[i]
        /\ \A i \in 1 .. k : new[Len(old) + i] = data[i]
        /\ \A i \in 1 .. Len(data) - k : rest[i] = data[k + i]
  BY DEF Shares
<1>3. ASSUME NEW i \in 1 .. Len(new) PROVE new[i] = i
  <2>1. CASE i \in 1 .. Len(old)
    BY <1>2, <2>1
  <2>2. CASE ~(i \in 1 .. Len(old))
    <3>1. PICK j \in 1 .. k : i = Len(old) + j
      <4>1. i - Len(old) \in 1 .. k /\ i = Len(old) + (i - Len(old))
        BY <1>1, <1>2, <2>2
      <4> QED
        BY <4>1
    <3>2. j \in 1 .. Len(data)
      BY <1>1
    <3> QED
      BY <1>2, <3>1, <3>2
  <2> QED
    BY <2>1, <2>2
<1>4. ASSUME NEW i \in 1 .. Len(rest) PROVE rest[i] = Len(new) + i
  <2>1. i \in 1 .. Len(data) - k /\ k + i \in 1 .. Len(data)
    BY <1>1, <1>2
  <2>2. rest[i] = data[k + i] /\ data[k + i] = Len(old) + (k + i)
    BY <1>2, <2>1
  <2> QED
    BY <1>1, <1>2, <2>2
<1>5. Len(new) + Len(rest) = Len(old) + Len(data)
  BY <1>1, <1>2
<1> QED
  BY <1>3, <1>4, <1>5

\* Deliver keeps the order.
LEMMA DeliverInOrder ==
  ASSUME NEW data, NEW n \in Nat, IsSeq(data), IsSeq(delivered), Deliver(data, n),
         \A i \in 1 .. Len(delivered) : delivered[i] = i,
         \A i \in 1 .. Len(data) : data[i] = Len(delivered) + i
  PROVE  /\ \A i \in 1 .. Len(delivered') : delivered'[i] = i
         /\ \A i \in 1 .. Len(inAppData') : inAppData'[i] = Len(delivered') + i
         /\ Len(delivered') + Len(inAppData') = Len(delivered) + Len(data)
<1> DEFINE k == Least(n, Len(data))
           old == delivered
           new == old \o SubSeq(data, 1, k)
           rest == SubSeq(data, k + 1, Len(data))
<1>1. delivered' = new /\ inAppData' = rest
  BY DEF Deliver
<1>2. k \in Nat /\ k <= Len(data)
  BY SeqIsSeq DEF Least
<1>3. IsSeq(old)
  OBVIOUS
<1> HIDE DEF k, old
<1>4. Shares(old, data, new, rest)
  BY <1>2, <1>3, CutShares
<1> HIDE DEF new, rest
<1>5. \A i \in 1 .. Len(old) : old[i] = i
  BY DEF old
<1>6. \A i \in 1 .. Len(data) : data[i] = Len(old) + i
  BY DEF old
<1>7. /\ \A i \in 1 .. Len(new) : new[i] = i
      /\ \A i \in 1 .. Len(rest) : rest[i] = Len(new) + i
      /\ Len(new) + Len(rest) = Len(old) + Len(data)
  BY <1>3, <1>4, <1>5, <1>6, SharesInOrder
<1> QED
  BY <1>1, <1>7 DEF old

\* A round of Read that delivers what an earlier record left.
LEMMA ReadBufferedData ==
  ASSUME Shapes, ServerOK, FromClient, NEW n \in Nat \ {0}, ReadBuffered(n)
  PROVE  FromClient'
<1>1. /\ Deliver(inAppData, n) /\ c2s' = c2s /\ client' = client
      /\ handshakeErr' = handshakeErr /\ appErr' = appErr
  BY DEF ReadBuffered
<1>2. /\ IsSeq(inAppData) /\ IsSeq(delivered) /\ n \in Nat
      /\ \A i \in 1 .. Len(delivered) : delivered[i] = i
      /\ \A i \in 1 .. Len(inAppData) : inAppData[i] = Len(delivered) + i
  BY DEF Shapes, FromClient
<1>3. /\ \A i \in 1 .. Len(delivered') : delivered'[i] = i
      /\ \A i \in 1 .. Len(inAppData') : inAppData'[i] = Len(delivered') + i
      /\ Len(delivered') + Len(inAppData') = Len(delivered) + Len(inAppData)
  BY <1>1, <1>2, DeliverInOrder DEF Deliver
<1>4. ASSUME handshakeErr' = "nil", appErr' = "nil" PROVE \E f : DataInOrder(f)'
  <2>1. PICK f : DataInOrder(f)
    BY <1>1, <1>4 DEF FromClient
  <2>2. DataInOrder(f)'
    BY <1>1, <1>3, <2>1 DEF DataInOrder
  <2> QED
    BY <2>2
<1>5. Len(delivered') + Len(inAppData') <= client'.sent
  BY <1>1, <1>3 DEF FromClient
<1> QED
  BY <1>3, <1>4, <1>5 DEF FromClient

\* A round of Read that takes a record.
LEMMA ReadAppRecordData ==
  ASSUME Shapes, ServerOK, FromClient, NEW n \in Nat \ {0}, ReadAppRecord(n)
  PROVE  FromClient'
<1> DEFINE r == readRecord(Head(c2s))
           d == c2s[1].data
<1>1. /\ c2s # <<>> /\ c2s' = Tail(c2s) /\ inAppData = <<>>
      /\ handshakeErr' = handshakeErr /\ client' = client
      /\ handshakeDone /\ appErr = "nil"
  BY DEF ReadAppRecord, AppReads
<1>2. Len(c2s) \in Nat /\ Len(c2s) > 0 /\ Head(c2s) = c2s[1]
  <2>1. IsSeq(c2s)
    BY DEF Shapes
  <2> QED
    BY <1>1, <2>1, OneLessToServer
<1>3. PICK f : DataInOrder(f)
  <2>1. handshakeErr = "nil"
    BY <1>1 DEF ServerOK, SentAt
  <2> QED
    BY <1>1, <2>1 DEF FromClient
<1>4. PICK g : InOrder(g, c2s', f[1], client.sent)
  BY <1>1, <1>3, DataTaken
<1>5. /\ f[1] <= client.sent
      /\ f[1] = Len(delivered) + Len(inAppData) + Size(c2s[1], ApplicationData)
      /\ c2s[1].inner = ApplicationData =>
           d = [k \in 1 .. Len(d) |-> Len(delivered) + Len(inAppData) + k]
  BY <1>1, <1>3, DataTaken
<1>6. /\ IsSeq(d) /\ IsSeq(delivered) /\ Len(delivered) \in Nat /\ Len(inAppData) = 0
      /\ Len(d) \in Nat
  <2>1. 1 \in 1 .. Len(c2s)
    BY <1>2
  <2>2. IsSeq(d) /\ IsSeq(delivered)
    BY <2>1 DEF Shapes
  <2> QED
    BY <1>1, <2>2, SeqIsSeq, SeqEmpty
<1>7. r.type = c2s[1].inner
  BY <1>2 DEF readRecord
<1>8. CASE r.err = "nil" /\ r.type = ApplicationData
  <2>1. Deliver(d, n)
    BY <1>2, <1>8 DEF ReadAppRecord
  <2>2. f[1] = Len(delivered) + Len(d)
    BY <1>5, <1>6, <1>7, <1>8 DEF Size
  <2>3. d = [k \in 1 .. Len(d) |-> Len(delivered) + Len(inAppData) + k]
    BY <1>5, <1>7, <1>8
  <2> HIDE DEF d
  <2>4. /\ \A i \in 1 .. Len(d) : d[i] = Len(delivered) + i
        /\ \A i \in 1 .. Len(delivered) : delivered[i] = i
    BY <1>6, <2>3 DEF FromClient
  <2>5. n \in Nat
    OBVIOUS
  <2>6. /\ \A i \in 1 .. Len(delivered') : delivered'[i] = i
        /\ \A i \in 1 .. Len(inAppData') : inAppData'[i] = Len(delivered') + i
        /\ Len(delivered') + Len(inAppData') = Len(delivered) + Len(d)
    BY <1>6, <2>1, <2>4, <2>5, DeliverInOrder DEF Deliver
  <2>7. DataInOrder(g)'
    BY <1>1, <1>4, <2>2, <2>6 DEF DataInOrder
  <2>8. Len(delivered') + Len(inAppData') <= client'.sent
    BY <1>1, <1>5, <2>2, <2>6
  <2> QED
    BY <2>6, <2>7, <2>8 DEF FromClient
<1>9. CASE ~(r.err = "nil" /\ r.type = ApplicationData)
  <2>1. delivered' = delivered /\ inAppData' = inAppData
    BY <1>9 DEF ReadAppRecord
  <2>2. ASSUME appErr' = "nil" PROVE \E x : DataInOrder(x)'
    <3>1. c2s[1].inner # ApplicationData
      BY <1>7, <1>9, <2>2 DEF ReadAppRecord
    <3>2. Size(c2s[1], ApplicationData) = 0
      BY <3>1 DEF Size
    <3>3. Len(delivered') + Len(inAppData') = f[1]
      BY <1>5, <1>6, <2>1, <3>2
    <3>4. DataInOrder(g)'
      BY <1>1, <1>4, <3>3 DEF DataInOrder
    <3> QED
      BY <3>4
  <2> QED
    BY <1>1, <2>1, <2>2 DEF FromClient
<1> QED
  BY <1>8, <1>9

\* The server's steps.
LEMMA ServerFromClient ==
  ASSUME Shapes, ServerOK, FromClient, Server
  PROVE  FromClient'
<1>1. CASE ReadHandshakeRecord
  BY <1>1, ReadHandshakeRecordData
<1>2. ASSUME NEW n \in ReadSizes, ReadBuffered(n) \/ ReadAppRecord(n) PROVE FromClient'
  <2>1. n \in Nat \ {0}
    BY TLSAssumption
  <2> QED
    BY <1>2, <2>1, ReadBufferedData, ReadAppRecordData
<1>3. CASE ReadAppEnd \/ CallHandshake
  <2>1. /\ delivered' = delivered /\ inAppData' = inAppData /\ c2s' = c2s /\ client' = client
        /\ handshakeErr' = handshakeErr
    BY <1>3 DEF ReadAppEnd, CallHandshake, appVars
  <2>2. appErr' = appErr \/ appErr = "nil"
    BY <1>3 DEF ReadAppEnd, CallHandshake, AppReads, appVars
  <2>3. client'.sent = client.sent
    BY <2>1
  <2> QED
    BY <2>1, <2>2, <2>3, DataUntouched
<1>4. CASE \/ ReadHandshakeEnd \/ WriteServerHelloFails \/ WriteFails \/ HandleClientHello
           \/ HandleClientFinished \/ WriteChangeCipherSpec
  <2>1. /\ delivered' = delivered /\ inAppData' = inAppData /\ c2s' = c2s /\ client' = client
        /\ appErr' = appErr /\ pc # "idle"
    BY <1>4 DEF ReadHandshakeEnd, WriteServerHelloFails, WriteFails, After, HandleClientHello,
                HandleClientFinished, WriteChangeCipherSpec, HandshakeFails, appVars
  <2>2. handshakeErr = "nil"
    BY <2>1 DEF ServerOK, SentAt
  <2>3. client'.sent = client.sent
    BY <2>1
  <2> QED
    BY <2>1, <2>2, <2>3, DataUntouched
<1>5. CASE WriteFlight \/ WriteChunk \/ (\E n : Write(n))
  <2>1. /\ delivered' = delivered /\ inAppData' = inAppData /\ c2s' = c2s /\ client' = client
        /\ appErr' = appErr /\ handshakeErr' = handshakeErr
    BY <1>5 DEF WriteFlight, WriteChunk, Write, appVars
  <2>2. client'.sent = client.sent
    BY <2>1
  <2> QED
    BY <2>1, <2>2, DataUntouched
<1>6. CASE WriteChunkFails
  <2>1. /\ delivered' = delivered /\ inAppData' = inAppData /\ c2s' = c2s /\ client' = client
        /\ appErr' = "write" /\ handshakeErr' = handshakeErr
    BY <1>6 DEF WriteChunkFails
  <2> QED
    BY <2>1 DEF FromClient
<1> QED
  BY <1>1, <1>2, <1>3, <1>4, <1>5, <1>6 DEF Server

\* If r holds data, it is the data after byte b.
GoesOn(r, b) ==
  IsSeq(r.data) /\ (r.inner = ApplicationData => r.data = [i \in 1 .. Len(r.data) |-> b + i])

\* One more record of data.
LEMMA InOrderAppend ==
  ASSUME NEW q, NEW p, NEW r, IsSeq(q), IsLonger(p, q, r),
         NEW a, NEW b \in Nat, NEW f, InOrder(f, q, a, b), GoesOn(r, b)
  PROVE  \E g : InOrder(g, p, a, b + Size(r, ApplicationData))
<1> DEFINE c == Size(r, ApplicationData)
<1>1. Len(q) \in Nat /\ c \in Nat
  BY SeqIsSeq DEF Size, GoesOn
<1>2. Counts(f, q, ApplicationData, a, b)
  BY DEF InOrder
<1>3. /\ Len(p) = Len(q) + 1 /\ p[Len(q) + 1] = r
      /\ \A i \in 1 .. Len(q) : p[i] = q[i]
  BY DEF IsLonger
<1> DEFINE d == b + c
<1>d. Adds(b, r, ApplicationData, d)
  BY <1>1 DEF Adds
<1> HIDE DEF d
<1>4. PICK g : /\ Counts(g, p, ApplicationData, a, d)
               /\ \A i \in 0 .. Len(q) : g[i] = f[i]
  BY <1>2, <1>d, CountsAppend
<1> HIDE DEF c
<1>5. f[Len(q)] = b
  BY <1>2 DEF Counts
<1>6. ASSUME NEW i \in 1 .. Len(p), p[i].inner = ApplicationData
      PROVE  p[i].data = [k \in 1 .. Len(p[i].data) |-> g[i - 1] + k]
  <2>1. CASE i = Len(q) + 1
    <3>1. p[i] = r /\ g[i - 1] = b
      BY <1>1, <1>3, <1>4, <1>5, <2>1
    <3>2. r.data = [k \in 1 .. Len(r.data) |-> b + k]
      BY <1>6, <3>1 DEF GoesOn
    <3> QED
      BY <3>1, <3>2
  <2>2. CASE i # Len(q) + 1
    <3>1. i \in 1 .. Len(q) /\ i - 1 \in 0 .. Len(q)
      BY <1>1, <1>3, <2>2
    <3>2. p[i] = q[i] /\ g[i - 1] = f[i - 1]
      BY <1>3, <1>4, <3>1
    <3>3. q[i].data = [k \in 1 .. Len(q[i].data) |-> f[i - 1] + k]
      BY <1>6, <3>1, <3>2 DEF InOrder
    <3> QED
      BY <3>2, <3>3
  <2> QED
    BY <2>1, <2>2
<1>7. InOrder(g, p, a, d)
  BY <1>4, <1>6 DEF InOrder
<1> QED
  BY <1>7 DEF c, d

\* The client's steps.
LEMMA ClientFromClient ==
  ASSUME Shapes, ClientShape, ServerOK, ClientOK, StreamsOK, Client
  PROVE  FromClient'
<1>0. FromClient
  BY DEF StreamsOK
<1>1. CASE ClientStarts \/ ClientReceives
  <2>1. /\ delivered' = delivered /\ inAppData' = inAppData /\ c2s' = c2s
        /\ appErr' = appErr /\ handshakeErr' = handshakeErr
    BY <1>1 DEF ClientStarts, ClientReceives, serverVars, appVars
  <2>2. client'.sent = client.sent
    BY <1>1, StartsStep, ReceivesStep
  <2> QED
    BY <1>0, <2>1, <2>2, DataUntouched
<1>2. CASE ClientSpeaks
  <2>1. /\ delivered' = delivered /\ inAppData' = inAppData
        /\ appErr' = appErr /\ handshakeErr' = handshakeErr
    BY <1>2, SpeaksFields DEF serverVars, appVars
  <2>2. CASE c2s' = c2s /\ client'.sent = client.sent
    BY <1>0, <2>1, <2>2, DataUntouched
  <2>3. CASE \E r : c2s' = Append(c2s, r) /\ Continues(r)
    <3>1. PICK r : c2s' = Append(c2s, r) /\ Continues(r)
      BY <2>3
    <3>2. IsSeq(c2s) /\ client.sent \in Nat
      BY DEF Shapes, ClientShape
    <3>3. /\ Len(c2s) \in Nat /\ Len(c2s') = Len(c2s) + 1
          /\ \A i \in 1 .. Len(c2s) : c2s'[i] = c2s[i]
          /\ c2s'[Len(c2s) + 1] = r
      BY <3>1, <3>2, OneMoreToServer
    <3>4. /\ IsSeq(r.data) /\ client'.sent = client.sent + Size(r, ApplicationData)
          /\ r.inner = ApplicationData => r.data = [i \in 1 .. Len(r.data) |-> client.sent + i]
      BY <3>1 DEF Continues
    <3>5. Size(r, ApplicationData) \in Nat
      BY <3>4, SeqIsSeq DEF Size
    <3>6. client.sent <= client'.sent
      BY <3>2, <3>4, <3>5
    <3>7. ASSUME handshakeErr' = "nil", appErr' = "nil" PROVE \E g : DataInOrder(g)'
      <4> DEFINE q == c2s
                 p == c2s'
                 a == Len(delivered) + Len(inAppData)
                 b == client.sent
      <4>1. PICK f : InOrder(f, q, a, b)
        BY <1>0, <2>1, <3>7 DEF FromClient, DataInOrder
      <4>2. IsSeq(q) /\ IsLonger(p, q, r) /\ b \in Nat /\ GoesOn(r, b)
        BY <3>2, <3>3, <3>4 DEF IsLonger, GoesOn
      <4> HIDE DEF p, q, a, b
      <4>3. PICK g : InOrder(g, p, a, b + Size(r, ApplicationData))
        BY <4>1, <4>2, InOrderAppend
      <4>4. DataInOrder(g)'
        BY <2>1, <3>4, <4>3 DEF DataInOrder, p, q, a, b
      <4> QED
        BY <4>4
    <3>8. Len(delivered) \in Nat /\ Len(inAppData) \in Nat
      BY SeqIsSeq DEF Shapes
    <3>9. client'.sent \in Nat
      BY <1>2, SpeaksRecord
    <3>10. Len(delivered') + Len(inAppData') <= client'.sent
      BY <1>0, <2>1, <3>2, <3>6, <3>8, <3>9 DEF FromClient
    <3> QED
      BY <1>0, <2>1, <3>7, <3>10 DEF FromClient
  <2> QED
    BY <1>2, <2>2, <2>3, SpeaksRecord
<1> QED
  BY <1>1, <1>2, ClientKinds

------------------------------------------------------------------------------
(***************************************************************************)
(* The records a faithful client has under way.                            *)
(***************************************************************************)

\* The first record taken.
LEMMA PiecesTail ==
  ASSUME NEW q, NEW p, IsSeq(q), IsTail(p, q), NEW a, NEW b, NEW f,
         HandshakePieces(f, q, a, b)
  PROVE  /\ \E g : HandshakePieces(g, p, f[1], b)
         /\ f[1] = a + Size(q[1], Handshake)
<1>1. Counts(f, q, Handshake, a, b)
  BY DEF HandshakePieces
<1>2. PICK g : /\ Counts(g, p, Handshake, f[1], b)
               /\ \A i \in 0 .. Len(p) : g[i] = f[i + 1]
  BY <1>1, CountsTail
<1>3. f[1] = a + Size(q[1], Handshake)
  BY <1>1, CountsTail
<1>4. /\ Len(q) \in Nat /\ Len(q) > 0 /\ Len(p) = Len(q) - 1
      /\ \A i \in 1 .. Len(q) - 1 : p[i] = q[i + 1]
  BY SeqIsSeq DEF IsTail
<1>5. ASSUME NEW i \in 1 .. Len(p)
      PROVE  /\ p[i].inner = Handshake => Len(p[i].data) > 0
             /\ p[i].outer = ChangeCipherSpec => g[i] = 0
  <2>1. i \in 1 .. Len(q) - 1 /\ i + 1 \in 1 .. Len(q) /\ i \in 0 .. Len(p)
    BY <1>4
  <2>2. p[i] = q[i + 1] /\ g[i] = f[i + 1]
    BY <1>2, <1>4, <2>1
  <2> QED
    BY <2>1, <2>2 DEF HandshakePieces
<1>6. HandshakePieces(g, p, f[1], b)
  BY <1>2, <1>5 DEF HandshakePieces
<1> QED
  BY <1>3, <1>6

\* A record that may follow pieces that end at b.
MayFollow(r, b) ==
  /\ r.inner = Handshake => Len(r.data) > 0
  /\ r.outer = ChangeCipherSpec => b = 0 /\ Size(r, Handshake) = 0

\* One more record.
LEMMA PiecesAppend ==
  ASSUME NEW q, NEW p, NEW r, IsSeq(q), IsLonger(p, q, r), NEW a, NEW b, NEW f,
         HandshakePieces(f, q, a, b), NEW d, Adds(b, r, Handshake, d), MayFollow(r, b)
  PROVE  \E g : HandshakePieces(g, p, a, d)
<1>1. Counts(f, q, Handshake, a, b)
  BY DEF HandshakePieces
<1>2. PICK g : /\ Counts(g, p, Handshake, a, d)
               /\ \A i \in 0 .. Len(q) : g[i] = f[i]
  BY <1>1, CountsAppend
<1>3. /\ Len(q) \in Nat /\ Len(p) = Len(q) + 1 /\ p[Len(q) + 1] = r
      /\ \A i \in 1 .. Len(q) : p[i] = q[i]
  BY SeqIsSeq DEF IsLonger
<1>4. g[Len(q) + 1] = d
  BY <1>2, <1>3 DEF Counts
<1>5. ASSUME NEW i \in 1 .. Len(p)
      PROVE  /\ p[i].inner = Handshake => Len(p[i].data) > 0
             /\ p[i].outer = ChangeCipherSpec => g[i] = 0
  <2>1. CASE i = Len(q) + 1
    <3>1. p[i] = r /\ g[i] = d
      BY <1>3, <1>4, <2>1
    <3>2. r.outer = ChangeCipherSpec => d = 0
      BY DEF MayFollow, Adds
    <3> QED
      BY <3>1, <3>2 DEF MayFollow
  <2>2. CASE i # Len(q) + 1
    <3>1. i \in 1 .. Len(q) /\ i \in 0 .. Len(q)
      BY <1>3, <2>2
    <3>2. p[i] = q[i] /\ g[i] = f[i]
      BY <1>2, <1>3, <3>1
    <3> QED
      BY <3>1, <3>2 DEF HandshakePieces
  <2> QED
    BY <2>1, <2>2
<1>6. HandshakePieces(g, p, a, d)
  BY <1>2, <1>5 DEF HandshakePieces
<1> QED
  BY <1>6

\* When nothing is missing any more, no piece is under way and no
\* ChangeCipherSpec either.
LEMMA NoPieceLeft ==
  ASSUME NEW q, IsSeq(q), NEW a \in Nat, NEW b \in Int, NEW f, HandshakePieces(f, q, a, b),
         a > 0, b <= a
  PROVE  /\ b = a
         /\ \A i \in 1 .. Len(q) : ~IsHandshake(q[i])
         /\ \E g : HandshakePieces(g, q, 0, 0)
<1> DEFINE n == Len(q)
           g == [i \in 0 .. n |-> 0]
<1>1. n \in Nat
  BY SeqIsSeq
<1>2. /\ f \in [0 .. n -> Nat] /\ f[0] = a /\ f[n] = b
      /\ \A i \in 1 .. n : f[i] = f[i - 1] + Size(q[i], Handshake)
      /\ \A i, j \in 0 .. n : i <= j => f[i] <= f[j]
  BY DEF HandshakePieces, Counts
<1>3. \A i \in 1 .. n : /\ q[i].inner = Handshake => Len(q[i].data) > 0
                        /\ q[i].outer = ChangeCipherSpec => f[i] = 0
  BY DEF HandshakePieces
<1> HIDE DEF n
<1>4. ASSUME NEW i \in 0 .. n PROVE f[i] = a
  <2>1. 0 \in 0 .. n /\ n \in 0 .. n /\ 0 <= i /\ i <= n
    BY <1>1
  <2>2. f[0] <= f[i] /\ f[i] <= f[n] /\ f[i] \in Nat
    BY <1>2, <2>1
  <2> QED
    BY <1>2, <2>2
<1>5. b = a
  BY <1>1, <1>2, <1>4
<1>6. ASSUME NEW i \in 1 .. n
      PROVE  q[i].inner # Handshake /\ q[i].outer # ChangeCipherSpec
  <2>1. i \in 0 .. n /\ i - 1 \in 0 .. n
    BY <1>1
  <2>2. f[i] = a /\ f[i - 1] = a
    BY <1>4, <2>1
  <2>3. a = a + Size(q[i], Handshake)
    BY <1>2, <2>2
  <2>4. q[i].outer # ChangeCipherSpec
    BY <1>3, <2>2
  <2>5. CASE q[i].inner = Handshake
    <3>1. Len(q[i].data) > 0
      BY <1>3, <2>5
    <3>2. a = a + Len(q[i].data)
      BY <2>3, <2>5 DEF Size
    <3>3. f[i] = f[i - 1] + Len(q[i].data) /\ f[i] \in Nat
      BY <1>2, <2>1, <2>5 DEF Size
    <3> QED
      BY <2>2, <3>1, <3>2, <3>3
  <2> QED
    BY <2>4, <2>5
<1>7. g \in [0 .. n -> Nat] /\ \A i \in 0 .. n : g[i] = 0
  OBVIOUS
<1> HIDE DEF g
<1>8. Counts(g, q, Handshake, 0, 0)
  <2>1. \A i \in 1 .. n : Size(q[i], Handshake) = 0 /\ i - 1 \in 0 .. n /\ i \in 0 .. n
    BY <1>1, <1>6 DEF Size
  <2>2. \A i \in 1 .. n : g[i] = g[i - 1] + Size(q[i], Handshake)
    BY <1>7, <2>1
  <2>3. g[0] = 0 /\ g[n] = 0
    BY <1>1, <1>7
  <2>4. \A i, j \in 0 .. n : i <= j => g[i] <= g[j]
    BY <1>7
  <2> QED
    BY <1>7, <2>2, <2>3, <2>4 DEF Counts, n
<1>9. HandshakePieces(g, q, 0, 0)
  BY <1>6, <1>8 DEF HandshakePieces, n
<1> QED
  BY <1>5, <1>6, <1>9 DEF IsHandshake, n

\* The first record taken of those before the change of keys.
LEMMA NumberedTail ==
  ASSUME NEW q, NEW p, IsSeq(q), IsTail(p, q), NEW first \in Nat, first > 0,
         NEW key, NEW n \in Nat, Numbered(q, first, key, n)
  PROVE  Numbered(p, first - 1, key, n)
<1>1. /\ Len(q) \in Nat /\ Len(q) > 0 /\ Len(p) = Len(q) - 1
      /\ \A i \in 1 .. Len(q) - 1 : p[i] = q[i + 1]
  BY SeqIsSeq DEF IsTail
<1>2. ASSUME NEW i \in (first - 1) + 1 .. Len(p)
      PROVE  /\ p[i].outer = ApplicationData /\ p[i].inner # NoType /\ p[i].secret = key
             /\ p[i].seq = n + (i - (first - 1) - 1)
  <2>1. i \in 1 .. Len(q) - 1 /\ i + 1 \in first + 1 .. Len(q)
        /\ (i + 1) - first - 1 = i - (first - 1) - 1
    BY <1>1
  <2>2. p[i] = q[i + 1]
    BY <1>1, <2>1
  <2>3. /\ q[i + 1].outer = ApplicationData /\ q[i + 1].inner # NoType /\ q[i + 1].secret = key
        /\ q[i + 1].seq = n + ((i + 1) - first - 1)
    BY <2>1 DEF Numbered
  <2> QED
    BY <2>1, <2>2, <2>3
<1> QED
  BY <1>2 DEF Numbered

\* The first record taken after the change of keys.
LEMMA NumberedNext ==
  ASSUME NEW q, NEW p, IsSeq(q), IsTail(p, q), NEW key, NEW n \in Nat, Numbered(q, 0, key, n)
  PROVE  /\ Numbered(p, 0, key, n + 1)
         /\ q[1].outer = ApplicationData /\ q[1].inner # NoType
         /\ q[1].secret = key /\ q[1].seq = n
<1>1. /\ Len(q) \in Nat /\ Len(q) > 0 /\ Len(p) = Len(q) - 1
      /\ \A i \in 1 .. Len(q) - 1 : p[i] = q[i + 1]
  BY SeqIsSeq DEF IsTail
<1>2. ASSUME NEW i \in 0 + 1 .. Len(p)
      PROVE  /\ p[i].outer = ApplicationData /\ p[i].inner # NoType /\ p[i].secret = key
             /\ p[i].seq = (n + 1) + (i - 0 - 1)
  <2>1. i \in 1 .. Len(q) - 1 /\ i + 1 \in 0 + 1 .. Len(q)
        /\ n + ((i + 1) - 0 - 1) = (n + 1) + (i - 0 - 1)
    BY <1>1
  <2>2. p[i] = q[i + 1]
    BY <1>1, <2>1
  <2>3. /\ q[i + 1].outer = ApplicationData /\ q[i + 1].inner # NoType /\ q[i + 1].secret = key
        /\ q[i + 1].seq = n + ((i + 1) - 0 - 1)
    BY <2>1 DEF Numbered
  <2> QED
    BY <2>1, <2>2, <2>3
<1>3. Numbered(p, 0, key, n + 1)
  BY <1>2 DEF Numbered
<1>4. 1 \in 0 + 1 .. Len(q) /\ n + (1 - 0 - 1) = n
  BY <1>1
<1>5. /\ q[1].outer = ApplicationData /\ q[1].inner # NoType
      /\ q[1].secret = key /\ q[1].seq = n + (1 - 0 - 1)
  BY <1>4 DEF Numbered
<1> QED
  BY <1>3, <1>4, <1>5

\* A record sealed with key and the number s.
SealedAs(r, key, s) ==
  r.outer = ApplicationData /\ r.inner # NoType /\ r.secret = key /\ r.seq = s

\* One more record after the change of keys.
LEMMA NumberedAppend ==
  ASSUME NEW q, NEW p, NEW r, IsSeq(q), IsLonger(p, q, r), NEW first \in Nat, first <= Len(q),
         NEW key, NEW n \in Nat, Numbered(q, first, key, n),
         SealedAs(r, key, n + Len(q) - first)
  PROVE  Numbered(p, first, key, n)
<1>1. /\ Len(q) \in Nat /\ Len(p) = Len(q) + 1 /\ p[Len(q) + 1] = r
      /\ \A i \in 1 .. Len(q) : p[i] = q[i]
  BY SeqIsSeq DEF IsLonger
<1>2. ASSUME NEW i \in first + 1 .. Len(p)
      PROVE  /\ p[i].outer = ApplicationData /\ p[i].inner # NoType /\ p[i].secret = key
             /\ p[i].seq = n + (i - first - 1)
  <2>1. CASE i = Len(q) + 1
    <3>1. p[i] = r /\ n + (i - first - 1) = n + Len(q) - first
      BY <1>1, <2>1
    <3> QED
      BY <3>1 DEF SealedAs
  <2>2. CASE i # Len(q) + 1
    <3>1. i \in first + 1 .. Len(q) /\ i \in 1 .. Len(q)
      BY <1>1, <2>2
    <3> QED
      BY <1>1, <3>1 DEF Numbered
  <2> QED
    BY <2>1, <2>2
<1> QED
  BY <1>2 DEF Numbered

\* A step that changes nothing the records under way depend on.
LEMMA InStepKept ==
  ASSUME WriteInStep, client' = client, c2s' = c2s, hsBuf' = hsBuf,
         handshakeDone' = handshakeDone, handshakeErr' = handshakeErr, readKeys' = readKeys,
         Len(s2c') > 0 <=> Len(s2c) > 0
  PROVE  WriteInStep'
<1>1. Whole' = Whole
  BY DEF Whole
<1>2. \A f : HandshakeInOrder(f)' <=> HandshakeInOrder(f)
  BY <1>1 DEF HandshakeInOrder
<1>3. \A n : SwitchedKeys(n)' <=> SwitchedKeys(n)
  BY DEF SwitchedKeys
<1>4. HandshakeUnderWay => HandshakeUnderWay'
  BY <1>2, <1>3 DEF HandshakeUnderWay
<1>5. DataUnderWay => DataUnderWay'
  BY DEF DataUnderWay
<1> QED
  BY <1>4, <1>5 DEF WriteInStep, Faithful

\* What the server reads before the handshake is done leaves only pieces of
\* the handshake to be read before the client's new keys.
LEMMA HandshakeRecordsKept ==
  ASSUME Shapes, Server, WriteInStep, client' = client
  PROVE  client'.at \in {"start", "hello", "ccs", "finish"} =>
           \A i \in 1 .. Len(c2s') : IsHandshake(c2s'[i])
<1>1. SUFFICES ASSUME client.at \in {"start", "hello", "ccs", "finish"},
                      NEW i \in 1 .. Len(c2s')
               PROVE  IsHandshake(c2s'[i])
  OBVIOUS
<1>2. PICK j \in 1 .. Len(c2s) : c2s'[i] = c2s[j]
  BY ServerTakes
<1>3. IsHandshake(c2s[j])
  BY <1>1 DEF WriteInStep
<1> QED
  BY <1>2, <1>3

\* A failure leaves no claim about the records under way.
LEMMA FailsInStep ==
  ASSUME Shapes, Server, ServerOK, WriteInStep, client' = client, pc # "idle",
         handshakeErr' # "nil", handshakeDone' = handshakeDone
  PROVE  WriteInStep'
<1>1. handshakeErr' # "nil" /\ ~handshakeDone'
  BY DEF ServerOK, SentAt
<1>2. client'.at \in {"start", "hello", "ccs", "finish"} =>
        \A i \in 1 .. Len(c2s') : IsHandshake(c2s'[i])
  BY HandshakeRecordsKept
<1> QED
  BY <1>1, <1>2 DEF WriteInStep

\* A piece of the handshake is read.
LEMMA ReadPieceInStep ==
  ASSUME Shapes, ClientShape, ServerOK, ClientOK, Server, WriteInStep, ReadHandshakeRecord,
         readRecord(Head(c2s)).err = "nil",
         readRecord(Head(c2s)).type \in {ChangeCipherSpec, Handshake}
  PROVE  WriteInStep'
<1> DEFINE r == readRecord(Head(c2s))
           h == client.hello
<1>1. /\ pc \in {"ClientHello", "ClientFinished"} /\ c2s # <<>> /\ c2s' = Tail(c2s)
      /\ hsBuf' = IF r.type = Handshake THEN hsBuf \o Head(c2s).data ELSE hsBuf
      /\ client' = client /\ s2c' = s2c /\ pc' = pc
      /\ handshakeDone' = handshakeDone /\ handshakeErr' = handshakeErr
  BY DEF ReadHandshakeRecord, handshakeVars
<1>2. ~handshakeDone
  BY <1>1 DEF ServerOK, SentAt
<1>3. /\ Head(c2s) = c2s[1] /\ Len(c2s) \in Nat /\ Len(c2s) > 0 /\ Len(c2s') = Len(c2s) - 1
      /\ IsSeq(c2s) /\ \A i \in 1 .. Len(c2s) - 1 : c2s'[i] = c2s[i + 1]
  BY <1>1, OneLessToServer DEF Shapes
<1>4. r.type = c2s[1].inner
  BY <1>3, ReadRecordFacts DEF Shapes
<1>5. Len(hsBuf') = Len(hsBuf) + Size(c2s[1], Handshake)
  <2>1. IsSeq(hsBuf) /\ Len(hsBuf) \in Nat /\ IsSeq(c2s[1].data)
    BY <1>3, SeqIsSeq DEF Shapes
  <2>2. CASE c2s[1].inner = Handshake
    <3>1. hsBuf' = hsBuf \o c2s[1].data
      BY <1>1, <1>3, <1>4, <2>2
    <3>2. Len(hsBuf \o c2s[1].data) = Len(hsBuf) + Len(c2s[1].data)
      BY <2>1, SeqConcat
    <3> QED
      BY <2>2, <3>1, <3>2 DEF Size
  <2>3. CASE c2s[1].inner # Handshake
    BY <1>1, <1>4, <2>1, <2>3 DEF Size
  <2> QED
    BY <2>2, <2>3
<1>6. ASSUME Faithful', handshakeErr' = "nil" PROVE HandshakeUnderWay'
  <2>1. HandshakeUnderWay
    BY <1>1, <1>2, <1>6 DEF WriteInStep, Faithful
  <2>2. \E g : HandshakeInOrder(g)'
    <3> DEFINE q == c2s
               p == c2s'
               a == Len(hsBuf)
               b == Whole - Len(client.out)
    <3>1. PICK f : HandshakePieces(f, q, a, b)
      BY <2>1 DEF HandshakeUnderWay, HandshakeInOrder
    <3>2. IsSeq(q) /\ IsTail(p, q)
      BY <1>3 DEF IsTail
    <3> HIDE DEF p, q, a, b
    <3>3. /\ \E g : HandshakePieces(g, p, f[1], b)
          /\ f[1] = a + Size(q[1], Handshake)
      BY <3>1, <3>2, PiecesTail
    <3>4. f[1] = Len(hsBuf')
      BY <1>5, <3>3 DEF q, a
    <3>5. b = (Whole - Len(client.out))'
      BY <1>1 DEF b, Whole
    <3> QED
      BY <3>3, <3>4, <3>5 DEF HandshakeInOrder, p
  <2>3. ASSUME client.next >= 7, client.out = <<>>
        PROVE  SwitchedKeys(Len(c2s) - client.write.seq)'
    <3> DEFINE first == Len(c2s) - client.write.seq
               key == ApplicationKeys(h).cApp
               q == c2s
               p == c2s'
    <3>1. SwitchedKeys(first)
      BY <2>1, <2>3 DEF HandshakeUnderWay
    <3>2. client.write.seq \in Nat
      BY DEF ClientShape, IsKeys
    <3>3. first \in Nat /\ first <= Len(c2s)
      BY <1>3, <3>1, <3>2 DEF SwitchedKeys
    <3>4. Numbered(q, first, key, 0) /\ IsSeq(q) /\ IsTail(p, q)
      BY <1>3, <3>1 DEF SwitchedKeys, IsTail
    <3>5. readKeys.secret = HandshakeKeys(h).cHS /\ readKeys # NoKeys
      <4>1. Len(s2c) \in Nat /\ client.next \in Nat
        BY SeqIsSeq DEF Shapes, ClientShape
      <4>2. Len(s2c) > 0
        BY <2>3, <4>1 DEF ClientOK
      <4>3. readKeys.secret = HandshakeKeys(h).cHS /\ readKeys.secret # <<>>
        BY <1>1, <4>2 DEF ServerOK, UsesKeys
      <4> QED
        BY <4>3 DEF NoKeys
    <3>6. ASSUME first = 0 PROVE FALSE
      <4>1. 1 \in first + 1 .. Len(c2s)
        BY <1>3, <3>6
      <4>2. c2s[1].outer = ApplicationData /\ c2s[1].secret = key
        BY <3>4, <4>1 DEF Numbered
      <4>3. ApplicationData # ChangeCipherSpec
        BY DEF ApplicationData, ChangeCipherSpec
      <4>4. c2s[1].secret = readKeys.secret
        BY <1>3, <3>5, <4>2, <4>3, ReadRecordFacts DEF Shapes
      <4> QED
        BY <3>5, <4>2, <4>4, SecretsDiffer, Zenon
    <3>7. first > 0 /\ 0 \in Nat
      BY <3>3, <3>6
    <3>8. Numbered(p, first - 1, key, 0)
      <4> HIDE DEF p, q, first, key
      <4> QED
        BY <3>3, <3>4, <3>7, NumberedTail
    <3>9. Len(c2s') - client.write.seq = first - 1
      BY <1>3, <3>2
    <3>10. \A i \in 1 .. first - 1 : IsHandshake(c2s'[i])
      <4>1. ASSUME NEW i \in 1 .. first - 1 PROVE IsHandshake(c2s'[i])
        <5>1. i \in 1 .. Len(c2s) - 1 /\ i + 1 \in 1 .. first
          BY <1>3, <3>3, <3>7
        <5>2. IsHandshake(c2s[i + 1])
          BY <3>1, <5>1 DEF SwitchedKeys
        <5> QED
          BY <1>3, <5>1, <5>2
      <4> QED
        BY <4>1
    <3>11. first - 1 >= 0 /\ client.write.secret = key
      BY <3>1, <3>3, <3>7 DEF SwitchedKeys
    <3>12. PICK n : n = first - 1
      OBVIOUS
    <3>13. SwitchedKeys(n)'
      <4>1. Numbered(p, n, key, 0) /\ n >= 0 /\ \A i \in 1 .. n : IsHandshake(c2s'[i])
        BY <3>8, <3>10, <3>11, <3>12
      <4> QED
        BY <1>1, <3>11, <4>1 DEF SwitchedKeys
    <3>14. n = (Len(c2s) - client.write.seq)'
      BY <1>1, <3>9, <3>12
    <3> QED
      BY <3>13, <3>14
  <2> QED
    BY <1>1, <2>1, <2>2, <2>3 DEF HandshakeUnderWay
<1>7. client'.at \in {"start", "hello", "ccs", "finish"} =>
        \A i \in 1 .. Len(c2s') : IsHandshake(c2s'[i])
  BY <1>1, HandshakeRecordsKept
<1> QED
  BY <1>1, <1>2, <1>6, <1>7 DEF WriteInStep

\* The ClientHello is answered: nothing of it is left, and nothing else.
LEMMA HelloInStep ==
  ASSUME Shapes, ClientShape, ServerOK, ClientOK, PiecesOK, Server, WriteInStep,
         HandleClientHello, HelloError(Taken) = "nil"
  PROVE  WriteInStep'
<1> DEFINE h == client.hello
<1>1. pc = "ClientHello" /\ Buffered /\ hsBuf' = Untaken
  BY DEF HandleClientHello
<1>2. /\ client' = client /\ c2s' = c2s /\ handshakeDone' = handshakeDone
      /\ handshakeErr' = handshakeErr /\ s2c' = Append(s2c, Plaintext(Handshake, <<ServerHello(Taken[2])>>))
  BY DEF HandleClientHello
<1>3. client.next = 1 /\ client.tx = Transcript1(h)
  BY <1>1, HelloIsTheClients
<1>4. Len(s2c) = 0 /\ ~handshakeDone
  BY <1>1 DEF ServerOK, SentAt
<1>5. Len(s2c') = 1
  BY <1>2, <1>4, OneMoreSent DEF Shapes
<1>6. client.tx # <<>>
  BY <1>3 DEF Transcript1
<1>7. Whole = 3 /\ Whole' = 0
  BY <1>2, <1>3, <1>4, <1>5, <1>6 DEF Whole, HeaderLen, BodyLen
<1>8. /\ Len(hsBuf) \in Nat /\ Len(hsBuf) >= 3 /\ Len(Untaken) = Len(hsBuf) - 3
      /\ Len(client.out) \in Nat
  BY <1>1, TakenFacts, SeqIsSeq DEF Shapes, ClientShape, HeaderLen, BodyLen
<1>9. ASSUME Faithful', handshakeErr' = "nil" PROVE HandshakeUnderWay'
  <2>1. HandshakeUnderWay
    BY <1>2, <1>4, <1>9 DEF WriteInStep, Faithful
  <2> DEFINE q == c2s
             a == Len(hsBuf)
             b == Whole - Len(client.out)
  <2>2. PICK f : HandshakePieces(f, q, a, b)
    BY <2>1 DEF HandshakeUnderWay, HandshakeInOrder
  <2>3. IsSeq(q) /\ a \in Nat /\ b \in Int /\ a > 0 /\ b <= a
    BY <1>7, <1>8 DEF Shapes
  <2>4. b = a /\ \E g : HandshakePieces(g, q, 0, 0)
    <3> HIDE DEF a, b, q
    <3> QED
      BY <2>2, <2>3, NoPieceLeft
  <2>5. Len(hsBuf') = 0 /\ (Whole - Len(client.out))' = 0
    BY <1>1, <1>2, <1>7, <1>8, <2>4
  <2>6. \E g : HandshakeInOrder(g)'
    BY <1>2, <2>4, <2>5 DEF HandshakeInOrder
  <2> QED
    BY <1>2, <1>3, <2>1, <2>6 DEF HandshakeUnderWay
<1>10. client'.at \in {"start", "hello", "ccs", "finish"} =>
         \A i \in 1 .. Len(c2s') : IsHandshake(c2s'[i])
  BY <1>2, HandshakeRecordsKept
<1> QED
  BY <1>2, <1>4, <1>9, <1>10 DEF WriteInStep

\* The Finished that the server accepts is the client's.
LEMMA FinishedIsTheClients ==
  ASSUME Shapes, ClientShape, ServerOK, ClientOK, PiecesOK, pc = "ClientFinished", Buffered,
         Taken[1] = "finished", Taken[2] = verifyData(schedule.cHS, tx)
  PROVE  client.next >= 7
<1> DEFINE h == client.hello
<1>1. Len(s2c) = 6
  BY DEF ServerOK, SentAt
<1>2. tx = Transcript6(h) /\ schedule = ApplicationKeys(h) /\ HasShare(h)
  BY <1>1 DEF ServerOK, Knows, UsesKeys
<1>3. schedule.cHS = HandshakeKeys(h).cHS
  BY <1>2, Script, Zenon
<1>4. Answers(Taken, h)
  BY <1>2, <1>3, Zenon DEF Answers
<1>5. Genuine(hsBuf[1])
  BY TakenFacts DEF PiecesOK
<1> QED
  BY <1>2, <1>4, <1>5 DEF Genuine, Taken

\* The client's Finished is accepted: all of it has been read, and what is
\* under way is sealed with the application keys.
LEMMA FinishedInStep ==
  ASSUME Shapes, ClientShape, ServerOK, ClientOK, PiecesOK, Server, WriteInStep,
         HandleClientFinished,
         Taken[1] = "finished", Taken[2] = verifyData(schedule.cHS, tx)
  PROVE  WriteInStep'
<1> DEFINE h == client.hello
<1>1. pc = "ClientFinished" /\ Buffered /\ hsBuf' = Untaken
  BY DEF HandleClientFinished
<1>2. /\ client' = client /\ c2s' = c2s /\ s2c' = s2c
      /\ readKeys' = newRecordKeysFromSecret(schedule.cApp)
      /\ handshakeDone' = (Untaken = <<>>)
      /\ handshakeErr' = IF Untaken = <<>> THEN "nil" ELSE "trailing_bytes"
  BY DEF HandleClientFinished
<1>3. client.next >= 7
  BY <1>1, FinishedIsTheClients
<1>4. Len(s2c) = 6 /\ ~handshakeDone /\ handshakeErr = "nil"
  BY <1>1 DEF ServerOK, SentAt
<1>6. client.next \in Nat
  BY DEF ClientShape
<1>5. client.tx # <<>>
  <2>1. client.tx = Transcript6(h)
    BY <1>3, <1>6 DEF ClientOK, ClientKnows
  <2>2. Transcript6(h) # <<>>
    BY TranscriptNotEmpty, Zenon
  <2> QED
    BY <2>1, <2>2, Zenon
<1>7. Whole = 3
  BY <1>3, <1>5, <1>6 DEF Whole, HeaderLen, BodyLen
<1>8. /\ Len(hsBuf) \in Nat /\ Len(hsBuf) >= 3 /\ Len(Untaken) = Len(hsBuf) - 3
      /\ Len(client.out) \in Nat /\ IsSeq(client.out) /\ client.write.seq \in Nat
      /\ Len(c2s) \in Nat
  BY <1>1, TakenFacts, SeqIsSeq DEF Shapes, ClientShape, IsKeys, HeaderLen, BodyLen
<1>9. ASSUME Faithful', handshakeDone' PROVE DataUnderWay'
  <2>1. HandshakeUnderWay
    BY <1>2, <1>4, <1>9 DEF WriteInStep, Faithful
  <2> DEFINE q == c2s
             a == Len(hsBuf)
             b == Whole - Len(client.out)
  <2>2. PICK f : HandshakePieces(f, q, a, b)
    BY <2>1 DEF HandshakeUnderWay, HandshakeInOrder
  <2>3. IsSeq(q) /\ a \in Nat /\ b \in Int /\ a > 0 /\ b <= a
    BY <1>7, <1>8 DEF Shapes
  <2>4. b = a /\ \A i \in 1 .. Len(q) : ~IsHandshake(q[i])
    <3> HIDE DEF a, b, q
    <3> QED
      BY <2>2, <2>3, NoPieceLeft
  <2>5. client.out = <<>>
    <3>1. Len(client.out) = 0
      BY <1>7, <1>8, <2>4
    <3> QED
      BY <1>8, <3>1, SeqEmpty
  <2> DEFINE first == Len(c2s) - client.write.seq
  <2>6. SwitchedKeys(first)
    BY <1>3, <2>1, <2>5 DEF HandshakeUnderWay
  <2>7. first = 0
    <3>1. first \in Int /\ first >= 0 /\ first <= Len(c2s)
      BY <1>8, <2>6 DEF SwitchedKeys
    <3>2. ASSUME first # 0 PROVE FALSE
      <4>1. 1 \in 1 .. first /\ 1 \in 1 .. Len(c2s)
        BY <1>8, <3>1, <3>2
      <4> QED
        BY <2>4, <2>6, <4>1 DEF SwitchedKeys
    <3> QED
      BY <3>2
  <2>8. readKeys'.seq = 0
    BY <1>2 DEF newRecordKeysFromSecret
  <2>9. client.at \in {"open", "ended"}
    <3>1. client.at # "ccs" /\ client.at # "finish"
      <4>1. Len(<<>>) # 3
        BY SeqEmpty
      <4> QED
        BY <2>1, <2>5, <4>1 DEF HandshakeUnderWay, HeaderLen, BodyLen
    <3> QED
      BY <1>3, <1>6, <3>1 DEF ClientOK, ClientKnows
  <2>10. /\ client.write.secret = ApplicationKeys(h).cApp
         /\ Numbered(c2s, 0, ApplicationKeys(h).cApp, 0)
    BY <2>6, <2>7 DEF SwitchedKeys
  <2>11. readKeys'.seq + Len(c2s') = client'.write.seq
    BY <1>2, <1>8, <2>7, <2>8
  <2> QED
    BY <1>2, <2>5, <2>8, <2>9, <2>10, <2>11 DEF DataUnderWay
<1>10. client'.at \in {"start", "hello", "ccs", "finish"} =>
         \A i \in 1 .. Len(c2s') : IsHandshake(c2s'[i])
  BY <1>2, HandshakeRecordsKept
<1>11. handshakeDone' \/ handshakeErr' # "nil"
  BY <1>2
<1> QED
  BY <1>9, <1>10, <1>11 DEF WriteInStep

\* A record of application data is read.
LEMMA ReadAppInStep ==
  ASSUME Shapes, ClientShape, ServerOK, ClientOK, Server, WriteInStep, NEW n, ReadAppRecord(n)
  PROVE  WriteInStep'
<1> DEFINE r == readRecord(Head(c2s))
           h == client.hello
<1>1. /\ handshakeDone /\ c2s # <<>> /\ c2s' = Tail(c2s) /\ readKeys' = r.keys
      /\ client' = client /\ handshakeDone' = handshakeDone
  BY DEF ReadAppRecord, AppReads, handshakeVars
<1>2. /\ Head(c2s) = c2s[1] /\ Len(c2s) \in Nat /\ Len(c2s) > 0 /\ Len(c2s') = Len(c2s) - 1
      /\ IsSeq(c2s) /\ \A i \in 1 .. Len(c2s) - 1 : c2s'[i] = c2s[i + 1]
  BY <1>1, OneLessToServer DEF Shapes
<1>3. ASSUME Faithful' PROVE DataUnderWay'
  <2>1. DataUnderWay
    BY <1>1, <1>3 DEF WriteInStep, Faithful
  <2> DEFINE q == c2s
             p == c2s'
             key == ApplicationKeys(h).cApp
             m == readKeys.seq
  <2>2. IsSeq(q) /\ IsTail(p, q) /\ m \in Nat /\ Numbered(q, 0, key, m)
    BY <1>2, <2>1 DEF IsTail, Shapes, IsKeys, DataUnderWay
  <2>3. /\ Numbered(p, 0, key, m + 1)
        /\ q[1].outer = ApplicationData /\ q[1].inner # NoType
        /\ q[1].secret = key /\ q[1].seq = m
    <3> HIDE DEF p, q, key, m
    <3> QED
      BY <2>2, NumberedNext
  <2>4. readKeys.secret = key /\ readKeys # NoKeys
    <3>1. readKeys.secret = key
      BY <1>1 DEF ServerOK, UsesKeys
    <3>2. key # <<>>
      BY SecretsDiffer, Zenon
    <3> QED
      BY <3>1, <3>2 DEF NoKeys
  <2>5. readKeys'.seq = readKeys.seq + 1
    BY <1>1, <1>2, <2>3, <2>4, ReadRecordFacts DEF Shapes
  <2>6. readKeys'.seq + Len(c2s') = client'.write.seq
    BY <1>1, <1>2, <2>1, <2>2, <2>5 DEF DataUnderWay
  <2> QED
    BY <1>1, <2>1, <2>3, <2>5, <2>6 DEF DataUnderWay
<1>4. client'.at \in {"start", "hello", "ccs", "finish"} =>
         \A i \in 1 .. Len(c2s') : IsHandshake(c2s'[i])
  BY <1>1, HandshakeRecordsKept
<1> QED
  BY <1>1, <1>3, <1>4 DEF WriteInStep

\* Every step of the server keeps the record numbers in step.
LEMMA ServerInStep ==
  ASSUME Shapes, ClientShape, ServerOK, ClientOK, PiecesOK, WriteInStep, Server
  PROVE  WriteInStep'
<1>0. /\ client' = client /\ Len(s2c) \in Nat /\ Len(s2c') \in Nat
      /\ Len(s2c) <= Len(s2c')
  BY ServerGrows
<1>1. CASE CallHandshake \/ ReadAppEnd \/ WriteChunkFails \/ (\E n : ReadBuffered(n) \/ Write(n))
  <2>1. /\ c2s' = c2s /\ hsBuf' = hsBuf /\ handshakeDone' = handshakeDone
        /\ handshakeErr' = handshakeErr /\ readKeys' = readKeys /\ s2c' = s2c
    BY <1>1 DEF CallHandshake, ReadAppEnd, WriteChunkFails, ReadBuffered, Write, handshakeVars
  <2> QED
    BY <1>0, <2>1, InStepKept
<1>2. CASE WriteChangeCipherSpec \/ WriteFlight \/ WriteChunk
  <2>1. /\ c2s' = c2s /\ hsBuf' = hsBuf /\ handshakeDone' = handshakeDone
        /\ handshakeErr' = handshakeErr /\ readKeys' = readKeys
    BY <1>2 DEF WriteChangeCipherSpec, WriteFlight, WriteChunk, handshakeVars
  <2>2. Len(s2c) > 0
    <3>1. CASE WriteChangeCipherSpec
      BY <3>1 DEF WriteChangeCipherSpec, ServerOK, SentAt
    <3>2. CASE WriteFlight
      <4>1. pc \in {"encrypted_extensions", "certificate", "certificate_verify", "finished"}
        BY <3>2 DEF WriteFlight, After
      <4>2. SentAt
        BY DEF ServerOK
      <4>3. Len(s2c) = 2 \/ Len(s2c) = 3 \/ Len(s2c) = 4 \/ Len(s2c) = 5
        BY <4>1, <4>2, Zenon DEF SentAt
      <4> QED
        BY <4>3
    <3>3. CASE WriteChunk
      <4>1. pending > 0 /\ handshakeDone
        BY <3>3 DEF WriteChunk, ServerOK, SentAt
      <4> QED
        BY <1>0, <4>1 DEF ServerOK, SentAt
    <3> QED
      BY <1>2, <3>1, <3>2, <3>3
  <2> QED
    BY <1>0, <2>1, <2>2, InStepKept
<1>3. CASE ReadHandshakeRecord
  <2> DEFINE r == readRecord(Head(c2s))
  <2>1. CASE r.err = "nil" /\ r.type \in {ChangeCipherSpec, Handshake}
    BY <1>3, <2>1, ReadPieceInStep
  <2>2. CASE ~(r.err = "nil" /\ r.type \in {ChangeCipherSpec, Handshake})
    <3>1. handshakeErr' # "nil" /\ handshakeDone' = handshakeDone
      BY <1>3, <2>2 DEF ReadHandshakeRecord, HandshakeFails, handshakeVars
    <3>2. pc # "idle"
      BY <1>3 DEF ReadHandshakeRecord
    <3> QED
      BY <1>0, <3>1, <3>2, FailsInStep
  <2> QED
    BY <2>1, <2>2
<1>4. CASE ReadHandshakeEnd \/ WriteServerHelloFails \/ WriteFails
  <2>1. handshakeErr' # "nil" /\ handshakeDone' = handshakeDone
    BY <1>4 DEF ReadHandshakeEnd, WriteServerHelloFails, WriteFails, HandshakeFails, EndError,
                handshakeVars
  <2>2. pc # "idle"
    BY <1>4 DEF ReadHandshakeEnd, WriteServerHelloFails, WriteFails, After
  <2> QED
    BY <1>0, <2>1, <2>2, FailsInStep
<1>5. CASE HandleClientHello
  <2>1. CASE HelloError(Taken) = "nil"
    BY <1>5, <2>1, HelloInStep
  <2>2. CASE HelloError(Taken) # "nil"
    <3>1. handshakeErr' # "nil" /\ handshakeDone' = handshakeDone /\ pc # "idle"
      BY <1>5, <2>2 DEF HandleClientHello, HandshakeFails, handshakeVars
    <3> QED
      BY <1>0, <2>2, <3>1, FailsInStep
  <2> QED
    BY <2>1, <2>2
<1>6. CASE HandleClientFinished
  <2>1. CASE Taken[1] = "finished" /\ Taken[2] = verifyData(schedule.cHS, tx)
    BY <1>6, <2>1, FinishedInStep
  <2>2. CASE ~(Taken[1] = "finished" /\ Taken[2] = verifyData(schedule.cHS, tx))
    <3>1. handshakeErr' # "nil" /\ handshakeDone' = handshakeDone
      BY <1>6, <2>2 DEF HandleClientFinished, HandshakeFails, handshakeVars
    <3>2. pc # "idle"
      BY <1>6 DEF HandleClientFinished
    <3> QED
      BY <1>0, <3>1, <3>2, FailsInStep
  <2> QED
    BY <2>1, <2>2
<1>7. ASSUME NEW n, ReadAppRecord(n) PROVE WriteInStep'
  BY <1>7, ReadAppInStep
<1> QED
  BY <1>1, <1>2, <1>3, <1>4, <1>5, <1>6, <1>7 DEF Server

\* A handshake that has succeeded was answered by a client that had read the
\* server's Finished.
LEMMA ServerAgreed ==
  ASSUME Shapes, ClientShape, ServerOK, ClientOK, PiecesOK, Server, Agreed
  PROVE  Agreed'
<1> USE DEF Agreed
<1>0. client' = client
  BY ServerGrows
<1>1. CASE HandleClientFinished
  <2>1. CASE Taken[1] = "finished" /\ Taken[2] = verifyData(schedule.cHS, tx)
    BY <1>0, <1>1, <2>1, FinishedIsTheClients DEF HandleClientFinished
  <2>2. CASE ~(Taken[1] = "finished" /\ Taken[2] = verifyData(schedule.cHS, tx))
    BY <1>0, <1>1, <2>2 DEF HandleClientFinished, HandshakeFails, handshakeVars
  <2> QED
    BY <2>1, <2>2
<1>2. ASSUME ~HandleClientFinished PROVE handshakeDone' = handshakeDone
  <2>1. CASE \/ CallHandshake \/ ReadHandshakeRecord \/ ReadHandshakeEnd
             \/ WriteServerHelloFails \/ WriteFails
    BY <2>1 DEF CallHandshake, ReadHandshakeRecord, ReadHandshakeEnd, WriteServerHelloFails,
                WriteFails, HandshakeFails, handshakeVars
  <2>2. CASE HandleClientHello \/ WriteChangeCipherSpec \/ WriteFlight
    BY <2>2 DEF HandleClientHello, WriteChangeCipherSpec, WriteFlight,
                HandshakeFails, handshakeVars
  <2>3. CASE \/ ReadAppEnd \/ WriteChunk \/ WriteChunkFails
             \/ \E n : ReadBuffered(n) \/ ReadAppRecord(n) \/ Write(n)
    BY <2>3 DEF ReadAppEnd, WriteChunk, WriteChunkFails, ReadBuffered, ReadAppRecord, Write,
                handshakeVars
  <2> QED
    BY <1>2, <2>1, <2>2, <2>3 DEF Server
<1> QED
  BY <1>0, <1>1, <1>2

\* The pieces on their way before and after a step of the client that sends
\* record r and keeps its place in the handshake.
LEMMA PieceSent ==
  ASSUME Shapes, ClientShape, HandshakeUnderWay, NEW r, c2s' = Append(c2s, r),
         hsBuf' = hsBuf, s2c' = s2c, client'.tx = client.tx, client'.next = client.next,
         IsSeq(r.data), IsSeq(client'.out),
         Len(client'.out) = Len(client.out) - Size(r, Handshake),
         r.inner = Handshake => Len(r.data) > 0,
         r.outer = ChangeCipherSpec => Whole = Len(client.out) /\ Size(r, Handshake) = 0
  PROVE  \E g : HandshakeInOrder(g)'
<1> DEFINE q == c2s
           p == c2s'
           a == Len(hsBuf)
           b == Whole - Len(client.out)
           d == b + Size(r, Handshake)
<1>1. PICK f : HandshakePieces(f, q, a, b)
  BY DEF HandshakeUnderWay, HandshakeInOrder
<1>2. IsSeq(q) /\ IsSeq(client.out) /\ Len(client.out) \in Nat /\ Size(r, Handshake) \in Nat
      /\ Len(q) \in Nat
  BY SeqIsSeq DEF Shapes, ClientShape, Size
<1>3. IsLonger(p, q, r)
  BY <1>2, OneMoreToServer DEF IsLonger
<1>4. Whole \in Nat
  BY DEF Whole, HeaderLen, BodyLen
<1>5. b \in Nat
  <2> HIDE DEF b, q
  <2> QED
    BY <1>1, <1>2 DEF HandshakePieces, Counts
<1>6. Adds(b, r, Handshake, d) /\ MayFollow(r, b)
  BY <1>2, <1>4, <1>5 DEF Adds, MayFollow
<1>7. d = (Whole - Len(client.out))'
  <2>1. Whole' = Whole
    BY DEF Whole
  <2> QED
    BY <1>2, <1>4, <2>1
<1> HIDE DEF a, b, d, p, q
<1>8. \E g : HandshakePieces(g, p, a, d)
  BY <1>1, <1>2, <1>3, <1>6, PiecesAppend
<1> QED
  BY <1>7, <1>8 DEF HandshakeInOrder, p, a

\* One more record that carries no piece of the handshake, with the keys in
\* use.
LEMMA SealsInStep ==
  ASSUME Shapes, ClientShape, ServerOK, ClientOK, WriteInStep,
         NEW type \in {Alert, ApplicationData}, NEW data, IsSeq(data),
         c2s' = Append(c2s, Protect(type, data)), UNCHANGED serverVars,
         client'.tx = client.tx, client'.next = client.next, client'.hello = client.hello,
         client'.plan = client.plan, client'.out = client.out, client'.write = NextWrite,
         client'.at \in {"open", "ended"}
  PROVE  WriteInStep'
<1> DEFINE r == Protect(type, data)
           key == ApplicationKeys(client.hello).cApp
           q == c2s
           p == c2s'
<1>1. /\ r.inner = type /\ r.data = data
      /\ client.write = NoKeys => r.outer = type
      /\ client.write # NoKeys =>
           /\ r.outer = ApplicationData /\ r.secret = client.write.secret
           /\ r.seq = client.write.seq
           /\ client'.write.seq = client.write.seq + 1
      /\ client'.write.secret = client.write.secret /\ IsKeys(client.write)
      /\ client.write.seq \in Nat
  BY ProtectFacts DEF ClientShape, IsKeys
<1>2. r.inner # Handshake /\ r.outer # ChangeCipherSpec
  BY <1>1 DEF Handshake, ChangeCipherSpec, Alert, ApplicationData
<1>3. /\ hsBuf' = hsBuf /\ s2c' = s2c /\ handshakeDone' = handshakeDone
      /\ handshakeErr' = handshakeErr /\ readKeys' = readKeys
  BY DEF serverVars, handshakeVars
<1>4. /\ IsSeq(q) /\ Len(q) \in Nat /\ IsSeq(client.out) /\ Len(client.out) \in Nat
      /\ client.next \in Nat
  BY SeqIsSeq DEF Shapes, ClientShape
<1>5. IsLonger(p, q, r) /\ Len(c2s') = Len(c2s) + 1 /\ \A i \in 1 .. Len(c2s) : c2s'[i] = c2s[i]
  BY <1>4, OneMoreToServer DEF IsLonger
<1>6. ASSUME client.write.secret = key
      PROVE  /\ SealedAs(r, key, client.write.seq)
             /\ client'.write.secret = key /\ client'.write.seq = client.write.seq + 1
  <2>1. key # <<>>
    BY SecretsDiffer, Zenon
  <2>2. client.write # NoKeys
    BY <1>6, <2>1 DEF NoKeys
  <2>3. type # NoType
    BY DEF Alert, ApplicationData, NoType
  <2> QED
    BY <1>1, <1>6, <2>2, <2>3 DEF SealedAs
<1>7. ASSUME Faithful', ~handshakeDone', handshakeErr' = "nil" PROVE HandshakeUnderWay'
  <2>1. HandshakeUnderWay
    BY <1>3, <1>7 DEF WriteInStep, Faithful
  <2>2. \E g : HandshakeInOrder(g)'
    <3>1. /\ c2s' = Append(c2s, r) /\ IsSeq(r.data) /\ IsSeq(client'.out)
          /\ Size(r, Handshake) = 0 /\ Len(client'.out) = Len(client.out) - Size(r, Handshake)
      BY <1>1, <1>2, <1>4 DEF Size
    <3> HIDE DEF r
    <3> QED
      BY <1>2, <1>3, <2>1, <3>1, PieceSent
  <2>3. ASSUME client.next >= 7, client.out = <<>>
        PROVE  SwitchedKeys(Len(c2s) - client.write.seq)'
    <3> DEFINE first == Len(c2s) - client.write.seq
    <3>1. SwitchedKeys(first)
      BY <2>1, <2>3 DEF HandshakeUnderWay
    <3>2. /\ client.write.secret = key /\ first \in Nat /\ first <= Len(q)
          /\ Numbered(q, first, key, 0) /\ 0 + Len(q) - first = client.write.seq
      BY <1>1, <1>4, <3>1 DEF SwitchedKeys
    <3>3. SealedAs(r, key, 0 + Len(q) - first) /\ 0 \in Nat
      BY <1>6, <3>2
    <3>4. Numbered(p, first, key, 0)
      <4> HIDE DEF r, key, q, p, first
      <4> QED
        BY <1>4, <1>5, <3>2, <3>3, NumberedAppend
    <3>5. PICK n : n = first
      OBVIOUS
    <3>6. \A i \in 1 .. n : IsHandshake(c2s'[i])
      <4>1. ASSUME NEW i \in 1 .. n PROVE IsHandshake(c2s'[i])
        <5>1. i \in 1 .. Len(c2s) /\ IsHandshake(c2s[i])
          BY <1>4, <3>1, <3>2, <3>5 DEF SwitchedKeys
        <5> QED
          BY <1>5, <5>1
      <4> QED
        BY <4>1
    <3>7. SwitchedKeys(n)'
      <4>1. n >= 0 /\ Numbered(p, n, key, 0) /\ client'.write.secret = key
        BY <1>6, <3>2, <3>4, <3>5
      <4> QED
        BY <3>6, <4>1 DEF SwitchedKeys
    <3>8. n = (Len(c2s) - client.write.seq)'
      BY <1>1, <1>4, <1>5, <1>6, <3>2, <3>5
    <3> QED
      BY <3>7, <3>8
  <2> QED
    BY <2>1, <2>2, <2>3 DEF HandshakeUnderWay
<1>8. ASSUME Faithful', handshakeDone' PROVE DataUnderWay'
  <2>1. DataUnderWay
    BY <1>3, <1>8 DEF WriteInStep, Faithful
  <2> DEFINE m == readKeys.seq
  <2>2. m \in Nat /\ Numbered(q, 0, key, m) /\ client.write.secret = key
        /\ m + Len(q) - 0 = client.write.seq /\ 0 \in Nat /\ 0 <= Len(q)
    BY <1>4, <2>1 DEF DataUnderWay, Shapes, IsKeys
  <2>3. SealedAs(r, key, m + Len(q) - 0)
    BY <1>6, <2>2
  <2>4. Numbered(p, 0, key, m)
    <3> HIDE DEF r, key, q, p, m
    <3> QED
      BY <1>4, <1>5, <2>2, <2>3, NumberedAppend
  <2>5. readKeys'.seq + Len(c2s') = client'.write.seq
    <3>1. client'.write.seq = client.write.seq + 1
      BY <1>6, <2>2
    <3>2. readKeys'.seq = m /\ Len(c2s') = Len(q) + 1
      BY <1>3, <1>5
    <3> HIDE DEF m, q
    <3> QED
      BY <1>4, <2>2, <3>1, <3>2
  <2> QED
    BY <1>3, <1>6, <2>1, <2>2, <2>4, <2>5 DEF DataUnderWay
<1> QED
  BY <1>7, <1>8 DEF WriteInStep

\* The client sends pieces of its handshake.
LEMMA SendsInStep ==
  ASSUME Shapes, ClientShape, ServerOK, ClientOK, WriteInStep, NEW k \in Nat \ {0}, ClientSends(k)
  PROVE  WriteInStep'
<1> DEFINE r == Protect(Handshake, SubSeq(client.out, 1, k))
           last == k = Len(client.out) /\ client.at = "finish"
           key == ApplicationKeys(client.hello).cApp
<1>0. client = [at |-> client.at, plan |-> client.plan, hello |-> client.hello,
               tx |-> client.tx, sched |-> client.sched, read |-> client.read,
               write |-> client.write, out |-> client.out, next |-> client.next,
               sent |-> client.sent, got |-> client.got, rejects |-> client.rejects]
  BY DEF ClientShape
<1>1. /\ client.at \in {"hello", "finish"} /\ k <= Len(client.out) /\ c2s' = Append(c2s, r)
      /\ UNCHANGED serverVars
      /\ client' = [client EXCEPT
                  !.out = SubSeq(client.out, k + 1, Len(client.out)),
                  !.at = IF last THEN "open" ELSE client.at,
                  !.write = IF last THEN [secret |-> client.sched.cApp, seq |-> 0]
                                    ELSE NextWrite]
  BY DEF ClientSends
<1>2. /\ client'.out = SubSeq(client.out, k + 1, Len(client.out))
      /\ client'.at = IF last THEN "open" ELSE client.at
      /\ last => client'.write.secret = client.sched.cApp /\ client'.write.seq = 0
      /\ client'.tx = client.tx /\ client'.next = client.next /\ client'.hello = client.hello
      /\ client'.plan = client.plan
  BY <1>0, <1>1
<1>3. /\ hsBuf' = hsBuf /\ s2c' = s2c /\ handshakeDone' = handshakeDone
      /\ handshakeErr' = handshakeErr
  BY <1>1 DEF serverVars, handshakeVars
<1>4. /\ IsSeq(c2s) /\ Len(c2s) \in Nat /\ IsSeq(client.out) /\ Len(client.out) \in Nat
      /\ client.next \in Nat
  BY SeqIsSeq DEF Shapes, ClientShape
<1>5. /\ IsSeq(SubSeq(client.out, 1, k)) /\ Len(SubSeq(client.out, 1, k)) = k
      /\ IsSeq(client'.out) /\ Len(client'.out) = Len(client.out) - k
  <2>1. /\ IsSeq(SubSeq(client.out, 1, k)) /\ Len(SubSeq(client.out, 1, k)) = k
        /\ IsSeq(SubSeq(client.out, k + 1, Len(client.out)))
        /\ Len(SubSeq(client.out, k + 1, Len(client.out))) = Len(client.out) - k
    BY <1>1, <1>4, CutFacts
  <2> QED
    BY <1>2, <2>1
<1>6. /\ r.inner = Handshake /\ r.data = SubSeq(client.out, 1, k)
      /\ r.outer # ChangeCipherSpec
  <2>1. /\ r.inner = Handshake /\ r.data = SubSeq(client.out, 1, k)
        /\ client.write = NoKeys => r.outer = Handshake
        /\ client.write # NoKeys => r.outer = ApplicationData
    <3>1. IsKeys(client.write)
      BY DEF ClientShape
    <3>2. ASSUME NEW d
          PROVE  /\ Protect(Handshake, d).inner = Handshake /\ Protect(Handshake, d).data = d
                 /\ client.write = NoKeys => Protect(Handshake, d).outer = Handshake
                 /\ client.write # NoKeys => Protect(Handshake, d).outer = ApplicationData
      BY <3>1, ProtectFacts
    <3> QED
      BY <3>2
  <2> QED
    BY <2>1 DEF Handshake, ChangeCipherSpec, ApplicationData
<1>7. /\ Len(c2s') = Len(c2s) + 1 /\ c2s'[Len(c2s) + 1] = r
      /\ \A i \in 1 .. Len(c2s) : c2s'[i] = c2s[i]
  BY <1>1, <1>4, OneMoreToServer
<1>8. \A i \in 1 .. Len(c2s') : IsHandshake(c2s'[i])
  <2>1. \A i \in 1 .. Len(c2s) : IsHandshake(c2s[i])
    BY <1>1 DEF WriteInStep
  <2>2. IsHandshake(r)
    BY <1>6 DEF IsHandshake
  <2>3. ASSUME NEW i \in 1 .. Len(c2s') PROVE IsHandshake(c2s'[i])
    <3>1. CASE i = Len(c2s) + 1
      BY <1>7, <2>2, <3>1
    <3>2. CASE i # Len(c2s) + 1
      <4>1. i \in 1 .. Len(c2s)
        BY <1>4, <1>7, <3>2
      <4> QED
        BY <1>7, <2>1, <4>1
    <3> QED
      BY <3>1, <3>2
  <2> QED
    BY <2>3
<1>9. ASSUME Faithful', ~handshakeDone', handshakeErr' = "nil" PROVE HandshakeUnderWay'
  <2>1. HandshakeUnderWay
    BY <1>2, <1>3, <1>9 DEF WriteInStep, Faithful
  <2>2. \E g : HandshakeInOrder(g)'
    <3>1. /\ IsSeq(r.data) /\ Len(r.data) > 0 /\ Size(r, Handshake) = k
          /\ Len(client'.out) = Len(client.out) - Size(r, Handshake)
      <4>1. IsSeq(r.data) /\ Len(r.data) = k /\ r.inner = Handshake
        BY <1>5, <1>6
      <4> HIDE DEF r
      <4>2. Size(r, Handshake) = k
        BY <4>1 DEF Size
      <4> QED
        BY <1>5, <4>1, <4>2
    <3>2. c2s' = Append(c2s, r) /\ r.outer # ChangeCipherSpec
      BY <1>1, <1>6
    <3> HIDE DEF r
    <3> QED
      BY <1>2, <1>3, <1>5, <2>1, <3>1, <3>2, PieceSent
  <2>3. client'.at # "ccs"
    BY <1>1, <1>2
  <2>4. ASSUME client'.out = <<>> PROVE k = Len(client.out)
    <3>1. Len(client'.out) = 0
      BY <2>4, SeqEmpty
    <3> QED
      BY <1>4, <1>5, <3>1
  <2>5. client'.at = "finish" => client'.out # <<>>
    BY <1>1, <1>2, <2>4
  <2>6. ASSUME client.next >= 7, client'.out = <<>>
        PROVE  SwitchedKeys(Len(c2s) - client.write.seq)'
    <3>1. client.at # "hello" /\ client.sched = ApplicationKeys(client.hello)
      BY <1>4, <2>6 DEF ClientOK, ClientKnows
    <3>2. last
      BY <1>1, <2>4, <2>6, <3>1
    <3>3. client'.write.secret = key /\ client'.write.seq = 0
      BY <1>2, <3>1, <3>2
    <3>4. PICK n \in Nat : n = Len(c2s')
      BY <1>4, <1>7
    <3>5. n = (Len(c2s) - client.write.seq)'
      BY <3>3, <3>4
    <3>6. Numbered(c2s', n, key, 0)
      BY <3>4 DEF Numbered
    <3>7. SwitchedKeys(n)'
      BY <1>2, <1>8, <3>3, <3>4, <3>6 DEF SwitchedKeys
    <3> QED
      BY <3>5, <3>7
  <2> QED
    BY <1>2, <2>2, <2>3, <2>5, <2>6 DEF HandshakeUnderWay
<1>10. ASSUME Faithful', handshakeDone' PROVE FALSE
  BY <1>1, <1>2, <1>3, <1>10 DEF WriteInStep, Faithful, DataUnderWay
<1> QED
  BY <1>8, <1>9, <1>10 DEF WriteInStep

\* The client's ChangeCipherSpec, if it sends one.
LEMMA ChangesInStep ==
  ASSUME Shapes, ClientShape, ServerOK, ClientOK, WriteInStep, NEW sends \in BOOLEAN,
         ClientChangeCipherSpec(sends)
  PROVE  WriteInStep'
<1> DEFINE r == Plaintext(ChangeCipherSpec, <<>>)
<1>0. client = [at |-> client.at, plan |-> client.plan, hello |-> client.hello,
               tx |-> client.tx, sched |-> client.sched, read |-> client.read,
               write |-> client.write, out |-> client.out, next |-> client.next,
               sent |-> client.sent, got |-> client.got, rejects |-> client.rejects]
  BY DEF ClientShape
<1>1. /\ client.at = "ccs" /\ c2s' = IF sends THEN Append(c2s, r) ELSE c2s
      /\ client' = [client EXCEPT !.at = "finish"] /\ UNCHANGED serverVars
  BY DEF ClientChangeCipherSpec
<1>2. /\ client'.out = client.out /\ client'.write = client.write /\ client'.at = "finish"
      /\ client'.tx = client.tx /\ client'.next = client.next /\ client'.hello = client.hello
      /\ client'.plan = client.plan
  BY <1>0, <1>1
<1>3. /\ hsBuf' = hsBuf /\ s2c' = s2c /\ handshakeDone' = handshakeDone
      /\ handshakeErr' = handshakeErr
  BY <1>1 DEF serverVars, handshakeVars
<1>4. /\ IsSeq(c2s) /\ Len(c2s) \in Nat /\ IsSeq(client.out) /\ Len(client.out) \in Nat
      /\ client.next \in Nat
  BY SeqIsSeq DEF Shapes, ClientShape
<1>5. client.next >= 7 /\ client.tx # <<>>
  <2>1. client.next >= 7 /\ client.tx = Transcript6(client.hello)
    BY <1>1 DEF ClientOK, ClientKnows
  <2>2. Transcript6(client.hello) # <<>>
    BY TranscriptNotEmpty, Zenon
  <2> QED
    BY <2>1, <2>2, Zenon
<1>6. Whole = 3
  BY <1>4, <1>5 DEF Whole, HeaderLen, BodyLen
<1>7. /\ r.outer = ChangeCipherSpec /\ r.inner # Handshake /\ r.data = <<>>
      /\ IsSeq(r.data) /\ Size(r, Handshake) = 0 /\ IsHandshake(r)
  BY SeqEmpty DEF Plaintext, Size, IsHandshake, Handshake, ChangeCipherSpec
<1>8. \A i \in 1 .. Len(c2s) : IsHandshake(c2s[i])
  BY <1>1 DEF WriteInStep
<1>9. \A i \in 1 .. Len(c2s') : IsHandshake(c2s'[i])
  <2>1. CASE ~sends
    BY <1>1, <1>8, <2>1
  <2>2. CASE sends
    <3>1. c2s' = Append(c2s, r)
      BY <1>1, <2>2
    <3>2. /\ Len(c2s') = Len(c2s) + 1 /\ c2s'[Len(c2s) + 1] = r
          /\ \A i \in 1 .. Len(c2s) : c2s'[i] = c2s[i]
      BY <1>4, <3>1, OneMoreToServer
    <3>3. ASSUME NEW i \in 1 .. Len(c2s') PROVE IsHandshake(c2s'[i])
      <4>1. CASE i = Len(c2s) + 1
        BY <1>7, <3>2, <4>1
      <4>2. CASE i # Len(c2s) + 1
        <5>1. i \in 1 .. Len(c2s)
          BY <1>4, <3>2, <4>2
        <5> QED
          BY <1>8, <3>2, <5>1
      <4> QED
        BY <4>1, <4>2
    <3> QED
      BY <3>3
  <2> QED
    BY <2>1, <2>2
<1>10. ASSUME Faithful', ~handshakeDone', handshakeErr' = "nil" PROVE HandshakeUnderWay'
  <2>1. HandshakeUnderWay
    BY <1>2, <1>3, <1>10 DEF WriteInStep, Faithful
  <2>2. Len(client.out) = 3 /\ client.out # <<>>
    BY <1>1, <2>1, SeqEmpty DEF HandshakeUnderWay, HeaderLen, BodyLen
  <2>3. \E g : HandshakeInOrder(g)'
    <3>1. CASE sends
      <4>1. /\ c2s' = Append(c2s, r) /\ IsSeq(client'.out)
            /\ Len(client'.out) = Len(client.out) - Size(r, Handshake)
            /\ Whole = Len(client.out)
        <5>1. c2s' = Append(c2s, r)
          BY <1>1, <3>1
        <5> HIDE DEF r
        <5> QED
          BY <1>2, <1>4, <1>6, <1>7, <2>2, <5>1
      <4> HIDE DEF r
      <4> QED
        BY <1>2, <1>3, <1>7, <2>1, <4>1, PieceSent
    <3>2. CASE ~sends
      <4>1. Whole' = Whole
        BY <1>2, <1>3 DEF Whole
      <4> QED
        BY <1>1, <1>2, <1>3, <2>1, <3>2, <4>1 DEF HandshakeUnderWay, HandshakeInOrder
    <3> QED
      BY <3>1, <3>2
  <2> QED
    BY <1>2, <2>2, <2>3 DEF HandshakeUnderWay
<1>11. ASSUME Faithful', handshakeDone' PROVE FALSE
  BY <1>1, <1>2, <1>3, <1>11 DEF WriteInStep, Faithful, DataUnderWay
<1> QED
  BY <1>9, <1>10, <1>11 DEF WriteInStep

\* Whatever else the client sends.
LEMMA SpeaksInStep ==
  ASSUME Shapes, ClientShape, ServerOK, ClientOK, WriteInStep, ClientSpeaks
  PROVE  WriteInStep'
<1>0. client = [at |-> client.at, plan |-> client.plan, hello |-> client.hello,
               tx |-> client.tx, sched |-> client.sched, read |-> client.read,
               write |-> client.write, out |-> client.out, next |-> client.next,
               sent |-> client.sent, got |-> client.got, rejects |-> client.rejects]
  BY DEF ClientShape
<1>1. ASSUME NEW type \in {ApplicationData, NoType}, ClientSkipsFinished(type) PROVE WriteInStep'
  <2>1. /\ client.at = "finish" /\ client.out = <<>>
        /\ client' = [client EXCEPT !.at = "ended"] /\ UNCHANGED serverVars
    BY <1>1 DEF ClientSkipsFinished
  <2>2. client'.plan = client.plan /\ client'.at = "ended"
    BY <1>0, <2>1
  <2>3. handshakeDone' = handshakeDone /\ handshakeErr' = handshakeErr
    BY <2>1 DEF serverVars, handshakeVars
  <2>4. ASSUME Faithful', ~handshakeDone', handshakeErr' = "nil" PROVE FALSE
    BY <2>1, <2>2, <2>3, <2>4 DEF WriteInStep, Faithful, HandshakeUnderWay
  <2>5. ASSUME Faithful', handshakeDone' PROVE FALSE
    BY <2>1, <2>2, <2>3, <2>5 DEF WriteInStep, Faithful, DataUnderWay
  <2> QED
    BY <2>2, <2>4, <2>5 DEF WriteInStep
<1>2. ASSUME NEW k \in 1 .. 2 * (HeaderLen + BodyLen), ClientSends(k) PROVE WriteInStep'
  <2>1. k \in Nat \ {0}
    BY DEF HeaderLen, BodyLen
  <2> QED
    BY <1>2, <2>1, SendsInStep
<1>3. ASSUME NEW sends \in BOOLEAN, ClientChangeCipherSpec(sends) PROVE WriteInStep'
  BY <1>3, ChangesInStep
<1>4. ASSUME NEW k \in 0 .. MaxPlain, ClientWrites(k) PROVE WriteInStep'
  <2> DEFINE data == [i \in 1 .. k |-> client.sent + i]
  <2>1. /\ client.at = "open" /\ c2s' = Append(c2s, Protect(ApplicationData, data))
        /\ client' = [client EXCEPT !.sent = client.sent + k, !.write = NextWrite]
        /\ UNCHANGED serverVars
    BY <1>4 DEF ClientWrites
  <2>2. /\ client'.tx = client.tx /\ client'.next = client.next /\ client'.hello = client.hello
        /\ client'.plan = client.plan /\ client'.out = client.out /\ client'.write = NextWrite
        /\ client'.at \in {"open", "ended"}
    BY <1>0, <2>1
  <2>3. IsSeq(data)
    <3>1. k \in Nat
      BY TLSAssumption
    <3> QED
      BY <3>1 DEF IsSeq
  <2>4. ApplicationData \in {Alert, ApplicationData}
    OBVIOUS
  <2> HIDE DEF data
  <2> QED
    BY <2>1, <2>2, <2>3, <2>4, SealsInStep
<1>5. CASE ClientKeyUpdate \/ ClientSendsPadding
  <2>1. client.at = "open" /\ \E w : client' = [client EXCEPT !.plan = "updated", !.write = w]
    BY <1>5 DEF ClientKeyUpdate, ClientSendsPadding
  <2>2. client'.plan = "updated" /\ client'.at = "open"
    BY <1>0, <2>1
  <2> QED
    BY <2>2 DEF WriteInStep, Faithful
<1>6. ASSUME NEW how, ClientEnds(how, FALSE) PROVE WriteInStep'
  <2>1. /\ c2s' = c2s /\ UNCHANGED serverVars
        /\ client' = [client EXCEPT !.at = "ended", !.write = client.write]
    BY <1>6 DEF ClientEnds
  <2>2. /\ client'.tx = client.tx /\ client'.next = client.next /\ client'.hello = client.hello
        /\ client'.plan = client.plan /\ client'.out = client.out
        /\ client'.write = client.write /\ client'.at = "ended"
    BY <1>0, <2>1
  <2>3. /\ hsBuf' = hsBuf /\ s2c' = s2c /\ handshakeDone' = handshakeDone
        /\ handshakeErr' = handshakeErr /\ readKeys' = readKeys
    BY <2>1 DEF serverVars, handshakeVars
  <2>4. Whole' = Whole
    BY <2>2, <2>3 DEF Whole
  <2>5. \A f : HandshakeInOrder(f)' <=> HandshakeInOrder(f)
    BY <2>1, <2>2, <2>3, <2>4 DEF HandshakeInOrder
  <2>6. \A n : SwitchedKeys(n)' <=> SwitchedKeys(n)
    BY <2>1, <2>2 DEF SwitchedKeys
  <2>7. HandshakeUnderWay => HandshakeUnderWay'
    BY <2>1, <2>2, <2>5, <2>6 DEF HandshakeUnderWay
  <2>8. DataUnderWay => DataUnderWay'
    BY <2>1, <2>2, <2>3 DEF DataUnderWay
  <2> QED
    BY <2>2, <2>3, <2>7, <2>8 DEF WriteInStep, Faithful
<1>7. CASE ClientEnds("clean", TRUE)
  <2>1. /\ c2s' = Append(c2s, Protect(Alert, <<>>)) /\ UNCHANGED serverVars
        /\ client' = [client EXCEPT !.at = "ended", !.write = NextWrite]
    BY <1>7 DEF ClientEnds
  <2>2. /\ client'.tx = client.tx /\ client'.next = client.next /\ client'.hello = client.hello
        /\ client'.plan = client.plan /\ client'.out = client.out /\ client'.write = NextWrite
        /\ client'.at \in {"open", "ended"}
    BY <1>0, <2>1
  <2>3. PICK data : data = <<>> /\ IsSeq(data)
    BY SeqEmpty
  <2>4. Alert \in {Alert, ApplicationData} /\ c2s' = Append(c2s, Protect(Alert, data))
    BY <2>1, <2>3
  <2> QED
    BY <2>1, <2>2, <2>3, <2>4, SealsInStep
<1> QED
  BY <1>1, <1>2, <1>3, <1>4, <1>5, <1>6, <1>7 DEF ClientSpeaks

\* The client's first step.
LEMMA StartsInStep ==
  ASSUME Shapes, ClientShape, ServerOK, ClientOK, PiecesOK, WriteInStep, ClientStarts
  PROVE  WriteInStep'
<1>1. /\ client.tx = <<>> /\ Len(s2c) = 0 /\ client'.next = client.next
      /\ client'.plan = client.plan /\ client'.at = "hello"
  BY StartsStep
<1>2. PICK m : client'.tx = <<m>> /\ client'.out = Units(m)
  BY StartsStep
<1>3. /\ client.at = "start" /\ s2c' = s2c /\ hsBuf' = hsBuf /\ c2s' = c2s
      /\ handshakeDone' = handshakeDone /\ handshakeErr' = handshakeErr
  BY DEF ClientStarts, serverVars, handshakeVars
<1>4. /\ IsSeq(client.out) /\ Len(client.out) \in Nat /\ Len(c2s) \in Nat
      /\ client.next \in Nat /\ client.next <= 1
  BY <1>1, SeqIsSeq DEF Shapes, ClientShape, ClientOK
<1>5. ~handshakeDone
  BY <1>1 DEF ServerOK, SentAt
<1>6. ASSUME Faithful', handshakeErr' = "nil" PROVE HandshakeUnderWay'
  <2>1. HandshakeUnderWay
    BY <1>1, <1>3, <1>5, <1>6 DEF WriteInStep, Faithful
  <2>2. PICK f : HandshakeInOrder(f)
    BY <2>1 DEF HandshakeUnderWay
  <2>3. Whole = 0 /\ Whole' = 3
    BY <1>1, <1>2, <1>3 DEF Whole, HeaderLen, BodyLen
  <2>4. Len(client'.out) = 3 /\ client'.out # <<>>
    <3>1. Len(client'.out) = 3
      BY <1>2, UnitsAre, Zenon
    <3> QED
      BY <3>1, SeqEmpty
  <2>5. Whole - Len(client.out) = 0
    <3>1. Whole - Len(client.out) \in Nat
      <4> DEFINE b == Whole - Len(client.out)
      <4>1. HandshakePieces(f, c2s, Len(hsBuf), b)
        BY <2>2 DEF HandshakeInOrder
      <4> HIDE DEF b
      <4>2. b \in Nat
        BY <1>4, <4>1 DEF HandshakePieces, Counts
      <4> QED
        BY <4>2 DEF b
    <3> QED
      BY <1>4, <2>3, <3>1
  <2>6. (Whole - Len(client.out))' = 0
    BY <2>3, <2>4
  <2>7. HandshakeInOrder(f)'
    BY <1>3, <2>2, <2>5, <2>6 DEF HandshakeInOrder
  <2> QED
    BY <1>1, <1>4, <2>4, <2>7 DEF HandshakeUnderWay
<1>7. \A i \in 1 .. Len(c2s') : IsHandshake(c2s'[i])
  BY <1>3 DEF WriteInStep
<1> QED
  BY <1>3, <1>5, <1>6, <1>7 DEF WriteInStep

\* A record received.
LEMMA ReceivesInStep ==
  ASSUME Shapes, ClientShape, ServerOK, ClientOK, StreamsOK, WriteInStep, ClientReceives
  PROVE  WriteInStep'
<1> DEFINE h == client.hello
<1>1. /\ client.next <= Len(s2c) /\ client'.next = client.next + 1
      /\ client'.hello = h /\ client'.plan = client.plan
      /\ client.next # 6 => client'.out = client.out /\ client'.at = client.at
      /\ client.next = 6 => client'.out = ClientFlight(ClientFinished(h)) /\ client'.at = "ccs"
      /\ client.next # 1 => client'.write = client.write
  BY ReceivesStep
<1>2. ClientOK'
  BY ReceivesStep
<1>3. /\ client.at \in {"hello", "ccs", "finish", "open"} /\ s2c' = s2c /\ hsBuf' = hsBuf
      /\ c2s' = c2s /\ readKeys' = readKeys
      /\ handshakeDone' = handshakeDone /\ handshakeErr' = handshakeErr
  BY DEF ClientReceives, serverVars, handshakeVars
<1>4. /\ IsSeq(client.out) /\ Len(client.out) \in Nat /\ Len(c2s) \in Nat /\ Len(s2c) \in Nat
      /\ client.next \in Nat /\ client.next >= 1
  <2>1. client.next = 1 \/ client.next \in {2, 3, 4, 5, 6} \/ client.next >= 7
    BY DEF ClientOK, ClientKnows
  <2> QED
    BY <2>1, SeqIsSeq DEF Shapes, ClientShape
<1>5. client.next < 7 => client.at = "hello"
  BY <1>3, <1>4 DEF ClientOK, ClientKnows
<1>6. /\ client.next < 7 => Whole = 0
      /\ client.next < 6 => Whole' = 0
      /\ client.next = 6 => Whole' = 3
      /\ client.next >= 7 => Whole = 3 /\ Whole' = 3
  <2>1. client.next < 7 => Whole = 0
    BY <1>1, <1>4 DEF Whole
  <2>2. client.next < 6 => Whole' = 0
    BY <1>1, <1>3, <1>4 DEF Whole
  <2>3. client.next >= 6 => client'.tx # <<>>
    <3>1. Transcript6(h) # <<>>
      BY TranscriptNotEmpty, Zenon
    <3>2. client.next >= 6 => client'.tx = Transcript6(client'.hello)
      BY <1>1, <1>2, <1>4, SMTT(40) DEF ClientOK, ClientKnows
    <3> QED
      BY <1>1, <3>1, <3>2, Zenon
  <2>4. client.next >= 7 => client.tx # <<>>
    <3>1. Transcript6(h) # <<>>
      BY TranscriptNotEmpty, Zenon
    <3>2. client.next >= 7 => client.tx = Transcript6(h)
      BY <1>4 DEF ClientOK, ClientKnows
    <3> QED
      BY <3>1, <3>2, Zenon
  <2>5. client.next = 6 => Whole' = 3
    BY <1>1, <1>4, <2>3 DEF Whole, HeaderLen, BodyLen
  <2>6. client.next >= 7 => Whole = 3 /\ Whole' = 3
    BY <1>1, <1>4, <2>3, <2>4 DEF Whole, HeaderLen, BodyLen
  <2> QED
    BY <2>1, <2>2, <2>5, <2>6
<1>7. ASSUME Faithful', ~handshakeDone', handshakeErr' = "nil" PROVE HandshakeUnderWay'
  <2>1. HandshakeUnderWay /\ Faithful
    BY <1>1, <1>3, <1>7 DEF WriteInStep, Faithful
  <2>2. PICK f : HandshakeInOrder(f)
    BY <2>1 DEF HandshakeUnderWay
  <2>3. CASE client.next = 6
    <3>1. Whole - Len(client.out) = 0
      <4> DEFINE b == Whole - Len(client.out)
      <4>1. HandshakePieces(f, c2s, Len(hsBuf), b)
        BY <2>2 DEF HandshakeInOrder
      <4> HIDE DEF b
      <4>2. b \in Nat
        BY <1>4, <4>1 DEF HandshakePieces, Counts
      <4> QED
        BY <1>4, <1>6, <2>3, <4>2 DEF b
    <3>2. Len(client'.out) = 3 /\ client'.out # <<>>
      <4>1. client'.out = Units(ClientFinished(h))
        BY <1>1, <2>1, <2>3, FlightIs, Zenon
      <4>2. Len(client'.out) = 3
        BY <4>1, UnitsAre, Zenon
      <4> QED
        BY <4>2, SeqEmpty
    <3>3. (Whole - Len(client.out))' = 0
      BY <1>6, <2>3, <3>2
    <3>4. HandshakeInOrder(f)'
      BY <1>3, <2>2, <3>1, <3>3 DEF HandshakeInOrder
    <3> QED
      BY <3>2, <3>4 DEF HandshakeUnderWay, HeaderLen, BodyLen
  <2>4. CASE client.next # 6
    <3>1. client'.out = client.out /\ client'.at = client.at /\ Whole' = Whole
      BY <1>1, <1>4, <1>6, <2>4
    <3>2. HandshakeInOrder(f)'
      BY <1>3, <2>2, <3>1 DEF HandshakeInOrder
    <3>3. ASSUME client'.next >= 7, client'.out = <<>>
          PROVE  SwitchedKeys(Len(c2s) - client.write.seq)'
      <4>1. client.next >= 7 /\ client'.write = client.write
        BY <1>1, <1>4, <2>4, <3>3
      <4>2. SwitchedKeys(Len(c2s) - client.write.seq)
        BY <2>1, <3>1, <3>3, <4>1 DEF HandshakeUnderWay
      <4> QED
        BY <1>1, <1>3, <4>1, <4>2 DEF SwitchedKeys
    <3> QED
      BY <2>1, <3>1, <3>2, <3>3 DEF HandshakeUnderWay
  <2> QED
    BY <2>3, <2>4
<1>8. ASSUME Faithful', handshakeDone' PROVE DataUnderWay'
  <2>1. DataUnderWay
    BY <1>1, <1>3, <1>8 DEF WriteInStep, Faithful
  <2>2. client.next >= 7
    BY <1>4, <1>5, <2>1 DEF DataUnderWay
  <2>3. client'.out = client.out /\ client'.at = client.at /\ client'.write = client.write
    BY <1>1, <1>4, <2>2
  <2> QED
    BY <1>1, <1>3, <2>1, <2>3 DEF DataUnderWay
<1>9. client'.at \in {"start", "hello", "ccs", "finish"} =>
        \A i \in 1 .. Len(c2s') : IsHandshake(c2s'[i])
  <2>1. CASE client.next = 6
    BY <1>3, <1>4, <1>5, <2>1 DEF WriteInStep
  <2>2. CASE client.next # 6
    BY <1>1, <1>3, <2>2 DEF WriteInStep
  <2> QED
    BY <2>1, <2>2
<1> QED
  BY <1>7, <1>8, <1>9 DEF WriteInStep

------------------------------------------------------------------------------
(***************************************************************************)
(* The invariant is inductive.                                             *)
(***************************************************************************)

\* It holds at the start.
LEMMA TLSStarts ==
  ASSUME TLSInit
  PROVE  TLSIInv
<1>1. PICK c \in Clients :
        client = [at |-> "start", plan |-> c.plan, hello |-> c.hello, tx |-> <<>>, sched |-> NoSchedule,
                  read |-> NoKeys, write |-> NoKeys, out |-> <<>>, next |-> 1,
                  sent |-> 0, got |-> <<>>, rejects |-> FALSE]
  BY DEF TLSInit
<1>2. /\ client.at = "start" /\ client.hello = c.hello /\ client.tx = <<>>
      /\ client.read = NoKeys /\ client.write = NoKeys /\ client.out = <<>> /\ client.next = 1
      /\ client.sent = 0 /\ client.got = <<>> /\ client.rejects = FALSE
  BY <1>1
<1>3. IsSeq(<<>>) /\ Len(<<>>) = 0
  BY SeqEmpty
<1>4. /\ pc = "idle" /\ tx = <<>> /\ schedule = NoSchedule /\ readKeys = NoKeys
      /\ writeKeys = NoKeys /\ hsBuf = <<>> /\ handshakeDone = FALSE /\ handshakeErr = "nil"
      /\ inAppData = <<>> /\ appErr = "nil" /\ pending = 0 /\ written = 0
      /\ delivered = <<>> /\ s2c = <<>> /\ c2s = <<>>
  BY DEF TLSInit
<1>5. Len(s2c) = 0 /\ Len(c2s) = 0 /\ Len(hsBuf) = 0 /\ Len(delivered) = 0 /\ Len(inAppData) = 0
      /\ Len(client.out) = 0 /\ Len(client.got) = 0
  BY <1>2, <1>3, <1>4, Zenon
<1>6. Shapes
  <2>1. IsKeys(NoKeys) /\ 0 <= ServerBytes
    BY TLSAssumption DEF IsKeys, NoKeys
  <2>2. IsSeq(hsBuf) /\ IsSeq(s2c) /\ IsSeq(c2s) /\ IsSeq(delivered) /\ IsSeq(inAppData)
    BY <1>3, <1>4, Zenon
  <2>3. IsKeys(readKeys) /\ IsKeys(writeKeys)
    BY <1>4, <2>1, Zenon
  <2>4. pc \in {"idle", "ClientHello", "ChangeCipherSpec", "ClientFinished"} \cup DOMAIN After
    BY <1>4
  <2>5. /\ pending \in Nat /\ written \in Nat /\ pending <= written /\ written <= ServerBytes
        /\ \A i \in 1 .. Len(c2s) : IsSeq(c2s[i].data)
    BY <1>4, <1>5, <2>1
  <2>6. handshakeDone \in BOOLEAN
    BY <1>4
  <2> QED
    BY <2>2, <2>3, <2>4, <2>5, <2>6 DEF Shapes
<1>7. ClientShape
  <2>1. client = [at |-> client.at, plan |-> client.plan, hello |-> client.hello,
               tx |-> client.tx, sched |-> client.sched, read |-> client.read,
               write |-> client.write, out |-> client.out, next |-> client.next,
               sent |-> client.sent, got |-> client.got, rejects |-> client.rejects]
    BY <1>1
  <2>2. IsKeys(client.write) /\ client.write.secret = <<>>
    BY <1>2 DEF IsKeys, NoKeys
  <2>3. IsSeq(client.write.secret) /\ IsSeq(client.out) /\ IsSeq(client.got)
    BY <1>2, <1>3, <2>2, Zenon
  <2> QED
    BY <1>2, <2>1, <2>2, <2>3 DEF ClientShape
<1>8. ServerOK
  BY <1>4, <1>5 DEF ServerOK, SentAt, Knows, UsesKeys, Sent
<1>9. ClientOK
  BY <1>2, <1>5 DEF ClientOK, ClientKnows
<1>10. PiecesOK /\ Agreed
  BY <1>4, <1>5 DEF PiecesOK, Agreed
<1>11. StreamsOK
  <2> DEFINE f == [i \in 0 .. 0 |-> 0]
  <2>1. f \in [0 .. 0 -> Nat] /\ f[0] = 0
    OBVIOUS
  <2> HIDE DEF f
  <2>2. InOrder(f, c2s, 0, 0)
    BY <1>5, <2>1 DEF InOrder, Counts
  <2>3. FromClient
    BY <1>2, <1>5, <2>2 DEF FromClient, DataInOrder
  <2>4. ToClient
    BY <1>2, <1>4, <1>5 DEF ToClient
  <2> QED
    BY <2>3, <2>4 DEF StreamsOK
<1>13. WithinWritten
  BY <1>5 DEF WithinWritten
<1>12. WriteInStep
  <2> DEFINE f == [i \in 0 .. 0 |-> 0]
  <2>1. f \in [0 .. 0 -> Nat] /\ f[0] = 0
    OBVIOUS
  <2> HIDE DEF f
  <2>2. HandshakePieces(f, c2s, 0, 0)
    BY <1>5, <2>1 DEF HandshakePieces, Counts
  <2>3. Whole = 0
    BY <1>2 DEF Whole
  <2>4. HandshakeInOrder(f)
    BY <1>5, <2>2, <2>3 DEF HandshakeInOrder
  <2> QED
    BY <1>2, <1>4, <1>5, <2>4 DEF WriteInStep, HandshakeUnderWay
<1> QED
  BY <1>6, <1>7, <1>8, <1>9, <1>10, <1>11, <1>12, <1>13 DEF TLSIInv

\* Every step of the server keeps it.
LEMMA ServerKeeps ==
  ASSUME TLSIInv, Server
  PROVE  TLSIInv'
<1>1. Shapes /\ ClientShape /\ ServerOK /\ ClientOK /\ PiecesOK /\ Agreed /\ WriteInStep
      /\ FromClient /\ ToClient /\ WithinWritten
  BY DEF TLSIInv, StreamsOK
<1>2. Shapes' /\ ServerOK' /\ ClientShape' /\ ClientOK'
  BY <1>1, ServerStep
<1>3. PiecesOK' /\ Agreed' /\ WriteInStep'
  BY <1>1, ServerPieces, ServerAgreed, ServerInStep
<1>4. FromClient' /\ ToClient' /\ WithinWritten'
  BY <1>1, ServerFromClient, ServerToClient, ServerWithinWritten
<1> QED
  BY <1>2, <1>3, <1>4 DEF TLSIInv, StreamsOK

\* Every step of the client keeps it.
LEMMA ClientKeeps ==
  ASSUME TLSIInv, Client
  PROVE  TLSIInv'
<1>1. Shapes /\ ClientShape /\ ServerOK /\ ClientOK /\ PiecesOK /\ Agreed /\ WriteInStep
      /\ StreamsOK /\ WithinWritten
  BY DEF TLSIInv
<1>2. FromClient' /\ ToClient' /\ WithinWritten'
  <2>1. UNCHANGED serverVars
    BY <1>1, ClientKinds, SpeaksFields DEF ClientStarts, ClientReceives
  <2>2. WithinWritten'
    BY <1>1, <2>1 DEF WithinWritten, serverVars, appVars
  <2> QED
    BY <1>1, <2>2, ClientFromClient, ClientToClient
<1>3. CASE ClientStarts
  <2>1. Shapes' /\ ServerOK' /\ ClientShape' /\ ClientOK' /\ client'.next = client.next
    BY <1>1, <1>3, StartsStep
  <2>2. PiecesOK' /\ WriteInStep'
    BY <1>1, <1>3, StartsPieces, StartsInStep
  <2>3. Agreed'
    BY <1>1, <1>3, <2>1 DEF Agreed, ClientStarts, serverVars, handshakeVars
  <2> QED
    BY <1>2, <2>1, <2>2, <2>3 DEF TLSIInv, StreamsOK
<1>4. CASE ClientReceives
  <2>1. Shapes' /\ ServerOK' /\ ClientShape' /\ ClientOK' /\ client'.next = client.next + 1
    BY <1>1, <1>4, ReceivesStep
  <2>2. PiecesOK' /\ WriteInStep'
    BY <1>1, <1>4, ReceivesPieces, ReceivesInStep
  <2>3. handshakeDone' = handshakeDone /\ client.next \in Nat
    BY <1>1, <1>4 DEF ClientReceives, serverVars, handshakeVars, ClientShape
  <2>4. Agreed'
    BY <1>1, <2>1, <2>3 DEF Agreed
  <2> QED
    BY <1>2, <2>1, <2>2, <2>4 DEF TLSIInv, StreamsOK
<1>5. CASE ClientSpeaks
  <2>1. Shapes' /\ ServerOK' /\ ClientShape' /\ ClientOK'
    BY <1>1, <1>5, SpeaksStep
  <2>2. PiecesOK' /\ WriteInStep'
    BY <1>1, <1>5, SpeaksPieces, SpeaksInStep
  <2>3. UNCHANGED serverVars /\ client'.next = client.next
    BY <1>1, <1>5, SpeaksFields
  <2>4. Agreed'
    BY <1>1, <2>3 DEF Agreed, serverVars, handshakeVars
  <2> QED
    BY <1>2, <2>1, <2>2, <2>4 DEF TLSIInv, StreamsOK
<1> QED
  BY <1>3, <1>4, <1>5, ClientKinds

\* A step that changes nothing keeps it.
LEMMA TLSStutters ==
  ASSUME TLSIInv, UNCHANGED tlsVars
  PROVE  TLSIInv'
<1> USE DEF tlsVars, handshakeVars, appVars
<1>1. Shapes' /\ ClientShape'
  BY DEF TLSIInv, Shapes, ClientShape
<1>2. ServerOK'
  BY DEF TLSIInv, ServerOK, SentAt, Knows, UsesKeys, Sent
<1>3. ClientOK'
  BY DEF TLSIInv, ClientOK, ClientKnows
<1>4. PiecesOK' /\ Agreed'
  BY DEF TLSIInv, PiecesOK, Genuine, Agreed
<1>5. StreamsOK' /\ WithinWritten'
  BY DEF TLSIInv, StreamsOK, FromClient, ToClient, DataInOrder, WithinWritten
<1>6. WriteInStep'
  <2>1. WriteInStep
    BY DEF TLSIInv
  <2> QED
    BY <2>1, InStepKept
<1> QED
  BY <1>1, <1>2, <1>3, <1>4, <1>5, <1>6 DEF TLSIInv

\* What the server has sent, what the client knows and what is on its way
\* between them, at every moment of the connection.
THEOREM TLSInvariant == TLSSpec => []TLSIInv
<1>1. TLSInit => TLSIInv
  BY TLSStarts
<1>2. TLSIInv /\ [TLSNext]_tlsVars => TLSIInv'
  BY ServerKeeps, ClientKeeps, TLSStutters DEF TLSNext
<1> QED
  BY <1>1, <1>2, PTL DEF TLSSpec

------------------------------------------------------------------------------
(***************************************************************************)
(* The properties.                                                         *)
(***************************************************************************)

\* The variables keep their types, there are no keys before the ServerHello
\* and keys in both directions afterwards.
THEOREM TLSTypeCorrect == TLSSpec => []TLSTypeOK
<1>1. TLSIInv => TLSTypeOK
  <2> SUFFICES ASSUME TLSIInv PROVE TLSTypeOK
    OBVIOUS
  <2>1. Shapes /\ SentAt /\ UsesKeys(client.hello)
    BY DEF TLSIInv, ServerOK
  <2>2. /\ pc \in {"idle", "ClientHello", "ChangeCipherSpec", "ClientFinished"} \cup DOMAIN After
        /\ handshakeDone \in BOOLEAN /\ readKeys.seq \in Nat /\ writeKeys.seq \in Nat
        /\ pending \in 0 .. written /\ written \in 0 .. ServerBytes
    BY <2>1, TLSAssumption DEF Shapes, IsKeys
  <2>3. Len(s2c) \in Nat
    BY <2>1, SeqIsSeq DEF Shapes
  <2>4. pc = "ClientHello" => readKeys = NoKeys /\ writeKeys = NoKeys
    BY <2>1 DEF SentAt, UsesKeys
  <2>5. (readKeys = NoKeys) <=> (writeKeys = NoKeys)
    BY <2>1, <2>3 DEF UsesKeys, NoKeys
  <2>6. handshakeDone => handshakeErr = "nil" /\ hsBuf = <<>> /\ pc = "idle"
    BY <2>1 DEF SentAt
  <2> QED
    BY <2>2, <2>4, <2>5, <2>6 DEF TLSTypeOK
<1> QED
  BY <1>1, TLSInvariant, PTL

\* A client that follows the RFC can open every record the server seals and
\* agrees with every check value in it.
THEOREM ClientAlwaysAccepts == TLSSpec => []ClientAccepts
<1>1. TLSIInv => ClientAccepts
  BY DEF TLSIInv, ClientOK, ClientAccepts
<1> QED
  BY <1>1, TLSInvariant, PTL

\* No two records are sealed under the same secret with the same number,
\* however many records the server writes.
THEOREM NoncesAlwaysUnique == TLSSpec => []NoncesUnique
<1>1. TLSIInv => NoncesUnique
  <2> SUFFICES ASSUME TLSIInv,
                      NEW i \in DOMAIN s2c, NEW j \in DOMAIN s2c, i # j,
                      s2c[i].outer = ApplicationData, s2c[j].outer = ApplicationData
               PROVE  s2c[i].secret # s2c[j].secret \/ s2c[i].seq # s2c[j].seq
    BY DEF NoncesUnique
  <2> DEFINE a == HandshakeKeys(client.hello).sHS
             b == ApplicationKeys(client.hello).sApp
  <2>1. Len(s2c) \in Nat /\ DOMAIN s2c = 1 .. Len(s2c)
    BY SeqIsSeq DEF TLSIInv, Shapes
  <2>2. ASSUME NEW n \in 1 .. Len(s2c), s2c[n].outer = ApplicationData
        PROVE  \/ n <= 6 /\ s2c[n].secret = a /\ s2c[n].seq = n - 3
               \/ n >= 7 /\ s2c[n].secret = b /\ s2c[n].seq = n - 7
    <3>1. Sent(client.hello)
      BY DEF TLSIInv, ServerOK
    <3>2. CASE n \in {1, 2}
      BY <2>1, <2>2, <3>1, <3>2 DEF Sent, Plaintext, Handshake, ChangeCipherSpec, ApplicationData
    <3>3. CASE n \in {3, 4, 5, 6}
      BY <2>1, <3>1, <3>3 DEF Sent, HandshakeRecord, Seal
    <3>4. CASE n >= 7
      BY <2>1, <3>1, <3>4 DEF Sent
    <3> QED
      BY <2>1, <3>2, <3>3, <3>4
  <2>3. a # b
    BY SecretsDiffer, Zenon
  <2> HIDE DEF a, b
  <2>4. i \in 1 .. Len(s2c) /\ j \in 1 .. Len(s2c)
    BY <2>1
  <2> QED
    BY <2>1, <2>2, <2>3, <2>4
<1> QED
  BY <1>1, TLSInvariant, PTL

\* After the handshake client and server have the same transcript and the
\* same secrets, and their record numbers differ by the records under way.
THEOREM KeysAlwaysInStep == TLSSpec => []KeysInStep
<1>1. TLSIInv => KeysInStep
  <2> DEFINE vain == IF appErr = "write" THEN 1 ELSE 0
  <2> SUFFICES ASSUME TLSIInv, handshakeDone
               PROVE  /\ client.tx = tx
                      /\ client.read.secret = writeKeys.secret
                      /\ client.read.seq + Len(s2c) + 1 - client.next + vain = writeKeys.seq
                      /\ client.plan \in {"honest", "update"} =>
                           /\ client.write.secret = readKeys.secret
                           /\ readKeys.seq + Len(c2s) = client.write.seq
    BY DEF KeysInStep
  <2> DEFINE h == client.hello
  <2>1. /\ client.next \in Nat /\ client.next >= 7 /\ Len(s2c) \in Nat /\ Len(s2c) >= 6
    BY SeqIsSeq DEF TLSIInv, ClientShape, Agreed, Shapes, ServerOK, SentAt
  <2>2. /\ client.tx = Transcript6(h)
        /\ client.read = [secret |-> ApplicationKeys(h).sApp, seq |-> client.next - 7]
    BY <2>1 DEF TLSIInv, ClientOK, ClientKnows
  <2>3. /\ tx = Transcript6(h) /\ writeKeys.secret = ApplicationKeys(h).sApp
        /\ readKeys.secret = ApplicationKeys(h).cApp
        /\ appErr # "write" => writeKeys.seq = Len(s2c) - 6
        /\ appErr = "write" => writeKeys.seq = Len(s2c) - 5
    <3>1. Knows(h) /\ UsesKeys(h)
      BY DEF TLSIInv, ServerOK
    <3>2. Len(s2c) # 0 /\ Len(s2c) \notin {1, 2} /\ Len(s2c) # 3 /\ Len(s2c) # 4 /\ Len(s2c) # 5
      <4>1. PICK c \in Nat : c = Len(s2c) /\ c >= 6
        BY <2>1
      <4>2. c # 0 /\ c \notin {1, 2} /\ c # 3 /\ c # 4 /\ c # 5
        BY <4>1
      <4> QED
        BY <4>1, <4>2, Zenon
    <3>3. tx = Transcript6(h)
      BY <3>1, <3>2, Zenon DEF Knows
    <3>4. /\ writeKeys.secret = ApplicationKeys(h).sApp
          /\ readKeys.secret = ApplicationKeys(h).cApp
          /\ appErr # "write" => writeKeys.seq = Len(s2c) - 6
          /\ appErr = "write" => writeKeys.seq = Len(s2c) - 5
      BY <3>1 DEF UsesKeys
    <3> QED
      BY <3>3, <3>4
  <2>4. client.read.secret = ApplicationKeys(h).sApp /\ client.read.seq = client.next - 7
    BY <2>2
  <2>5. client.read.seq + Len(s2c) + 1 - client.next + vain = writeKeys.seq
    BY <2>1, <2>3, <2>4
  <2>6. ASSUME client.plan \in {"honest", "update"}
        PROVE  /\ client.write.secret = readKeys.secret
               /\ readKeys.seq + Len(c2s) = client.write.seq
    <3>1. DataUnderWay
      BY <2>6 DEF TLSIInv, WriteInStep, Faithful
    <3> QED
      BY <2>3, <3>1 DEF DataUnderWay
  <2> QED
    BY <2>2, <2>3, <2>4, <2>5, <2>6
<1> QED
  BY <1>1, TLSInvariant, PTL

\* A handshake that has failed after its ServerHello is over: no step sends,
\* delivers or changes anything, and the error stays.
THEOREM FailureAlwaysFinal == TLSSpec => FailureIsFinal
<1>1. ASSUME TLSIInv, [TLSNext]_tlsVars, pc = "idle", ~handshakeDone, s2c # <<>>
      PROVE  UNCHANGED <<pc, handshakeErr, handshakeDone, s2c, readKeys, writeKeys, delivered>>
  <2> DEFINE Goal == UNCHANGED <<pc, handshakeErr, handshakeDone, s2c, readKeys, writeKeys, delivered>>
  <2>1. CASE UNCHANGED tlsVars
    BY <2>1 DEF tlsVars, handshakeVars, appVars
  <2>2. CASE Client
    <3>1. UNCHANGED serverVars
      BY <1>1, <2>2, ClientKinds, SpeaksFields DEF ClientStarts, ClientReceives, TLSIInv
    <3> QED
      BY <3>1 DEF serverVars, handshakeVars, appVars
  <2>3. CASE Server
    <3>1. SentAt /\ IsSeq(s2c)
      BY <1>1 DEF TLSIInv, ServerOK, Shapes
    <3>2. Len(s2c) # 0
      BY <1>1, <3>1, SeqEmpty
    <3>3. handshakeErr # "nil" /\ pending = 0
      BY <1>1, <3>1, <3>2 DEF SentAt
    <3>4. ~CallHandshake /\ ~WriteChunk /\ ~WriteChunkFails /\ ~ReadAppEnd
      BY <1>1, <3>3 DEF CallHandshake, WriteChunk, WriteChunkFails, ReadAppEnd, AppReads
    <3>5. /\ \A n : ~ReadBuffered(n) /\ ~ReadAppRecord(n) /\ ~Write(n)
      BY <1>1 DEF ReadBuffered, ReadAppRecord, Write, AppReads
    <3>6. /\ ~ReadHandshakeRecord /\ ~ReadHandshakeEnd /\ ~WriteServerHelloFails
          /\ ~HandleClientHello /\ ~WriteChangeCipherSpec /\ ~HandleClientFinished
      BY <1>1 DEF ReadHandshakeRecord, ReadHandshakeEnd, WriteServerHelloFails,
                  HandleClientHello, WriteChangeCipherSpec, HandleClientFinished
    <3>7. ~WriteFlight /\ ~WriteFails
      BY <1>1 DEF WriteFlight, WriteFails, After
    <3> QED
      BY <2>3, <3>4, <3>5, <3>6, <3>7 DEF Server
  <2> QED
    BY <1>1, <2>1, <2>2, <2>3 DEF TLSNext
<1>2. TLSIInv /\ [TLSNext]_tlsVars =>
        [pc = "idle" /\ ~handshakeDone /\ s2c # <<>> =>
           UNCHANGED <<pc, handshakeErr, handshakeDone, s2c, readKeys, writeKeys, delivered>>]_tlsVars
  BY <1>1
<1> QED
  BY <1>2, TLSInvariant, PTL DEF TLSSpec, FailureIsFinal

------------------------------------------------------------------------------
(***************************************************************************)
(* The connection is a secure channel.                                     *)
(***************************************************************************)

\* s begins t, element by element.
LEMMA BeginsIs ==
  ASSUME NEW s, NEW t, IsSeq(s), IsSeq(t), Len(s) <= Len(t),
         \A i \in 1 .. Len(s) : s[i] = t[i]
  PROVE  Channel!Begins(s, t)
<1>1. Len(s) \in Nat /\ Len(t) \in Nat
  BY SeqIsSeq
<1> DEFINE n == Len(s)
<1>2. 1 \in Nat \ {0} /\ n \in Nat /\ n <= Len(t) /\ 1 <= n + 1
  BY <1>1
<1>3. n - 1 + 1 = n /\ \A i \in 1 .. n : 1 + i - 1 = i
  BY <1>1
<1>4. /\ IsSeq(SubSeq(t, 1, n)) /\ Len(SubSeq(t, 1, n)) = n
      /\ \A i \in 1 .. n : SubSeq(t, 1, n)[i] = t[i]
  <2>1. /\ IsSeq(SubSeq(t, 1, n)) /\ Len(SubSeq(t, 1, n)) = n - 1 + 1
        /\ \A i \in 1 .. n - 1 + 1 : SubSeq(t, 1, n)[i] = t[1 + i - 1]
    <3> HIDE DEF n
    <3> QED
      BY <1>2, SeqPart
  <2> QED
    BY <1>3, <2>1
<1>5. \A i \in 1 .. n : SubSeq(t, 1, n)[i] = s[i]
  BY <1>4
<1>6. SubSeq(t, 1, n) = s
  <2> DEFINE u == SubSeq(t, 1, n)
  <2>1. IsSeq(u) /\ Len(u) = Len(s) /\ \A i \in 1 .. Len(u) : u[i] = s[i]
    BY <1>4, <1>5
  <2> HIDE DEF u
  <2>2. u = s
    BY <2>1, SeqEqual, Zenon
  <2> QED
    BY <2>2 DEF u
<1> QED
  BY <1>6 DEF Channel!Begins

\* The positions up to n.
LEMMA PositionsAre ==
  ASSUME NEW n \in Nat
  PROVE  /\ IsSeq(Positions(n)) /\ Len(Positions(n)) = n
         /\ \A i \in 1 .. n : Positions(n)[i] = i
BY DEF Positions, IsSeq

\* Longer streams begin with shorter ones.
LEMMA PositionsGrow ==
  ASSUME NEW m \in Nat, NEW n \in Nat, m <= n
  PROVE  Channel!Begins(Positions(m), Positions(n))
<1> DEFINE s == Positions(m)
           t == Positions(n)
<1>1. /\ IsSeq(s) /\ IsSeq(t) /\ Len(s) = m /\ Len(t) = n
      /\ (\A i \in 1 .. m : s[i] = i) /\ (\A i \in 1 .. n : t[i] = i)
  BY PositionsAre
<1> HIDE DEF s, t
<1>2. Channel!Begins(s, t)
  BY <1>1, BeginsIs
<1> QED
  BY <1>2 DEF s, t

\* A stream that counts from 1 begins the positions up to n.
LEMMA CountsBegin ==
  ASSUME NEW s, IsSeq(s), \A i \in 1 .. Len(s) : s[i] = i, NEW n \in Nat, Len(s) <= n
  PROVE  Channel!Begins(s, Positions(n))
<1> DEFINE t == Positions(n)
<1>1. IsSeq(t) /\ Len(t) = n /\ \A i \in 1 .. n : t[i] = i
  BY PositionsAre
<1>2. Len(s) \in Nat
  BY SeqIsSeq
<1> HIDE DEF t
<1>3. Channel!Begins(s, t)
  BY <1>1, <1>2, BeginsIs
<1> QED
  BY <1>3 DEF t

\* The longer of two streams that count from 1 begins with the shorter one.
LEMMA CountsGrow ==
  ASSUME NEW s, NEW t, IsSeq(s), IsSeq(t), Len(s) <= Len(t),
         \A i \in 1 .. Len(s) : s[i] = i, \A i \in 1 .. Len(t) : t[i] = i
  PROVE  Channel!Begins(s, t)
<1>1. Len(s) \in Nat /\ Len(t) \in Nat
  BY SeqIsSeq
<1> QED
  BY <1>1, BeginsIs

\* The server's application reads.
LEMMA ReadsInChannel ==
  ASSUME TLSIInv, TLSIInv', NEW n \in Nat, ReadBuffered(n) \/ ReadAppRecord(n)
  PROVE  Channel!ServerReads \/ UNCHANGED Channel!channelVars
<1>1. /\ handshakeDone /\ handshakeDone' = handshakeDone /\ written' = written /\ client' = client
  BY DEF ReadBuffered, ReadAppRecord, AppReads, handshakeVars
<1>2. CASE delivered' = delivered
  BY <1>1, <1>2 DEF Channel!channelVars
<1>3. CASE delivered' # delivered
  <2>1. /\ IsSeq(delivered) /\ IsSeq(inAppData) /\ IsSeq(delivered') /\ IsSeq(inAppData')
        /\ Len(delivered') \in Nat /\ Len(inAppData') \in Nat /\ client.sent \in Nat
    BY SeqIsSeq DEF TLSIInv, Shapes, ClientShape
  <2>2. PICK data : Deliver(data, n) /\ IsSeq(data)
    <3>1. CASE ReadBuffered(n)
      BY <2>1, <3>1 DEF ReadBuffered
    <3>2. CASE ReadAppRecord(n)
      <4>1. Deliver(Head(c2s).data, n) /\ c2s # <<>>
        BY <1>3, <3>2 DEF ReadAppRecord
      <4>2. IsSeq(Head(c2s).data)
        BY <4>1, SeqTail, SeqIsSeq DEF TLSIInv, Shapes
      <4> QED
        BY <4>1, <4>2
    <3> QED
      BY <3>1, <3>2
  <2>3. Len(delivered) <= Len(delivered')
    <3> DEFINE k == Least(n, Len(data))
    <3>1. /\ delivered' = delivered \o SubSeq(data, 1, k)
          /\ inAppData' = SubSeq(data, k + 1, Len(data))
      BY <2>2 DEF Deliver
    <3> HIDE DEF k
    <3>2. /\ k \in 0 .. Len(data) /\ Len(data) \in Nat /\ Len(delivered) \in Nat
          /\ Len(delivered') = Len(delivered) + k
      BY <2>1, <2>2, <3>1, DeliverFacts DEF k
    <3> QED
      BY <3>2
  <2>4. /\ \A i \in 1 .. Len(delivered) : delivered[i] = i
        /\ \A i \in 1 .. Len(delivered') : delivered'[i] = i
        /\ Len(delivered') + Len(inAppData') <= client'.sent
    BY DEF TLSIInv, StreamsOK, FromClient
  <2>5. Len(delivered') <= client.sent
    BY <1>1, <2>1, <2>4
  <2>6. Channel!Begins(delivered, delivered')
    <3>1. PICK s, t : s = delivered /\ t = delivered'
      OBVIOUS
    <3>2. /\ IsSeq(s) /\ IsSeq(t) /\ Len(s) <= Len(t)
          /\ (\A i \in 1 .. Len(s) : s[i] = i) /\ (\A i \in 1 .. Len(t) : t[i] = i)
      BY <2>1, <2>3, <2>4, <3>1
    <3>3. Channel!Begins(s, t)
      BY <3>2, CountsGrow
    <3> QED
      BY <3>1, <3>3
  <2>7. Channel!Begins(delivered', Positions(client.sent))
    <3>1. PICK m \in Nat : m = client.sent
      BY <2>1
    <3>a. PICK t : t = delivered'
      OBVIOUS
    <3>2. IsSeq(t) /\ (\A i \in 1 .. Len(t) : t[i] = i) /\ Len(t) <= m
      BY <2>1, <2>4, <2>5, <3>1, <3>a
    <3>3. Channel!Begins(t, Positions(m))
      BY <3>2, CountsBegin
    <3> QED
      BY <3>1, <3>3, <3>a
  <2> QED
    BY <1>1, <2>6, <2>7 DEF Channel!ServerReads
<1> QED
  BY <1>2, <1>3

\* The server's application writes.
LEMMA WritesInChannel ==
  ASSUME TLSIInv, NEW n \in Nat, Write(n)
  PROVE  Channel!ServerWrites
<1>1. /\ handshakeDone /\ handshakeDone' = handshakeDone /\ client' = client
      /\ delivered' = delivered /\ written' = written + n
  BY DEF Write, handshakeVars
<1>2. PICK a \in Nat, b \in Nat : a = written /\ b = written' /\ a <= b
  BY <1>1 DEF TLSIInv, Shapes
<1>3. Channel!Begins(Positions(a), Positions(b))
  BY <1>2, PositionsGrow
<1>4. Channel!Begins(Positions(written), Positions(written'))
  BY <1>2, <1>3
<1> QED
  BY <1>1, <1>4 DEF Channel!ServerWrites

\* The client reads.
LEMMA ReceivesInChannel ==
  ASSUME TLSIInv, TLSIInv', ClientReceives
  PROVE  Channel!ClientReads
<1>0. Shapes /\ ServerOK /\ ClientShape /\ ClientOK /\ StreamsOK
  BY DEF TLSIInv
<1>1. /\ client'.sent = client.sent
      /\ client.next < 7 => client'.got = client.got
      /\ client.next >= 7 => client'.got = client.got \o s2c[client.next].data
      /\ client.next <= Len(s2c)
  BY <1>0, ReceivesStep
<1>2. handshakeDone' = handshakeDone /\ delivered' = delivered /\ written' = written
      /\ pending' = pending /\ s2c' = s2c
  BY DEF ClientReceives, serverVars, handshakeVars, appVars
<1>3. /\ IsSeq(client.got) /\ IsSeq(client'.got) /\ Len(client.got) \in Nat
      /\ Len(client'.got) \in Nat /\ client.next \in Nat /\ written \in Nat /\ pending \in Nat
      /\ Len(s2c) \in Nat /\ client'.next \in Nat
  BY SeqIsSeq DEF TLSIInv, ClientShape, Shapes
<1>4. Len(client.got) <= Len(client'.got)
  <2>1. CASE client.next < 7
    BY <1>1, <1>3, <2>1
  <2>2. CASE client.next >= 7
    <3>1. client.next \in 7 .. Len(s2c)
      BY <1>1, <1>3, <2>2
    <3>2. PICK d : d = s2c[client.next].data /\ IsSeq(d)
      BY <1>0, <3>1 DEF StreamsOK, ToClient
    <3>3. Len(client.got \o d) = Len(client.got) + Len(d) /\ Len(d) \in Nat
      BY <1>3, <3>2, SeqConcat, SeqIsSeq
    <3>4. Len(client'.got) = Len(client.got) + Len(d)
      BY <1>1, <2>2, <3>2, <3>3, Zenon
    <3> QED
      BY <1>3, <3>3, <3>4
  <2> QED
    BY <1>3, <2>1, <2>2
<1>5. /\ \A i \in 1 .. Len(client.got) : client.got[i] = i
      /\ \A i \in 1 .. Len(client'.got) : client'.got[i] = i
  BY DEF TLSIInv, StreamsOK, ToClient
<1>6. Len(client'.got) <= written
  <2>1. CASE client'.next <= 7
    <3>1. client'.got = <<>>
      BY <2>1 DEF TLSIInv, StreamsOK, ToClient
    <3> QED
      BY <1>3, <3>1, SeqEmpty
  <2>2. CASE ~(client'.next <= 7)
    <3>1. client'.next <= Len(s2c') + 1
      BY DEF TLSIInv, ClientOK
    <3>2. client'.next - 1 \in 7 .. Len(s2c')
      BY <1>2, <1>3, <2>2, <3>1
    <3> DEFINE r == s2c'[client'.next - 1]
    <3>3. r.data[1] + Len(r.data) \in 1 .. written' - pending' + 1
      BY <3>2 DEF TLSIInv, WithinWritten
    <3>4. r.data[1] + Len(r.data) = Len(client'.got) + 1
      BY <2>2 DEF TLSIInv, StreamsOK, ToClient
    <3> QED
      BY <1>2, <1>3, <3>3, <3>4
  <2> QED
    BY <2>1, <2>2
<1>7. Channel!Begins(client.got, client'.got)
  <2>1. PICK s, t : s = client.got /\ t = client'.got
    OBVIOUS
  <2>2. /\ IsSeq(s) /\ IsSeq(t) /\ Len(s) <= Len(t)
        /\ (\A i \in 1 .. Len(s) : s[i] = i) /\ (\A i \in 1 .. Len(t) : t[i] = i)
    BY <1>3, <1>4, <1>5, <2>1
  <2>3. Channel!Begins(s, t)
    BY <2>2, CountsGrow
  <2> QED
    BY <2>1, <2>3
<1>8. Channel!Begins(client'.got, Positions(written))
  <2>1. PICK m \in Nat : m = written
    BY <1>3
  <2>a. PICK t : t = client'.got
    OBVIOUS
  <2>2. IsSeq(t) /\ (\A i \in 1 .. Len(t) : t[i] = i) /\ Len(t) <= m
    BY <1>3, <1>5, <1>6, <2>1, <2>a
  <2>3. Channel!Begins(t, Positions(m))
    BY <2>2, CountsBegin
  <2> QED
    BY <2>1, <2>3, <2>a
<1> QED
  BY <1>1, <1>2, <1>7, <1>8 DEF Channel!ClientReads

\* Every other step of the client: it may have written.
LEMMA SpeaksInChannel ==
  ASSUME TLSIInv, ClientSpeaks
  PROVE  Channel!ClientWrites
<1>1. UNCHANGED serverVars /\ client'.got = client.got
  BY SpeaksFields DEF TLSIInv
<1>2. client.sent <= client'.sent /\ client.sent \in Nat /\ client'.sent \in Nat
  <2>1. client.sent \in Nat /\ client'.sent \in Nat
    BY SpeaksRecord DEF TLSIInv, ClientShape
  <2>2. \/ client'.sent = client.sent
        \/ \E r : Continues(r)
    BY SpeaksRecord DEF TLSIInv
  <2>3. ASSUME NEW r, Continues(r) PROVE client.sent <= client'.sent
    <3>1. Size(r, ApplicationData) \in Nat /\ client'.sent = client.sent + Size(r, ApplicationData)
      BY <2>3, SeqIsSeq DEF Continues, Size
    <3> QED
      BY <2>1, <3>1
  <2> QED
    BY <2>1, <2>2, <2>3
<1>3. PICK a \in Nat, b \in Nat : a = client.sent /\ b = client'.sent /\ a <= b
  BY <1>2
<1>4. Channel!Begins(Positions(a), Positions(b))
  BY <1>3, PositionsGrow
<1>5. Channel!Begins(Positions(client.sent), Positions(client'.sent))
  BY <1>3, <1>4
<1> QED
  BY <1>1, <1>5 DEF Channel!ClientWrites, serverVars, handshakeVars, appVars

\* Every step is a step of the channel.
LEMMA StepInChannel ==
  ASSUME TLSIInv, TLSIInv', TLSNext
  PROVE  Channel!ChannelNext \/ UNCHANGED Channel!channelVars
<1> DEFINE Goal == Channel!ChannelNext \/ UNCHANGED Channel!channelVars
<1>1. ASSUME NEW n \in ReadSizes, ReadBuffered(n) \/ ReadAppRecord(n) PROVE Goal
  <2>1. n \in Nat
    BY TLSAssumption
  <2> QED
    BY <1>1, <2>1, ReadsInChannel DEF Channel!ChannelNext
<1>2. ASSUME NEW n \in WriteSizes, Write(n) PROVE Goal
  <2>1. n \in Nat
    BY TLSAssumption
  <2> QED
    BY <1>2, <2>1, WritesInChannel DEF Channel!ChannelNext
<1>3. CASE HandleClientFinished
  <2>1. /\ delivered' = delivered /\ written' = written /\ client' = client
    BY <1>3 DEF HandleClientFinished, HandshakeFails, appVars
  <2>2. handshakeDone = FALSE /\ handshakeDone' \in BOOLEAN
    <3>1. pc # "idle"
      BY <1>3 DEF HandleClientFinished
    <3>2. ~handshakeDone /\ handshakeDone \in BOOLEAN
      BY <3>1 DEF TLSIInv, ServerOK, SentAt, Shapes
    <3>3. handshakeDone' \in BOOLEAN
      BY DEF TLSIInv, Shapes
    <3> QED
      BY <3>2, <3>3
  <2>3. CASE handshakeDone' = TRUE
    BY <2>1, <2>2, <2>3 DEF Channel!ChannelNext, Channel!Open
  <2>4. CASE handshakeDone' = FALSE
    BY <2>1, <2>2, <2>4 DEF Channel!channelVars
  <2> QED
    BY <2>2, <2>3, <2>4
<1>4. CASE \/ CallHandshake \/ ReadHandshakeRecord \/ ReadHandshakeEnd
           \/ WriteServerHelloFails \/ WriteFails
  <2>1. /\ delivered' = delivered /\ written' = written /\ client' = client
        /\ handshakeDone' = handshakeDone
    BY <1>4 DEF CallHandshake, ReadHandshakeRecord, ReadHandshakeEnd, WriteServerHelloFails,
                WriteFails, HandshakeFails, appVars, handshakeVars
  <2> QED
    BY <2>1 DEF Channel!channelVars
<1>5. CASE \/ HandleClientHello \/ WriteChangeCipherSpec \/ WriteFlight \/ ReadAppEnd
           \/ WriteChunk \/ WriteChunkFails
  <2>1. /\ delivered' = delivered /\ written' = written /\ client' = client
        /\ handshakeDone' = handshakeDone
    BY <1>5 DEF HandleClientHello, WriteChangeCipherSpec, WriteFlight, ReadAppEnd, WriteChunk,
                WriteChunkFails, HandshakeFails, appVars, handshakeVars
  <2> QED
    BY <2>1 DEF Channel!channelVars
<1>6. CASE ClientStarts
  <2>1. client'.sent = client.sent /\ client'.got = client.got
    BY <1>6, StartsStep DEF TLSIInv
  <2>2. UNCHANGED serverVars
    BY <1>6 DEF ClientStarts
  <2> QED
    BY <2>1, <2>2 DEF Channel!channelVars, serverVars, handshakeVars, appVars
<1>7. CASE ClientReceives
  BY <1>7, ReceivesInChannel DEF Channel!ChannelNext
<1>8. CASE ClientSpeaks
  BY <1>8, SpeaksInChannel DEF Channel!ChannelNext
<1>9. CASE Server
  BY <1>1, <1>2, <1>3, <1>4, <1>5, <1>9 DEF Server
<1>10. CASE Client
  BY <1>6, <1>7, <1>8, <1>10, ClientKinds
<1> QED
  BY <1>9, <1>10 DEF TLSNext

\* The connection is a secure channel: what is read on either side is a
\* prefix of what was written on the other, and the server's side neither
\* delivers nor accepts a byte before its handshake has succeeded.
THEOREM TLSImplementsSecureChannel == TLSSpec => ImplementsSecureChannel
<1>1. TLSInit => Channel!ChannelInit
  <2> SUFFICES ASSUME TLSInit PROVE Channel!ChannelInit
    OBVIOUS
  <2>1. /\ handshakeDone = FALSE /\ delivered = <<>> /\ written = 0
        /\ client.sent = 0 /\ client.got = <<>>
    BY DEF TLSInit
  <2>2. Positions(0) = <<>>
    BY PositionsAre, SeqEmpty
  <2> QED
    BY <2>1, <2>2 DEF Channel!ChannelInit
<1>2. TLSIInv /\ TLSIInv' /\ [TLSNext]_tlsVars => [Channel!ChannelNext]_(Channel!channelVars)
  <2>1. ASSUME UNCHANGED tlsVars PROVE UNCHANGED Channel!channelVars
    BY <2>1 DEF tlsVars, handshakeVars, appVars, Channel!channelVars
  <2> QED
    BY <2>1, StepInChannel
<1> QED
  BY <1>1, <1>2, TLSInvariant, PTL DEF TLSSpec, ImplementsSecureChannel, Channel!ChannelSpec
=============================================================================
