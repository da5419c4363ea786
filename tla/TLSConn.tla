------------------------------- MODULE TLSConn -------------------------------
(***************************************************************************)
(* The server's side of one TLS 1.3 connection: the record layer           *)
(* (src/tls/record.go), Conn (conn.go), the handshake (handshake.go), the  *)
(* key schedule and the transcript, against a client that follows RFC 8446 *)
(* until it errs or leaves, as one of Plans says.                          *)
(*                                                                         *)
(* Cryptography is symbolic: a hash is what was hashed, a derived secret   *)
(* is the list of everything mixed into it, a sealed record can be opened  *)
(* with the secret and the record number it was sealed with and with       *)
(* nothing else.  A handshake message is a pair of its type and its        *)
(* content; in a record it is cut into HeaderLen + BodyLen units, so that  *)
(* a cut may fall into the header and into the body.                       *)
(***************************************************************************)
EXTENDS Integers, Sequences

CONSTANTS
  Clients,      \* the clients that connect: a ClientHello, and how they go on
                \* (see ClientFlight)
  Ends,         \* how its stream ends: see EndError
  MaxPlain,     \* maxPlaintextLength (2^14 in the code)
  ReadSizes,    \* buffer sizes of the application's calls of Read
  WriteSizes,   \* sizes of its calls of Write
  ClientBytes,  \* bound on the bytes the client sends
  ServerBytes   \* bound on the bytes the application writes

ASSUME TLSAssumption ==
  /\ MaxPlain \in Nat \ {0} /\ ClientBytes \in Nat /\ ServerBytes \in Nat
  /\ ReadSizes \subseteq Nat \ {0} /\ WriteSizes \subseteq Nat \ {0}
  /\ \A c \in Clients : /\ Len(c.hello.keyShares) \in Nat
                        /\ DOMAIN c.hello.keyShares = 1 .. Len(c.hello.keyShares)

VARIABLES
  pc,             \* where runHandshake is; "idle": outside it
  tx,             \* the transcript
  schedule,       \* the secrets of the key schedule
  readKeys, writeKeys, hsBuf, handshakeDone, handshakeErr, inAppData,
  appErr,         \* the error that ended the application's reading, or
                  \* "write" once its Write has failed
  pending,        \* bytes of the application's Write not sent yet
  written,        \* bytes the application has handed to Write, read by it
  delivered,
  s2c,            \* every record the server has sent
  c2s,            \* records on their way to the server
  ended,          \* how the client's stream ends behind c2s, "no" if it goes on
  client          \* the client

handshakeVars == <<tx, schedule, writeKeys, handshakeDone>>
appVars == <<inAppData, appErr, pending, written, delivered>>
tlsVars == <<pc, handshakeVars, readKeys, hsBuf, handshakeErr, appVars,
             s2c, c2s, ended, client>>

ChangeCipherSpec == 20
Alert == 21
Handshake == 22
ApplicationData == 23
NoType == 0     \* a protected record of nothing but padding

HeaderLen == 2
BodyLen == 1

Units(m) == [i \in 1 .. HeaderLen + BodyLen |-> <<m, i>>]

Least(a, b) == IF a < b THEN a ELSE b

------------------------------------------------------------------------------
(***************************************************************************)
(* The key schedule.  Secrets are sequences of the pairs <<label, input>>  *)
(* mixed into them.                                                        *)
(***************************************************************************)

hkdfExtract(salt, ikm) == Append(salt, <<"extract", ikm>>)

deriveSecret(secret, label, transcript) == Append(secret, <<label, transcript>>)

verifyData(trafficSecret, transcript) ==
  Append(deriveSecret(trafficSecret, "finished", <<>>), <<"hmac", transcript>>)

HandshakeSecret(ecdhe) ==
  hkdfExtract(deriveSecret(hkdfExtract(<<>>, <<>>), "derived", <<>>), ecdhe)

\* Seeded fault: the two directions are exchanged.
newKeySchedule_Swapped(ecdhe, CHSH) ==
  LET hs == HandshakeSecret(ecdhe) IN
  [handshake |-> hs,
   cHS |-> deriveSecret(hs, "s_hs_traffic", CHSH),
   sHS |-> deriveSecret(hs, "c_hs_traffic", CHSH),
   cApp |-> <<>>, sApp |-> <<>>]

newKeySchedule(ecdhe, CHSH) ==
  LET hs == HandshakeSecret(ecdhe) IN
  [handshake |-> hs,
   cHS |-> deriveSecret(hs, "c_hs_traffic", CHSH),
   sHS |-> deriveSecret(hs, "s_hs_traffic", CHSH),
   cApp |-> <<>>, sApp |-> <<>>]

SetServerFinishedTranscript(k, CHSF) ==
  LET master == hkdfExtract(deriveSecret(k.handshake, "derived", <<>>), <<>>) IN
  [k EXCEPT !.cApp = deriveSecret(master, "c_ap_traffic", CHSF),
            !.sApp = deriveSecret(master, "s_ap_traffic", CHSF)]

NoSchedule == [handshake |-> <<>>, cHS |-> <<>>, sHS |-> <<>>, cApp |-> <<>>, sApp |-> <<>>]

------------------------------------------------------------------------------
(***************************************************************************)
(* The record layer.                                                       *)
(***************************************************************************)

NoKeys == [secret |-> <<>>, seq |-> 0]

newRecordKeysFromSecret(secret) == [secret |-> secret, seq |-> 0]

Plaintext(type, data) ==
  [outer |-> type, secret |-> <<>>, seq |-> 0, inner |-> type, data |-> data]

\* The record sealed with keys, and the keys after it.
Seal(keys, type, data) ==
  [outer |-> ApplicationData, secret |-> keys.secret, seq |-> keys.seq,
   inner |-> type, data |-> data]

\* Seeded fault: the record number stays.
Advance_Not(keys) == keys

Advance(keys) == [keys EXCEPT !.seq = keys.seq + 1]

\* recordKeys.Open: the AEAD accepts what was sealed with its keys, and there
\* must be a content type in front of the padding.
Open(keys, r) ==
  IF r.secret # keys.secret \/ r.seq # keys.seq THEN "AEAD_open_failed"
  ELSE IF r.inner = NoType THEN "errEmptyInnerPlaintext" ELSE "nil"

\* Conn.readRecord: the error, the type the caller sees and the keys afterwards.
readRecord(r) ==
  LET result(err, keys) == [err |-> err, type |-> r.inner, keys |-> keys] IN
  IF readKeys = NoKeys \/ r.outer = ChangeCipherSpec THEN result("nil", readKeys)
  ELSE IF r.outer # ApplicationData THEN result("outer_type", readKeys)
  ELSE LET err == Open(readKeys, r) IN
       result(err, IF err = "nil" THEN Advance(readKeys) ELSE readKeys)

\* What reading at the end of the stream returns.  io.ReadFull reports a
\* plain EOF when it has read nothing, between header and fragment too.
EndError(end) ==
  IF end \in {"clean", "after_header"} THEN "EOF"
  ELSE IF end \in {"in_header", "in_fragment"} THEN "ErrUnexpectedEOF"
  ELSE "errRecordTooLarge"

------------------------------------------------------------------------------
(***************************************************************************)
(* The handshake.                                                          *)
(***************************************************************************)

HasShare(h) == \E i \in DOMAIN h.keyShares : h.keyShares[i].group = "x25519"

\* The first share of the group.
findKeyShare(h) ==
  LET mine == {i \in DOMAIN h.keyShares : h.keyShares[i].group = "x25519"} IN
  h.keyShares[CHOOSE i \in mine : \A j \in mine : i <= j]

validateClientHello(h) ==
  IF "1.3" \notin h.supportedVersions THEN "no_TLS_1_3"
  ELSE IF "AES128" \notin h.cipherSuites THEN "no_cipher_suite"
  ELSE IF "x25519" \notin h.supportedGroups THEN "no_x25519"
  ELSE IF "P256" \notin h.signatureAlgorithms THEN "no_signature_scheme"
  ELSE IF ~HasShare(h) THEN "no_key_share"
  ELSE IF findKeyShare(h).len # 32 THEN "bad_key_share"
  ELSE "nil"

\* The errors of steps 1 and 2 of runHandshake for message m.
HelloError(m) ==
  IF m[1] # "client_hello" THEN "expected_ClientHello"
  ELSE IF ~m[2].wellFormed THEN "parse_ClientHello"
  ELSE IF validateClientHello(m[2]) # "nil" THEN validateClientHello(m[2])
  ELSE IF findKeyShare(m[2]).key = "low_order" THEN "errZeroSharedSecret"
  ELSE "nil"

TLSInit ==
  /\ pc = "idle" /\ tx = <<>> /\ schedule = NoSchedule
  /\ readKeys = NoKeys /\ writeKeys = NoKeys /\ hsBuf = <<>>
  /\ handshakeDone = FALSE /\ handshakeErr = "nil"
  /\ inAppData = <<>> /\ appErr = "nil" /\ pending = 0
  /\ written = 0 /\ delivered = <<>>
  /\ s2c = <<>> /\ c2s = <<>> /\ ended = "no"
  /\ \E c \in Clients :
       client = [at |-> "start", plan |-> c.plan, hello |-> c.hello, tx |-> <<>>, sched |-> NoSchedule,
                 read |-> NoKeys, write |-> NoKeys, out |-> <<>>, next |-> 1,
                 sent |-> 0, got |-> <<>>, rejects |-> FALSE]

\* Handshake() and the first Read or Write.
CallHandshake ==
  /\ pc = "idle" /\ ~handshakeDone /\ handshakeErr = "nil"
  /\ pc' = "ClientHello" /\ tx' = <<>>
  /\ UNCHANGED <<schedule, readKeys, writeKeys, hsBuf, handshakeDone, handshakeErr,
                 appVars, s2c, c2s, ended, client>>

\* Seeded fault: the error is returned but not kept.
HandshakeFails_Forgotten(err) ==
  /\ pc' = "idle" /\ handshakeErr' = "nil"
  /\ UNCHANGED <<handshakeVars, appVars, s2c, ended, client>>

HandshakeFails(err) ==
  /\ pc' = "idle" /\ handshakeErr' = err
  /\ UNCHANGED <<handshakeVars, appVars, s2c, ended, client>>

\* takeBufferedHandshake has a whole message at the front of hsBuf.
Buffered ==
  Len(hsBuf) >= HeaderLen /\ Len(hsBuf) >= HeaderLen + BodyLen

Taken == hsBuf[1][1]
Untaken == SubSeq(hsBuf, HeaderLen + BodyLen + 1, Len(hsBuf))

\* readHandshakeMessage: one round of its loop that ends in a record.
ReadHandshakeRecord ==
  /\ pc \in {"ClientHello", "ClientFinished"} /\ ~Buffered /\ c2s # <<>>
  /\ LET r == readRecord(Head(c2s)) IN
     /\ c2s' = Tail(c2s) /\ readKeys' = r.keys
     /\ hsBuf' = IF r.err = "nil" /\ r.type = Handshake THEN hsBuf \o Head(c2s).data ELSE hsBuf
     /\ IF r.err = "nil" /\ r.type \in {ChangeCipherSpec, Handshake}
        THEN UNCHANGED <<pc, handshakeVars, handshakeErr, appVars, s2c, ended, client>>
        ELSE HandshakeFails(IF r.err # "nil" THEN r.err
                            ELSE IF r.type = Alert THEN "peer_alert" ELSE "record_type")

\* Seeded fault: the end of the stream is waited out.
ReadHandshakeEnd_Waits ==
  /\ pc \in {"ClientHello", "ClientFinished"} /\ ~Buffered /\ c2s = <<>> /\ ended # "no"
  /\ UNCHANGED tlsVars

ReadHandshakeEnd ==
  /\ pc \in {"ClientHello", "ClientFinished"} /\ ~Buffered /\ c2s = <<>> /\ ended # "no"
  /\ HandshakeFails(EndError(ended))
  /\ UNCHANGED <<readKeys, hsBuf, c2s>>

\* The ServerHello cannot be made (no random bytes) or written: the keys are
\* not there yet.
WriteServerHelloFails ==
  /\ pc = "ClientHello" /\ Buffered /\ HelloError(Taken) = "nil"
  /\ hsBuf' = Untaken
  /\ HandshakeFails("write")
  /\ UNCHANGED <<readKeys, c2s>>

ServerHello(h) == <<"server_hello", <<h.sessionID, "server_share">>>>

\* Seeded fault: the keys for reading come only with the client's Finished.
HandleClientHello_OneDirection ==
  /\ pc = "ClientHello" /\ Buffered
  /\ hsBuf' = Untaken
  /\ IF HelloError(Taken) # "nil"
     THEN HandshakeFails(HelloError(Taken)) /\ UNCHANGED <<readKeys, c2s>>
     ELSE LET sh == ServerHello(Taken[2])
              k == newKeySchedule(<<findKeyShare(Taken[2]).key, "server_share">>, <<Taken, sh>>)
          IN /\ s2c' = Append(s2c, Plaintext(Handshake, <<sh>>))
             /\ tx' = <<Taken, sh>> /\ schedule' = k
             /\ writeKeys' = newRecordKeysFromSecret(k.sHS)
             /\ pc' = "ChangeCipherSpec"
             /\ UNCHANGED <<readKeys, handshakeDone, handshakeErr, appVars, c2s, ended, client>>

\* Steps 1 to 4: ClientHello, ServerHello, the handshake keys.
HandleClientHello ==
  /\ pc = "ClientHello" /\ Buffered
  /\ hsBuf' = Untaken
  /\ IF HelloError(Taken) # "nil"
     THEN HandshakeFails(HelloError(Taken)) /\ UNCHANGED <<readKeys, c2s>>
     ELSE LET sh == ServerHello(Taken[2])
              ecdhe == <<findKeyShare(Taken[2]).key, "server_share">>
              k == newKeySchedule(ecdhe, <<Taken, sh>>)
          IN /\ s2c' = Append(s2c, Plaintext(Handshake, <<sh>>))
             /\ tx' = <<Taken, sh>>
             /\ schedule' = k
             /\ readKeys' = newRecordKeysFromSecret(k.cHS)
             /\ writeKeys' = newRecordKeysFromSecret(k.sHS)
             /\ pc' = "ChangeCipherSpec"
             /\ UNCHANGED <<handshakeDone, handshakeErr, appVars, c2s, ended, client>>

\* Step 5.
WriteChangeCipherSpec ==
  /\ pc = "ChangeCipherSpec"
  /\ s2c' = Append(s2c, Plaintext(ChangeCipherSpec, <<>>))
  /\ pc' = "encrypted_extensions"
  /\ UNCHANGED <<handshakeVars, readKeys, hsBuf, handshakeErr, appVars, c2s, ended, client>>

After == [encrypted_extensions |-> "certificate", certificate |-> "certificate_verify",
          certificate_verify |-> "finished", finished |-> "ClientFinished"]

\* The encrypted message of steps 6 to 9.
FlightMessage(type) ==
  IF type = "encrypted_extensions" THEN <<type, <<>>>>
  ELSE IF type = "certificate" THEN <<type, "certDER">>
  ELSE IF type = "certificate_verify" THEN <<type, tx>>
  ELSE <<type, verifyData(schedule.sHS, tx)>>

\* Steps 6 to 10: one encrypted message, and after Finished the application
\* secrets.
WriteFlight ==
  /\ pc \in DOMAIN After
  /\ LET m == FlightMessage(pc) IN
     /\ s2c' = Append(s2c, Seal(writeKeys, Handshake, <<m>>))
     /\ writeKeys' = Advance(writeKeys)
     /\ tx' = Append(tx, m)
     /\ schedule' = IF pc = "finished" THEN SetServerFinishedTranscript(schedule, tx')
                                       ELSE schedule
     /\ pc' = After[pc]
  /\ UNCHANGED <<handshakeDone, readKeys, hsBuf, handshakeErr, appVars, c2s, ended, client>>

\* The transport does not take the record of step 5, or one of steps 6 to 9,
\* which then has been sealed and has used its number up; or the signature of
\* step 8 cannot be made.
WriteFails ==
  /\ \/ pc \in DOMAIN After /\ writeKeys' = Advance(writeKeys)
     \/ pc \in {"ChangeCipherSpec", "certificate_verify"} /\ writeKeys' = writeKeys
  /\ pc' = "idle" /\ handshakeErr' = "write"
  /\ UNCHANGED <<tx, schedule, handshakeDone, readKeys, hsBuf, appVars, s2c, c2s, ended, client>>

\* Seeded fault: the read direction keeps the handshake keys.
HandleClientFinished_KeepsReadKeys ==
  /\ pc = "ClientFinished" /\ Buffered
  /\ hsBuf' = Untaken
  /\ IF Taken[1] # "finished" \/ Taken[2] # verifyData(schedule.cHS, tx)
     THEN HandshakeFails("finished") /\ UNCHANGED <<readKeys, c2s>>
     ELSE /\ writeKeys' = newRecordKeysFromSecret(schedule.sApp)
          /\ pc' = "idle" /\ handshakeDone' = TRUE
          /\ UNCHANGED <<readKeys, tx, schedule, handshakeErr, appVars, s2c, c2s, ended, client>>

\* Steps 11 and 12: the client's Finished, and both directions change keys.
HandleClientFinished ==
  /\ pc = "ClientFinished" /\ Buffered
  /\ hsBuf' = Untaken
  /\ IF Taken[1] # "finished" \/ Taken[2] # verifyData(schedule.cHS, tx)
     THEN HandshakeFails(IF Taken[1] # "finished" THEN "expected_Finished" ELSE "verify_data")
          /\ UNCHANGED <<readKeys, c2s>>
     ELSE /\ readKeys' = newRecordKeysFromSecret(schedule.cApp)
          /\ writeKeys' = newRecordKeysFromSecret(schedule.sApp)
          /\ pc' = "idle"
          /\ handshakeDone' = (Untaken = <<>>)
          /\ handshakeErr' = IF Untaken = <<>> THEN "nil" ELSE "trailing_bytes"
          /\ UNCHANGED <<tx, schedule, appVars, s2c, c2s, ended, client>>

------------------------------------------------------------------------------
(***************************************************************************)
(* Read and Write once the handshake is done.  One goroutine calls both.   *)
(* It does not read on after an error of Read, but Serve answers it; after *)
(* an error of Write it does neither.                                      *)
(***************************************************************************)

AppReads == pc = "idle" /\ handshakeDone /\ appErr = "nil" /\ pending = 0

\* Seeded fault: what does not fit the caller's buffer is dropped.
Deliver_DropsRest(data, n) ==
  /\ delivered' = delivered \o SubSeq(data, 1, Least(n, Len(data)))
  /\ inAppData' = <<>>

\* Copy what fits a buffer of size n; the rest is kept.
Deliver(data, n) ==
  /\ delivered' = delivered \o SubSeq(data, 1, Least(n, Len(data)))
  /\ inAppData' = SubSeq(data, Least(n, Len(data)) + 1, Len(data))

ReadBuffered(n) ==
  /\ AppReads /\ inAppData # <<>>
  /\ Deliver(inAppData, n)
  /\ UNCHANGED <<pc, handshakeVars, readKeys, hsBuf, handshakeErr, appErr, pending, written,
                 s2c, c2s, ended, client>>

\* One round of the loop in Read: handshake records are ignored, empty
\* records read on.
ReadAppRecord(n) ==
  /\ AppReads /\ inAppData = <<>> /\ c2s # <<>>
  /\ LET r == readRecord(Head(c2s)) IN
     /\ c2s' = Tail(c2s) /\ readKeys' = r.keys
     /\ IF r.err = "nil" /\ r.type = ApplicationData
        THEN Deliver(Head(c2s).data, n)
        ELSE UNCHANGED <<delivered, inAppData>>
     /\ appErr' = IF r.err # "nil" THEN r.err
                   ELSE IF r.type \in {ApplicationData, Handshake} THEN "nil"
                   ELSE IF r.type = Alert THEN "peer_alert" ELSE "record_type"
  /\ UNCHANGED <<pc, handshakeVars, hsBuf, handshakeErr, pending, written, s2c, ended, client>>

ReadAppEnd ==
  /\ AppReads /\ inAppData = <<>> /\ c2s = <<>> /\ ended # "no"
  /\ appErr' = EndError(ended)
  /\ UNCHANGED <<pc, handshakeVars, readKeys, hsBuf, handshakeErr, inAppData, pending, written,
                 delivered, s2c, c2s, ended, client>>

Write(n) ==
  /\ pc = "idle" /\ handshakeDone /\ pending = 0 /\ written + n <= ServerBytes
  /\ pending' = n /\ written' = written + n
  /\ UNCHANGED <<pc, handshakeVars, readKeys, hsBuf, handshakeErr, inAppData, appErr, delivered,
                 s2c, c2s, ended, client>>

\* One round of Write's loop: the next chunk, at most a record's plaintext.
WriteChunk ==
  /\ pending > 0 /\ appErr # "write"
  /\ LET n == Least(pending, MaxPlain)
         done == written - pending
     IN /\ s2c' = Append(s2c, Seal(writeKeys, ApplicationData, [i \in 1 .. n |-> done + i]))
        /\ writeKeys' = Advance(writeKeys)
        /\ pending' = pending - n
  /\ UNCHANGED <<pc, tx, schedule, handshakeDone, readKeys, hsBuf, handshakeErr, inAppData,
                 appErr, written, delivered, c2s, ended, client>>

\* The transport does not take a chunk: it has been sealed, Write returns, and
\* what is pending is never sent.
WriteChunkFails ==
  /\ pending > 0 /\ appErr # "write"
  /\ writeKeys' = Advance(writeKeys) /\ appErr' = "write"
  /\ UNCHANGED <<pc, tx, schedule, handshakeDone, readKeys, hsBuf, handshakeErr, inAppData,
                 pending, written, delivered, s2c, c2s, ended, client>>

Server ==
  \/ CallHandshake \/ ReadHandshakeRecord \/ ReadHandshakeEnd
  \/ HandleClientHello \/ WriteServerHelloFails \/ WriteChangeCipherSpec \/ WriteFlight
  \/ WriteFails \/ HandleClientFinished
  \/ \E n \in ReadSizes : ReadBuffered(n) \/ ReadAppRecord(n)
  \/ ReadAppEnd \/ WriteChunk \/ WriteChunkFails
  \/ \E n \in WriteSizes : Write(n)

------------------------------------------------------------------------------
(***************************************************************************)
(* The client, as RFC 8446 describes it.  It keeps its own transcript and  *)
(* secrets and checks everything the server sends.                         *)
(***************************************************************************)

serverVars == <<pc, handshakeVars, readKeys, hsBuf, handshakeErr, appVars, s2c>>

\* The client's next record with the given content.
Protect(type, data) ==
  IF client.write = NoKeys THEN Plaintext(type, data)
  ELSE [outer |-> 23, secret |-> client.write.secret, seq |-> client.write.seq,
        inner |-> type, data |-> data]

NextWrite == IF client.write = NoKeys THEN NoKeys
             ELSE [client.write EXCEPT !.seq = client.write.seq + 1]

\* The client's secrets, by the labels of RFC 8446, section 7.1.
ClientSecrets(ecdhe, CHSH) ==
  LET hs == <<<<"extract", <<>>>>, <<"derived", <<>>>>, <<"extract", ecdhe>>>> IN
  [handshake |-> hs,
   cHS |-> hs \o <<<<"c_hs_traffic", CHSH>>>>, sHS |-> hs \o <<<<"s_hs_traffic", CHSH>>>>,
   cApp |-> <<>>, sApp |-> <<>>]

ClientAppSecrets(k, CHSF) ==
  LET master == k.handshake \o <<<<"derived", <<>>>>, <<"extract", <<>>>>>> IN
  [k EXCEPT !.cApp = master \o <<<<"c_ap_traffic", CHSF>>>>,
            !.sApp = master \o <<<<"s_ap_traffic", CHSF>>>>]

FinishedMAC(secret, transcript) == secret \o <<<<"finished", <<>>>>, <<"hmac", transcript>>>>

\* What the client sends in its second flight; nothing in the plan "no_finished".
ClientFlight(fin) ==
  IF client.plan \in {"honest", "update"} THEN Units(fin)
  ELSE IF client.plan = "bad_finished" THEN Units(<<"finished", <<>>>>)
  ELSE IF client.plan = "trailing" THEN Units(fin) \o Units(<<"key_update", <<>>>>)
  ELSE IF client.plan = "wrong_message" THEN Units(<<"certificate", <<>>>>)
  ELSE <<>>

\* The client's own share of the group the ServerHello names: it looks for
\* the first one it offered.
OwnShare(h) ==
  CHOOSE i \in DOMAIN h.keyShares :
    /\ h.keyShares[i].group = "x25519"
    /\ \A j \in 1 .. i - 1 : h.keyShares[j].group # "x25519"

ClientStarts ==
  /\ client.at = "start"
  /\ LET m == IF client.plan = "not_a_hello" THEN <<"finished", <<>>>>
              ELSE <<"client_hello", client.hello>> IN
     client' = [client EXCEPT !.at = "hello", !.tx = <<m>>, !.out = Units(m)]
  /\ UNCHANGED <<serverVars, c2s, ended>>

\* A record with the next k units of what is to be sent.
ClientSends(k) ==
  /\ client.at \in {"hello", "finish"} /\ k <= Len(client.out)
  /\ c2s' = Append(c2s, Protect(Handshake, SubSeq(client.out, 1, k)))
  /\ LET last == k = Len(client.out) /\ client.at = "finish" IN
     client' = [client EXCEPT
                  !.out = SubSeq(client.out, k + 1, Len(client.out)),
                  !.at = IF last THEN "open" ELSE client.at,
                  !.write = IF last THEN [secret |-> client.sched.cApp, seq |-> 0]
                                    ELSE NextWrite]
  /\ UNCHANGED <<serverVars, ended>>

\* A record in place of the Finished that is none of the handshake: data, or
\* padding without a type.
ClientSkipsFinished(type) ==
  /\ client.at = "finish" /\ client.out = <<>>
  /\ c2s' = Append(c2s, Protect(type, <<>>))
  /\ client' = [client EXCEPT !.at = "ended"]
  /\ ended' = "clean"
  /\ UNCHANGED serverVars

ClientChangeCipherSpec(sends) ==
  /\ client.at = "ccs"
  /\ c2s' = IF sends THEN Append(c2s, Plaintext(ChangeCipherSpec, <<>>)) ELSE c2s
  /\ client' = [client EXCEPT !.at = "finish"]
  /\ UNCHANGED <<serverVars, ended>>

\* The checks of the server's messages, after those in client.tx.
Acceptable(m) ==
  LET n == Len(client.tx) IN
  \/ n = 1 /\ m[1] = "server_hello"
  \/ n = 2 /\ m[1] = "encrypted_extensions"
  \/ n = 3 /\ m[1] = "certificate"
  \/ n = 4 /\ m[1] = "certificate_verify" /\ m[2] = client.tx
  \/ n = 5 /\ m = <<"finished", FinishedMAC(client.sched.sHS, client.tx)>>

Opens(r) == IF client.read = NoKeys THEN r.outer = Handshake
            ELSE r.secret = client.read.secret /\ r.seq = client.read.seq

ClientReceives ==
  /\ client.at \in {"hello", "ccs", "finish", "open"} /\ client.next <= Len(s2c)
  /\ LET r == s2c[client.next]
         bumped == [client EXCEPT !.next = client.next + 1,
                                  !.read = IF client.read = NoKeys THEN NoKeys
                                           ELSE [client.read EXCEPT !.seq = client.read.seq + 1]]
         m == r.data[1]
         tx2 == Append(client.tx, m)
     IN client' =
          IF r.outer = ChangeCipherSpec THEN [client EXCEPT !.next = client.next + 1]
          ELSE IF ~Opens(r) THEN [client EXCEPT !.at = "ended", !.rejects = TRUE]
          ELSE IF r.inner = ApplicationData THEN [bumped EXCEPT !.got = client.got \o r.data]
          ELSE IF ~Acceptable(m) THEN [client EXCEPT !.at = "ended", !.rejects = TRUE]
          ELSE IF m[1] = "server_hello"
          THEN LET own == client.hello.keyShares[OwnShare(client.hello)]
                   k == ClientSecrets(<<own.key, m[2][2]>>, tx2) IN
               [bumped EXCEPT !.tx = tx2, !.sched = k,
                              !.read = [secret |-> k.sHS, seq |-> 0],
                              !.write = [secret |-> k.cHS, seq |-> 0]]
          ELSE IF m[1] = "finished"
          THEN LET k == ClientAppSecrets(client.sched, tx2) IN
               [bumped EXCEPT !.at = "ccs", !.tx = tx2, !.sched = k,
                              !.read = [secret |-> k.sApp, seq |-> 0],
                              !.out = ClientFlight(<<"finished", FinishedMAC(k.cHS, tx2)>>)]
          ELSE [bumped EXCEPT !.tx = tx2]
  /\ UNCHANGED <<serverVars, c2s, ended>>

ClientWrites(k) ==
  /\ client.at = "open" /\ client.sent + k <= ClientBytes /\ client.write.seq < ClientBytes
  /\ c2s' = Append(c2s, Protect(ApplicationData, [i \in 1 .. k |-> client.sent + i]))
  /\ client' = [client EXCEPT !.sent = client.sent + k, !.write = NextWrite]
  /\ UNCHANGED <<serverVars, ended>>

\* The client moves on to the next generation of its traffic keys.
ClientKeyUpdate ==
  /\ client.at = "open" /\ client.plan = "update"
  /\ c2s' = Append(c2s, Protect(Handshake, Units(<<"key_update", <<>>>>)))
  /\ client' = [client EXCEPT !.plan = "updated",
                  !.write = [secret |-> Append(client.write.secret, <<"traffic_upd", <<>>>>),
                             seq |-> 0]]
  /\ UNCHANGED <<serverVars, ended>>

\* A record of padding, which ends what the server reads.
ClientSendsPadding ==
  /\ client.at = "open" /\ client.plan = "update"
  /\ c2s' = Append(c2s, Protect(NoType, <<>>))
  /\ client' = [client EXCEPT !.plan = "updated", !.write = NextWrite]
  /\ UNCHANGED <<serverVars, ended>>

\* The client leaves: with an alert, or its stream just ends, between two
\* records or inside one.
ClientEnds(how, alert) ==
  /\ client.at # "ended"
  /\ c2s' = IF alert THEN Append(c2s, Protect(Alert, <<>>)) ELSE c2s
  /\ client' = [client EXCEPT !.at = "ended", !.write = IF alert THEN NextWrite ELSE client.write]
  /\ ended' = how
  /\ UNCHANGED serverVars

ClientProgress ==
  \/ ClientStarts \/ ClientReceives
  \/ \E type \in {ApplicationData, NoType} : ClientSkipsFinished(type)
  \/ \E k \in 1 .. 2 * (HeaderLen + BodyLen) : ClientSends(k)
  \/ \E sends \in BOOLEAN : ClientChangeCipherSpec(sends)

Client ==
  \/ ClientProgress
  \/ \E k \in 0 .. MaxPlain : ClientWrites(k)
  \/ ClientKeyUpdate \/ ClientSendsPadding
  \/ \E how \in Ends : ClientEnds(how, FALSE)
  \/ ClientEnds("clean", TRUE)

TLSNext == Server \/ Client

TLSSpec == TLSInit /\ [][TLSNext]_tlsVars

\* main runs the handshake at once and its goroutine goes on while it can;
\* the client goes on with its part of the handshake, or leaves.
TLSFairSpec == TLSSpec /\ WF_tlsVars(Server) /\ WF_tlsVars(ClientProgress)

------------------------------------------------------------------------------

Positions(n) == [i \in 1 .. n |-> i]

\* Types, and the places of the handshake at which keys are there: no keys
\* before the ServerHello, both directions together afterwards.
TLSTypeOK ==
  /\ pc \in {"idle", "ClientHello", "ChangeCipherSpec", "ClientFinished"} \cup DOMAIN After
  /\ handshakeDone \in BOOLEAN /\ readKeys.seq \in Nat /\ writeKeys.seq \in Nat
  /\ pending \in 0 .. written /\ written \in 0 .. ServerBytes
  /\ pc = "ClientHello" => readKeys = NoKeys /\ writeKeys = NoKeys
  /\ (readKeys = NoKeys) <=> (writeKeys = NoKeys)
  /\ handshakeDone => handshakeErr = "nil" /\ hsBuf = <<>> /\ pc = "idle"

\* A client that follows the RFC can open every record the server seals and
\* agrees with every check value in it: runHandshake's keys, transcript
\* hashes and record numbers are those of the client, step for step.
ClientAccepts == ~client.rejects

\* No two records are sealed under the same key and nonce (the comment on
\* nonceForSeq): the record number moves with every Seal and starts again
\* only with another secret.
NoncesUnique ==
  \A i, j \in DOMAIN s2c :
    i # j /\ s2c[i].outer = ApplicationData /\ s2c[j].outer = ApplicationData
      => s2c[i].secret # s2c[j].secret \/ s2c[i].seq # s2c[j].seq

\* When the handshake is done each direction has one secret on both sides,
\* and the two record numbers differ by exactly the records under way, and by
\* the one that was sealed in vain when the transport failed.
KeysInStep ==
  handshakeDone =>
    /\ client.tx = tx
    /\ client.read.secret = writeKeys.secret
    /\ LET vain == IF appErr = "write" THEN 1 ELSE 0 IN
       client.read.seq + Len(s2c) + 1 - client.next + vain = writeKeys.seq
    /\ client.plan \in {"honest", "update"} =>
         /\ client.write.secret = readKeys.secret
         /\ readKeys.seq + Len(c2s) = client.write.seq

\* A handshake that has failed after its ServerHello is over: nothing more
\* is sent or read, and later calls see the same error (Handshake: "after a
\* failure returns the original error").
FailureIsFinal ==
  [][pc = "idle" /\ ~handshakeDone /\ s2c # <<>> =>
       UNCHANGED <<pc, handshakeErr, handshakeDone, s2c, readKeys, writeKeys, delivered>>]_tlsVars

\* A handshake that has begun ends, with success or with an error, whatever
\* the client sends and wherever its stream ends.
HandshakeEnds == pc # "idle" ~> pc = "idle"

Channel == INSTANCE SecureChannel WITH
  opened <- handshakeDone,
  toServer <- Positions(client.sent), atServer <- delivered,
  toClient <- Positions(written), atClient <- client.got

\* The connection is a secure channel: the application reads a prefix of
\* what the client wrote and the client a prefix of what Write was given,
\* and no byte passes before the handshake has succeeded.
ImplementsSecureChannel == Channel!ChannelSpec

=============================================================================
