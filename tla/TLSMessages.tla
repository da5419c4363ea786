----------------------------- MODULE TLSMessages -----------------------------
(***************************************************************************)
(* The wire format of the handshake messages: the parser of a ClientHello, *)
(* which meets messages that were built with care, carelessly or damaged,  *)
(* and the marshalling of the server's messages, which a client reads.     *)
(* The loop over the extensions takes one step per extension.              *)
(***************************************************************************)
EXTENDS Integers, Sequences, Bytes

CONSTANTS
  Hellos,          \* ClientHellos that may be sent, see Encode
  Flights,         \* contents of the server's messages, see ServerMessages
  Damages,         \* what may happen to a ClientHello's bytes, see Damaged
  RandomLen, MaxSessionID, PublicLen   \* 32 in the code

VARIABLES
  message,   \* what is sent
  bytes,     \* its bytes
  damaged,   \* TRUE once they have been changed
  todo,      \* the parser's rest of the extensions
  hello,     \* what it has parsed, the extensions it has seen included
  mstate     \* "build", "sent", "extensions", "accepted", "refused"

messageVars == <<message, bytes, damaged, todo, hello, mstate>>

\* Wire constants.
serverName == 0
supportedGroups == 10
signatureAlgorithms == 13
supportedVersions == 43
keyShare == 51
namedGroupX25519 == 29

------------------------------------------------------------------------------
(***************************************************************************)
(* The cursor.  A cursor is the bytes that remain; a read returns a value  *)
(* and the rest.                                                           *)
(***************************************************************************)

Failed == [ok |-> FALSE]
Read(value, rest) == [ok |-> TRUE, v |-> value, rest |-> rest]

readU8(c) == IF Len(c) < 1 THEN Failed ELSE Read(c[1], Tail(c))
readU16(c) == IF Len(c) < 2 THEN Failed ELSE Read(Uint16(c, 0), Slice(c, 2, Len(c)))
readBytes(c, n) == IF Len(c) < n THEN Failed ELSE Read(Slice(c, 0, n), Slice(c, n, Len(c)))

readVector(c, lenBytes) ==
  LET n == IF lenBytes = 1 THEN readU8(c) ELSE readU16(c)
  IN IF n.ok THEN readBytes(n.rest, n.v) ELSE Failed

\* A vector with nothing behind it.
Whole(c, lenBytes) ==
  LET body == readVector(c, lenBytes) IN IF body.ok /\ body.rest = <<>> THEN body ELSE Failed

------------------------------------------------------------------------------
(***************************************************************************)
(* The parsers.                                                            *)
(***************************************************************************)

parseU16Vector(body) ==
  IF ~body.ok \/ Len(body.v) % 2 # 0 THEN Failed
  ELSE Read([k \in 1 .. Len(body.v) \div 2 |-> Uint16(body.v, 2 * k - 2)], <<>>)

\* One turn of the loop over a list of entries, a type of typeLen bytes and a
\* vector.  An entry of type last ends it.
nextEntry(r, typeLen, last) ==
  LET typ == IF typeLen = 1 THEN readU8(r.rest) ELSE readU16(r.rest)
      body == readVector(typ.rest, 2)
  IN IF ~r.ok \/ r.rest = <<>> THEN r
     ELSE IF ~typ.ok \/ ~body.ok THEN Failed
     ELSE Read(Append(r.v, <<typ.v, body.v>>), IF typ.v = last THEN <<>> ELSE body.rest)

\* The entries read; no list has more of them than bytes.
Entries(list, typeLen, last) ==
  LET after[n \in 0 .. Len(list)] ==
        IF n = 0 THEN Read(<<>>, list) ELSE nextEntry(after[n - 1], typeLen, last)
  IN after[Len(list)]

\* The first host_name of the list, empty if there is none.
parseServerNameExtension(data) ==
  LET list == Whole(data, 2)
      names == Entries(list.v, 1, 0)
  IN IF ~list.ok \/ ~names.ok THEN Failed
     ELSE Read(IF names.v # <<>> /\ names.v[Len(names.v)][1] = 0 THEN names.v[Len(names.v)][2]
               ELSE <<>>, <<>>)

parseClientKeyShareExtension(data) ==
  LET list == Whole(data, 2) IN IF list.ok THEN Entries(list.v, 2, -1) ELSE Failed

\* The value of an extension the server knows, nothing for the others.
parseExtension(extType, data) ==
  CASE extType = serverName -> parseServerNameExtension(data)
    [] extType = supportedVersions -> parseU16Vector(Whole(data, 1))
    [] extType \in {supportedGroups, signatureAlgorithms} -> parseU16Vector(Whole(data, 2))
    [] extType = keyShare -> parseClientKeyShareExtension(data)
    [] OTHER -> Read(<<>>, <<>>)

\* parseClientHello up to the extensions.
parseFixedPart(body) ==
  LET version == readU16(body)
      random == readBytes(version.rest, RandomLen)
      sid == readVector(random.rest, 1)
      cs == readVector(sid.rest, 2)
      comp == readVector(cs.rest, 1)
      exts == readVector(comp.rest, 2)
  IN IF \/ ~version.ok \/ ~random.ok
        \/ ~sid.ok \/ Len(sid.v) > MaxSessionID
        \/ ~cs.ok \/ Len(cs.v) % 2 # 0
        \/ ~comp.ok \/ comp.v # <<0>>
        \/ ~exts.ok \/ exts.rest # <<>>
     THEN Failed
     ELSE Read([version |-> version.v, random |-> random.v, sid |-> sid.v,
                suites |-> parseU16Vector(cs).v, exts |-> <<>>], exts.v)

parseHandshake(msg) ==
  IF Len(msg) < 4 \/ msg[2] * 65536 + Uint16(msg, 2) # Len(msg) - 4 THEN Failed
  ELSE Read(msg[1], Slice(msg, 4, Len(msg)))

------------------------------------------------------------------------------
(***************************************************************************)
(* Marshalling.                                                            *)
(***************************************************************************)

appendU8Vector(body) == <<Len(body)>> \o body
appendU16Vector(body) == U16(Len(body)) \o body
appendU24Vector(body) == U24(Len(body)) \o body
appendExtension(extType, body) == U16(extType) \o appendU16Vector(body)

marshalHandshake(typ, body) == <<typ>> \o appendU24Vector(body)

marshalServerHello(random, sid, serverPub) ==
  U16(771) \o random \o appendU8Vector(sid) \o U16(4865) \o <<0>>
    \o appendU16Vector(appendExtension(supportedVersions, U16(772))
                         \o appendExtension(keyShare, U16(namedGroupX25519)
                                                        \o appendU16Vector(serverPub)))

marshalEncryptedExtensions == <<0, 0>>

marshalCertificate(certDER) == <<0>> \o appendU24Vector(appendU24Vector(certDER) \o <<0, 0>>)

marshalCertificateVerify(sigScheme, signature) == U16(sigScheme) \o appendU16Vector(signature)

\* The server's messages with their types.
ServerMessages(f) ==
  <<marshalHandshake(2, marshalServerHello(f.random, f.sid, f.pub)),
    marshalHandshake(8, marshalEncryptedExtensions),
    marshalHandshake(11, marshalCertificate(f.cert)),
    marshalHandshake(15, marshalCertificateVerify(1027, f.sig)),
    marshalHandshake(20, f.verify)>>

------------------------------------------------------------------------------
(***************************************************************************)
(* A client's message, built as the RFC has it and possibly damaged.  Its  *)
(* extensions are pairs of type and contents: a list of numbers, a list of *)
(* entries (pairs of type and bytes), or bytes.                            *)
(***************************************************************************)

U16s(numbers) == Joined([k \in DOMAIN numbers |-> U16(numbers[k])])

EncodeEntry(extType, entry) ==
  (IF extType = serverName THEN <<entry[1]>> ELSE U16(entry[1])) \o appendU16Vector(entry[2])

EncodeExtension(extType, content) ==
  CASE extType \in {serverName, keyShare} ->
         appendU16Vector(Joined([k \in DOMAIN content |-> EncodeEntry(extType, content[k])]))
    [] extType = supportedVersions -> appendU8Vector(U16s(content))
    [] extType \in {supportedGroups, signatureAlgorithms} -> appendU16Vector(U16s(content))
    [] OTHER -> content

\* A ClientHello from its fields and the data of its extensions.
EncodeParts(h, comp, data) ==
  U16(h.version) \o h.random \o appendU8Vector(h.sid) \o appendU16Vector(U16s(h.suites))
    \o appendU8Vector(comp)
    \o appendU16Vector(Joined([k \in DOMAIN h.exts |-> appendExtension(h.exts[k][1], data[k])]))

Encode(m) ==
  EncodeParts(m, m.comp, [k \in DOMAIN m.exts |-> EncodeExtension(m.exts[k][1], m.exts[k][2])])

\* What the fields of a ClientHello can hold.
IsContent(extType, content) ==
  /\ Len(EncodeExtension(extType, content)) \in Word
  /\ CASE extType \in {serverName, keyShare} ->
            /\ content \in Seq((IF extType = serverName THEN Byte ELSE Word) \X Seq(Byte))
            /\ \A k \in DOMAIN content : Len(content[k][2]) \in Word
       [] extType = supportedVersions -> content \in Seq(Word) /\ 2 * Len(content) \in Byte
       [] extType \in {supportedGroups, signatureAlgorithms} -> content \in Seq(Word)
       [] OTHER -> content \in Seq(Byte)

ExtensionParts(exts) ==
  [k \in DOMAIN exts |-> appendExtension(exts[k][1], EncodeExtension(exts[k][1], exts[k][2]))]

IsHello(m) ==
  /\ m.kind = "hello" /\ m.version \in Word
  /\ m.random \in Seq(Byte) /\ Len(m.random) = RandomLen
  /\ m.sid \in Seq(Byte) /\ Len(m.sid) \in Byte
  /\ m.suites \in Seq(Word) /\ 2 * Len(m.suites) \in Word
  /\ m.comp \in Seq(Byte) /\ Len(m.comp) \in Byte
  /\ Len(m.exts) \in Nat /\ DOMAIN m.exts = 1 .. Len(m.exts)
  /\ \A k \in DOMAIN m.exts : m.exts[k][1] \in Word /\ IsContent(m.exts[k][1], m.exts[k][2])
  /\ Len(Joined(ExtensionParts(m.exts))) \in Word

\* What the fields of the server's messages can hold.
IsFlight(f) ==
  /\ f.kind = "flight"
  /\ f.random \in Seq(Byte) /\ Len(f.random) = RandomLen
  /\ f.sid \in Seq(Byte) /\ Len(f.sid) \in Byte
  /\ f.pub \in Seq(Byte) /\ Len(f.pub) = PublicLen
  /\ f.cert \in Seq(Byte) /\ Len(f.cert) + 9 \in Word24
  /\ f.sig \in Seq(Byte) /\ Len(f.sig) \in Word
  /\ f.verify \in Seq(Byte) /\ Len(f.verify) \in Word24

\* d is <<"cut", n>>, <<"append", byte>> or <<"set", position, byte>>.
Damaged(b, d) ==
  CASE d[1] = "cut"    -> Slice(b, 0, Len(b) - d[2])
    [] d[1] = "append" -> Append(b, d[2])
    [] d[1] = "set"    -> [b EXCEPT ![d[2]] = d[3]]

IsDamage(d) ==
  \/ d[1] = "cut" /\ d[2] \in Nat
  \/ d[1] = "append" /\ d[2] \in Byte
  \/ d[1] = "set" /\ d[2] \in Nat \ {0} /\ d[3] \in Byte

ASSUME MessagesAssumption ==
  /\ RandomLen \in Word /\ MaxSessionID \in Nat /\ PublicLen \in Nat /\ PublicLen + 14 \in Word
  /\ \A m \in Hellos : IsHello(m)
  /\ \A f \in Flights : IsFlight(f)
  /\ \A d \in Damages : IsDamage(d)

MessageInit ==
  /\ message \in Hellos \cup Flights
  /\ bytes = <<>> /\ damaged = FALSE /\ todo = <<>> /\ hello = <<>> /\ mstate = "build"

BuildHello ==
  /\ mstate = "build" /\ message.kind = "hello"
  /\ bytes' = Encode(message) /\ mstate' = "sent"
  /\ UNCHANGED <<message, damaged, todo, hello>>

Damage(d) ==
  /\ mstate = "sent" /\ ~damaged
  /\ d[1] = "cut" => d[2] <= Len(bytes)
  /\ d[1] = "set" => d[2] <= Len(bytes) /\ bytes[d[2]] # d[3]
  /\ bytes' = Damaged(bytes, d) /\ damaged' = TRUE
  /\ UNCHANGED <<message, todo, hello, mstate>>

Refuse == mstate' = "refused" /\ UNCHANGED <<todo, hello>>

\* parseClientHello up to the loop over the extensions ...
ParseFixedPart ==
  /\ mstate = "sent"
  /\ LET fixed == parseFixedPart(bytes) IN
     IF ~fixed.ok THEN Refuse
     ELSE hello' = fixed.v /\ todo' = fixed.rest /\ mstate' = "extensions"
  /\ UNCHANGED <<message, bytes, damaged>>

Seen(extType) == \E k \in DOMAIN hello.exts : hello.exts[k][1] = extType

\* Seeded fault: a repeated extension replaces the first one.
Repeated_Allowed(extType) == FALSE

Repeated(extType) == Seen(extType)

\* ... one turn of the loop ...
ParseExtension ==
  /\ mstate = "extensions" /\ todo # <<>>
  /\ LET extType == readU16(todo)
         data == readVector(extType.rest, 2)
         value == parseExtension(extType.v, data.v)
     IN IF ~extType.ok \/ ~data.ok \/ Repeated(extType.v) \/ ~value.ok THEN Refuse
        ELSE /\ hello' = [hello EXCEPT !.exts = Append(@, <<extType.v, value.v, data.v>>)]
             /\ todo' = data.rest /\ UNCHANGED mstate
  /\ UNCHANGED <<message, bytes, damaged>>

\* ... and its end.
AcceptHello ==
  /\ mstate = "extensions" /\ todo = <<>>
  /\ mstate' = "accepted"
  /\ UNCHANGED <<message, bytes, damaged, todo, hello>>

\* The server's side of runHandshake builds its messages.
BuildFlight ==
  /\ mstate = "build" /\ message.kind = "flight"
  /\ bytes' = ServerMessages(message) /\ mstate' = "flight"
  /\ UNCHANGED <<message, damaged, todo, hello>>

MessageNext ==
  \/ BuildHello \/ (\E d \in Damages : Damage(d)) \/ ParseFixedPart \/ ParseExtension
  \/ AcceptHello \/ BuildFlight

MessageSpec == MessageInit /\ [][MessageNext]_messageVars

------------------------------------------------------------------------------

\* What the RFC asks of a ClientHello beyond its syntax.
Proper(m) ==
  /\ m.comp = <<0>> /\ Len(m.sid) <= MaxSessionID
  /\ \A k, l \in DOMAIN m.exts : k # l => m.exts[k][1] # m.exts[l][1]

\* The value the server should have for an extension.
Meaning(extType, content) ==
  LET hosts == {k \in DOMAIN content : content[k][1] = 0} IN
  CASE extType = serverName ->
         IF hosts = {} THEN <<>> ELSE content[CHOOSE k \in hosts : \A l \in hosts : k <= l][2]
    [] extType \in {supportedVersions, supportedGroups, signatureAlgorithms, keyShare} -> content
    [] OTHER -> <<>>

\* An undamaged ClientHello is accepted exactly if it is proper, with the
\* values its client put in.  Whatever is accepted, damaged or not, is a
\* ClientHello byte for byte: the lengths of its fields and of its extensions
\* agree, nothing trails, and the lengths inside an extension that is taken
\* apart agree too.  The exception is server_name: its parser returns at the
\* first host_name and never looks at the lengths behind it, although
\* parseClientHello's comment says that all length fields must be consistent.
HelloReadBack ==
  message.kind = "hello" =>
    /\ ~damaged /\ mstate = "refused" => ~Proper(message)
    /\ ~damaged /\ mstate = "accepted" =>
         /\ Proper(message)
         /\ hello.version = message.version /\ hello.random = message.random
         /\ hello.sid = message.sid /\ hello.suites = message.suites
         /\ DOMAIN hello.exts = DOMAIN message.exts
         /\ \A k \in DOMAIN hello.exts :
              hello.exts[k][2] = Meaning(message.exts[k][1], message.exts[k][2])
    /\ mstate = "accepted" =>
         /\ bytes = EncodeParts(hello, <<0>>, [k \in DOMAIN hello.exts |-> hello.exts[k][3]])
         /\ \A k \in DOMAIN hello.exts :
              hello.exts[k][1] \in {supportedVersions, supportedGroups, signatureAlgorithms, keyShare}
                => hello.exts[k][3] = EncodeExtension(hello.exts[k][1], hello.exts[k][2])

read24(c) == IF Len(c) < 3 THEN Failed ELSE readBytes(Slice(c, 3, Len(c)), c[1] * 65536 + Uint16(c, 1))

\* A client that takes the server's messages apart by the RFC's grammar finds
\* in them what the server put in, and nothing else.
FlightReadable ==
  mstate = "flight" =>
    LET body(k) == parseHandshake(bytes[k]).rest
        version == readU16(body(1))
        random == readBytes(version.rest, RandomLen)
        sid == readVector(random.rest, 1)
        suite == readU16(sid.rest)
        exts == Whole(Tail(suite.rest), 2)
        list == read24(Tail(body(3)))
        cert == read24(list.v)
        scheme == readU16(body(4))
    IN /\ \A k \in 1 .. 5 : parseHandshake(bytes[k]).ok
       /\ [k \in 1 .. 5 |-> parseHandshake(bytes[k]).v] = <<2, 8, 11, 15, 20>>
       /\ random.v = message.random /\ sid.v = message.sid /\ suite.rest[1] = 0
       /\ Entries(exts.v, 2, -1).v = <<<<supportedVersions, U16(772)>>,
                                        <<keyShare, U16(namedGroupX25519) \o U16(PublicLen) \o message.pub>>>>
       /\ Whole(body(2), 2).ok
       /\ list.ok /\ list.rest = <<>> /\ cert.v = message.cert /\ cert.rest = <<0, 0>>
       /\ Whole(scheme.rest, 2).v = message.sig
       /\ body(5) = message.verify

\* Both directions of the handshake.
MessagesReadBack == HelloReadBack /\ FlightReadable

=============================================================================
