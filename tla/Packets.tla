------------------------------- MODULE Packets -------------------------------
(***************************************************************************)
(* A segment on its way through the layers: TCPSegment, IPv4Packet and     *)
(* EthernetFrame with their FlushToBytes and Parse functions, the          *)
(* checksums, the frame that Ethernet pads or cuts, and the MSS option of  *)
(* a SYN up to the chunk size that pumpSendLocked uses.  A frame may also  *)
(* carry an ICMP echo request, which the echo server answers.              *)
(***************************************************************************)
EXTENDS Integers, Sequences, Bytes

CONSTANTS
  Packets,        \* what may be sent: segments and echo requests
  Cuts,           \* lengths a frame may be cut to
  MinFrame,       \* Ethernet pads shorter frames
  defaultMSS, ourMSS

IsIHL(ihl) == ihl \in Nat /\ 5 <= ihl /\ ihl <= 15
IsPair(pair) == pair = <<pair[1], pair[2]>> /\ pair[1] \in Word /\ pair[2] \in Word

\* The words of the TCP header: options are filled up to whole words.
DataOffset(options) == 5 + (Len(options) + 3) \div 4

\* What may be sent has its fields' widths, and room in one IP packet.
IsSegment(p) ==
  /\ p.kind = "tcp" /\ IsIHL(p.ihl) /\ IsPair(p.seq) /\ IsPair(p.ack)
  /\ p.flags \in Byte /\ p.window \in Word
  /\ p.options \in Seq(Byte) /\ Len(p.options) <= 40 /\ p.payload \in Seq(Byte)
  /\ 4 * p.ihl + 4 * DataOffset(p.options) + Len(p.payload) < 65536

IsEcho(p) ==
  /\ p.kind = "icmp" /\ IsIHL(p.ihl) /\ p.icmp \in Seq(Byte) /\ Len(p.icmp) >= 8
  /\ p.icmp[1] = 8 /\ 4 * p.ihl + Len(p.icmp) < 65536

ASSUME PacketsAssumption ==
  /\ \A p \in Packets : IsSegment(p) \/ IsEcho(p)
  /\ Cuts \subseteq Nat /\ MinFrame \in Nat
  /\ defaultMSS \in Nat /\ ourMSS \in Nat \ {0}

VARIABLES
  packet,   \* what is sent
  frame,    \* its bytes on the wire
  how,      \* "built", "padded" or "cut": what happened to them
  phase,    \* "send", "wire", "option" while the option loop runs, "done"
  got,      \* what the receiver parsed
  optAt,    \* the option loop's place in the options
  mss       \* the chunk size that results, 0 before

packetVars == <<packet, frame, how, phase, got, optAt, mss>>

NoPacket == [ok |-> FALSE]

\* The process ends: RunICMPEchoServer logs icmp[0] and icmp[1] before it looks
\* at the length.
Panic == [ok |-> FALSE, panic |-> TRUE]

MACs == [dst |-> <<2, 0, 0, 0, 0, 1>>, src |-> <<2, 0, 0, 0, 0, 2>>]
LocalIP == <<10, 255, 254, 1>>
RemoteIP == <<10, 0, 0, 2>>

------------------------------------------------------------------------------
(***************************************************************************)
(* Checksums.                                                              *)
(***************************************************************************)

\* Seeded fault: the last byte of an odd number of bytes is not shifted.
Sum_OddUnshifted(b) ==
  LET sum[n \in 0 .. Len(b) \div 2] == IF n = 0 THEN 0 ELSE sum[n - 1] + Uint16(b, 2 * n - 2)
  IN sum[Len(b) \div 2] + (IF Len(b) % 2 = 1 THEN b[Len(b)] ELSE 0)

\* The sum of the big-endian words; the last byte of an odd number of bytes
\* is the high half of a word.
Sum(b) ==
  LET sum[n \in 0 .. Len(b) \div 2] == IF n = 0 THEN 0 ELSE sum[n - 1] + Uint16(b, 2 * n - 2)
  IN sum[Len(b) \div 2] + (IF Len(b) % 2 = 1 THEN b[Len(b)] * 256 ELSE 0)

\* Carries go back in until none is left, then every bit is inverted.
Complement(sum) ==
  LET fold[s \in Nat] == IF s > 65535 THEN fold[(s \div 65536) + (s % 65536)] ELSE s
  IN 65535 - fold[sum]

PseudoHeader(srcIP, dstIP, length) == srcIP \o dstIP \o <<0, 6>> \o U16(length)

calculateTCPChecksum(srcIP, dstIP, tcpSegment) ==
  Complement(Sum(PseudoHeader(srcIP, dstIP, Len(tcpSegment))) + Sum(tcpSegment))

------------------------------------------------------------------------------
(***************************************************************************)
(* FlushToBytes of the three layers, and sendSegmentAt.                    *)
(***************************************************************************)

TCPFlushToBytes(seg) ==
  U16(seg.SourcePort) \o U16(seg.DestPort) \o U32(seg.SeqNum) \o U32(seg.AckNum)
    \o <<seg.DataOffset * 16 + seg.Reserved, seg.Flags>> \o U16(seg.Window)
    \o U16(0) \o U16(seg.UrgPointer)
    \o seg.Options \o Zeros(seg.DataOffset * 4 - 20 - Len(seg.Options)) \o seg.Payload

IPv4FlushToBytes(pkt) ==
  LET length == pkt.IHL * 4 + Len(pkt.Payload)
      header == <<pkt.Version * 16 + pkt.IHL, 0>> \o U16(length) \o U32(<<0, 0>>)
                  \o <<pkt.TTL, pkt.Protocol>> \o U16(0) \o pkt.SrcIP \o pkt.DstIP
                  \o Zeros(pkt.IHL * 4 - 20)
  IN PutUint16(header, 10, Complement(Sum(header))) \o pkt.Payload

EthernetFlushToBytes(f) == f.DstMAC \o f.SrcMAC \o U16(f.EtherType) \o f.Payload

buildMSSOption(n) == <<2, 4>> \o U16(n)

TCPSegment(p) ==
  [SourcePort |-> 443, DestPort |-> 50000, SeqNum |-> p.seq, AckNum |-> p.ack,
   DataOffset |-> DataOffset(p.options), Reserved |-> 0, Flags |-> p.flags,
   Window |-> p.window, UrgPointer |-> 0, Options |-> p.options, Payload |-> p.payload]

\* The frame of a segment under an IP header of ihl words.
TCPFrame(p, ihl) ==
  LET tcpBytes == TCPFlushToBytes(TCPSegment(p))
      checksum == calculateTCPChecksum(LocalIP, RemoteIP, tcpBytes)
      pkt == [Version |-> 4, IHL |-> ihl, TTL |-> 64, Protocol |-> 6, SrcIP |-> LocalIP,
              DstIP |-> RemoteIP, Payload |-> PutUint16(tcpBytes, 16, checksum)]
  IN EthernetFlushToBytes([DstMAC |-> MACs.dst, SrcMAC |-> MACs.src, EtherType |-> 2048,
                           Payload |-> IPv4FlushToBytes(pkt)])

\* What the program sends; only other hosts put options into the IP header.
sendSegmentAt(p) == TCPFrame(p, 5)

\* An echo request as another host builds it.
EchoFrame(p) ==
  LET pkt == [Version |-> 4, IHL |-> p.ihl, TTL |-> 64, Protocol |-> 1, SrcIP |-> LocalIP,
              DstIP |-> RemoteIP, Payload |-> PutUint16(p.icmp, 2, Complement(Sum(p.icmp)))]
  IN EthernetFlushToBytes([DstMAC |-> MACs.dst, SrcMAC |-> MACs.src, EtherType |-> 2048,
                           Payload |-> IPv4FlushToBytes(pkt)])

------------------------------------------------------------------------------
(***************************************************************************)
(* The Parse functions.                                                    *)
(***************************************************************************)

ParseEthernetFrame(buf) ==
  IF Len(buf) < 14 THEN NoPacket
  ELSE [ok |-> TRUE, DstMAC |-> Slice(buf, 0, 6), SrcMAC |-> Slice(buf, 6, 12),
        EtherType |-> Uint16(buf, 12), Payload |-> Slice(buf, 14, Len(buf))]

\* Seeded fault: the padding stays.
ParseIPv4Packet_KeepsPadding(buf) ==
  IF Len(buf) < 20 \/ Len(buf) < (buf[1] % 16) * 4 THEN NoPacket
  ELSE [ok |-> TRUE, Version |-> buf[1] \div 16, IHL |-> buf[1] % 16, TTL |-> buf[9],
        Protocol |-> buf[10], SrcIP |-> Slice(buf, 12, 16), DstIP |-> Slice(buf, 16, 20),
        Payload |-> Slice(buf, (buf[1] % 16) * 4, Len(buf))]

ParseIPv4Packet(buf) ==
  IF Len(buf) < 20 \/ Len(buf) < (buf[1] % 16) * 4 THEN NoPacket
  ELSE LET headerLen == (buf[1] % 16) * 4
           TotalLen == Uint16(buf, 2)
           end == IF TotalLen < headerLen \/ TotalLen > Len(buf) THEN Len(buf) ELSE TotalLen
       IN [ok |-> TRUE, Version |-> buf[1] \div 16, IHL |-> buf[1] % 16, TTL |-> buf[9],
           Protocol |-> buf[10], SrcIP |-> Slice(buf, 12, 16), DstIP |-> Slice(buf, 16, 20),
           Payload |-> Slice(buf, headerLen, end)]

ParseTCPSegment(buf) ==
  IF Len(buf) < 20 \/ Len(buf) < (buf[13] \div 16) * 4 THEN NoPacket
  ELSE LET headerLen == (buf[13] \div 16) * 4
       IN [ok |-> TRUE, SourcePort |-> Uint16(buf, 0), DestPort |-> Uint16(buf, 2),
           SeqNum |-> Uint32(buf, 4), AckNum |-> Uint32(buf, 8),
           DataOffset |-> buf[13] \div 16, Reserved |-> buf[13] % 16, Flags |-> buf[14],
           Window |-> Uint16(buf, 14), UrgPointer |-> Uint16(buf, 18),
           Options |-> IF headerLen > 20 THEN Slice(buf, 20, headerLen) ELSE <<>>,
           Payload |-> Slice(buf, headerLen, Len(buf))]

\* The first half of handleRaw: the segment in the frame, if there is one.
SegmentIn(data) ==
  LET f == ParseEthernetFrame(data)
      pkt == ParseIPv4Packet(f.Payload)
  IN IF ~f.ok \/ f.EtherType # 2048 THEN NoPacket
     ELSE IF ~pkt.ok \/ pkt.Protocol # 6 THEN NoPacket
     ELSE ParseTCPSegment(pkt.Payload)

\* RunICMPEchoServer: the reply to the request in the frame, if there is one.
EchoReply(data) ==
  LET f == ParseEthernetFrame(data)
      pkt == ParseIPv4Packet(f.Payload)
      icmp == pkt.Payload
      reply == <<0, 0, 0, 0>> \o Slice(icmp, 4, Len(icmp))
      answer == [Version |-> 4, IHL |-> 5, TTL |-> 64, Protocol |-> 1, SrcIP |-> pkt.DstIP,
                 DstIP |-> pkt.SrcIP, Payload |-> PutUint16(reply, 2, Complement(Sum(reply)))]
  IN IF ~f.ok \/ f.EtherType # 2048 THEN NoPacket
     ELSE IF ~pkt.ok \/ pkt.Protocol # 1 THEN NoPacket
     ELSE IF Len(icmp) < 2 THEN Panic
     ELSE IF Len(icmp) < 8 \/ icmp[1] # 8 THEN NoPacket
     ELSE [ok |-> TRUE,
           bytes |-> EthernetFlushToBytes([DstMAC |-> f.SrcMAC, SrcMAC |-> f.DstMAC,
                                           EtherType |-> 2048,
                                           Payload |-> IPv4FlushToBytes(answer)])]

------------------------------------------------------------------------------
(***************************************************************************)
(* The way of a packet.                                                    *)
(***************************************************************************)

PacketInit ==
  /\ packet \in Packets
  /\ frame = <<>> /\ how = "built" /\ phase = "send" /\ got = NoPacket /\ optAt = 0 /\ mss = 0

Send ==
  /\ phase = "send" /\ phase' = "wire"
  /\ frame' = CASE packet.kind = "icmp" -> EchoFrame(packet)
                [] packet.kind = "tcp"  -> IF packet.ihl = 5 THEN sendSegmentAt(packet)
                                           ELSE TCPFrame(packet, packet.ihl)
  /\ UNCHANGED <<packet, how, got, optAt, mss>>

\* The network hardware fills a short frame up; a capture may be cut short.
PadFrame ==
  /\ phase = "wire" /\ how = "built" /\ Len(frame) < MinFrame
  /\ frame' = frame \o Zeros(MinFrame - Len(frame)) /\ how' = "padded"
  /\ UNCHANGED <<packet, phase, got, optAt, mss>>

CutFrame(n) ==
  /\ phase = "wire" /\ how = "built" /\ n < Len(frame)
  /\ frame' = Slice(frame, 0, n) /\ how' = "cut"
  /\ UNCHANGED <<packet, phase, got, optAt, mss>>

\* A SYN goes on to handleSYN, which looks for the peer's MSS.
ReceiveSegment ==
  /\ phase = "wire" /\ packet.kind = "tcp"
  /\ got' = SegmentIn(frame)
  /\ phase' = IF got'.ok /\ got'.Flags = 2 THEN "option" ELSE "done"
  /\ UNCHANGED <<packet, frame, how, optAt, mss>>

ReceiveEcho ==
  /\ phase = "wire" /\ packet.kind = "icmp"
  /\ got' = EchoReply(frame) /\ phase' = "done"
  /\ UNCHANGED <<packet, frame, how, optAt, mss>>

\* handleSYN's minimum, and pumpSendLocked's default for a zero.
chunkSize(peerMSS) ==
  LET effectiveMSS == IF ourMSS < peerMSS THEN ourMSS ELSE peerMSS
  IN IF effectiveMSS = 0 THEN defaultMSS ELSE effectiveMSS

OptionsEnd(peerMSS) == mss' = chunkSize(peerMSS) /\ phase' = "done" /\ UNCHANGED optAt

SkipTo(n) == optAt' = n /\ UNCHANGED <<phase, mss>>

\* Seeded fault: an option may be shorter than its kind and length.
BadLength_Short(opts, length) == length < 1 \/ optAt + length > Len(opts)

BadLength(opts, length) == length < 2 \/ optAt + length > Len(opts)

\* One turn of parseMSSOption's loop.
parseMSSOption ==
  /\ phase = "option"
  /\ LET opts == got.Options IN
     \/ optAt >= Len(opts) /\ OptionsEnd(defaultMSS)
     \/ optAt < Len(opts) /\ opts[optAt + 1] = 0 /\ OptionsEnd(defaultMSS)
     \/ optAt < Len(opts) /\ opts[optAt + 1] = 1 /\ SkipTo(optAt + 1)
     \/ optAt < Len(opts) /\ opts[optAt + 1] > 1 /\ optAt + 1 >= Len(opts) /\ OptionsEnd(defaultMSS)
     \/ /\ optAt < Len(opts) /\ opts[optAt + 1] > 1 /\ optAt + 1 < Len(opts)
        /\ LET length == opts[optAt + 2] IN
           IF BadLength(opts, length) THEN OptionsEnd(defaultMSS)
           ELSE IF opts[optAt + 1] = 2 /\ length = 4 THEN OptionsEnd(Uint16(opts, optAt + 2))
           ELSE SkipTo(optAt + length)
  /\ UNCHANGED <<packet, frame, how, got>>

PacketNext ==
  \/ Send \/ PadFrame \/ (\E n \in Cuts : CutFrame(n))
  \/ ReceiveSegment \/ ReceiveEcho \/ parseMSSOption

PacketSpec == PacketInit /\ [][PacketNext]_packetVars

------------------------------------------------------------------------------

\* Options and payload as they should arrive.
Filled(options) == options \o Zeros((4 - (Len(options) % 4)) % 4)
Begins(s, t) == Len(s) <= Len(t) /\ s = SubSeq(t, 1, Len(s))

\* A segment arrives as it was sent, whatever the lengths of its options and
\* its payload and with or without Ethernet padding; of a frame cut short
\* the receiver takes nothing, or a shorter payload under the same header.
PacketArrives ==
  packet.kind = "tcp" /\ phase \in {"option", "done"} =>
    /\ how # "cut" => got.ok /\ got.Payload = packet.payload
    /\ got.ok => /\ got.SeqNum = packet.seq /\ got.AckNum = packet.ack
                 /\ got.Flags = packet.flags /\ got.Window = packet.window
                 /\ got.Options = Filled(packet.options)
                 /\ Begins(got.Payload, packet.payload)

\* What a receiver checks: the bytes, every other one as the high half of a
\* word, add up to a multiple of 2^16 - 1, not 0.
Verifies(b) ==
  LET total[n \in 0 .. Len(b)] ==
        IF n = 0 THEN 0 ELSE total[n - 1] + b[n] * (IF n % 2 = 1 THEN 256 ELSE 1)
  IN total[Len(b)] > 0 /\ total[Len(b)] % 65535 = 0

\* The checksums in IP header and segment, and those of an echo reply with
\* the request's data, are what every receiver expects.
ChecksumsVerify ==
  LET f == IF packet.kind = "icmp" /\ got.ok THEN got.bytes ELSE frame
      header == Slice(f, 14, 14 + 4 * (f[15] % 16))
      rest == Slice(f, 14 + 4 * (f[15] % 16), 14 + Uint16(f, 16))
  IN /\ phase = "wire" /\ how # "cut" =>
          /\ Verifies(header)
          /\ packet.kind = "tcp" => Verifies(PseudoHeader(LocalIP, RemoteIP, Len(rest)) \o rest)
     /\ phase = "done" /\ packet.kind = "icmp" /\ how # "cut" =>
          /\ got.ok /\ Verifies(header) /\ Verifies(rest)
          /\ rest[1] = 0 /\ Slice(rest, 4, Len(rest)) = Slice(packet.icmp, 4, Len(packet.icmp))

\* The options as the RFC reads them: a cut of the block into options, up to
\* the first MSS option; the MSS in it.
OneOption(o) == o = <<1>> \/ (Len(o) >= 2 /\ o[1] > 1 /\ o[2] = Len(o))
AdvertisedMSS(opts) ==
  LET places == {at \in 0 .. Len(opts) - 4 : opts[at + 1] = 2 /\ opts[at + 2] = 4}
      precedes(a, b, S) == a < b /\ \A c \in S : c <= a \/ b <= c
      tiled(S) == \A a, b \in S : precedes(a, b, S) => OneOption(Slice(opts, a, b))
      reached(at) == \E S \in SUBSET (0 .. at) : {0, at} \subseteq S /\ tiled(S)
      found == {at \in places : reached(at)}
  IN IF found = {} THEN defaultMSS
     ELSE Uint16(opts, (CHOOSE at \in found : \A b \in found : at <= b) + 2)

\* After a SYN the connection sends chunks of at least one byte, of at most
\* ourMSS and of at most what the peer advertised in its options, if that
\* was a possible size; malformed options count as none.
ChunkSizeNegotiated ==
  packet.kind = "tcp" /\ phase = "done" /\ got.ok /\ got.Flags = 2 =>
    LET peer == AdvertisedMSS(got.Options) IN
    mss = IF peer = 0 THEN defaultMSS ELSE IF peer < ourMSS THEN peer ELSE ourMSS

=============================================================================
