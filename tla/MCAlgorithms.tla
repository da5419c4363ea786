----------------------------- MODULE MCAlgorithms -----------------------------
(***************************************************************************)
(* Packets, messages, lines and key exchanges for TLC.  Lengths of 32      *)
(* bytes in the TLS messages shrink to 2.                                  *)
(***************************************************************************)
EXTENDS Algorithms
LOCAL INSTANCE SequencesExt   \* SeqOf

Segment(flags, options, payload, ihl) ==
  [kind |-> "tcp", ihl |-> ihl, flags |-> flags, seq |-> <<65535, 65534>>, ack |-> <<0, 258>>,
   window |-> 65535, options |-> options, payload |-> payload]

\* SYNs with any short option block, data segments, and echo requests.
MCPackets ==
  {Segment(2, options, <<>>, 5) : options \in SeqOf(0 .. 4, 5)}
  \cup {Segment(2, buildMSSOption(n), <<>>, 5) : n \in {0, 1, 536, 1460, 1461, 65535}}
  \cup {Segment(24, options, payload, ihl) :
          options \in {<<>>, <<1, 1, 1>>}, payload \in SeqOf({0, 1, 255}, 5), ihl \in {5, 6}}
  \cup {[kind |-> "icmp", ihl |-> ihl, icmp |-> <<8, 0, 0, 0>> \o data] :
          ihl \in {5, 6}, data \in {d \in SeqOf({0, 1, 255}, 6) : Len(d) >= 4}}

------------------------------------------------------------------------------

Hello(sid, suites, comp, exts) ==
  [kind |-> "hello", version |-> 771, random |-> <<7, 8>>, sid |-> sid, suites |-> suites,
   comp |-> comp, exts |-> exts]

HostName == <<serverName, <<<<1, <<5>>>>, <<0, <<97, 98>>>>, <<0, <<99>>>>>>>>
NoHost == <<serverName, <<<<1, <<5>>>>>>>>
Versions == <<supportedVersions, <<772, 771>>>>
Groups == <<supportedGroups, <<29>>>>
Schemes == <<signatureAlgorithms, <<>>>>
Shares == <<keyShare, <<<<23, <<1>>>>, <<29, <<3, 4>>>>>>>>
Other == <<21, <<0, 0>>>>

MCHellos ==
  {Hello(sid, <<4865>>, <<0>>, <<Versions, Shares>>) : sid \in {<<>>, <<1, 2>>, <<1, 2, 3>>}}
  \cup {Hello(<<>>, <<>>, comp, <<>>) : comp \in {<<>>, <<0>>, <<1>>, <<0, 0>>}}
  \cup {Hello(<<9>>, <<4866, 4865>>, <<0>>, <<a, b>>) :
          a \in {HostName, Versions, Shares, Other}, b \in {NoHost, Groups, Schemes, Shares, Other}}
  \cup {Hello(<<9>>, <<4865>>, <<0>>, <<HostName, Other, Groups, Schemes, Shares, Versions>>)}

MCFlights ==
  {[kind |-> "flight", random |-> <<1, 2>>, sid |-> sid, pub |-> <<3, 4>>, cert |-> Zeros(n),
    sig |-> Zeros(m), verify |-> <<6, 7>>] : sid \in {<<>>, <<8, 9>>}, n \in {1, 253, 254, 300}, m \in {70, 256}}

MCDamages ==
  {<<"cut", n>> : n \in 1 .. 6} \cup {<<"append", 0>>}
  \cup {<<"set", k, b>> : k \in 1 .. 45, b \in {0, 1, 2, 4, 10, 255}}

------------------------------------------------------------------------------

\* Every short line over the symbols that matter to each parser, with ends.
MCStreams ==
  {<<"request", s \o <<"lf">>>> : s \in SeqOf({"a", "/", "sp", "HTTP/"}, 6)}
  \cup {<<"request", <<"a", "sp">> \o s \o <<"lf">>>> : s \in SeqOf({"/", "sp", "tab", "HTTP/"}, 5)}
  \cup {<<"header", s \o <<"cr", "lf">>>> : s \in SeqOf({"a", ":", "sp", "tab"}, 5)}
  \cup {<<"header", s>> : s \in SeqOf({"a", ":", "cr", "lf"}, 5)}
  \cup {<<"header", <<"a", ":", "a", "a", "a">> \o s>> : s \in SeqOf({"a", "cr", "lf"}, 5)}

==============================================================================
