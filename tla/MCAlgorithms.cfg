\* Formats and computations against their definitions.
SPECIFICATION AlgorithmsSpec
CONSTANTS
  Packets <- MCPackets
  Cuts = {13, 30, 35, 50, 56}
  MinFrame = 60
  defaultMSS = 536
  ourMSS = 1460
  Hellos <- MCHellos
  Flights <- MCFlights
  Damages <- MCDamages
  RandomLen = 2
  MaxSessionID = 2
  PublicLen = 2
  Streams <- MCStreams
  MaxLine = 8
  Prime = 113
  a24 = 5
  Bits = 7
  basepoint = 9
  Scalars = {0, 10, 31, 77, 104, 190, 255}
  PeerValues = {0, 1, 2, 3, 5, 8, 40, 41, 42, 43, 44, 100, 111, 112, 113, 114, 120, 127, 128, 200, 255}
INVARIANTS
  PacketArrives
  ChecksumsVerify
  ChunkSizeNegotiated
  MessagesReadBack
  LinesReadAsGrammar
  LadderInvariant
  SecretsAgree
CHECK_DEADLOCK FALSE
