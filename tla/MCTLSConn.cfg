\* One TLS connection: every cut of the handshake messages into records,
\* every refusal, every way to end, data in both directions.
SPECIFICATION TLSFairSpec
CONSTANTS
  Clients <- MCClients
  Ends = {"after_header", "in_fragment"}
  MaxPlain = 2
  ReadSizes = {1, 2}
  WriteSizes = {3}
  ClientBytes = 3
  ServerBytes = 3
INVARIANTS
  TLSTypeOK
  ClientAccepts
  NoncesUnique
  KeysInStep
PROPERTIES
  FailureIsFinal
  ImplementsSecureChannel
  HandshakeEnds
CHECK_DEADLOCK FALSE
