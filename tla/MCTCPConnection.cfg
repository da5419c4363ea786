\* One connection with an honest peer behind an unreliable network: three
\* bytes from the peer in segments that overlap, repeat and arrive in any
\* order, one byte of the application, and every way to end the connection.
SPECIFICATION ConnFairSpec
CONSTANTS
  Half = 4
  ISS = 6
  IRS = 6
  MSS = 2
  defaultMSS = 1
  MaxWindow = 1
  initialRTO = 1
  maxRTO = 2
  PeerSeqs = {7, 0, 1, 2}
  Windows = {1}
  WriteSizes = {1}
  MaxBytes = 1
  MaxCallbacks = 1
  PeerBytes = 3
  ReadSizes = {1, 2}
  ReadChCap = 2
INVARIANTS
  ConnTypeOK
  DeliveredInOrder
  ChannelDiscipline
  OneCleanup
PROPERTIES
  ImplementsTCPSend
  ReaderIsReleased
CHECK_DEADLOCK FALSE
