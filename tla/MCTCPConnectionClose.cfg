\* Close and the peer's FIN at the same time.
SPECIFICATION ConnSpec
CONSTANTS
  Half = 4
  ISS = 6
  IRS = 6
  MSS = 2
  defaultMSS = 1
  MaxWindow = 2
  initialRTO = 1
  maxRTO = 2
  PeerSeqs = {7, 0}
  Windows = {0, 2}
  WriteSizes = {2}
  MaxBytes = 2
  MaxCallbacks = 1
  PeerBytes = 1
  ReadSizes = {1}
  ReadChCap = 1
INVARIANT CloseTakesEffect
CHECK_DEADLOCK FALSE
