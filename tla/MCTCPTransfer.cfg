\* Reliable delivery over a lossy, duplicating and reordering network.
SPECIFICATION TransferSpec
CONSTANTS
  Half = 4
  ISS = 6
  IRS = 7
  MSS = 2
  defaultMSS = 1
  MaxWindow = 2
  initialRTO = 1
  maxRTO = 2
  PeerSeqs = {0}
  PeerSeq = 0
  Windows = {1, 2}
  WriteSizes = {1, 2}
  MaxBytes = 3
  MaxCallbacks = 1
INVARIANT PeerReadsTheStream
PROPERTY EverythingIsAcked
CHECK_DEADLOCK FALSE
