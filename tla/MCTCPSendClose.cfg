\* Close while written bytes still wait for the window.
SPECIFICATION SendSpec
CONSTANTS
  Half = 6
  ISS = 9
  IRS = 11
  MSS = 2
  defaultMSS = 1
  MaxWindow = 4
  initialRTO = 1
  maxRTO = 3
  PeerSeqs = {11, 0}
  Windows = {0, 1, 4}
  WriteSizes = {1, 3}
  MaxBytes = 5
  MaxCallbacks = 2
INVARIANT BufferedBytesKeepTheirPlace
