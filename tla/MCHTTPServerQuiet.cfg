\* A stream that ends inside a request's head, right behind a line.
SPECIFICATION HTTPSpec
CONSTANTS
  Conns = {1, 2, 3}
  Workloads <- MCWorkloads
  None = None
  maxHeaders = 3
  maxBodySize = 3
  DocLen = 2
  Numerals <- MCNumerals
  Pool = {1, 2}
  MaxFaults = 1
INVARIANT QuietOnlyBeforeAnyBytes
CHECK_DEADLOCK FALSE
