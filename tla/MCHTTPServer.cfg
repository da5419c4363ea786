\* The parser on every short request head, and concurrent requests on the
\* orders store.
SPECIFICATION HTTPFairSpec
CONSTANTS
  Conns = {1, 2, 3}
  Workloads <- MCWorkloads
  None = None
  maxHeaders = 3
  maxBodySize = 3
  DocLen = 2
  Numerals <- MCNumerals
  Pool = {1, 2}
  MaxFaults = 1
INVARIANTS
  ParserAcceptsWellFormed
  OrdersAreComplete
  ServerErrorsHaveCause
PROPERTIES
  ImplementsOrderBook
  EveryRequestAnswered
CHECK_DEADLOCK FALSE
