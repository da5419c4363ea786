\* The connection table, the listener and the life of connections.
SPECIFICATION StackFairSpec
CONSTANTS
  Peers = {p1, p2}
  AcceptCap = 1
  MaxConns = 3
INVARIANTS
  StackTypeOK
  HandedOverOnce
  TableSound
PROPERTY AcceptedEventually
CHECK_DEADLOCK FALSE
