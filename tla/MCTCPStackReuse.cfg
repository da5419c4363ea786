\* A peer that resets a connection in TIME_WAIT and connects again.
SPECIFICATION StackSpec
CONSTANTS
  Peers = {p1, p2}
  AcceptCap = 1
  MaxConns = 3
INVARIANT OpenConnectionsAreFound
CHECK_DEADLOCK FALSE
