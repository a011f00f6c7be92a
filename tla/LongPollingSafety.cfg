SPECIFICATION Spec
CONSTANTS
  Client = {c1, c2, c3}
  Poll = {p1, p2, p3}
  Post = {s1, s2}
  MaxSends = 2
  MaxPolls = 2
  Disconnects = FALSE
  None = None
  Gone = Gone
SYMMETRY Symmetry
INVARIANT IInv
INVARIANT NoLostWakeup
INVARIANT FifoPerClient
INVARIANT OneOrder
CHECK_DEADLOCK FALSE
