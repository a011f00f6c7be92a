SPECIFICATION FairSpec
CONSTANTS
  Peer = {p1, p2}
  Publisher = {p1}
  MaxSaid = 2
  MaxLosses = 2
INVARIANT IInv
INVARIANT ShownInOrder
PROPERTY SaidIsShown
PROPERTY LossIsForwarded
CHECK_DEADLOCK FALSE
