SPECIFICATION Spec
CONSTANTS
  Conn = {c1, c2}
  Room = {r1, r2}
  Text = {t}
  Illegal = Illegal
  MaxRead = 2
  MaxTyped = 4
  None = None
SYMMETRY Symmetry
INVARIANT TypeOK
INVARIANT MembershipConsistent
INVARIANT KnownWhileRunning
INVARIANT ShownInOrder
PROPERTY ImplementsRoomChat
CHECK_DEADLOCK FALSE
