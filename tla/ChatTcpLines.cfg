SPECIFICATION FairSpec
CONSTANTS
  Conn = {c1, c2}
  Room = {r1}
  Text = {t}
  Illegal = Illegal
  MaxRead = 2
  MaxTyped = 2
  None = None
INVARIANT RoomIsALine
CHECK_DEADLOCK FALSE
