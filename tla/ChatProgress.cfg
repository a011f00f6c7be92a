SPECIFICATION FairSpec
CONSTANTS
  Conn = {c1, c2}
  Room = {r1}
  Text = {t}
  Illegal = Illegal
  MaxRead = 1
  MaxTyped = 3
  None = None
PROPERTY QueuedIsShown
PROPERTY GoneIsForgotten
CHECK_DEADLOCK FALSE
