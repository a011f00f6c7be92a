SPECIFICATION FairSpec
CONSTANTS
  Peer = {p1, p2}
  Publisher = {p1, p2}
  Kind = {audio, video}
  MaxDrops = 1
  MaxGone = 0
PROPERTY ConnectedIsSeen
CHECK_DEADLOCK FALSE
