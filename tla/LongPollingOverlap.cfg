SPECIFICATION FairSpec
CONSTANTS
  Client = {c1, c2}
  Poll = {p1, p2}
  Post = {s1, s2}
  MaxSends = 2
  MaxPolls = 2
  Disconnects = FALSE
  None = None
  Gone = Gone
PROPERTY WokenPollAnswers
CHECK_DEADLOCK FALSE
