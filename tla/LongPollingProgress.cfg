SPECIFICATION FairSpec
CONSTANTS
  Client = {c1, c2}
  Poll = {p1, p2}
  Post = {s1, s2}
  MaxSends = 3
  MaxPolls = 1
  Disconnects = TRUE
  None = None
  Gone = Gone
PROPERTY ImplementsMailboxes
PROPERTY OnlyPostersLoseWakeups
PROPERTY WokenPollAnswers
PROPERTY EveryMessageFetched
PROPERTY SendReturns
CHECK_DEADLOCK FALSE
