SPECIFICATION FairSpec
CONSTANTS
  Peer = {p1, s1}
  Publisher = {p1}
  Kind = {audio, video}
  MaxDrops = 1
  MaxGone = 1
INVARIANT IInv
INVARIANT SendersKept
INVARIANT DisagreementIsPending
PROPERTY ImplementsForwarding
PROPERTY AgreementCatchesUp
PROPERTY PublishedIsSeen
CHECK_DEADLOCK FALSE
