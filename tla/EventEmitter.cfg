SPECIFICATION FairSpec
CONSTANTS
  Call = {c1, c2, c3, c4}
  Event = {click, change}
  Outside = outside
INVARIANT OnlyReentryBlocks
INVARIANT CalledAsRegistered
PROPERTY EveryCallReturns
PROPERTY ReentryBlocks
CHECK_DEADLOCK FALSE
