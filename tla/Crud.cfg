SPECIFICATION FairSpec
CONSTANTS
  Request = {1, 2}
  Id = {1, 2}
  Body = {b1, b2}
  None = None
  MaxOpen = 2
  MaxStored = 1
INVARIANT IInv
INVARIANT FoundStays
PROPERTY ImplementsEmployeeStore
PROPERTY DeletedStaysDeleted
PROPERTY EveryRequestAnswered
CHECK_DEADLOCK FALSE
