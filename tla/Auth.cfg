SPECIFICATION AuthFairSpec
CONSTANTS
  Request = {1, 2}
  Key = {k1}
  None = None
  MaxOpen = 2
  MaxStored = 1
  MaxChanges = 1
  MaxRemovals = 1
INVARIANT IInv
INVARIANT FoundRoomStays
INVARIANT EffectsByRight
PROPERTY ImplementsRoomBook
PROPERTY MembersAreAnswered
CHECK_DEADLOCK FALSE
