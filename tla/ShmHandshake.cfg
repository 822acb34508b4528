\* Driver and daemon of one build, every leftover, two crashes
SPECIFICATION FairSpec
CONSTANTS
  Region = 2
  Version = 5
  Leftovers <- MCLeftovers
  MaxCrashes = 2
CHECK_DEADLOCK FALSE
INVARIANT TypeOK
INVARIANT LayoutAgreed
INVARIANT SameMemory
PROPERTY EventuallyShared
