\* Both directions with late callbacks and late IO cycles
SPECIFICATION Spec
CONSTANTS
  Ring = 9
  Word = 18
  Period = 3
  IOFrames = 2
  SafetyOffset = 2
  DaemonLate = 1
  HalLate = 3
  MaxClock = 22
CHECK_DEADLOCK FALSE
INVARIANT CopiesInRing
INVARIANT AudioIntact
PROPERTY ImplementsLink
