SPECIFICATION ObjectFairSpec
CONSTANTS
  HalThreads = {h1, h2}
  Queue = q
  Threads = {h1, h2, q}
  Mutexes = {"plug-in", "state", "io", "map"}
  None = none
  MaxCalls = 3
INVARIANT ObjectTypeOK
INVARIANT NoUseAfterFree
INVARIANT PublishedResolve
INVARIANT LockOrder
PROPERTY ImplementsLock
PROPERTY ImplementsLife
PROPERTY EveryCallReturns
PROPERTY RemovedIsDestroyed
CHECK_DEADLOCK FALSE
