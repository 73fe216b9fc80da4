SPECIFICATION Spec
CONSTANTS
  t1 = t1
  t2 = t2
  Threads <- MCThreads
  Pages <- MCPages
  Owned <- MCOwned
  LockLimit = 2
  MaxRetries = 2
INVARIANTS
  LockedIsExcluded
