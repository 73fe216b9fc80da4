SPECIFICATION FairSpec
CONSTANTS
  t1 = t1
  t2 = t2
  Threads <- MCThreads
  Pages <- MCPages
  Owned <- MCOwned
  LockLimit = 2
  MaxRetries = 3
INVARIANTS
  HeldIsProtected
  NothingKept
PROPERTIES
  UnlockBeforeDump
  CallReturns
