SPECIFICATION FairSpec
CONSTANTS
  t1 = t1
  t2 = t2
  k1 = k1
  k2 = k2
  NoKey = NoKey
  NoPage = NoPage
  Threads <- MCThreads
  Pages <- MCPages
  Keys <- MCKey
  LockLimit = 2
  MaxRetries = 2
  MaxFaults = 0
PROPERTIES
  ImplementsVault
