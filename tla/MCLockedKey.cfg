SPECIFICATION Spec
CONSTANTS
  t1 = t1
  t2 = t2
  k1 = k1
  k2 = k2
  NoKey = NoKey
  NoPage = NoPage
  Threads <- MCThreads
  Pages <- MCPages
  Keys <- MCKeys
  LockLimit = 2
  MaxRetries = 2
  MaxFaults = 1
INVARIANTS
  TypeOK
  KeyResidency
  FreedPageIsErased
  ReleasedPageRestored
  FailStop
  NoTagResidue
SYMMETRY Symmetry
