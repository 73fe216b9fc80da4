CONSTANTS
  LowSpan = 16
  HighSpan = 2
  Cpus <- MCCpus
  Counts = {0, 6, 11, 27}
  BlockCounts = {1, 2}
  FirstCounters = {14, 31}
  XofLengths = {0, 1, 2, 3, 6}
SPECIFICATION Spec
INVARIANTS
  SlotsAreHashes
  InBounds
  BatchesAreSupported
  BlocksAreTheStream
