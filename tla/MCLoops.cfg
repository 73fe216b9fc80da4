SPECIFICATION LoopSpec
CONSTANTS
  Word = 4
  Memory = 16
  TagLen = 7
  WordLen = 3
INVARIANTS
  AllErased
  OthersUntouched
  SingleFaultIsCaught
  FoldIsEquality
CHECK_DEADLOCK FALSE
