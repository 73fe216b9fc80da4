SPECIFICATION Spec
CONSTANTS
  BlockLen = 4
  Last = 31
  ReadLens = {0, 1, 3, 4, 5, 9}
  Offsets <- Relative
PROPERTY IsAStream
