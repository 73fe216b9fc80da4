SPECIFICATION HasherSpec
CONSTANTS
  BlockLen = 2
  ChunkLen = 4
  MaxDepth = 3
  Degrees = {1, 2, 4}
  Offsets = {0, 2, 3, 4}
  MaxInput = 32
  Reserve = 3
  MaxWitness = 32
  HeadLen = 3
  ConcatMin = 8
  ConcatLimit = 12
  AadLens <- SomeAad
  MsgLens <- AllMsg
INVARIANTS
  TagTypeOK
  FinalIsTree
  OffsetIsNode
  TagsAgree
  SlotsAreLive
CHECK_DEADLOCK FALSE
