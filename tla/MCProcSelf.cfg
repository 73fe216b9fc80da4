SPECIFICATION FairSpec
CONSTANTS
  Owner = Owner
  Reader = Reader
  Names <- MCNames
  Fields <- MCFields
  Base = 3
  Kibi = 2
  MaxU64 = 13
  ChunkLen = 5
  MaxLen = 14
  MaxRetries = 3
INVARIANTS
  FieldIsReported
  DescriptorIsClosed
  DenialIsReal
PROPERTIES
  ReadingEnds
