SPECIFICATION ChunkFairSpec
CONSTANTS
  Texts <- MCTexts
  Lengths = {0, 6, 7, 10, 11, 13, 15}
  MaxBlank = 2
  CharsPerToken = 2
  SmallTokens = 4
  MediumTokens = 6
  Size = 4
  Overlap = 1
  Back = 2
  Ahead = 1
INVARIANTS
  NothingLost
  ChunksFit
  InOrder
PROPERTIES
  LoopAdvances
  Ends
