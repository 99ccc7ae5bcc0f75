\* A piece of 7 bytes in blocks of 2 bytes: four blocks, the last one short.
CONSTANTS
  BLOCK_SIZE = 2
  RequestTimeout = 1
  PieceSize = 7
  Data = {d1, d2}
  UINT16 = 65536
  NoData = NoData
  NoBlock = NoBlock
SPECIFICATION Spec
INVARIANTS
  TypeOK
  PositionsInverse
  UnrequestedCounted
  ReceivedMeansFilled
PROPERTY
  ImplementsBlockSet
