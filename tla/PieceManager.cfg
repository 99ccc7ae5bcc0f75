\* Three pieces of 2, 2 and 1 blocks (the last one short), one at a time, and
\* peers that come and go.
CONSTANTS
  BLOCK_SIZE = 2
  PIECE_SIZE = 4
  TORRENT_SIZE = 9
  MAX_MEMPOOL_SIZE = 4
  UINT16 = 65536
  UINT32 = 4096
  RequestTimeout = 0
  MaxAvail = 2
  Good = Good
  Bad = Bad
  NoData = NoData
  NoBlock = NoBlock
SPECIFICATION CallsSpec
INVARIANTS
  PmTypeOK
  PoolNeverExhausted
  FileHoldsPieces
  EveryPieceOrdered
PROPERTIES
  ImplementsVerifiedDownload
  EndgameListsMissing
