\* Two peers, a seed and one with the first piece, that never fail.
CONSTANTS
  BLOCK_SIZE = 2
  PIECE_SIZE = 2
  TORRENT_SIZE = 4
  MAX_MEMPOOL_SIZE = 8
  UINT16 = 65536
  UINT32 = 4096
  RequestTimeout = 0
  MAX_RETRIES = 1
  MAX_BLOCKS_IN_FLIGHT = 2
  MAX_BLOCKS_PER_REQUEST = 1
  Peers = {c1, c2}
  Offers <- All
  Haves = {}
  Chokes = {TRUE, FALSE}
  Answers = {Good}
  Errors = {}
  MaxAvail = 2
  MaxWire = 1
  Holds <- OneSeed
  Good = Good
  Bad = Bad
  NoData = NoData
  NoBlock = NoBlock
SPECIFICATION HonestSpec
INVARIANTS
  EndgameKeepsBlocks
PROPERTIES
  HonestDownloadCompletes
