\* One peer that answers late.
CONSTANTS
  BLOCK_SIZE = 2
  PIECE_SIZE = 4
  TORRENT_SIZE = 6
  MAX_MEMPOOL_SIZE = 8
  UINT16 = 65536
  UINT32 = 4096
  RequestTimeout = 0
  MAX_RETRIES = 1
  MAX_BLOCKS_IN_FLIGHT = 3
  MAX_BLOCKS_PER_REQUEST = 2
  Peers = {c1}
  Offers <- All
  Haves = {}
  Chokes = {TRUE, FALSE}
  Answers = {Good, Bad}
  Errors = {"failed"}
  MaxAvail = 1
  MaxWire = 2
  Holds <- OneSeed
  Good = Good
  Bad = Bad
  NoData = NoData
  NoBlock = NoBlock
SPECIFICATION Spec
PROPERTY
  RefreshRemovesTimedOut
