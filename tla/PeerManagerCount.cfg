\* Two peers and a limit of one; freed memory keeps its value.
CONSTANTS
  Peers = {p1, p2}
  NoEntry = NoEntry
  MAX_RETRIES = 2
  MAX_PEER_COUNT = 1
  UINT32 = 3
  FreedReads = {}
SPECIFICATION Spec
INVARIANT CountCoversRuns
