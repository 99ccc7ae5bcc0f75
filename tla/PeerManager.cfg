\* Two peers and a limit of one, so that the limit is met and passed.
CONSTANTS
  Peers = {p1, p2}
  NoEntry = NoEntry
  MAX_RETRIES = 2
  MAX_PEER_COUNT = 1
  UINT32 = 3
  FreedReads = {TRUE, FALSE}
SPECIFICATION Spec
INVARIANTS
  TypeOK
  StateTellsActivity
PROPERTIES
  OnlyIdleErased
  ReconnectionTerminates
  DisconnectedDropped
