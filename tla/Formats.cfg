\* Texts of up to six characters, torrents of every shape; two messages under
\* way each way, two blocks in a buffer.
CONSTANTS
  MAX_STRING_LEN = 1
  NoTorrent = NoTorrent
  Characters = {"i", "l", "d", "e", ":", "0", "1", "-"}
  MaxText = 6
  NoHash = NoHash
  info_hash <- Hash
  peer_id <- PeerId
  Greetings <- SomeGreetings
  PeerMessages <- SomeMessages
  BlockInfos <- SomeInfos
  MAX_BLOCKS_IN_FLIGHT = 2
  RECEIVE_BUFFER = 308
  MaxOnWire = 2
SPECIFICATION FormatsSpec
INVARIANTS
  AcceptsGrammar
  SpansExact
  TorrentRead
  NobodyWaitsInVain
PROPERTIES
  HandshakeChecked
  RequestsArrive
  MessagesArrive
