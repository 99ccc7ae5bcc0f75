-------------------------------- MODULE Wire --------------------------------
(***************************************************************************)
(* One connection as the two streams of bytes that it is.  PeerConnection  *)
(* sends its handshake, "interested", and requests and cancels that it has *)
(* put into send_buffer_ one behind the other; it takes a handshake and    *)
(* then messages out of what arrives, reading the size, the id and the     *)
(* payload of each separately.  A stream keeps its order and is *)
(* lost with its connection.                                               *)
(*                                                                         *)
(* What is on the way is also kept as messages (asked, told): a message is *)
(* its id, the numbers at its front and the rest of its payload.  The last *)
(* message that either side has read is in got and handled.                *)
(*                                                                         *)
(* The peer is external.  It reads and writes as the protocol says; what a *)
(* hostile one may send is not here.                                       *)
(***************************************************************************)
EXTENDS TorrentMessage

CONSTANTS
  info_hash, peer_id,    \* what our handshake says
  Greetings,             \* handshakes of peers, by their fields
  PeerMessages,          \* messages of peers
  BlockInfos,            \* <<piece index, offset, size>> of blocks
  MAX_BLOCKS_IN_FLIGHT,
  RECEIVE_BUFFER,        \* bytes in receive_buffer_ while run runs
  MaxOnWire              \* bound on the messages that are on the way

\* An id that no byte is
Handshake == 256

Message(id, words, rest) == [id |-> id, words |-> words, rest |-> rest]
KeepAlive == Message(ID.KEEP_ALIVE, <<>>, <<>>)
Introduction(hash) == Message(Handshake, <<hash>>, <<>>)

\* The numbers at the front of each type
WordsOf(id) == IF id = ID.PIECE THEN 2 ELSE IF id = ID.HAVE_ THEN 1 ELSE 0

\* The most that receive_buffer_ can be: a bit for each of 2^32 pieces
MAX_PAYLOAD == 536870912

ASSUME BufferAssumption == RECEIVE_BUFFER \in Nat /\ RECEIVE_BUFFER <= MAX_PAYLOAD

ASSUME WireAssumption ==
  /\ info_hash \in [1 .. 20 -> Byte] /\ peer_id \in [1 .. 20 -> Byte]
  /\ NoHash \notin [1 .. 20 -> Byte]
  /\ Greetings \subseteq [protocol : [1 .. 20 -> Byte], reserved : [1 .. 8 -> Byte],
                          hash : [1 .. 20 -> Byte], id : [1 .. 20 -> Byte]]
  /\ \A m \in PeerMessages :
       /\ m = Message(m.id, m.words, m.rest)
       /\ m.id \in Byte
       /\ m.words \in [1 .. WordsOf(m.id) -> UInt32]
       /\ m.rest \in Seq(Byte)
       /\ 4 * WordsOf(m.id) + Len(m.rest) <= RECEIVE_BUFFER
       /\ m.id = ID.KEEP_ALIVE => m = KeepAlive
  /\ BlockInfos \subseteq [1 .. 3 -> UInt32]
  /\ MAX_BLOCKS_IN_FLIGHT \in Nat \ {0}
  /\ MaxOnWire \in Nat

VARIABLES
  state_,
  send_buffer_,
  loading,         \* the id of the messages being loaded, or 0
  loaded,          \* messages in send_buffer_
  outgoing, asked, \* bytes, and messages, on their way to the peer
  introduced,      \* the peer has read our handshake
  got,
  incoming, told,  \* and from it
  greeted,         \* the peer has sent its handshake
  reading,         \* where receive_messages is in a message
  message_size, id,
  handled

ours   == <<send_buffer_, loading, loaded>>
theirs == <<introduced, got>>
stream == <<incoming, told, greeted>>
reader == <<reading, message_size, id>>
wireVars == <<state_, ours, outgoing, asked, theirs, stream, reader, handled>>

WireInit ==
  /\ state_ = "disconnected"
  /\ send_buffer_ = <<>> /\ loading = 0 /\ loaded = <<>>
  /\ outgoing = <<>> /\ asked = <<>> /\ introduced = FALSE /\ got = <<>>
  /\ incoming = <<>> /\ told = <<>> /\ greeted = FALSE
  /\ reading = "size" /\ message_size = 0 /\ id = 0
  /\ handled = <<>>

Drop(seq, n) == SubSeq(seq, n + 1, Len(seq))
-----------------------------------------------------------------------------
(* PeerConnection::connect *)

\* establish_connection and send_handshake
SendHandshake ==
  /\ state_ = "disconnected"
  /\ state_' = "connecting"
  /\ outgoing' = create_handshake_message(info_hash, peer_id)
  /\ asked' = <<Introduction(info_hash)>>
  /\ UNCHANGED <<ours, theirs, stream, reader, handled>>

\* handle_failure: the socket is closed.
HandleFailure ==
  /\ state_' = "disconnected"
  /\ outgoing' = <<>> /\ asked' = <<>> /\ introduced' = FALSE
  /\ incoming' = <<>> /\ told' = <<>> /\ greeted' = FALSE

receive_handshake ==
  /\ state_ = "connecting" /\ Len(incoming) >= 68
  /\ LET hash == parse_handshake_message(SubSeq(incoming, 1, 68))
     IN /\ handled' = <<Introduction(hash)>>
        /\ \/ /\ hash = info_hash
              /\ state_' = "connected"
              /\ incoming' = Drop(incoming, 68) /\ told' = Drop(told, 1)
              /\ UNCHANGED <<outgoing, asked, introduced, greeted>>
           \/ hash # info_hash /\ HandleFailure
  /\ UNCHANGED <<ours, got, reader>>

\* An operation fails, or run is cancelled.
ConnectionLost ==
  /\ state_ # "disconnected" /\ loading = 0
  /\ HandleFailure
  /\ UNCHANGED <<ours, got, reader, handled>>
-----------------------------------------------------------------------------
(* PeerConnection::run and send_requests *)

\* std::vector::resize
Resized(buffer, n) == [i \in 1 .. n |-> IF i <= Len(buffer) THEN buffer[i] ELSE 0]

\* "interested" is written over the front of the buffer, and only it is sent.
SendInterested ==
  /\ state_ = "connected"
  /\ state_' = "running" /\ reading' = "size"
  /\ LET interested == serialize_message(ID.INTERESTED, <<>>)
     IN /\ send_buffer_' = interested \o
                             Drop(Resized(send_buffer_, 17 * MAX_BLOCKS_IN_FLIGHT), 5)
        /\ outgoing' = outgoing \o interested
  /\ asked' = Append(asked, Message(ID.INTERESTED, <<>>, <<>>))
  /\ UNCHANGED <<loading, loaded, theirs, stream, message_size, id, handled>>

\* Mutant: the buffer keeps what was sent before.
StartLoad_Kept(type) ==
  /\ state_ = "running" /\ loading = 0
  /\ Len(asked) < MaxOnWire
  /\ loading' = type /\ loaded' = <<>>
  /\ UNCHANGED <<state_, send_buffer_, outgoing, asked, theirs, stream, reader, handled>>

\* load_block_requests and its twins; nobody else runs until the buffer is sent.
StartLoad(type) ==
  /\ state_ = "running" /\ loading = 0
  /\ Len(asked) < MaxOnWire
  /\ loading' = type /\ loaded' = <<>>
  /\ send_buffer_' = <<>>
  /\ UNCHANGED <<state_, outgoing, asked, theirs, stream, reader, handled>>

\* 17 zero bytes are put at the end of the buffer, and the message is written at
\* i * 17.
InSlot(buffer, i, msg) ==
  LET longer == buffer \o [n \in 1 .. 17 |-> 0]
  IN SubSeq(longer, 1, i * 17) \o msg \o Drop(longer, i * 17 + 17)

LoadBlock(info) ==
  /\ loading # 0
  /\ Len(loaded) < MAX_BLOCKS_IN_FLIGHT
  /\ send_buffer_' = InSlot(send_buffer_, Len(loaded), create_block_message(loading, info))
  /\ loaded' = Append(loaded, Message(loading, info, <<>>))
  /\ UNCHANGED <<state_, loading, outgoing, asked, theirs, stream, reader, handled>>

SendLoaded ==
  /\ loading # 0
  /\ outgoing' = outgoing \o send_buffer_
  /\ asked' = asked \o loaded
  /\ loading' = 0
  /\ UNCHANGED <<state_, send_buffer_, loaded, theirs, stream, reader, handled>>
-----------------------------------------------------------------------------
(* PeerConnection::receive_messages *)

Listening == state_ = "running" /\ loading = 0

Handle(m) == handled' = <<m>> /\ told' = Drop(told, 1) /\ reading' = "size"

\* handle_message and the handlers it calls, as far as they read the payload
handle_message(type, payload) ==
  IF type = ID.PIECE
    THEN LET piece == parse_piece_message(payload)
         IN Message(type, <<piece[1], piece[3]>>, piece[2])
    ELSE IF type = ID.HAVE_
      THEN Message(type, <<host_to_network_order(SubSeq(payload, 1, 4))>>, Drop(payload, 4))
      ELSE Message(type, <<>>, payload)

ReadSize ==
  /\ Listening /\ reading = "size" /\ Len(incoming) >= 4
  /\ message_size' = WordValue(host_to_network_order(SubSeq(incoming, 1, 4)))
  /\ incoming' = Drop(incoming, 4)
  /\ IF message_size' = 0 THEN Handle(KeepAlive)
     ELSE reading' = "id" /\ UNCHANGED <<told, handled>>
  /\ UNCHANGED <<state_, ours, outgoing, asked, theirs, greeted, id>>

ReadId ==
  /\ Listening /\ reading = "id" /\ Len(incoming) >= 1
  /\ id' = incoming[1]
  /\ incoming' = Drop(incoming, 1)
  /\ IF message_size = 1 THEN Handle(handle_message(id', <<>>))
     ELSE reading' = "payload" /\ UNCHANGED <<told, handled>>
  /\ UNCHANGED <<state_, ours, outgoing, asked, theirs, greeted, message_size>>

ReadPayload ==
  /\ Listening /\ reading = "payload" /\ Len(incoming) >= message_size - 1
  /\ incoming' = Drop(incoming, message_size - 1)
  /\ Handle(handle_message(id, SubSeq(incoming, 1, message_size - 1)))
  /\ UNCHANGED <<state_, ours, outgoing, asked, theirs, greeted, message_size, id>>
-----------------------------------------------------------------------------
(* The peer *)

BigEndian(word) == <<word[4], word[3], word[2], word[1]>>

\* The bytes of some numbers, one behind the other
Numbers(words) ==
  [n \in 1 .. 4 * Len(words) |-> BigEndian(words[(n + 3) \div 4])[((n - 1) % 4) + 1]]

Encoded(m) ==
  LET payload == Numbers(m.words) \o m.rest
  IN IF m = KeepAlive THEN <<0, 0, 0, 0>>
     ELSE BigEndian(Word(1 + Len(payload))) \o <<m.id>> \o payload

Protocol == <<19>> \o PROTOCOL_IDENTIFIER

PeerSendsHandshake(g) ==
  /\ state_ # "disconnected" /\ ~ greeted
  /\ greeted' = TRUE
  /\ incoming' = g.protocol \o g.reserved \o g.hash \o g.id
  /\ told' = <<Introduction(IF g.protocol = Protocol THEN g.hash ELSE NoHash)>>
  /\ UNCHANGED <<state_, ours, outgoing, asked, theirs, reader, handled>>

PeerSends(m) ==
  /\ greeted
  /\ Len(told) < MaxOnWire
  /\ incoming' = incoming \o Encoded(m)
  /\ told' = Append(told, m)
  /\ UNCHANGED <<state_, ours, outgoing, asked, theirs, greeted, reader, handled>>

PeerReadsHandshake ==
  /\ ~ introduced /\ Len(outgoing) >= 68
  /\ introduced' = TRUE
  /\ got' = <<Introduction(IF SubSeq(outgoing, 1, 20) = Protocol
                             THEN SubSeq(outgoing, 29, 48) ELSE NoHash)>>
  /\ outgoing' = Drop(outgoing, 68) /\ asked' = Drop(asked, 1)
  /\ UNCHANGED <<state_, ours, stream, reader, handled>>

PeerReads ==
  /\ introduced /\ Len(outgoing) >= 4
  /\ LET size  == WordValue(BigEndian(SubSeq(outgoing, 1, 4)))
         first == SubSeq(outgoing, 5, size + 4)
     IN /\ size > 0 /\ Len(outgoing) >= size + 4
        /\ got' = <<Message(first[1],
                     [n \in 1 .. (size - 1) \div 4 |-> BigEndian(SubSeq(first, 4 * n - 2, 4 * n + 1))],
                     <<>>)>>
        /\ outgoing' = Drop(outgoing, size + 4)
  /\ asked' = Drop(asked, 1)
  /\ UNCHANGED <<state_, ours, introduced, stream, reader, handled>>
-----------------------------------------------------------------------------
WireNext ==
  \/ SendHandshake \/ receive_handshake \/ ConnectionLost \/ SendInterested
  \/ \E type \in {ID.REQUEST, ID.CANCEL} : StartLoad(type)
  \/ \E info \in BlockInfos : LoadBlock(info)
  \/ SendLoaded
  \/ ReadSize \/ ReadId \/ ReadPayload
  \/ \E g \in Greetings : PeerSendsHandshake(g)
  \/ \E m \in PeerMessages : PeerSends(m)
  \/ PeerReadsHandshake \/ PeerReads

WireSpec == WireInit /\ [][WireNext]_wireVars
-----------------------------------------------------------------------------
(* Properties *)

Messages ==
  [id : Byte \cup {Handshake}, words : Seq(Seq(Byte) \cup {NoHash}), rest : Seq(Byte)]

\* What the buffers and streams hold are bytes, also of numbers past 255, and
\* what is read out of them are messages.
WireTypeOK ==
  /\ state_ \in {"disconnected", "connecting", "connected", "running"}
  /\ {send_buffer_, outgoing, incoming} \subseteq Seq(Byte)
  /\ {loaded, asked, got, told, handled} \subseteq Seq(Messages)
  /\ loading \in {0, ID.REQUEST, ID.CANCEL}
  /\ introduced \in BOOLEAN /\ greeted \in BOOLEAN
  /\ reading \in {"size", "id", "payload"}
  /\ message_size \in Nat /\ id \in Byte

\* A connection goes on exactly if the peer has named the protocol and our
\* torrent, wherever the reserved bytes and its id differ from ours, and although
\* its first messages may have come with its handshake.
HandshakeChecked ==
  [][receive_handshake => (state_' = "connected" <=> told[1] = Introduction(info_hash))]_wireVars

Out == INSTANCE MessageChannel WITH on_the_way <- asked, received <- got
In  == INSTANCE MessageChannel WITH on_the_way <- told, received <- handled

\* A peer reads the requests and cancels that were put into the buffer, one by
\* one and in order, and nothing else, whatever was in the buffer before.
RequestsArrive == Out!Spec

\* receive_messages hands over the messages of the peer, one by one and in order,
\* their numbers in host order, and begins anew with every connection.
MessagesArrive == In!Spec

\* Bytes that are still to come are those of messages on the way: neither side
\* waits for the rest of a message of which all has been sent.
NobodyWaitsInVain ==
  /\ introduced /\ asked # <<>> =>
       /\ Len(outgoing) >= 4
       /\ Len(outgoing) >= 4 + WordValue(BigEndian(SubSeq(outgoing, 1, 4)))
  /\ state_ = "running" /\ told # <<>> =>
       Len(incoming) >= CASE reading = "size" -> 4
                          [] reading = "id" -> 1
                          [] reading = "payload" -> message_size - 1
=============================================================================
