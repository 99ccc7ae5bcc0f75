--------------------------- MODULE TorrentMessage ---------------------------
(***************************************************************************)
(* The messages of the peer protocol, byte by byte.  A uint32_t is the     *)
(* sequence of its four bytes in the memory of a little-endian host.       *)
(***************************************************************************)
EXTENDS Integers, Sequences, SequencesExt

CONSTANT NoHash  \* the empty optional of parse_handshake_message

Byte == 0 .. 255
UInt32 == [1 .. 4 -> Byte]

ID == [UNCHOKE |-> 1, INTERESTED |-> 2, HAVE_ |-> 4, BITFIELD |-> 5, REQUEST |-> 6,
       PIECE |-> 7, CANCEL |-> 8, KEEP_ALIVE |-> 10]

\* Mutant: numbers are sent as they lie in memory.
host_to_network_order_Native(word) == word

host_to_network_order(word) == Reverse(word)

\* A number as it lies in memory, and back
Word(n) == <<n % 256, (n \div 256) % 256, (n \div 65536) % 256, n \div 16777216>>
WordValue(word) == word[1] + 256 * word[2] + 65536 * word[3] + 16777216 * word[4]

\* serialize_message for every type but KEEP_ALIVE, which nothing sends
serialize_message(id, payload) ==
  host_to_network_order(Word(1 + Len(payload))) \o <<id>> \o payload

\* create_request_message and create_cancel_message
create_block_message(id, info) ==
  serialize_message(id, host_to_network_order(info[1]) \o host_to_network_order(info[2])
                          \o host_to_network_order(info[3]))

\* Mutant: the block is taken to begin after the piece index.
parse_piece_message_Short(payload) ==
  <<host_to_network_order(SubSeq(payload, 1, 4)), SubSeq(payload, 5, Len(payload)),
    host_to_network_order(SubSeq(payload, 5, 8))>>

\* <<piece index, block, offset>>
parse_piece_message(payload) ==
  IF Len(payload) < 8 THEN <<>>
  ELSE <<host_to_network_order(SubSeq(payload, 1, 4)),
         SubSeq(payload, 9, Len(payload)),
         host_to_network_order(SubSeq(payload, 5, 8))>>
-----------------------------------------------------------------------------
\* "BitTorrent protocol": any 19 bytes
PROTOCOL_IDENTIFIER == [n \in 1 .. 19 |-> 100 + n]

create_handshake_message(info_hash, peer_id) ==
  <<19>> \o PROTOCOL_IDENTIFIER \o [n \in 1 .. 8 |-> 0] \o info_hash \o peer_id

\* Mutant: the protocol identifier is not compared.
parse_handshake_message_Lax(msg) ==
  IF msg[1] # 19 THEN NoHash ELSE SubSeq(msg, 29, 48)

parse_handshake_message(msg) ==
  IF msg[1] # 19 \/ SubSeq(msg, 2, 20) # PROTOCOL_IDENTIFIER THEN NoHash
  ELSE SubSeq(msg, 29, 48)
=============================================================================
