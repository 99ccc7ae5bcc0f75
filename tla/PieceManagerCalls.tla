------------------------- MODULE PieceManagerCalls -------------------------
(***************************************************************************)
(* PieceManager under every sequence of the calls its clients, the peer    *)
(* connections, make.  A client takes back only availability that has been *)
(* added (PeerConnection keeps this, see Swarm), and a block that arrives  *)
(* lies inside its piece.                                                  *)
(***************************************************************************)
EXTENDS PieceManager

CONSTANT MaxAvail  \* bound on the availability of a piece

\* Beyond it piece_avail_, an uint16_t, would wrap.
ASSUME MaxAvailAssumption == MaxAvail \in 0 .. UINT16 - 1

Requests ==
  UNION {{BlockInfo(p, NewPiece(cur_piece_size(p)), b) : b \in BlocksOf(p)} :
         p \in PieceIds}

Add(bitfield) ==
  /\ \A p \in bitfield : piece_avail_[p] < MaxAvail
  /\ AddPeerBitfield(bitfield)

Remove(bitfield) ==
  /\ \A p \in bitfield : piece_avail_[p] > 0
  /\ RemovePeerBitfield(bitfield)

Have(p) ==
  /\ piece_avail_[p] < MaxAvail
  /\ AddAvailablePiece(p)

Request(bitfield) ==
  \E result \in Requests \cup {NoBlock} : RequestNextBlock(bitfield, result)

Receive(p, b, data) == PmReceiveBlock(p, data, get_block_offset(b))

CallsNext ==
  \/ \E bitfield \in SUBSET PieceIds : Add(bitfield)
  \/ \E bitfield \in SUBSET PieceIds : Remove(bitfield)
  \/ \E p \in PieceIds : Have(p)
  \/ \E bitfield \in SUBSET PieceIds : Request(bitfield)
  \/ \E p \in PieceIds : \E b \in BlocksOf(p), data \in Payload :
       Receive(p, b, data)
  \/ PmTick

CallsSpec == PmInit /\ [][CallsNext]_pmVars
-----------------------------------------------------------------------------
(* Properties *)

\* Every member keeps its type; a piece in requested_pieces_ always has a
\* block left, so receive_block never indexes remaining_blocks_[-1].
PmTypeOK ==
  /\ piece_completed_ \in [PieceIds -> BOOLEAN]
  /\ piece_avail_ \in [PieceIds -> 0 .. UINT16 - 1]
  /\ requested_ids \subseteq PieceIds
  /\ \A p \in requested_ids : 
       /\ requested_pieces_[p] \in PieceOfSize(cur_piece_size(p), Payload)
       /\ ~ is_complete(requested_pieces_[p])
  /\ sorted_pieces_ \in [1 .. pieces_cnt_ -> PieceIds]
  /\ are_pieces_sorted_ \in BOOLEAN
  /\ pieces_left_ \in 0 .. pieces_cnt_
  /\ completion_flag_ \in BOOLEAN
  /\ endgame_ \in BOOLEAN
  /\ file \in [Bytes -> Bytes \cup {Unwritten, Garbage}]

\* The memory pools hold max_active_requests_ pieces: request_next_block never
\* has more under way, and no verified piece keeps a buffer or is downloaded
\* a second time.
PoolNeverExhausted ==
  /\ Cardinality(requested_ids) <= max_active_requests_
  /\ \A p \in requested_ids : ~ piece_completed_[p]

\* The swaps of add_available_piece, made after a search with the wrong key,
\* never drop a piece from sorted_pieces_: every piece can still be requested.
EveryPieceOrdered == IsOrder(sorted_pieces_)

\* A block that is missing from a piece that is not complete.
Missing(p, b) == ~ IsBlockReceived(p, get_block_offset(b))

Listed(p, b) == \E r \in endgame_requests_ :
                  r[1] = p /\ get_block_index(r[2]) = b

\* The step that starts the endgame lists exactly the blocks that are missing
\* from the whole torrent.
EndgameListsMissing ==
  [][~ endgame_ /\ endgame_' =>
       \A p \in PieceIds : \A b \in BlocksOf(p) :
         Missing(p, b)' <=> Listed(p, b)']_pmVars

\* endgame_remaining_blocks returns "the blocks that have not been received
\* yet" for the peer that has them.
EndgameCoversMissing ==
  endgame_ => \A p \in PieceIds : \A b \in BlocksOf(p) :
    Missing(p, b) => Listed(p, b)

\* A completed piece is in the file, byte for byte: the tests compare the
\* whole file with the torrent's data.
FileHoldsPieces ==
  \A i \in Bytes : piece_completed_[i \div PIECE_SIZE] => file[i] = i

Abstract == INSTANCE VerifiedDownload WITH
  have <- {p \in PieceIds : piece_completed_[p]},
  done <- completion_flag_

\* Whatever order blocks, bad data, timeouts and repeated requests come in,
\* pieces are stored once, verified and in place, and completion is announced
\* exactly with the last one.
ImplementsVerifiedDownload == Abstract!Spec
=============================================================================
