---------------------------- MODULE PieceManager ----------------------------
(***************************************************************************)
(* class PieceManager: which pieces are complete, which are being          *)
(* downloaded, how rare each one is, and when the endgame starts.          *)
(*                                                                         *)
(* Every member function that changes state is an action whose parameters  *)
(* are the arguments of the call and, for request_next_block, the value it *)
(* returns.  A peer's bitfield is the set of pieces it has.  The payload   *)
(* of a block is Good (the bytes of the torrent) or Bad (anything else),   *)
(* so the SHA-1 digest of a piece matches when all its blocks are Good.    *)
(* File contents are modelled by origin: file[i] is the index of the       *)
(* torrent byte that was last written at offset i, Garbage for a byte that *)
(* is not the torrent's, or Unwritten.                                     *)
(***************************************************************************)
EXTENDS Piece, Sequences, FiniteSets

CONSTANTS
  PIECE_SIZE,        \* piece_size_, in bytes
  TORRENT_SIZE,      \* torrent_size_, in bytes
  MAX_MEMPOOL_SIZE,  \* bytes of piece data that may be held in memory
  UINT32,            \* 2^32, the modulus of uint32_t arithmetic
  Good, Bad,         \* payloads
  NoBlock            \* the empty optional

ASSUME SizesAssumption ==
  /\ PIECE_SIZE \in Nat \ {0}
  /\ TORRENT_SIZE \in Nat \ {0}
  /\ MAX_MEMPOOL_SIZE \in Nat \ {0}
  /\ UINT16 \in Nat \ {0}
  /\ UINT32 \in Nat \ {0}
ASSUME BlockCountAssumption == ceil_div(PIECE_SIZE, BLOCK_SIZE) <= UINT16
ASSUME PayloadAssumption == NoData # Good /\ NoData # Bad /\ Good # Bad

VARIABLES
  piece_completed_,   \* the pieces that are verified and written
  piece_avail_,       \* "number of peers that have the ith piece", modulo UINT16
  requested_pieces_,  \* the map from piece indices to Pieces
  sorted_pieces_,     \* piece indices, rarest first
  are_pieces_sorted_,
  pieces_left_,
  completion_flag_,
  endgame_,
  endgame_requests_,  \* the blocks missing when the endgame started
  file                \* what FileManager has written

pmVars == <<piece_completed_, piece_avail_, requested_pieces_, sorted_pieces_,
            are_pieces_sorted_, pieces_left_, completion_flag_, endgame_,
            endgame_requests_, file>>
orderVars == <<piece_avail_, sorted_pieces_, are_pieces_sorted_>>
endgameVars == <<endgame_, endgame_requests_>>
diskVars == <<piece_completed_, pieces_left_, completion_flag_, file>>

Payload == {Good, Bad}
Unwritten == -1
Garbage == -2
pieces_cnt_ == ceil_div(TORRENT_SIZE, PIECE_SIZE)
PieceIds == 0 .. pieces_cnt_ - 1
Bytes == 0 .. TORRENT_SIZE - 1
max_active_requests_ == ceil_div(MAX_MEMPOOL_SIZE, PIECE_SIZE)

\* The size of a piece, as request_next_block computes it.
cur_piece_size(p) ==
  IF p = pieces_cnt_ - 1 THEN 1 + ((TORRENT_SIZE - 1) % PIECE_SIZE)
                         ELSE PIECE_SIZE

BlocksOf(p) == BlockRange(cur_piece_size(p))
requested_ids == DOMAIN requested_pieces_

\* The constructor.
PmInit ==
  /\ piece_completed_ = [p \in PieceIds |-> FALSE]
  /\ piece_avail_ = [p \in PieceIds |-> 0]
  /\ requested_pieces_ = [p \in {} |-> NoData]
  /\ sorted_pieces_ = [i \in 1 .. pieces_cnt_ |-> i - 1]
  /\ are_pieces_sorted_ = FALSE
  /\ pieces_left_ = pieces_cnt_
  /\ completion_flag_ = FALSE
  /\ endgame_ = FALSE
  /\ endgame_requests_ = {}
  /\ file = [i \in Bytes |-> Unwritten]

completed == pieces_left_ = 0
completed_thread_safe == completion_flag_
is_endgame == endgame_
get_downloaded_bytes == (pieces_cnt_ - pieces_left_) * PIECE_SIZE

IsBlockReceived(p, offset) ==
  \/ piece_completed_[p]
  \/ /\ p \in requested_ids
     /\ is_block_received(requested_pieces_[p], get_block_index(offset))

endgame_remaining_blocks(bitfield) ==
  IF endgame_ THEN {r \in endgame_requests_ : r[1] \in bitfield} ELSE {}
-----------------------------------------------------------------------------
(* Availability *)

UpdatePiecesAvailability(bitfield, sign) ==
  /\ piece_avail_' = [p \in PieceIds |->
       IF p \in bitfield THEN (piece_avail_[p] + sign) % UINT16
                         ELSE piece_avail_[p]]
  /\ are_pieces_sorted_' = (are_pieces_sorted_ /\ bitfield = {})
  /\ UNCHANGED <<sorted_pieces_, requested_pieces_, diskVars, endgameVars>>

AddPeerBitfield(bitfield) == UpdatePiecesAvailability(bitfield, 1)
RemovePeerBitfield(bitfield) == UpdatePiecesAvailability(bitfield, -1)

\* What the comparator of add_available_piece reads for the searched value:
\* it is handed an availability, uses it as a piece index, and may read past
\* the vector.  A stray value only matters by how it compares with the others.
SearchedAvailability(value) ==
  IF value \in PieceIds THEN {piece_avail_[value]}
  ELSE {0} \cup {piece_avail_[p] : p \in PieceIds}

\* Where std::upper_bound may stop when it searches sorted_pieces_ for avail:
\* the number of elements before the returned iterator.  A sequence that is
\* sorted has one such place.
UpperBound(avail) ==
  {k \in 0 .. pieces_cnt_ :
     /\ k > 0 => piece_avail_[sorted_pieces_[k]] <= avail
     /\ k < pieces_cnt_ => avail < piece_avail_[sorted_pieces_[k + 1]]}

\* The loop that walks down from position k to piece p, or to the first one.
WalkDown(p, k) ==
  IF \E i \in 2 .. k : sorted_pieces_[i] = p
  THEN CHOOSE i \in 2 .. k : sorted_pieces_[i] = p
  ELSE 1

\* Mutant: an assignment instead of std::swap.
SwapPositions_Copy(s, i, j) == [s EXCEPT ![i] = s[j]]

SwapPositions(s, i, j) == [s EXCEPT ![i] = s[j], ![j] = s[i]]

AddAvailablePiece(p) ==
  /\ \/ /\ are_pieces_sorted_
        /\ \E avail \in SearchedAvailability(piece_avail_[p]) :
             \E k \in UpperBound(avail) :
               sorted_pieces_' =
                 IF k = 0 THEN sorted_pieces_
                 ELSE SwapPositions(sorted_pieces_, WalkDown(p, k), k)
     \/ /\ ~ are_pieces_sorted_
        /\ UNCHANGED sorted_pieces_
  /\ piece_avail_' = [piece_avail_ EXCEPT ![p] = (@ + 1) % UINT16]
  /\ UNCHANGED <<are_pieces_sorted_, requested_pieces_, diskVars, endgameVars>>
-----------------------------------------------------------------------------
(* Requesting *)

IsOrder(s) ==
  /\ s \in [1 .. pieces_cnt_ -> PieceIds]
  /\ \A p \in PieceIds : \E i \in 1 .. pieces_cnt_ : s[i] = p

AllOrders == {s \in [1 .. pieces_cnt_ -> PieceIds] : IsOrder(s)}

IsSorted(s) ==
  \A i, j \in 1 .. pieces_cnt_ :
    i < j => piece_avail_[s[i]] <= piece_avail_[s[j]]

\* The orders in which the loop of request_next_block may run: the one at
\* hand, or any result of the (unstable) sort.
Orders ==
  IF are_pieces_sorted_ THEN {sorted_pieces_}
  ELSE {s \in AllOrders : IsSorted(s)}

\* Mutant: no limit on the pieces under way.
Yields_NoLimit(p, bitfield) ==
  /\ ~ piece_completed_[p]
  /\ p \in bitfield
  /\ p \in requested_ids => HasNextBlock(requested_pieces_[p])

\* The loop returns from piece p: it is wanted, the peer has it, and it is
\* under way with a block to ask for or may still be started.
Yields(p, bitfield) ==
  /\ ~ piece_completed_[p]
  /\ p \in bitfield
  /\ IF p \in requested_ids
     THEN HasNextBlock(requested_pieces_[p])
     ELSE Cardinality(requested_ids) < max_active_requests_

\* requested_pieces_ with piece p under way.
Emplaced(p) ==
  [q \in requested_ids \cup {p} |->
     IF q \in requested_ids THEN requested_pieces_[q]
                            ELSE NewPiece(cur_piece_size(q))]

\* The tuple that asks for block b of the piece.
BlockInfo(p, pc, b) == <<p, get_block_offset(b), block_size(pc, b)>>

ReturnBlock(order, bitfield, i, result) ==
  LET p  == order[i]
      pc == Emplaced(p)[p]
      b  == NextBlock(pc)
  IN /\ Yields(p, bitfield)
     /\ \A j \in 1 .. i - 1 : ~ Yields(order[j], bitfield)
     /\ result = BlockInfo(p, pc, b)
     /\ requested_pieces_' = [Emplaced(p) EXCEPT ![p] = MarkRequested(@, b)]
     /\ UNCHANGED endgameVars

\* Mutant: pieces that have not been started are forgotten.
EndgameStarts_Early ==
  /\ ~ endgame_
  /\ \A p \in requested_ids : get_unreq_blocks_cnt(requested_pieces_[p]) = 0

EndgameStarts ==
  /\ ~ endgame_
  /\ pieces_left_ = Cardinality(requested_ids)
  /\ \A p \in requested_ids : get_unreq_blocks_cnt(requested_pieces_[p]) = 0

\* The blocks noted when the endgame starts; get_block_size() is BLOCK_SIZE
\* for the short last block of a piece too.
RemainingBlocks ==
  UNION {{<<p, get_block_offset(b), BLOCK_SIZE>> :
            b \in get_remaining_blocks(requested_pieces_[p])} :
         p \in requested_ids}

ReturnNothing(order, bitfield, result) ==
  /\ \A i \in 1 .. pieces_cnt_ : ~ Yields(order[i], bitfield)
  /\ result = NoBlock
  /\ \/ /\ EndgameStarts
        /\ endgame_' = TRUE
        /\ endgame_requests_' = RemainingBlocks
     \/ /\ ~ EndgameStarts
        /\ UNCHANGED endgameVars
  /\ UNCHANGED requested_pieces_

RequestNextBlock(bitfield, result) ==
  \/ /\ completed
     /\ result = NoBlock
     /\ UNCHANGED pmVars
  \/ /\ ~ completed
     /\ \E order \in Orders :
          /\ sorted_pieces_' = order
          /\ are_pieces_sorted_' = TRUE
          /\ \/ \E i \in 1 .. pieces_cnt_ :
                  ReturnBlock(order, bitfield, i, result)
             \/ ReturnNothing(order, bitfield, result)
     /\ UNCHANGED <<piece_avail_, diskVars>>
-----------------------------------------------------------------------------
(* Receiving *)

\* Mutant: a piece is accepted by its first block.
HashMatches_FirstBlock(p, pc) == pc.piece_data_[0] = Good

\* The SHA-1 digest of the buffer is the one in the torrent.
HashMatches(p, pc) == \A b \in BlocksOf(p) : pc.piece_data_[b] = Good

\* FileManager::write of the buffer of piece p; its offset is the product of
\* two uint32_t values.
WritePiece(p, pc) ==
  LET offset == (p * PIECE_SIZE) % UINT32
      byte(j) == IF pc.piece_data_[get_block_index(j)] = Good
                 THEN p * PIECE_SIZE + j ELSE Garbage
  IN file' = [i \in Bytes |->
       IF offset <= i /\ i < offset + pc.piece_size_ THEN byte(i - offset)
                                                     ELSE file[i]]

Erased(p) == [q \in requested_ids \ {p} |-> requested_pieces_[q]]

\* Mutant: pieces_left_ is compared before it is decremented.
ReceivePieceBlock_DoneLate(p, data, offset) ==
  LET pc == ReceiveBlock(requested_pieces_[p], data, offset)
  IN \/ /\ ~ is_complete(pc)
        /\ requested_pieces_' = [requested_pieces_ EXCEPT ![p] = pc]
        /\ UNCHANGED diskVars
     \/ /\ is_complete(pc)
        /\ IF HashMatches(p, pc) THEN WritePiece(p, pc) ELSE UNCHANGED file
        /\ piece_completed_' = [piece_completed_ EXCEPT ![p] = HashMatches(p, pc)]
        /\ pieces_left_' = IF HashMatches(p, pc) THEN pieces_left_ - 1 ELSE pieces_left_
        /\ completion_flag_' = (completion_flag_ \/ pieces_left_ = 0)
        /\ requested_pieces_' = Erased(p)

\* Mutant: a piece whose hash does not match stays in requested_pieces_.
ReceivePieceBlock_MismatchKept(p, data, offset) ==
  LET pc == ReceiveBlock(requested_pieces_[p], data, offset)
      matches == is_complete(pc) /\ HashMatches(p, pc)
  IN IF ~ matches
     THEN /\ requested_pieces_' = [requested_pieces_ EXCEPT ![p] = pc]
          /\ UNCHANGED diskVars
     ELSE /\ WritePiece(p, pc)
          /\ piece_completed_' = [piece_completed_ EXCEPT ![p] = TRUE]
          /\ pieces_left_' = pieces_left_ - 1
          /\ completion_flag_' = (completion_flag_ \/ pieces_left_ = 1)
          /\ requested_pieces_' = Erased(p)

\* The rest of receive_block, for a piece that is in requested_pieces_.
ReceivePieceBlock(p, data, offset) ==
  LET pc == ReceiveBlock(requested_pieces_[p], data, offset)
  IN \/ /\ ~ is_complete(pc)
        /\ requested_pieces_' = [requested_pieces_ EXCEPT ![p] = pc]
        /\ UNCHANGED diskVars
     \/ /\ is_complete(pc) /\ ~ HashMatches(p, pc)
        /\ piece_completed_' = [piece_completed_ EXCEPT ![p] = FALSE]
        /\ requested_pieces_' = Erased(p)
        /\ UNCHANGED <<pieces_left_, completion_flag_, file>>
     \/ /\ is_complete(pc) /\ HashMatches(p, pc)
        /\ WritePiece(p, pc)
        /\ piece_completed_' = [piece_completed_ EXCEPT ![p] = TRUE]
        /\ pieces_left_' = pieces_left_ - 1
        /\ completion_flag_' = (completion_flag_ \/ pieces_left_ = 1)
        /\ requested_pieces_' = Erased(p)

PmReceiveBlock(p, data, offset) ==
  /\ \/ /\ p \notin requested_ids
        /\ UNCHANGED <<requested_pieces_, diskVars>>
     \/ /\ p \in requested_ids
        /\ ReceivePieceBlock(p, data, offset)
  /\ UNCHANGED <<orderVars, endgameVars>>

\* One tick of the clock that the request times are taken from.
PmTick ==
  /\ requested_pieces_' = [p \in requested_ids |-> Older(requested_pieces_[p])]
  /\ UNCHANGED <<orderVars, diskVars, endgameVars>>
=============================================================================
