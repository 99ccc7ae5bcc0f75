------------------------- MODULE PieceManagerProofs -------------------------
(***************************************************************************)
(* PieceManagerCalls for every torrent size, piece size, block size, pool  *)
(* size and timeout.                                                       *)
(***************************************************************************)
EXTENDS PieceManagerCalls, PieceTheorems

Incomplete == {p \in PieceIds : ~ piece_completed_[p]}

\* Each piece under way is a well-formed Piece.
PiecesWellFormed == \A p \in requested_ids : WellFormed(requested_pieces_[p])

\* pieces_left_ counts the incomplete pieces, and the flag says it is zero.
LeftExact ==
  /\ pieces_left_ = Cardinality(Incomplete)
  /\ completion_flag_ <=> pieces_left_ = 0

\* The inductive invariant.
PmInv ==
  /\ PmTypeOK
  /\ PiecesWellFormed
  /\ PoolNeverExhausted
  /\ EveryPieceOrdered
  /\ LeftExact

-----------------------------------------------------------------------------
(* Constants and sizes *)

\* There is at least one piece, none is empty, and the pools hold at least
\* one.
LEMMA Sizes ==
  /\ pieces_cnt_ \in Nat \ {0}
  /\ PieceIds = 0 .. pieces_cnt_ - 1
  /\ max_active_requests_ \in Nat \ {0}
  /\ \A p \in PieceIds : cur_piece_size(p) \in Nat \ {0}
  /\ NoData \notin Payload
<1>1. pieces_cnt_ \in Nat \ {0} /\ max_active_requests_ \in Nat \ {0}
  BY CeilDivPositive, SizesAssumption DEF pieces_cnt_, max_active_requests_
<1>2. ASSUME NEW p \in PieceIds
      PROVE  cur_piece_size(p) \in Nat \ {0}
  <2>1. (TORRENT_SIZE - 1) % PIECE_SIZE \in Nat
    BY SizesAssumption
  <2> QED BY <2>1, SizesAssumption DEF cur_piece_size
<1>3. NoData \notin Payload
  BY PayloadAssumption DEF Payload
<1> QED BY <1>1, <1>2, <1>3 DEF PieceIds

\* The piece indices form a finite set of pieces_cnt_ elements.
LEMMA PieceIdsFinite ==
  IsFiniteSet(PieceIds) /\ Cardinality(PieceIds) = pieces_cnt_
<1>1. 0 \in Int /\ pieces_cnt_ - 1 \in Int /\ pieces_cnt_ \in Nat \ {0}
  BY Sizes
<1>2. /\ IsFiniteSet(0 .. pieces_cnt_ - 1)
      /\ Cardinality(0 .. pieces_cnt_ - 1) =
           IF 0 > pieces_cnt_ - 1 THEN 0 ELSE pieces_cnt_ - 1 - 0 + 1
  BY <1>1, FS_Interval
<1> QED BY <1>1, <1>2, Sizes

\* The index of the last piece, and what lies in it.
LEMMA LastPiece ==
  LET h == (TORRENT_SIZE - 1) \div PIECE_SIZE
      r == (TORRENT_SIZE - 1) % PIECE_SIZE
  IN /\ h \in Nat /\ r \in 0 .. PIECE_SIZE - 1
     /\ TORRENT_SIZE - 1 = PIECE_SIZE * h + r
     /\ pieces_cnt_ - 1 = h
<1> DEFINE T == TORRENT_SIZE
           P == PIECE_SIZE
           h == (T - 1) \div P
<1>1. T \in Nat \ {0} /\ P \in Nat \ {0}
  BY SizesAssumption
<1>3. /\ h \in Nat /\ (T - 1) % P \in 0 .. P - 1
      /\ T - 1 = P * h + ((T - 1) % P)
  BY <1>1
<1>4. pieces_cnt_ - 1 = h
  <2>1. /\ T \div P \in Nat /\ T % P \in 0 .. P - 1
        /\ T = P * (T \div P) + (T % P)
    BY <1>1
  <2>2. pieces_cnt_ = (T \div P) + (IF T % P # 0 THEN 1 ELSE 0)
    BY DEF pieces_cnt_, ceil_div
  <2>3. CASE T % P = 0
    <3>1. T - 1 = P * ((T \div P) - 1) + (P - 1)
      BY <1>1, <2>1, <2>3
    <3>2. h = (T \div P) - 1
      BY <1>1, <1>3, <2>1, <3>1
    <3> QED BY <2>1, <2>2, <2>3, <3>2
  <2>4. CASE T % P # 0
    <3>1. T - 1 = P * (T \div P) + ((T % P) - 1)
      BY <1>1, <2>1
    <3>2. h = T \div P
      BY <1>1, <1>3, <2>1, <2>4, <3>1
    <3> QED BY <2>1, <2>2, <2>4, <3>2
  <2> QED BY <2>3, <2>4
<1> QED BY <1>3, <1>4

\* A piece ends inside the torrent.
LEMMA PieceEnd ==
  ASSUME NEW p \in PieceIds
  PROVE  /\ p * PIECE_SIZE \in Nat
         /\ p * PIECE_SIZE + cur_piece_size(p) <= TORRENT_SIZE
<1> DEFINE T == TORRENT_SIZE
           P == PIECE_SIZE
           h == (T - 1) \div P
           r == (T - 1) % P
<1>1. /\ T \in Nat \ {0} /\ P \in Nat \ {0} /\ p \in Nat
      /\ h \in Nat /\ r \in 0 .. P - 1 /\ T - 1 = P * h + r
      /\ p <= h /\ pieces_cnt_ - 1 = h
  BY SizesAssumption, Sizes, LastPiece
<1>2. cur_piece_size(p) = IF p = h THEN 1 + r ELSE P
  BY <1>1 DEF cur_piece_size
<1> HIDE DEF h, r
<1>3. CASE p = h
  BY <1>1, <1>2, <1>3
<1>4. CASE p < h
  <2>1. p * P + P <= h * P
    BY <1>1, <1>4
  <2> QED BY <1>1, <1>2, <1>4, <2>1
<1> QED BY <1>1, <1>3, <1>4

\* The bytes of a torrent fall into its pieces as the piece sizes say.
LEMMA ByteRange ==
  ASSUME NEW i \in Bytes
  PROVE  /\ i \div PIECE_SIZE \in PieceIds
         /\ \A p \in PieceIds :
              i \div PIECE_SIZE = p <=>
                /\ p * PIECE_SIZE <= i
                /\ i < p * PIECE_SIZE + cur_piece_size(p)
<1> DEFINE T == TORRENT_SIZE
           P == PIECE_SIZE
           q == i \div P
           h == (T - 1) \div P
<1>1. T \in Nat \ {0} /\ P \in Nat \ {0} /\ i \in 0 .. T - 1
  BY SizesAssumption DEF Bytes
<1>2. /\ q \in Nat /\ i % P \in 0 .. P - 1 /\ i = P * q + (i % P)
  BY <1>1
<1>3. /\ h \in Nat /\ (T - 1) % P \in 0 .. P - 1
      /\ T - 1 = P * h + ((T - 1) % P)
  BY <1>1
<1>4. pieces_cnt_ - 1 = h
  BY LastPiece
<1>5. q <= h
  BY <1>1, <1>2, <1>3
<1>6. q \in PieceIds
  BY <1>2, <1>3, <1>4, <1>5, Sizes
<1>7. ASSUME NEW p \in PieceIds
      PROVE  q = p <=> p * P <= i /\ i < p * P + cur_piece_size(p)
  <2>1. p \in Nat /\ p <= h
    BY <1>4, Sizes
  <2>2. CASE p = h
    <3>1. cur_piece_size(p) = 1 + ((T - 1) % P)
      BY <1>4, <2>2 DEF cur_piece_size
    <3>2. h * P + 1 + ((T - 1) % P) = T
      BY <1>1, <1>3
    <3>3. i < p * P + cur_piece_size(p)
      BY <1>1, <1>3, <2>2, <3>1, <3>2
    <3>4. q = p => p * P <= i
      BY <1>1, <1>2, <2>1
    <3>5. p * P <= i => q >= p
      BY <1>1, <1>2, <2>1
    <3> QED BY <1>2, <1>3, <1>5, <2>1, <2>2, <3>3, <3>4, <3>5
  <2>3. CASE p # h
    <3>1. cur_piece_size(p) = P
      BY <1>4, <2>3 DEF cur_piece_size
    <3>2. q = p => p * P <= i /\ i < p * P + P
      BY <1>1, <1>2, <2>1
    <3>3. p * P <= i /\ i < p * P + P => q = p
      BY <1>1, <1>2, <2>1
    <3> QED BY <3>1, <3>2, <3>3
  <2> QED BY <2>2, <2>3
<1> QED BY <1>6, <1>7
-----------------------------------------------------------------------------
(* The inductive invariant *)

\* The constructor of PieceManager establishes the inductive invariant.
LEMMA PmInvInit == PmInit => PmInv
<1> SUFFICES ASSUME PmInit PROVE PmInv
  BY DEF PmInit
<1>1. requested_ids = {}
  <2>1. requested_pieces_ = [p \in {} |-> NoData]
    BY DEF PmInit
  <2> QED BY <2>1, Zenon DEF requested_ids
<1> USE DEF PmInit
<1>2. Incomplete = PieceIds
  BY DEF Incomplete
<1>3. sorted_pieces_ \in [1 .. pieces_cnt_ -> PieceIds]
  BY Sizes
<1>4. PmTypeOK
  <2>1. /\ piece_completed_ \in [PieceIds -> BOOLEAN]
        /\ are_pieces_sorted_ \in BOOLEAN /\ completion_flag_ \in BOOLEAN
        /\ endgame_ \in BOOLEAN
    OBVIOUS
  <2>2. piece_avail_ \in [PieceIds -> 0 .. UINT16 - 1]
    BY SizesAssumption
  <2>3. pieces_left_ \in 0 .. pieces_cnt_
    BY Sizes
  <2>4. file \in [Bytes -> Bytes \cup {Unwritten, Garbage}]
    OBVIOUS
  <2> HIDE DEF PmInit
  <2> QED BY <1>1, <1>3, <2>1, <2>2, <2>3, <2>4 DEF PmTypeOK
<1>5. PiecesWellFormed
  BY <1>1 DEF PiecesWellFormed
<1>6. PoolNeverExhausted
  BY <1>1, FS_EmptySet, Sizes DEF PoolNeverExhausted
<1>7. EveryPieceOrdered
  <2>1. ASSUME NEW p \in PieceIds
        PROVE  \E i \in 1 .. pieces_cnt_ : sorted_pieces_[i] = p
    <3>1. p + 1 \in 1 .. pieces_cnt_ /\ sorted_pieces_[p + 1] = p
      BY Sizes
    <3> QED BY <3>1
  <2> QED BY <1>3, <2>1 DEF EveryPieceOrdered, IsOrder
<1>8. LeftExact
  BY <1>2, PieceIdsFinite, Sizes DEF LeftExact
<1> QED BY <1>4, <1>5, <1>6, <1>7, <1>8 DEF PmInv

\* Facts the step proofs take from the invariant.
LEMMA PmFacts ==
  ASSUME PmInv
  PROVE  /\ IsFiniteSet(requested_ids) /\ IsFiniteSet(Incomplete)
         /\ requested_ids \subseteq Incomplete
         /\ Cardinality(requested_ids) \in Nat
         /\ Cardinality(Incomplete) \in Nat
         /\ \A p \in requested_ids :
              /\ p \in PieceIds
              /\ cur_piece_size(p) \in Nat \ {0}
              /\ requested_pieces_[p] \in PieceOfSize(cur_piece_size(p), Payload)
              /\ WellFormed(requested_pieces_[p])
              /\ ~ is_complete(requested_pieces_[p])
<1>1. requested_ids \in SUBSET PieceIds /\ Incomplete \in SUBSET PieceIds
  BY DEF PmInv, PmTypeOK, Incomplete
<1>2. IsFiniteSet(requested_ids) /\ IsFiniteSet(Incomplete)
  BY <1>1, PieceIdsFinite, FS_Subset
<1>3. Cardinality(requested_ids) \in Nat /\ Cardinality(Incomplete) \in Nat
  BY <1>2, FS_CardinalityType
<1>4. requested_ids \subseteq Incomplete
  BY <1>1 DEF PmInv, PoolNeverExhausted, Incomplete
<1>5. ASSUME NEW p \in requested_ids
      PROVE  /\ p \in PieceIds
             /\ cur_piece_size(p) \in Nat \ {0}
             /\ requested_pieces_[p] \in PieceOfSize(cur_piece_size(p), Payload)
             /\ WellFormed(requested_pieces_[p])
             /\ ~ is_complete(requested_pieces_[p])
  BY <1>1, Sizes DEF PmInv, PmTypeOK, PiecesWellFormed
<1> QED BY <1>2, <1>3, <1>4, <1>5

\* Swapping two positions of an order gives an order.
LEMMA SwapKeepsOrder ==
  ASSUME NEW s, IsOrder(s),
         NEW i \in 1 .. pieces_cnt_, NEW j \in 1 .. pieces_cnt_
  PROVE  IsOrder(SwapPositions(s, i, j))
<1> DEFINE t == SwapPositions(s, i, j)
<1>1. s \in [1 .. pieces_cnt_ -> PieceIds]
  BY DEF IsOrder
<1>2. t \in [1 .. pieces_cnt_ -> PieceIds]
  BY <1>1 DEF SwapPositions
<1>3. t[i] = s[j] /\ t[j] = s[i]
      /\ \A k \in 1 .. pieces_cnt_ : k # i /\ k # j => t[k] = s[k]
  BY <1>1 DEF SwapPositions
<1> HIDE DEF t
<1>4. ASSUME NEW p \in PieceIds
      PROVE  \E k \in 1 .. pieces_cnt_ : t[k] = p
  <2>1. PICK k \in 1 .. pieces_cnt_ : s[k] = p
    BY DEF IsOrder
  <2>2. CASE k = i
    BY <1>3, <2>1, <2>2
  <2>3. CASE k = j
    BY <1>3, <2>1, <2>3
  <2>4. CASE k # i /\ k # j
    BY <1>3, <2>1, <2>4
  <2> QED BY <2>2, <2>3, <2>4
<1> QED BY <1>2, <1>4 DEF IsOrder, t

\* Calls that change the availability only.
LEMMA AvailabilityStep ==
  ASSUME PmInv,
         UNCHANGED <<requested_pieces_, diskVars, endgameVars>>,
         piece_avail_' \in [PieceIds -> 0 .. UINT16 - 1],
         are_pieces_sorted_' \in BOOLEAN,
         IsOrder(sorted_pieces_')
  PROVE  PmInv'
<1>1. PmTypeOK'
  BY DEF PmInv, PmTypeOK, IsOrder, diskVars, endgameVars, requested_ids
<1>2. PiecesWellFormed' /\ PoolNeverExhausted' /\ LeftExact'
  BY DEF PmInv, PiecesWellFormed, PoolNeverExhausted, LeftExact, Incomplete,
         diskVars, requested_ids
<1>3. EveryPieceOrdered'
  BY DEF EveryPieceOrdered, IsOrder
<1> QED BY <1>1, <1>2, <1>3 DEF PmInv

\* add_peer_bitfield and remove_peer_bitfield keep the invariant.
LEMMA BitfieldStep ==
  ASSUME PmInv, NEW bitfield \in SUBSET PieceIds, NEW sign \in {1, -1},
         UpdatePiecesAvailability(bitfield, sign)
  PROVE  PmInv'
<1>1. piece_avail_' \in [PieceIds -> 0 .. UINT16 - 1]
  <2>1. ASSUME NEW p \in PieceIds
        PROVE  /\ piece_avail_[p] \in 0 .. UINT16 - 1
               /\ (piece_avail_[p] + sign) % UINT16 \in 0 .. UINT16 - 1
    <3>1. piece_avail_[p] \in 0 .. UINT16 - 1
      BY DEF PmInv, PmTypeOK
    <3>2. piece_avail_[p] + sign \in Int
      BY <3>1, SizesAssumption
    <3> QED BY <3>1, <3>2, SizesAssumption
  <2> QED BY <2>1 DEF UpdatePiecesAvailability
<1>2. are_pieces_sorted_' \in BOOLEAN
  BY DEF UpdatePiecesAvailability
<1>3. sorted_pieces_' = sorted_pieces_ /\ IsOrder(sorted_pieces_)
  BY DEF UpdatePiecesAvailability, PmInv, EveryPieceOrdered
<1>4. UNCHANGED <<requested_pieces_, diskVars, endgameVars>>
  BY DEF UpdatePiecesAvailability
<1> QED BY <1>1, <1>2, <1>3, <1>4, AvailabilityStep

\* add_available_piece: whatever place the search ends at, the swap is one of
\* two positions of the vector.
LEMMA HaveStep ==
  ASSUME PmInv, NEW p \in PieceIds, AddAvailablePiece(p)
  PROVE  PmInv'
<1>1. piece_avail_' \in [PieceIds -> 0 .. UINT16 - 1]
  <2>1. /\ piece_avail_ \in [PieceIds -> 0 .. UINT16 - 1]
        /\ piece_avail_' = [piece_avail_ EXCEPT ![p] = (@ + 1) % UINT16]
    BY DEF PmInv, PmTypeOK, AddAvailablePiece
  <2>2. piece_avail_[p] + 1 \in Int
    BY <2>1, SizesAssumption
  <2>3. (piece_avail_[p] + 1) % UINT16 \in 0 .. UINT16 - 1
    BY <2>2, SizesAssumption
  <2> QED BY <2>1, <2>3
<1>2. are_pieces_sorted_' \in BOOLEAN
  BY DEF AddAvailablePiece, PmInv, PmTypeOK
<1>3. IsOrder(sorted_pieces_)
  BY DEF PmInv, EveryPieceOrdered
<1>4. IsOrder(sorted_pieces_')
  <2>1. CASE are_pieces_sorted_
    <3>1. PICK k \in 0 .. pieces_cnt_ :
            sorted_pieces_' =
              IF k = 0 THEN sorted_pieces_
              ELSE SwapPositions(sorted_pieces_, WalkDown(p, k), k)
      <4>1. PICK avail \in SearchedAvailability(piece_avail_[p]) :
              \E k \in UpperBound(avail) :
                sorted_pieces_' =
                  IF k = 0 THEN sorted_pieces_
                  ELSE SwapPositions(sorted_pieces_, WalkDown(p, k), k)
        BY <2>1 DEF AddAvailablePiece
      <4>2. UpperBound(avail) \subseteq 0 .. pieces_cnt_
        BY DEF UpperBound
      <4> QED BY <4>1, <4>2
    <3>2. CASE k = 0
      BY <1>3, <3>1, <3>2
    <3>3. CASE k # 0
      <4>1. k \in 1 .. pieces_cnt_ /\ 1 \in 1 .. pieces_cnt_
        BY <3>3, Sizes
      <4>2. WalkDown(p, k) \in 1 .. pieces_cnt_
        <5>1. CASE \E i \in 2 .. k : sorted_pieces_[i] = p
          <6>1. WalkDown(p, k) \in 2 .. k
            BY <5>1 DEF WalkDown
          <6> QED BY <4>1, <6>1, Sizes
        <5>2. CASE ~ \E i \in 2 .. k : sorted_pieces_[i] = p
          BY <4>1, <5>2 DEF WalkDown
        <5> QED BY <5>1, <5>2
      <4> QED BY <1>3, <3>1, <3>3, <4>1, <4>2, SwapKeepsOrder
    <3> QED BY <3>2, <3>3
  <2>2. CASE ~ are_pieces_sorted_
    BY <1>3, <2>2 DEF AddAvailablePiece
  <2> QED BY <2>1, <2>2
<1>5. UNCHANGED <<requested_pieces_, diskVars, endgameVars>>
  BY DEF AddAvailablePiece
<1> QED BY <1>1, <1>2, <1>4, <1>5, AvailabilityStep

\* Calls that change the pieces under way and the order, but store nothing.
LEMMA UnderWayStep ==
  ASSUME PmInv,
         UNCHANGED <<piece_avail_, diskVars>>,
         are_pieces_sorted_' \in BOOLEAN, endgame_' \in BOOLEAN,
         IsOrder(sorted_pieces_'),
         requested_ids' \subseteq Incomplete,
         Cardinality(requested_ids') <= max_active_requests_,
         \A p \in requested_ids' :
           /\ requested_pieces_'[p] \in PieceOfSize(cur_piece_size(p), Payload)
           /\ WellFormed(requested_pieces_'[p])
           /\ ~ is_complete(requested_pieces_'[p])
  PROVE  PmInv'
<1>1. PmTypeOK'
  BY DEF PmInv, PmTypeOK, IsOrder, diskVars, Incomplete, is_complete
<1>2. PiecesWellFormed'
  BY DEF PiecesWellFormed, WellFormed, VectorsInverse, ReceivedFilled,
         UnrequestedExact, Blocks, is_block_received, is_block_requested,
         get_unreq_blocks_cnt
<1>3. PoolNeverExhausted' /\ LeftExact'
  BY DEF PmInv, PoolNeverExhausted, LeftExact, Incomplete, diskVars
<1>4. EveryPieceOrdered'
  BY DEF EveryPieceOrdered, IsOrder
<1> QED BY <1>1, <1>2, <1>3, <1>4 DEF PmInv

\* What request_next_block does to the pieces when it returns a block.
LEMMA ReturnBlockStep ==
  ASSUME PmInv, NEW order, IsOrder(order), NEW bitfield \in SUBSET PieceIds,
         NEW i \in 1 .. pieces_cnt_, NEW result,
         ReturnBlock(order, bitfield, i, result)
  PROVE  /\ requested_ids' \subseteq Incomplete
         /\ Cardinality(requested_ids') <= max_active_requests_
         /\ \A p \in requested_ids' :
              /\ requested_pieces_'[p]
                   \in PieceOfSize(cur_piece_size(p), Payload)
              /\ WellFormed(requested_pieces_'[p])
              /\ ~ is_complete(requested_pieces_'[p])
<1> DEFINE p == order[i]
           pc == Emplaced(p)[p]
           b == NextBlock(pc)
           pc2 == MarkRequested(pc, b)
<1>1. /\ p \in PieceIds /\ cur_piece_size(p) \in Nat \ {0}
      /\ NoData \notin Payload
  BY Sizes DEF IsOrder
<1>2. Yields(p, bitfield)
  BY DEF ReturnBlock
<1>3. requested_pieces_' = [Emplaced(p) EXCEPT ![p] = pc2]
  BY DEF ReturnBlock
<1>4. /\ requested_ids' = requested_ids \cup {p}
      /\ requested_pieces_'[p] = pc2
      /\ \A q \in requested_ids : q # p =>
           requested_pieces_'[q] = requested_pieces_[q]
  BY <1>3 DEF Emplaced, requested_ids
<1>5. /\ pc \in PieceOfSize(cur_piece_size(p), Payload)
      /\ WellFormed(pc) /\ VectorsInverse(pc)
      /\ ~ is_complete(pc) /\ HasNextBlock(pc)
  <2>1. CASE p \in requested_ids
    <3>1. pc = requested_pieces_[p]
      BY <2>1 DEF Emplaced
    <3> QED BY <1>2, <2>1, <3>1, PmFacts DEF Yields, WellFormed
  <2>2. CASE p \notin requested_ids
    <3>1. pc = NewPiece(cur_piece_size(p))
      BY <2>2 DEF Emplaced
    <3>2. /\ pc \in PieceOfSize(cur_piece_size(p), Payload)
          /\ WellFormed(pc) /\ VectorsInverse(pc) /\ ~ is_complete(pc)
      BY <1>1, <3>1, NewPieceWellFormed DEF WellFormed
    <3>3. HasNextBlock(pc)
      <4>1. ceil_div(cur_piece_size(p), BLOCK_SIZE) \in Nat \ {0}
        BY <1>1, CeilDivPositive, BlockSizeAssumption
      <4>2. 0 \in RequestablePositions(pc)
        BY <3>1, <4>1 DEF RequestablePositions, Requestable, NewPiece,
           is_block_received, is_block_requested
      <4> QED BY <4>2 DEF HasNextBlock
    <3> QED BY <3>2, <3>3
  <2> QED BY <2>1, <2>2
<1>6. b \in BlockRange(cur_piece_size(p))
  BY <1>1, <1>5, NextBlockCorrect
<1> HIDE DEF p, pc, b
<1>7. /\ pc2 \in PieceOfSize(cur_piece_size(p), Payload)
      /\ WellFormed(pc2) /\ ~ is_complete(pc2)
  <2> DEFINE size == cur_piece_size(p)
  <2>1. /\ size \in Nat \ {0} /\ pc \in PieceOfSize(size, Payload)
        /\ WellFormed(pc) /\ b \in BlockRange(size)
    BY <1>1, <1>5, <1>6
  <2> HIDE DEF size
  <2>2. pc2 \in PieceOfSize(size, Payload)
    BY <2>1, MarkRequestedCorrect
  <2>3. WellFormed(pc2)
    BY <2>1, MarkRequestedCorrect
  <2>4. ~ is_complete(pc2)
    BY <1>5, <2>1, MarkRequestedCorrect
  <2> QED BY <2>2, <2>3, <2>4 DEF size
<1> HIDE DEF pc2
<1>8. requested_ids' \subseteq Incomplete
  BY <1>1, <1>2, <1>4, PmFacts DEF Yields, Incomplete
<1>9. Cardinality(requested_ids') <= max_active_requests_
  <2>1. /\ IsFiniteSet(requested_ids) /\ Cardinality(requested_ids) \in Nat
        /\ Cardinality(requested_ids) <= max_active_requests_
    BY PmFacts DEF PmInv, PoolNeverExhausted
  <2>2. CASE p \in requested_ids
    <3>1. requested_ids' = requested_ids
      BY <1>4, <2>2
    <3> QED BY <2>1, <3>1
  <2>3. CASE p \notin requested_ids
    <3>1. Cardinality(requested_ids) < max_active_requests_
      BY <1>2, <2>3 DEF Yields
    <3>2. Cardinality(requested_ids') = Cardinality(requested_ids) + 1
      BY <1>4, <2>1, <2>3, FS_AddElement
    <3> QED BY <2>1, <3>1, <3>2, Sizes
  <2> QED BY <2>2, <2>3
<1>10. ASSUME NEW q \in requested_ids'
       PROVE  /\ requested_pieces_'[q]
                   \in PieceOfSize(cur_piece_size(q), Payload)
              /\ WellFormed(requested_pieces_'[q])
              /\ ~ is_complete(requested_pieces_'[q])
  <2>1. CASE q = p
    BY <1>4, <1>7, <2>1
  <2>2. CASE q # p
    <3>1. q \in requested_ids /\ requested_pieces_'[q] = requested_pieces_[q]
      BY <1>4, <2>2
    <3> QED BY <3>1, PmFacts
  <2> QED BY <2>1, <2>2
<1> QED BY <1>8, <1>9, <1>10

\* request_next_block keeps the invariant, whatever it returns.
LEMMA RequestStep ==
  ASSUME PmInv, NEW bitfield \in SUBSET PieceIds, NEW result,
         RequestNextBlock(bitfield, result)
  PROVE  PmInv'
<1>1. CASE completed /\ UNCHANGED pmVars
  <2>1. UNCHANGED <<requested_pieces_, diskVars, endgameVars>>
        /\ UNCHANGED <<piece_avail_, are_pieces_sorted_, sorted_pieces_>>
    BY <1>1 DEF pmVars, diskVars, endgameVars
  <2>2. /\ piece_avail_' \in [PieceIds -> 0 .. UINT16 - 1]
        /\ are_pieces_sorted_' \in BOOLEAN /\ IsOrder(sorted_pieces_')
    BY <2>1 DEF PmInv, PmTypeOK, EveryPieceOrdered
  <2> QED BY <2>1, <2>2, AvailabilityStep
<1>2. CASE ~ completed
  <2>1. PICK order \in Orders :
          /\ sorted_pieces_' = order
          /\ are_pieces_sorted_' = TRUE
          /\ \/ \E i \in 1 .. pieces_cnt_ :
                  ReturnBlock(order, bitfield, i, result)
             \/ ReturnNothing(order, bitfield, result)
          /\ UNCHANGED <<piece_avail_, diskVars>>
    BY <1>2 DEF RequestNextBlock
  <2>2. IsOrder(order)
    BY DEF Orders, AllOrders, PmInv, EveryPieceOrdered
  <2>3. ASSUME NEW i \in 1 .. pieces_cnt_,
               ReturnBlock(order, bitfield, i, result)
        PROVE  PmInv'
    <3>1. endgame_' \in BOOLEAN
      BY <2>3 DEF ReturnBlock, endgameVars, PmInv, PmTypeOK
    <3> QED BY <2>1, <2>2, <2>3, <3>1, ReturnBlockStep, UnderWayStep
  <2>4. CASE ReturnNothing(order, bitfield, result)
    <3>1. endgame_' \in BOOLEAN /\ requested_pieces_' = requested_pieces_
      BY <2>4 DEF ReturnNothing, endgameVars, PmInv, PmTypeOK
    <3>2. requested_ids' = requested_ids
      BY <3>1 DEF requested_ids
    <3>3. /\ requested_ids' \subseteq Incomplete
          /\ Cardinality(requested_ids') <= max_active_requests_
      BY <3>2, PmFacts DEF PmInv, PoolNeverExhausted
    <3>4. \A p \in requested_ids' :
            /\ requested_pieces_'[p] \in PieceOfSize(cur_piece_size(p), Payload)
            /\ WellFormed(requested_pieces_'[p])
            /\ ~ is_complete(requested_pieces_'[p])
      BY <3>1, <3>2, PmFacts
    <3> QED BY <2>1, <2>2, <3>1, <3>3, <3>4, UnderWayStep
  <2> QED BY <2>1, <2>3, <2>4
<1> QED BY <1>1, <1>2 DEF RequestNextBlock

\* The passing of time keeps the invariant.
LEMMA TickStep ==
  ASSUME PmInv, PmTick
  PROVE  PmInv'
<1>1. /\ requested_pieces_' =
           [p \in requested_ids |-> Older(requested_pieces_[p])]
      /\ UNCHANGED <<orderVars, diskVars, endgameVars>>
  BY DEF PmTick
<1>2. requested_ids' = requested_ids
  BY <1>1 DEF requested_ids
<1>3. ASSUME NEW p \in requested_ids
      PROVE  /\ requested_pieces_'[p]
                  \in PieceOfSize(cur_piece_size(p), Payload)
             /\ WellFormed(requested_pieces_'[p])
             /\ ~ is_complete(requested_pieces_'[p])
  <2>1. requested_pieces_'[p] = Older(requested_pieces_[p])
    BY <1>1
  <2>2. /\ requested_pieces_'[p] \in PieceOfSize(cur_piece_size(p), Payload)
        /\ WellFormed(requested_pieces_'[p])
        /\ is_complete(requested_pieces_'[p]) <=> is_complete(requested_pieces_[p])
    BY <2>1, PmFacts, OlderCorrect
  <2> QED BY <2>2, PmFacts
<1>4. UNCHANGED <<piece_avail_, diskVars>> /\ UNCHANGED sorted_pieces_
      /\ are_pieces_sorted_' \in BOOLEAN /\ endgame_' \in BOOLEAN
      /\ IsOrder(sorted_pieces_')
  BY <1>1 DEF orderVars, endgameVars, PmInv, PmTypeOK, EveryPieceOrdered
<1>5. /\ requested_ids' \subseteq Incomplete
      /\ Cardinality(requested_ids') <= max_active_requests_
  BY <1>2, PmFacts DEF PmInv, PoolNeverExhausted
<1> QED BY <1>2, <1>3, <1>4, <1>5, UnderWayStep

\* The piece that receive_block works on stays well formed; when it becomes
\* complete and its hash matches, its buffer holds Good blocks only.
LEMMA ReceivedPiece ==
  ASSUME PmInv, NEW p \in requested_ids, NEW b \in BlocksOf(p),
         NEW data \in Payload
  PROVE  LET pc == ReceiveBlock(requested_pieces_[p], data, get_block_offset(b))
         IN /\ pc \in PieceOfSize(cur_piece_size(p), Payload)
            /\ WellFormed(pc)
<1> DEFINE size == cur_piece_size(p)
           old == requested_pieces_[p]
           offset == get_block_offset(b)
<1>1. /\ size \in Nat \ {0} /\ old \in PieceOfSize(size, Payload)
      /\ WellFormed(old) /\ NoData \notin Payload
  BY PmFacts, Sizes
<1>2. get_block_index(offset) \in BlockRange(size)
  BY OffsetOfIndex DEF BlocksOf, BlockRange
<1> HIDE DEF size, old, offset
<1>3. /\ ReceiveBlock(old, data, offset) \in PieceOfSize(size, Payload)
      /\ WellFormed(ReceiveBlock(old, data, offset))
  BY <1>1, <1>2, ReceiveBlockCorrect
<1> QED BY <1>3 DEF size, old, offset

\* Removing piece p from the map.
LEMMA ErasedFacts ==
  ASSUME NEW p, requested_pieces_' = Erased(p)
  PROVE  /\ requested_ids' = requested_ids \ {p}
         /\ \A q \in requested_ids' :
              requested_pieces_'[q] = requested_pieces_[q]
BY DEF Erased, requested_ids

\* Storing piece p lowers pieces_left_ by one, and the flag is set with the
\* last piece.
LEMMA StoreCounts ==
  ASSUME PmInv, NEW p \in requested_ids,
         piece_completed_' = [piece_completed_ EXCEPT ![p] = TRUE],
         pieces_left_' = pieces_left_ - 1,
         completion_flag_' = (completion_flag_ \/ pieces_left_ = 1)
  PROVE  /\ pieces_left_' \in 0 .. pieces_cnt_
         /\ Incomplete' = Incomplete \ {p}
         /\ LeftExact'
         /\ completion_flag_' <=> Incomplete' = {}
<1>1. /\ p \in Incomplete /\ p \in PieceIds
      /\ IsFiniteSet(Incomplete) /\ Cardinality(Incomplete) \in Nat
      /\ pieces_left_ = Cardinality(Incomplete)
      /\ pieces_left_ \in 0 .. pieces_cnt_
      /\ completion_flag_ <=> pieces_left_ = 0
      /\ piece_completed_ \in [PieceIds -> BOOLEAN]
  BY PmFacts DEF PmInv, LeftExact, PmTypeOK
<1>2. Incomplete' = Incomplete \ {p}
  BY <1>1 DEF Incomplete
<1>3. /\ IsFiniteSet(Incomplete')
      /\ Cardinality(Incomplete') = Cardinality(Incomplete) - 1
  BY <1>1, <1>2, FS_RemoveElement
<1>4. Cardinality(Incomplete') \in Nat
  BY <1>3, FS_CardinalityType
<1>5. Cardinality(Incomplete') = 0 <=> Incomplete' = {}
  BY <1>3, FS_EmptySet
<1>6. pieces_left_' = Cardinality(Incomplete')
      /\ pieces_left_ \in Nat /\ pieces_left_ >= 1
  BY <1>1, <1>3, <1>4
<1>7. pieces_left_' = 0 <=> pieces_left_ = 1
  BY <1>6
<1>8. completion_flag_' <=> pieces_left_' = 0
  <2>1. ~ (pieces_left_ = 0)
    BY <1>6
  <2>2. ~ completion_flag_
    BY <1>1, <2>1
  <2> QED BY <1>7, <2>2, Zenon
<1>9. pieces_left_' \in 0 .. pieces_cnt_
  BY <1>1, <1>6, Sizes
<1>10. pieces_left_' = 0 <=> Incomplete' = {}
  BY <1>5, <1>6
<1>11. LeftExact'
  BY <1>6, <1>8 DEF LeftExact
<1>12. completion_flag_' <=> Incomplete' = {}
  BY <1>8, <1>10, Zenon
<1> QED BY <1>2, <1>9, <1>11, <1>12

\* receive_block keeps the invariant: for a piece nobody asked for, for one
\* that stays incomplete, and for one that completes with either digest.
LEMMA ReceiveStep ==
  ASSUME PmInv, NEW p \in PieceIds, NEW b \in BlocksOf(p),
         NEW data \in Payload,
         PmReceiveBlock(p, data, get_block_offset(b))
  PROVE  PmInv'
<1> DEFINE pc == ReceiveBlock(requested_pieces_[p], data, get_block_offset(b))
           Fine(q, r) == /\ r \in PieceOfSize(cur_piece_size(q), Payload)
                         /\ WellFormed(r)
                         /\ ~ is_complete(r)
<1>1. /\ UNCHANGED piece_avail_ /\ endgame_' \in BOOLEAN
      /\ are_pieces_sorted_' \in BOOLEAN /\ sorted_pieces_' = sorted_pieces_
      /\ IsOrder(sorted_pieces_')
  BY DEF PmReceiveBlock, orderVars, endgameVars, PmInv, PmTypeOK,
         EveryPieceOrdered
<1>2. /\ \A q \in requested_ids : Fine(q, requested_pieces_[q])
      /\ requested_ids \subseteq Incomplete
      /\ IsFiniteSet(requested_ids) /\ Cardinality(requested_ids) \in Nat
      /\ Cardinality(requested_ids) <= max_active_requests_
  BY PmFacts DEF PmInv, PoolNeverExhausted
<1>3. CASE p \notin requested_ids
  <2>1. requested_pieces_' = requested_pieces_ /\ UNCHANGED diskVars
    BY <1>3 DEF PmReceiveBlock
  <2>2. requested_ids' = requested_ids
    BY <2>1 DEF requested_ids
  <2> QED BY <1>1, <1>2, <2>1, <2>2, UnderWayStep
<1>4. CASE p \in requested_ids
  <2>1. ReceivePieceBlock(p, data, get_block_offset(b))
    BY <1>4 DEF PmReceiveBlock
  <2>2. pc \in PieceOfSize(cur_piece_size(p), Payload) /\ WellFormed(pc)
    BY <1>4, ReceivedPiece
  <2>3. CASE ~ is_complete(pc)
    <3>1. /\ requested_pieces_' = [requested_pieces_ EXCEPT ![p] = pc]
          /\ UNCHANGED diskVars
      BY <2>1, <2>3 DEF ReceivePieceBlock
    <3> HIDE DEF pc
    <3>2. /\ requested_ids' = requested_ids
          /\ requested_pieces_'[p] = pc
          /\ \A q \in requested_ids : q # p =>
               requested_pieces_'[q] = requested_pieces_[q]
      BY <1>4, <3>1 DEF requested_ids
    <3>3. \A q \in requested_ids' : Fine(q, requested_pieces_'[q])
      BY <1>2, <2>2, <2>3, <3>2
    <3> QED BY <1>1, <1>2, <3>1, <3>2, <3>3, UnderWayStep
  <2>4. CASE is_complete(pc)
    <3>1. requested_pieces_' = Erased(p)
      BY <2>1, <2>4 DEF ReceivePieceBlock
    <3>2. /\ requested_ids' = requested_ids \ {p}
          /\ \A q \in requested_ids' :
               requested_pieces_'[q] = requested_pieces_[q]
      BY <3>1, ErasedFacts
    <3>3. \A q \in requested_ids' : Fine(q, requested_pieces_'[q])
      BY <1>2, <3>2
    <3>4. Cardinality(requested_ids') <= max_active_requests_
      <4>1. Cardinality(requested_ids \ {p}) = Cardinality(requested_ids) - 1
        BY <1>2, <1>4, FS_RemoveElement
      <4> QED BY <1>2, <3>2, <4>1, Sizes
    <3>5. CASE ~ HashMatches(p, pc)
      <4>1. piece_completed_' = [piece_completed_ EXCEPT ![p] = FALSE]
            /\ UNCHANGED <<pieces_left_, completion_flag_, file>>
        BY <2>1, <2>4, <3>5 DEF ReceivePieceBlock
      <4>2. piece_completed_' = piece_completed_
        BY <1>2, <1>4, <4>1 DEF PmInv, PmTypeOK, Incomplete
      <4> QED BY <1>1, <1>2, <3>2, <3>3, <3>4, <4>1, <4>2, UnderWayStep
              DEF diskVars
    <3>6. CASE HashMatches(p, pc)
      <4>1. /\ WritePiece(p, pc)
            /\ piece_completed_' = [piece_completed_ EXCEPT ![p] = TRUE]
            /\ pieces_left_' = pieces_left_ - 1
            /\ completion_flag_' = (completion_flag_ \/ pieces_left_ = 1)
        BY <2>1, <2>4, <3>6 DEF ReceivePieceBlock
      <4>2. /\ pieces_left_' \in 0 .. pieces_cnt_
            /\ Incomplete' = Incomplete \ {p}
            /\ LeftExact'
        BY <1>4, <4>1, StoreCounts
      <4>3. file' \in [Bytes -> Bytes \cup {Unwritten, Garbage}]
        <5> DEFINE offset == (p * PIECE_SIZE) % UINT32
                   byte(j) == IF pc.piece_data_[get_block_index(j)] = Good
                              THEN p * PIECE_SIZE + j ELSE Garbage
        <5>1. file' = [i \in Bytes |->
                IF offset <= i /\ i < offset + pc.piece_size_
                THEN byte(i - offset) ELSE file[i]]
          BY <4>1 DEF WritePiece
        <5>2. offset \in Nat /\ pc.piece_size_ = cur_piece_size(p)
          <6>1. pc.piece_size_ = cur_piece_size(p)
            BY <1>2, <1>4, <2>2, PieceFacts, Sizes
          <6> QED BY <6>1, PieceEnd, SizesAssumption
        <5>3. ASSUME NEW i \in Bytes, offset <= i,
                     i < offset + pc.piece_size_
              PROVE  byte(i - offset) \in Bytes \cup {Unwritten, Garbage}
          <6>1. /\ p * PIECE_SIZE \in Nat /\ cur_piece_size(p) \in Nat
                /\ p * PIECE_SIZE + cur_piece_size(p) <= TORRENT_SIZE
                /\ TORRENT_SIZE \in Nat /\ i \in Nat
            BY PieceEnd, Sizes, SizesAssumption DEF Bytes
          <6> HIDE DEF offset
          <6>2. p * PIECE_SIZE + (i - offset) \in Bytes
            BY <5>2, <5>3, <6>1 DEF Bytes
          <6> QED BY <6>2
        <5>4. file \in [Bytes -> Bytes \cup {Unwritten, Garbage}]
          BY DEF PmInv, PmTypeOK
        <5> HIDE DEF byte, offset
        <5> QED BY <5>1, <5>3, <5>4
      <4>4. PmTypeOK'
        <5>1. /\ piece_completed_' \in [PieceIds -> BOOLEAN]
              /\ completion_flag_' \in BOOLEAN
          BY <4>1 DEF PmInv, PmTypeOK
        <5>2. requested_ids' \subseteq PieceIds
          BY <1>2, <3>2 DEF Incomplete
        <5>3. piece_avail_' \in [PieceIds -> 0 .. UINT16 - 1]
              /\ sorted_pieces_' \in [1 .. pieces_cnt_ -> PieceIds]
          BY <1>1 DEF PmInv, PmTypeOK
        <5> QED BY <1>1, <3>3, <4>2, <4>3, <5>1, <5>2, <5>3
                DEF PmTypeOK, is_complete
      <4>5. PiecesWellFormed'
        BY <3>3 DEF PiecesWellFormed, WellFormed, VectorsInverse,
           ReceivedFilled, UnrequestedExact, Blocks, is_block_received,
           is_block_requested, get_unreq_blocks_cnt
      <4>6. PoolNeverExhausted'
        BY <1>2, <3>2, <3>4, <4>2 DEF PoolNeverExhausted, Incomplete
      <4>7. EveryPieceOrdered'
        BY <1>1 DEF EveryPieceOrdered, IsOrder
      <4> QED BY <4>2, <4>4, <4>5, <4>6, <4>7 DEF PmInv
    <3> QED BY <3>5, <3>6
  <2> QED BY <2>3, <2>4
<1> QED BY <1>3, <1>4

\* Every call keeps the inductive invariant.
LEMMA PmInvStep == PmInv /\ [CallsNext]_pmVars => PmInv'
<1> SUFFICES ASSUME PmInv, [CallsNext]_pmVars PROVE PmInv'
  OBVIOUS
<1>1. ASSUME NEW bitfield \in SUBSET PieceIds, Add(bitfield) PROVE PmInv'
  BY <1>1, BitfieldStep DEF Add, AddPeerBitfield
<1>2. ASSUME NEW bitfield \in SUBSET PieceIds, Remove(bitfield) PROVE PmInv'
  BY <1>2, BitfieldStep DEF Remove, RemovePeerBitfield
<1>3. ASSUME NEW p \in PieceIds, Have(p) PROVE PmInv'
  BY <1>3, HaveStep DEF Have
<1>4. ASSUME NEW bitfield \in SUBSET PieceIds, Request(bitfield) PROVE PmInv'
  BY <1>4, RequestStep DEF Request
<1>5. ASSUME NEW p \in PieceIds, NEW b \in BlocksOf(p), NEW data \in Payload,
             Receive(p, b, data)
      PROVE  PmInv'
  BY <1>5, ReceiveStep DEF Receive
<1>6. CASE PmTick
  BY <1>6, TickStep
<1>7. CASE UNCHANGED pmVars
  <2>1. /\ UNCHANGED <<requested_pieces_, diskVars, endgameVars>>
        /\ UNCHANGED <<piece_avail_, are_pieces_sorted_, sorted_pieces_>>
    BY <1>7 DEF pmVars, diskVars, endgameVars
  <2>2. /\ piece_avail_' \in [PieceIds -> 0 .. UINT16 - 1]
        /\ are_pieces_sorted_' \in BOOLEAN /\ IsOrder(sorted_pieces_')
    BY <2>1 DEF PmInv, PmTypeOK, EveryPieceOrdered
  <2> QED BY <2>1, <2>2, AvailabilityStep
<1> QED BY <1>1, <1>2, <1>3, <1>4, <1>5, <1>6, <1>7 DEF CallsNext

\* The inductive invariant holds after every sequence of calls.
LEMMA PmInvAlways == CallsSpec => []PmInv
BY PmInvInit, PmInvStep, PTL DEF CallsSpec

\* The members of PieceManager keep their types, and a piece under way always
\* has a block left to receive.
THEOREM PmTypeCorrect == CallsSpec => []PmTypeOK
<1>1. PmInv => PmTypeOK
  BY DEF PmInv
<1> QED BY <1>1, PmInvAlways, PTL

\* Never more pieces under way than the memory pools hold, and never a piece
\* that is already verified.
THEOREM PoolNeverExhaustedAlways == CallsSpec => []PoolNeverExhausted
<1>1. PmInv => PoolNeverExhausted
  BY DEF PmInv
<1> QED BY <1>1, PmInvAlways, PTL

\* sorted_pieces_ stays a permutation of the pieces.
THEOREM EveryPieceAlwaysOrdered == CallsSpec => []EveryPieceOrdered
<1>1. PmInv => EveryPieceOrdered
  BY DEF PmInv
<1> QED BY <1>1, PmInvAlways, PTL
-----------------------------------------------------------------------------
(* The file, the promise of the download, and the endgame *)

\* What a step does to the completed pieces and to the file: nothing, or it
\* stores one piece whose blocks are all Good.
LEMMA StoreOrNothing ==
  ASSUME PmInv, [CallsNext]_pmVars
  PROVE  \/ UNCHANGED <<piece_completed_, completion_flag_, file>>
         \/ \E p \in requested_ids :
              \E pc \in PieceOfSize(cur_piece_size(p), Payload) :
                /\ HashMatches(p, pc)
                /\ WritePiece(p, pc)
                /\ piece_completed_' = [piece_completed_ EXCEPT ![p] = TRUE]
                /\ Incomplete' = Incomplete \ {p}
                /\ completion_flag_' <=> Incomplete' = {}
<1> USE DEF diskVars
<1>1. ASSUME NEW bitfield \in SUBSET PieceIds,
             Add(bitfield) \/ Remove(bitfield)
      PROVE  UNCHANGED <<piece_completed_, completion_flag_, file>>
  BY <1>1 DEF Add, Remove, AddPeerBitfield, RemovePeerBitfield,
              UpdatePiecesAvailability
<1>2. ASSUME NEW p \in PieceIds, Have(p)
      PROVE  UNCHANGED <<piece_completed_, completion_flag_, file>>
  BY <1>2 DEF Have, AddAvailablePiece
<1>3. ASSUME NEW bitfield \in SUBSET PieceIds, Request(bitfield)
      PROVE  UNCHANGED <<piece_completed_, completion_flag_, file>>
  BY <1>3 DEF Request, RequestNextBlock, pmVars
<1>4. CASE PmTick
  BY <1>4 DEF PmTick
<1>5. CASE UNCHANGED pmVars
  BY <1>5 DEF pmVars
<1>6. ASSUME NEW p \in PieceIds, NEW b \in BlocksOf(p), NEW data \in Payload,
             Receive(p, b, data)
      PROVE  \/ UNCHANGED <<piece_completed_, completion_flag_, file>>
             \/ \E pc \in PieceOfSize(cur_piece_size(p), Payload) :
                  /\ p \in requested_ids
                  /\ HashMatches(p, pc)
                  /\ WritePiece(p, pc)
                  /\ piece_completed_' = [piece_completed_ EXCEPT ![p] = TRUE]
                  /\ Incomplete' = Incomplete \ {p}
                  /\ completion_flag_' <=> Incomplete' = {}
  <2> DEFINE pc == ReceiveBlock(requested_pieces_[p], data, get_block_offset(b))
  <2>1. CASE p \notin requested_ids
    BY <1>6, <2>1 DEF Receive, PmReceiveBlock
  <2>2. CASE p \in requested_ids
    <3>1. ReceivePieceBlock(p, data, get_block_offset(b))
      BY <1>6, <2>2 DEF Receive, PmReceiveBlock
    <3>2. pc \in PieceOfSize(cur_piece_size(p), Payload)
      BY <2>2, ReceivedPiece
    <3>3. CASE ~ is_complete(pc)
      BY <3>1, <3>3 DEF ReceivePieceBlock
    <3>4. CASE is_complete(pc) /\ ~ HashMatches(p, pc)
      <4>1. /\ piece_completed_' = [piece_completed_ EXCEPT ![p] = FALSE]
            /\ UNCHANGED <<completion_flag_, file>>
        BY <3>1, <3>4 DEF ReceivePieceBlock
      <4>2. piece_completed_[p] = FALSE /\ piece_completed_ \in [PieceIds -> BOOLEAN]
        BY <2>2, PmFacts DEF PmInv, PmTypeOK, Incomplete
      <4> QED BY <4>1, <4>2
    <3>5. CASE is_complete(pc) /\ HashMatches(p, pc)
      <4>1. /\ WritePiece(p, pc)
            /\ piece_completed_' = [piece_completed_ EXCEPT ![p] = TRUE]
            /\ pieces_left_' = pieces_left_ - 1
            /\ completion_flag_' = (completion_flag_ \/ pieces_left_ = 1)
        BY <3>1, <3>5 DEF ReceivePieceBlock
      <4>2. /\ Incomplete' = Incomplete \ {p}
            /\ completion_flag_' <=> Incomplete' = {}
        BY <2>2, <4>1, StoreCounts
      <4> HIDE DEF pc
      <4> QED BY <2>2, <3>2, <3>5, <4>1, <4>2
    <3> QED BY <3>3, <3>4, <3>5
  <2> QED BY <2>1, <2>2
<1> QED BY <1>1, <1>2, <1>3, <1>4, <1>5, <1>6 DEF CallsNext

\* With offsets that fit, writing a verified piece puts each of its bytes in
\* its place and touches no other.
LEMMA WriteInPlace ==
  ASSUME TORRENT_SIZE <= UINT32, NEW p \in PieceIds,
         NEW pc \in PieceOfSize(cur_piece_size(p), Payload),
         HashMatches(p, pc), WritePiece(p, pc)
  PROVE  file' = [i \in Bytes |-> IF i \div PIECE_SIZE = p THEN i ELSE file[i]]
<1> DEFINE size == cur_piece_size(p)
           start == p * PIECE_SIZE
<1>1. /\ size \in Nat \ {0} /\ start \in Nat /\ start + size <= TORRENT_SIZE
      /\ UINT32 \in Nat \ {0} /\ TORRENT_SIZE \in Nat \ {0}
      /\ pc.piece_size_ = size
  BY Sizes, PieceEnd, SizesAssumption, PieceFacts
<1>2. start % UINT32 = start
  <2> HIDE DEF start, size
  <2>1. start \in 0 .. UINT32 - 1
    BY <1>1
  <2> QED BY <1>1, <2>1
<1>3. file' = [i \in Bytes |->
        IF start <= i /\ i < start + size
        THEN IF pc.piece_data_[get_block_index(i - start)] = Good
             THEN start + (i - start) ELSE Garbage
        ELSE file[i]]
  BY <1>1, <1>2 DEF WritePiece
<1>4. ASSUME NEW j \in 0 .. size - 1
      PROVE  pc.piece_data_[get_block_index(j)] = Good
  <2>1. get_block_index(j) \in BlockRange(size)
    <3> HIDE DEF size
    <3> QED BY <1>1, BlockSizeAssumption
            DEF BlockRange, get_block_index, ceil_div
  <2> QED BY <2>1 DEF HashMatches, BlocksOf
<1>5. ASSUME NEW i \in Bytes
      PROVE  /\ i \in Int
             /\ start <= i /\ i < start + size => i - start \in 0 .. size - 1
             /\ i \div PIECE_SIZE = p <=> start <= i /\ i < start + size
  <2>1. i \in Int
    BY SizesAssumption DEF Bytes
  <2>2. i \div PIECE_SIZE = p <=> start <= i /\ i < start + size
    BY ByteRange
  <2> HIDE DEF start, size
  <2> QED BY <1>1, <2>1, <2>2
<1> HIDE DEF start, size
<1>6. ASSUME NEW i \in Bytes
      PROVE  file'[i] = IF i \div PIECE_SIZE = p THEN i ELSE file[i]
  BY <1>1, <1>3, <1>4, <1>5
<1> QED BY <1>3, <1>6

\* In a torrent whose offsets fit in 32 bits, every completed piece is in the
\* file byte for byte, whatever else is written.
THEOREM FileAlwaysHoldsPieces ==
  ASSUME TORRENT_SIZE <= UINT32
  PROVE  CallsSpec => []FileHoldsPieces
<1>1. PmInit => FileHoldsPieces
  BY ByteRange DEF PmInit, FileHoldsPieces
<1>2. FileHoldsPieces /\ PmInv /\ [CallsNext]_pmVars => FileHoldsPieces'
  <2> SUFFICES ASSUME FileHoldsPieces, PmInv, [CallsNext]_pmVars,
                      NEW i \in Bytes, piece_completed_'[i \div PIECE_SIZE]
               PROVE  file'[i] = i
    BY DEF FileHoldsPieces
  <2>1. CASE UNCHANGED <<piece_completed_, completion_flag_, file>>
    BY <2>1 DEF FileHoldsPieces
  <2>2. ASSUME NEW p \in requested_ids,
               NEW pc \in PieceOfSize(cur_piece_size(p), Payload),
               HashMatches(p, pc), WritePiece(p, pc),
               piece_completed_' = [piece_completed_ EXCEPT ![p] = TRUE]
        PROVE  file'[i] = i
    <3>1. p \in PieceIds /\ piece_completed_ \in [PieceIds -> BOOLEAN]
      BY PmFacts DEF PmInv, PmTypeOK
    <3>2. file'[i] = IF i \div PIECE_SIZE = p THEN i ELSE file[i]
      BY <2>2, <3>1, WriteInPlace
    <3>3. i \div PIECE_SIZE \in PieceIds
      BY ByteRange
    <3> QED BY <2>2, <3>1, <3>2, <3>3 DEF FileHoldsPieces
  <2> QED BY <2>1, <2>2, StoreOrNothing
<1> QED BY <1>1, <1>2, PmInvAlways, PTL DEF CallsSpec

\* In a torrent whose offsets fit in 32 bits, PieceManager implements
\* VerifiedDownload: each piece is stored once, verified and in its place,
\* nothing stored is lost, and completion is announced with the last piece.
THEOREM ManagerRefinesDownload ==
  ASSUME TORRENT_SIZE <= UINT32
  PROVE  CallsSpec => ImplementsVerifiedDownload
<1> DEFINE have == {p \in PieceIds : piece_completed_[p]}
<1>1. PmInit => Abstract!Init
  BY DEF PmInit, Abstract!Init, Abstract!Bytes, Bytes
<1>2. PmInv /\ [CallsNext]_pmVars => [Abstract!Next]_(Abstract!vars)
  <2> SUFFICES ASSUME PmInv, [CallsNext]_pmVars
               PROVE  Abstract!Next \/ UNCHANGED Abstract!vars
    OBVIOUS
  <2>1. CASE UNCHANGED <<piece_completed_, completion_flag_, file>>
    BY <2>1 DEF Abstract!vars
  <2>2. ASSUME NEW p \in requested_ids,
               NEW pc \in PieceOfSize(cur_piece_size(p), Payload),
               HashMatches(p, pc), WritePiece(p, pc),
               piece_completed_' = [piece_completed_ EXCEPT ![p] = TRUE],
               completion_flag_' <=> Incomplete' = {}
        PROVE  Abstract!Store(p) /\ p \in PieceIds
    <3>1. /\ p \in PieceIds /\ p \notin have
          /\ piece_completed_ \in [PieceIds -> BOOLEAN]
          /\ completion_flag_' \in BOOLEAN
      <4>1. PmTypeOK'
        BY PmInvStep DEF PmInv
      <4> QED BY <4>1, PmFacts DEF PmInv, PmTypeOK, Incomplete
    <3>2. have' = have \cup {p}
      BY <2>2, <3>1
    <3>3. file' = [i \in Bytes |-> IF i \div PIECE_SIZE = p THEN i ELSE file[i]]
      BY <2>2, <3>1, WriteInPlace
    <3>4. completion_flag_' = (have' = PieceIds)
      <4>1. Incomplete' = {} <=> have' = PieceIds
        BY DEF Incomplete
      <4> QED BY <2>2, <3>1, <4>1
    <3> HIDE DEF have
    <3>5. file' = [i \in Bytes |->
                     IF i \in {k \in Bytes : k \div PIECE_SIZE = p}
                     THEN i ELSE file[i]]
      BY <3>3
    <3> QED BY <3>1, <3>2, <3>4, <3>5
            DEF Abstract!Store, Abstract!Bytes, Abstract!BytesOf, Bytes, have
  <2> QED BY <2>1, <2>2, StoreOrNothing DEF Abstract!Next
<1> QED BY <1>1, <1>2, PmInvAlways, PTL
     DEF CallsSpec, ImplementsVerifiedDownload, Abstract!Spec

\* The endgame starts with a list of exactly the blocks that the whole torrent
\* still misses: at that moment every incomplete piece is under way.
THEOREM EndgameAlwaysListsMissing == CallsSpec => EndgameListsMissing
<1> DEFINE Exact == \A p \in PieceIds : \A b \in BlocksOf(p) :
                      Missing(p, b)' <=> Listed(p, b)'
<1>1. PmInv /\ [CallsNext]_pmVars => [~ endgame_ /\ endgame_' => Exact]_pmVars
  <2> SUFFICES ASSUME PmInv, CallsNext, ~ endgame_, endgame_'
               PROVE  Exact
    OBVIOUS
  <2>1. PICK bitfield \in SUBSET PieceIds, order \in Orders :
          ReturnNothing(order, bitfield, NoBlock)
          /\ UNCHANGED diskVars
    BY DEF CallsNext, Add, Remove, Have, Request, Receive, AddPeerBitfield,
       RemovePeerBitfield, UpdatePiecesAvailability, AddAvailablePiece,
       RequestNextBlock, ReturnBlock, ReturnNothing, PmReceiveBlock, PmTick,
       endgameVars, pmVars
  <2>2. /\ pieces_left_ = Cardinality(requested_ids)
        /\ endgame_requests_' = RemainingBlocks
        /\ requested_pieces_' = requested_pieces_
        /\ piece_completed_' = piece_completed_
    BY <2>1 DEF ReturnNothing, EndgameStarts, endgameVars, diskVars
  <2>3. requested_ids = Incomplete
    BY <2>2, PmFacts, FS_Subset DEF PmInv, LeftExact
  <2> SUFFICES ASSUME NEW p \in PieceIds, NEW b \in BlocksOf(p)
               PROVE  Missing(p, b)' <=> Listed(p, b)'
    OBVIOUS
  <2>4. b \in Nat /\ get_block_index(get_block_offset(b)) = b
    BY OffsetOfIndex DEF BlocksOf, BlockRange
  <2>5. Missing(p, b)' <=>
          /\ p \in requested_ids
          /\ ~ is_block_received(requested_pieces_[p], b)
    BY <2>2, <2>3, <2>4 DEF Missing, IsBlockReceived, Incomplete, requested_ids,
       is_block_received
  <2>6. Listed(p, b)' <=>
          \E q \in requested_ids :
            \E c \in get_remaining_blocks(requested_pieces_[q]) :
              q = p /\ get_block_index(get_block_offset(c)) = b
    <3>1. Listed(p, b)' <=> \E r \in RemainingBlocks :
                              r[1] = p /\ get_block_index(r[2]) = b
      BY <2>2 DEF Listed
    <3>2. ASSUME NEW r \in RemainingBlocks
          PROVE  \E q \in requested_ids :
                   \E c \in get_remaining_blocks(requested_pieces_[q]) :
                     r = <<q, get_block_offset(c), BLOCK_SIZE>>
      BY DEF RemainingBlocks
    <3>3. ASSUME NEW q \in requested_ids,
                 NEW c \in get_remaining_blocks(requested_pieces_[q])
          PROVE  <<q, get_block_offset(c), BLOCK_SIZE>> \in RemainingBlocks
      BY DEF RemainingBlocks
    <3>4. ASSUME NEW r \in RemainingBlocks, r[1] = p, get_block_index(r[2]) = b
          PROVE  \E q \in requested_ids :
                   \E c \in get_remaining_blocks(requested_pieces_[q]) :
                     q = p /\ get_block_index(get_block_offset(c)) = b
      <4>1. PICK q \in requested_ids :
              \E c \in get_remaining_blocks(requested_pieces_[q]) :
                r = <<q, get_block_offset(c), BLOCK_SIZE>>
        BY <3>2
      <4>2. PICK c \in get_remaining_blocks(requested_pieces_[q]) :
              r = <<q, get_block_offset(c), BLOCK_SIZE>>
        BY <4>1
      <4>3. r[1] = q /\ r[2] = get_block_offset(c)
        BY <4>2
      <4>4. q = p
        BY <4>3, <3>4
      <4>5. get_block_index(get_block_offset(c)) = b
        BY <4>3, <3>4, Zenon
      <4> QED BY <4>4, <4>5
    <3>5. ASSUME NEW q \in requested_ids,
                 NEW c \in get_remaining_blocks(requested_pieces_[q]),
                 q = p, get_block_index(get_block_offset(c)) = b
          PROVE  \E r \in RemainingBlocks :
                   r[1] = p /\ get_block_index(r[2]) = b
      <4> DEFINE o == get_block_offset(c)
                 r == <<q, o, BLOCK_SIZE>>
      <4>1. r \in RemainingBlocks
        BY <3>3
      <4> HIDE DEF o
      <4>2. r[1] = q /\ r[2] = o
        OBVIOUS
      <4>3. get_block_index(r[2]) = b
        BY <4>2, <3>5, Zenon DEF o
      <4> HIDE DEF r
      <4> QED BY <4>1, <4>2, <4>3, <3>5
    <3> QED BY <3>1, <3>4, <3>5
  <2>7. ASSUME NEW q \in requested_ids
        PROVE  get_remaining_blocks(requested_pieces_[q]) =
                 {c \in BlocksOf(q) :
                    ~ is_block_received(requested_pieces_[q], c)}
    BY PmFacts, RemainingNotReceived DEF WellFormed, BlocksOf
  <2>8. ASSUME NEW q \in requested_ids, NEW c \in BlocksOf(q)
        PROVE  get_block_index(get_block_offset(c)) = c
    BY OffsetOfIndex DEF BlocksOf, BlockRange
  <2> QED BY <2>5, <2>6, <2>7, <2>8
<1> QED BY <1>1, PmInvAlways, PTL DEF CallsSpec, EndgameListsMissing
=============================================================================
