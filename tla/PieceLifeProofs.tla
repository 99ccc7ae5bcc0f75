-------------------------- MODULE PieceLifeProofs --------------------------
(***************************************************************************)
(* PieceLife for every piece size, block size, timeout and payload set:    *)
(* the invariants that the run of PieceLife.cfg checks, and the            *)
(* implementation of BlockSet.                                             *)
(***************************************************************************)
EXTENDS PieceLife, PieceTheorems

\* The inductive invariant.  PositionsInverse is what makes the other two
\* inductive: without it receive_block could move the wrong block behind.
PieceInv == TypeOK /\ WellFormed(piece)

\* The constructor of Piece establishes the inductive invariant.
LEMMA PieceInvInit == Init => PieceInv
BY NewPieceWellFormed, PieceSizeAssumption DEF Init, PieceInv, TypeOK

\* Every step keeps the inductive invariant.
LEMMA PieceInvStep == PieceInv /\ [Next]_vars => PieceInv'
<1> SUFFICES ASSUME PieceInv, [Next]_vars PROVE PieceInv'
  OBVIOUS
<1> USE PieceSizeAssumption, DataAssumption
<1>1. /\ piece \in PieceOfSize(PieceSize, Data)
      /\ WellFormed(piece) /\ VectorsInverse(piece)
      /\ answer \in Block \cup {NoBlock}
  BY DEF PieceInv, TypeOK, WellFormed
<1>2. CASE RequestNextBlock
  <2>1. CASE HasNextBlock(piece)
    <3>1. NextBlock(piece) \in BlockRange(PieceSize)
      BY <1>1, <2>1, NextBlockCorrect
    <3>2. piece' = MarkRequested(piece, NextBlock(piece))
          /\ answer' = NextBlock(piece)
      BY <1>2, <2>1 DEF RequestNextBlock
    <3>3. piece' \in PieceOfSize(PieceSize, Data) /\ WellFormed(piece')
      BY <1>1, <3>1, <3>2, MarkRequestedCorrect
    <3> QED BY <3>1, <3>2, <3>3 DEF PieceInv, TypeOK, Block
  <2>2. CASE ~ HasNextBlock(piece)
    BY <1>1, <1>2, <2>2 DEF RequestNextBlock, PieceInv, TypeOK
  <2> QED BY <2>1, <2>2
<1>3. ASSUME NEW b \in Block, NEW d \in Data,
             BlockArrives(get_block_offset(b), d)
      PROVE  PieceInv'
  <2>1. get_block_index(get_block_offset(b)) \in BlockRange(PieceSize)
    BY OffsetOfIndex DEF Block, BlockRange
  <2>2. piece' = ReceiveBlock(piece, d, get_block_offset(b))
        /\ answer' = answer
    BY <1>3 DEF BlockArrives
  <2>3. piece' \in PieceOfSize(PieceSize, Data) /\ WellFormed(piece')
    BY <1>1, <2>1, <2>2, ReceiveBlockCorrect
  <2> QED BY <1>1, <2>2, <2>3 DEF PieceInv, TypeOK
<1>4. CASE Tick
  <2>1. piece' = Older(piece) /\ answer' = answer
    BY <1>4 DEF Tick
  <2>2. piece' \in PieceOfSize(PieceSize, Data) /\ WellFormed(piece')
    BY <1>1, <2>1, OlderCorrect
  <2> QED BY <1>1, <2>1, <2>2 DEF PieceInv, TypeOK
<1>5. CASE UNCHANGED vars
  BY <1>5 DEF vars, PieceInv, TypeOK
<1> QED BY <1>2, <1>3, <1>4, <1>5 DEF Next

\* The inductive invariant holds after every sequence of calls on a Piece.
LEMMA PieceInvAlways == Spec => []PieceInv
BY PieceInvInit, PieceInvStep, PTL DEF Spec

\* The members of a Piece keep their types; blocks_left_ and
\* unrequested_blocks_ never wrap below zero.
THEOREM TypeCorrect == Spec => []TypeOK
<1>1. PieceInv => TypeOK
  BY DEF PieceInv
<1> QED BY <1>1, PieceInvAlways, PTL

\* block_pos_in_rem_ and remaining_blocks_ are inverse permutations after any
\* sequence of calls.
THEOREM PositionsAlwaysInverse == Spec => []PositionsInverse
<1>1. PieceInv => PositionsInverse
  BY DEF PieceInv, WellFormed, PositionsInverse
<1> QED BY <1>1, PieceInvAlways, PTL

\* The counter the endgame depends on is exact.
THEOREM UnrequestedAlwaysCounted == Spec => []UnrequestedCounted
<1>1. PieceInv => UnrequestedCounted
  BY DEF PieceInv, WellFormed, UnrequestedCounted
<1> QED BY <1>1, PieceInvAlways, PTL

\* The buffer of a complete piece has no hole.
THEOREM ReceivedAlwaysFilled == Spec => []ReceivedMeansFilled
<1>1. PieceInv => ReceivedMeansFilled
  BY DEF PieceInv, WellFormed, ReceivedMeansFilled
<1> QED BY <1>1, PieceInvAlways, PTL
-----------------------------------------------------------------------------
(* Refinement *)

\* A first state of a piece is a first state of the abstract block set.
LEMMA RefinesInit == Init => Abstract!Init
<1> SUFFICES ASSUME Init PROVE Abstract!Init
  OBVIOUS
<1>1. piece = NewPiece(PieceSize) /\ answer = NoBlock
  BY DEF Init
<1>2. get_remaining_blocks(piece) = Block
  BY <1>1, NewPieceWellFormed, PieceSizeAssumption DEF Block
<1>3. /\ piece.piece_data_ = [b \in Block |-> NoData]
      /\ \A b \in Block : ~ is_block_requested(piece, b)
  BY <1>1 DEF NewPiece, Block, BlockRange, is_block_requested
<1> QED BY <1>1, <1>2, <1>3 DEF Abstract!Init

\* Every step of a piece is a step of the abstract block set or none.
LEMMA RefinesNext ==
  PieceInv /\ PieceInv' /\ [Next]_vars => [Abstract!Next]_(Abstract!vars)
<1> SUFFICES ASSUME PieceInv, PieceInv', [Next]_vars
             PROVE  Abstract!Next \/ UNCHANGED Abstract!vars
  OBVIOUS
<1> USE PieceSizeAssumption, DataAssumption
<1> DEFINE Out(pc) == {b \in Block : /\ is_block_requested(pc, b)
                                     /\ ~ is_block_timed_out(pc, b)}
           miss == get_remaining_blocks(piece)
           miss2 == get_remaining_blocks(piece')
<1>1. /\ piece \in PieceOfSize(PieceSize, Data)
      /\ WellFormed(piece) /\ VectorsInverse(piece)
      /\ miss = {b \in Block : ~ is_block_received(piece, b)}
  BY RemainingNotReceived DEF PieceInv, TypeOK, WellFormed, Block
<1>2. /\ piece' \in PieceOfSize(PieceSize, Data)
      /\ miss2 = {b \in Block : ~ is_block_received(piece', b)}
  BY RemainingNotReceived DEF PieceInv, TypeOK, WellFormed, Block
<1>3. CASE RequestNextBlock
  <2>1. CASE HasNextBlock(piece)
    <3> DEFINE b == NextBlock(piece)
    <3>1. b \in Block /\ Requestable(piece, b)
      BY <1>1, <2>1, NextBlockCorrect DEF Block
    <3>2. piece' = MarkRequested(piece, b) /\ answer' = b
      BY <1>3, <2>1 DEF RequestNextBlock
    <3> HIDE DEF b
    <3>3. /\ piece'.request_age_ = [piece.request_age_ EXCEPT ![b] = 0]
          /\ piece'.piece_data_ = piece.piece_data_
          /\ piece'.blocks_left_ = piece.blocks_left_
          /\ piece'.remaining_blocks_ = piece.remaining_blocks_
      BY <1>1, <3>1, <3>2, MarkRequestedCorrect DEF Block
    <3>4. miss2 = miss
      BY <3>3 DEF get_remaining_blocks
    <3>5. b \in miss \ Out(piece)
      BY <1>1, <3>1 DEF Requestable
    <3>6. Out(piece') = Out(piece) \cup {b}
      <4>1. piece.request_age_ \in [Block -> Ages]
        BY <1>1, PieceFacts DEF Block
      <4>2. 0 # Unrequested /\ ~ (0 > RequestTimeout)
        BY TimeoutAssumption DEF Unrequested
      <4> QED BY <3>1, <3>3, <4>1, <4>2
              DEF is_block_requested, is_block_timed_out
    <3>7. Abstract!Request(b)
      BY <3>2, <3>3, <3>4, <3>5, <3>6 DEF Abstract!Request
    <3> QED BY <3>1, <3>7 DEF Abstract!Next
  <2>2. CASE ~ HasNextBlock(piece)
    <3>1. piece' = piece /\ answer' = NoBlock
      BY <1>3, <2>2 DEF RequestNextBlock
    <3>2. \A b \in Block : ~ Requestable(piece, b)
      BY <1>1, <2>2, NextBlockCorrect DEF Block
    <3>3. miss \subseteq Out(piece)
      BY <1>1, <3>2 DEF Requestable
    <3>4. Abstract!NothingToRequest
      BY <3>1, <3>3 DEF Abstract!NothingToRequest
    <3> QED BY <3>4 DEF Abstract!Next
  <2> QED BY <2>1, <2>2
<1>4. ASSUME NEW b \in Block, NEW d \in Data,
             BlockArrives(get_block_offset(b), d)
      PROVE  Abstract!Next \/ UNCHANGED Abstract!vars
  <2>1. get_block_index(get_block_offset(b)) = b
    BY OffsetOfIndex DEF Block, BlockRange
  <2>2. piece' = ReceiveBlock(piece, d, get_block_offset(b))
        /\ answer' = answer
    BY <1>4 DEF BlockArrives
  <2>3. CASE is_block_received(piece, b)
    <3>1. piece' = piece
      BY <2>1, <2>2, <2>3 DEF ReceiveBlock
    <3> QED BY <2>2, <3>1 DEF Abstract!vars
  <2>4. CASE ~ is_block_received(piece, b)
    <3>1. /\ piece'.piece_data_ = [piece.piece_data_ EXCEPT ![b] = d]
          /\ piece'.request_age_ = piece.request_age_
          /\ \A c \in Block : is_block_received(piece', c)
                                <=> is_block_received(piece, c) \/ c = b
      BY <1>1, <2>1, <2>2, <2>4, ReceiveBlockCorrect DEF Block
    <3>2. miss2 = miss \ {b} /\ b \in miss
      BY <1>1, <1>2, <2>4, <3>1
    <3>3. Out(piece') = Out(piece)
      BY <3>1 DEF is_block_requested, is_block_timed_out
    <3>4. Abstract!Receive(b, d)
      BY <2>2, <3>1, <3>2, <3>3 DEF Abstract!Receive
    <3> QED BY <3>4 DEF Abstract!Next
  <2> QED BY <2>3, <2>4
<1>5. CASE Tick
  <2>1. piece' = Older(piece) /\ answer' = answer
    BY <1>5 DEF Tick
  <2>2. /\ \A b \in Block :
             /\ is_block_requested(piece', b) <=> is_block_requested(piece, b)
             /\ is_block_timed_out(piece, b) => is_block_timed_out(piece', b)
        /\ piece'.piece_data_ = piece.piece_data_
        /\ piece'.blocks_left_ = piece.blocks_left_
        /\ piece'.remaining_blocks_ = piece.remaining_blocks_
    BY <1>1, <2>1, OlderCorrect DEF Block
  <2>3. miss2 = miss /\ Out(piece') \in SUBSET Out(piece)
    BY <2>2 DEF get_remaining_blocks
  <2>4. Abstract!Expire
    BY <2>1, <2>2, <2>3 DEF Abstract!Expire
  <2> QED BY <2>4 DEF Abstract!Next
<1>6. CASE UNCHANGED vars
  BY <1>6 DEF vars, Abstract!vars
<1> QED BY <1>3, <1>4, <1>5, <1>6 DEF Next

\* The index vectors of a Piece implement the set of missing blocks.
THEOREM PieceRefinesBlockSet == Spec => ImplementsBlockSet
<1>1. Init => Abstract!Init
  BY RefinesInit
<1>2. PieceInv /\ PieceInv' /\ [Next]_vars => [Abstract!Next]_(Abstract!vars)
  BY RefinesNext
<1> QED BY <1>1, <1>2, PieceInvAlways, PTL
     DEF Spec, ImplementsBlockSet, Abstract!Spec
=============================================================================
