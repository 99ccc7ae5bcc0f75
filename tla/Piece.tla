------------------------------- MODULE Piece -------------------------------
(***************************************************************************)
(* class Piece: the blocks of one piece that is being downloaded.          *)
(*                                                                         *)
(* A piece is a record with the members of the class; its vectors are      *)
(* functions on 0 .. blocks_cnt_ - 1, as in the code.  The member          *)
(* functions are operators from records to records, used by PieceLife (one *)
(* piece on its own) and by PieceManager (the map of requested pieces).    *)
(*                                                                         *)
(* block_request_time_ is kept as the age of the request, saturated just   *)
(* past the timeout: the code only asks whether a request was made and     *)
(* whether now() - block_request_timeout_ exceeds its time.  The payload   *)
(* of a block is one value of piece_data_.                                 *)
(*                                                                         *)
(* Indices of blocks are uint16_t in remaining_blocks_, block_pos_in_rem_  *)
(* and the parameters; modules that make pieces assume that no piece has   *)
(* more blocks than that can count, where nothing wraps.                   *)
(***************************************************************************)
EXTENDS Integers, FiniteSets

CONSTANTS
  BLOCK_SIZE,      \* bytes in every block but the last one of a piece
  RequestTimeout,  \* block_request_timeout_, in ticks
  UINT16,          \* 2^16: block indices are below it
  NoData           \* what piece_data_ holds before a block arrives

ASSUME BlockSizeAssumption == BLOCK_SIZE \in Nat \ {0}
ASSUME TimeoutAssumption == RequestTimeout \in Nat

Unrequested == -1                  \* time_point::min()
Expired == RequestTimeout + 1      \* the age at which ages saturate
Ages == Unrequested .. Expired

ceil_div(dividend, divisor) ==
  (dividend \div divisor) + (IF dividend % divisor # 0 THEN 1 ELSE 0)

get_block_index(offset) == offset \div BLOCK_SIZE
get_block_offset(b) == b * BLOCK_SIZE

\* The block indices of a piece of the given size.
BlockRange(size) == 0 .. ceil_div(size, BLOCK_SIZE) - 1

\* The types of the members of a piece of the given size whose blocks carry
\* payloads from D.
PieceOfSize(size, D) ==
  [piece_size_         : {size},
   blocks_cnt_         : {ceil_div(size, BLOCK_SIZE)},
   blocks_left_        : 0 .. ceil_div(size, BLOCK_SIZE),
   unrequested_blocks_ : 0 .. ceil_div(size, BLOCK_SIZE),
   piece_data_         : [BlockRange(size) -> D \cup {NoData}],
   request_age_        : [BlockRange(size) -> Ages],
   remaining_blocks_   : [BlockRange(size) -> BlockRange(size)],
   block_pos_in_rem_   : [BlockRange(size) -> BlockRange(size)]]

Blocks(pc) == 0 .. pc.blocks_cnt_ - 1

\* The constructor.
NewPiece(size) ==
  LET n == ceil_div(size, BLOCK_SIZE)
      identity == [b \in 0 .. n - 1 |-> b]
  IN [piece_size_         |-> size,
      blocks_cnt_         |-> n,
      blocks_left_        |-> n,
      unrequested_blocks_ |-> n,
      piece_data_         |-> [b \in 0 .. n - 1 |-> NoData],
      request_age_        |-> [b \in 0 .. n - 1 |-> Unrequested],
      remaining_blocks_   |-> identity,
      block_pos_in_rem_   |-> identity]

is_complete(pc) == pc.blocks_left_ = 0
get_unreq_blocks_cnt(pc) == pc.unrequested_blocks_
is_block_received(pc, b) == pc.block_pos_in_rem_[b] >= pc.blocks_left_
is_block_requested(pc, b) == pc.request_age_[b] # Unrequested
is_block_timed_out(pc, b) ==
  pc.request_age_[b] = Unrequested \/ pc.request_age_[b] > RequestTimeout

\* The span of blocks that have not been received yet, as a set.
get_remaining_blocks(pc) ==
  {pc.remaining_blocks_[i] : i \in 0 .. pc.blocks_left_ - 1}

block_size(pc, b) ==
  IF b = pc.blocks_cnt_ - 1 THEN 1 + ((pc.piece_size_ - 1) % BLOCK_SIZE)
                            ELSE BLOCK_SIZE

\* Mutant: the positions of the two swapped blocks are left as they were.
MoveBehind_PositionsKept(pc, b) ==
  LET last == pc.blocks_left_ - 1
      pos  == pc.block_pos_in_rem_[b]
  IN [pc EXCEPT
       !.remaining_blocks_ = [@ EXCEPT ![pos] = pc.remaining_blocks_[last],
                                       ![last] = pc.remaining_blocks_[pos]],
       !.blocks_left_ = last]

\* Move block b behind the remaining ones: the two swaps of receive_block.
MoveBehind(pc, b) ==
  LET last    == pc.blocks_left_ - 1
      pos     == pc.block_pos_in_rem_[b]
      swapped == pc.remaining_blocks_[last]
  IN [pc EXCEPT
       !.remaining_blocks_ = [@ EXCEPT ![pos] = pc.remaining_blocks_[last],
                                       ![last] = pc.remaining_blocks_[pos]],
       !.block_pos_in_rem_ = [@ EXCEPT ![b] = pc.block_pos_in_rem_[swapped],
                                       ![swapped] = pos],
       !.blocks_left_ = last]

\* Mutant: a block that has been received before is not ignored.
ReceiveBlock_Again(pc, data, offset) ==
  LET b == get_block_index(offset)
  IN IF is_complete(pc) THEN pc
     ELSE MoveBehind([pc EXCEPT !.piece_data_[b] = data], b)

\* receive_block: a block that has been received before is ignored.
ReceiveBlock(pc, data, offset) ==
  LET b == get_block_index(offset)
  IN IF is_block_received(pc, b) THEN pc
     ELSE MoveBehind([pc EXCEPT !.piece_data_[b] = data], b)

\* Mutant: requests never time out.
Requestable_NoTimeout(pc, b) ==
  ~ is_block_received(pc, b) /\ ~ is_block_requested(pc, b)

\* The blocks the loop of request_next_block does not skip.
Requestable(pc, b) ==
  /\ ~ is_block_received(pc, b)
  /\ ~ (is_block_requested(pc, b) /\ ~ is_block_timed_out(pc, b))

RequestablePositions(pc) ==
  {i \in 0 .. pc.blocks_left_ - 1 : Requestable(pc, pc.remaining_blocks_[i])}

HasNextBlock(pc) == RequestablePositions(pc) # {}

\* The block that request_next_block returns: the first one not skipped.
NextBlock(pc) ==
  pc.remaining_blocks_[CHOOSE i \in RequestablePositions(pc) :
                         \A j \in RequestablePositions(pc) : i <= j]

\* Mutant: every request lowers the counter, a repeated one too.
MarkRequested_CountedTwice(pc, b) ==
  [pc EXCEPT !.unrequested_blocks_ = IF @ = 0 THEN 0 ELSE @ - 1,
             !.request_age_[b] = 0]

\* Mutant: as above, and the counter may pass zero.
MarkRequested_Underflow(pc, b) ==
  [pc EXCEPT !.unrequested_blocks_ = @ - 1, !.request_age_[b] = 0]

\* What request_next_block does to the piece when it returns block b.
MarkRequested(pc, b) ==
  [pc EXCEPT
    !.unrequested_blocks_ = @ - (IF is_block_requested(pc, b) THEN 0 ELSE 1),
    !.request_age_[b] = 0]

\* One tick of the clock.
Older(pc) ==
  [pc EXCEPT !.request_age_ = [b \in Blocks(pc) |->
     IF @[b] \in {Unrequested, Expired} THEN @[b] ELSE @[b] + 1]]
-----------------------------------------------------------------------------
(* What holds of a piece between calls *)

\* remaining_blocks_ and block_pos_in_rem_ are inverse to each other.
VectorsInverse(pc) ==
  \A b \in Blocks(pc) :
    /\ pc.remaining_blocks_[pc.block_pos_in_rem_[b]] = b
    /\ pc.block_pos_in_rem_[pc.remaining_blocks_[b]] = b

\* A block counts as received exactly when its part of the buffer is filled.
ReceivedFilled(pc) ==
  \A b \in Blocks(pc) : is_block_received(pc, b) <=> pc.piece_data_[b] # NoData

\* unrequested_blocks_ counts the blocks no request was ever made for.
UnrequestedExact(pc) ==
  get_unreq_blocks_cnt(pc) =
    Cardinality({b \in Blocks(pc) : ~ is_block_requested(pc, b)})

WellFormed(pc) ==
  VectorsInverse(pc) /\ ReceivedFilled(pc) /\ UnrequestedExact(pc)
=============================================================================
