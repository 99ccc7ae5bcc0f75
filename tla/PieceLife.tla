----------------------------- MODULE PieceLife -----------------------------
(***************************************************************************)
(* One piece from its construction on, under every order of requests,      *)
(* arriving blocks (asked for or not, repeated or not) and timeouts.       *)
(***************************************************************************)
EXTENDS Piece

CONSTANTS
  PieceSize,  \* bytes in the piece
  Data,       \* the payloads a block may arrive with
  NoBlock     \* the empty optional

ASSUME PieceSizeAssumption == PieceSize \in Nat \ {0}
ASSUME BlockCountAssumption == ceil_div(PieceSize, BLOCK_SIZE) <= UINT16
ASSUME DataAssumption == NoData \notin Data

VARIABLES
  piece,   \* the Piece
  answer   \* the index of the block that request_next_block last returned

vars == <<piece, answer>>

Block == BlockRange(PieceSize)

Init ==
  /\ piece = NewPiece(PieceSize)
  /\ answer = NoBlock

RequestNextBlock ==
  \/ /\ HasNextBlock(piece)
     /\ answer' = NextBlock(piece)
     /\ piece' = MarkRequested(piece, NextBlock(piece))
  \/ /\ ~ HasNextBlock(piece)
     /\ answer' = NoBlock
     /\ UNCHANGED piece

\* A block arrives at an offset inside the piece.
BlockArrives(offset, d) ==
  /\ piece' = ReceiveBlock(piece, d, offset)
  /\ UNCHANGED answer

Tick ==
  /\ piece' = Older(piece)
  /\ UNCHANGED answer

Next ==
  \/ RequestNextBlock
  \/ \E b \in Block, d \in Data : BlockArrives(get_block_offset(b), d)
  \/ Tick

Spec == Init /\ [][Next]_vars
-----------------------------------------------------------------------------
(* Properties *)

\* The piece keeps the types of its members, and the counters never leave
\* 0 .. blocks_cnt_ (size_t members that the code only ever decrements).
TypeOK ==
  /\ piece \in PieceOfSize(PieceSize, Data)
  /\ answer \in Block \cup {NoBlock}

\* block_pos_in_rem_[i] = j -> remaining_blocks_[j] = i, and back: the two
\* vectors stay inverse to each other through every swap of receive_block.
PositionsInverse == VectorsInverse(piece)

\* get_unreq_blocks_cnt, which decides when the endgame may start, counts the
\* blocks for which no request has ever been made.
UnrequestedCounted == UnrequestedExact(piece)

\* A block counts as received exactly when its part of the buffer has been
\* filled, so the buffer that is hashed and written when is_complete holds
\* has no hole.
ReceivedMeansFilled == ReceivedFilled(piece)

Abstract == INSTANCE BlockSet WITH
  missing     <- get_remaining_blocks(piece),
  data        <- piece.piece_data_,
  outstanding <- {b \in Block : /\ is_block_requested(piece, b)
                                /\ ~ is_block_timed_out(piece, b)}

\* The index vectors implement the set of missing blocks: only blocks that
\* are missing and not outstanding are asked for, none is left out when the
\* answer is empty, and data that has arrived is never overwritten.
ImplementsBlockSet == Abstract!Spec
=============================================================================
