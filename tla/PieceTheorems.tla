--------------------------- MODULE PieceTheorems ---------------------------
(***************************************************************************)
(* Facts about the operations of a piece, for every piece size, block size *)
(* and payload set.  PieceLifeProofs and PieceManagerProofs rest on them.  *)
(***************************************************************************)
EXTENDS Piece, WellFoundedInduction, FiniteSetTheorems, TLAPS

\* A nonempty set of naturals has a least element.
LEMMA LeastElement ==
  ASSUME NEW S \in SUBSET Nat, S # {}
  PROVE  \E i \in S : \A j \in S : i <= j
<1> DEFINE R == OpToRel(<, Nat)
<1>1. \A x, y \in Nat : x < y => <<x, y>> \in R
  BY DEF OpToRel
<1>2. IsWellFoundedOn(R, Nat)
  BY NatLessThanWellFounded
<1> HIDE DEF R
<1>3. PICK x \in S : \A y \in S : ~ (<<y, x>> \in R)
  BY <1>2, WFMin
<1>4. ASSUME NEW y \in S
      PROVE  x <= y
  <2>1. x \in Nat /\ y \in Nat
    OBVIOUS
  <2>2. ~ (y < x)
    BY <1>1, <1>3, <2>1
  <2> QED BY <2>1, <2>2
<1> QED BY <1>3, <1>4

\* ceil_div of a positive size is positive: a piece has at least one block.
LEMMA CeilDivPositive ==
  ASSUME NEW a \in Nat \ {0}, NEW b \in Nat \ {0}
  PROVE  ceil_div(a, b) \in Nat \ {0}
<1>1. a \div b \in Nat
  OBVIOUS
<1>2. a % b \in 0 .. b - 1
  OBVIOUS
<1>3. a = b * (a \div b) + (a % b)
  OBVIOUS
<1>4. CASE a % b = 0
  <2>1. a \div b # 0
    BY <1>3, <1>4, <1>1
  <2> QED BY <1>1, <1>4, <2>1 DEF ceil_div
<1>5. CASE a % b # 0
  BY <1>1, <1>5 DEF ceil_div
<1> QED BY <1>4, <1>5

\* The offset that a request carries leads back to the block it asks for.
LEMMA OffsetOfIndex ==
  ASSUME NEW b \in Nat
  PROVE  /\ get_block_offset(b) \in Nat
         /\ get_block_index(get_block_offset(b)) = b
BY BlockSizeAssumption DEF get_block_offset, get_block_index

\* Type facts about a piece, in the form the later proofs use.
LEMMA PieceFacts ==
  ASSUME NEW size \in Nat \ {0}, NEW D, NEW pc \in PieceOfSize(size, D)
  PROVE  /\ ceil_div(size, BLOCK_SIZE) \in Nat \ {0}
         /\ Blocks(pc) = BlockRange(size)
         /\ pc.blocks_cnt_ = ceil_div(size, BLOCK_SIZE)
         /\ pc.piece_size_ = size
         /\ pc.blocks_left_ \in 0 .. ceil_div(size, BLOCK_SIZE)
         /\ pc.unrequested_blocks_ \in 0 .. ceil_div(size, BLOCK_SIZE)
         /\ pc.piece_data_ \in [BlockRange(size) -> D \cup {NoData}]
         /\ pc.request_age_ \in [BlockRange(size) -> Ages]
         /\ pc.remaining_blocks_ \in [BlockRange(size) -> BlockRange(size)]
         /\ pc.block_pos_in_rem_ \in [BlockRange(size) -> BlockRange(size)]
BY CeilDivPositive, BlockSizeAssumption DEF PieceOfSize, Blocks, BlockRange

\* A new piece is well formed.
LEMMA NewPieceWellFormed ==
  ASSUME NEW size \in Nat \ {0}, NEW D
  PROVE  /\ NewPiece(size) \in PieceOfSize(size, D)
         /\ WellFormed(NewPiece(size))
         /\ ~ is_complete(NewPiece(size))
         /\ get_remaining_blocks(NewPiece(size)) = BlockRange(size)
<1> DEFINE n == ceil_div(size, BLOCK_SIZE)
           pc == NewPiece(size)
<1>1. n \in Nat \ {0}
  BY CeilDivPositive, BlockSizeAssumption
<1>2. pc \in PieceOfSize(size, D)
  BY <1>1, TimeoutAssumption
     DEF NewPiece, PieceOfSize, BlockRange, Ages, Unrequested, Expired
<1>3. Blocks(pc) = BlockRange(size) /\ BlockRange(size) = 0 .. n - 1
  BY <1>2, PieceFacts DEF BlockRange
<1>4. VectorsInverse(pc)
  BY <1>3 DEF VectorsInverse, NewPiece
<1>5. ReceivedFilled(pc)
  BY <1>1, <1>3 DEF ReceivedFilled, NewPiece, is_block_received
<1>6. UnrequestedExact(pc)
  <2>1. {b \in Blocks(pc) : ~ is_block_requested(pc, b)} = 0 .. n - 1
    BY <1>3 DEF NewPiece, is_block_requested
  <2>2. Cardinality(0 .. n - 1) = n
    BY <1>1, FS_Interval
  <2> QED BY <2>1, <2>2 DEF UnrequestedExact, get_unreq_blocks_cnt, NewPiece
<1>7. get_remaining_blocks(pc) = BlockRange(size)
  BY <1>1, <1>3 DEF get_remaining_blocks, NewPiece
<1> QED BY <1>1, <1>2, <1>4, <1>5, <1>6, <1>7
     DEF WellFormed, is_complete, NewPiece

\* The blocks before position blocks_left_ are the ones not yet received.
LEMMA RemainingNotReceived ==
  ASSUME NEW size \in Nat \ {0}, NEW D, NEW pc \in PieceOfSize(size, D),
         VectorsInverse(pc)
  PROVE  get_remaining_blocks(pc) =
           {b \in BlockRange(size) : ~ is_block_received(pc, b)}
<1> DEFINE n == ceil_div(size, BLOCK_SIZE)
           left == pc.blocks_left_
           rem == pc.remaining_blocks_
           ps == pc.block_pos_in_rem_
<1>1. /\ n \in Nat \ {0} /\ BlockRange(size) = 0 .. n - 1 /\ left \in 0 .. n
      /\ rem \in [0 .. n - 1 -> 0 .. n - 1]
      /\ ps \in [0 .. n - 1 -> 0 .. n - 1]
      /\ \A c \in 0 .. n - 1 : rem[ps[c]] = c /\ ps[rem[c]] = c
  BY PieceFacts DEF BlockRange, VectorsInverse
<1>2. /\ get_remaining_blocks(pc) = {rem[i] : i \in 0 .. left - 1}
      /\ \A b : is_block_received(pc, b) <=> ps[b] >= left
  BY DEF get_remaining_blocks, is_block_received
<1> HIDE DEF n, left, rem, ps
<1>3. {rem[i] : i \in 0 .. left - 1} = {b \in 0 .. n - 1 : ~ (ps[b] >= left)}
  <2>1. ASSUME NEW i \in 0 .. left - 1
        PROVE  rem[i] \in 0 .. n - 1 /\ ~ (ps[rem[i]] >= left)
    <3>1. i \in 0 .. n - 1 /\ ~ (i >= left)
      BY <1>1
    <3>2. rem[i] \in 0 .. n - 1 /\ ps[rem[i]] = i
      BY <1>1, <3>1
    <3> QED BY <3>1, <3>2
  <2>2. ASSUME NEW b \in 0 .. n - 1, ~ (ps[b] >= left)
        PROVE  ps[b] \in 0 .. left - 1 /\ rem[ps[b]] = b
    BY <1>1, <2>2
  <2> QED BY <2>1, <2>2
<1> QED BY <1>1, <1>2, <1>3

\* Moving a block that has not been received behind the others keeps the
\* vectors inverse and makes it, and no other, a received block.
LEMMA MoveBehindCorrect ==
  ASSUME NEW size \in Nat \ {0}, NEW D, NEW pc \in PieceOfSize(size, D),
         VectorsInverse(pc),
         NEW b \in BlockRange(size), ~ is_block_received(pc, b)
  PROVE  /\ MoveBehind(pc, b) \in PieceOfSize(size, D)
         /\ VectorsInverse(MoveBehind(pc, b))
         /\ \A c \in BlockRange(size) :
              is_block_received(MoveBehind(pc, b), c)
                <=> is_block_received(pc, c) \/ c = b
         /\ MoveBehind(pc, b).piece_data_ = pc.piece_data_
         /\ MoveBehind(pc, b).request_age_ = pc.request_age_
         /\ MoveBehind(pc, b).unrequested_blocks_ = pc.unrequested_blocks_
         /\ MoveBehind(pc, b).blocks_left_ = pc.blocks_left_ - 1
<1> DEFINE n == ceil_div(size, BLOCK_SIZE)
           last == pc.blocks_left_ - 1
           rem == pc.remaining_blocks_
           ps == pc.block_pos_in_rem_
           rem2 == [rem EXCEPT ![ps[b]] = rem[last], ![last] = rem[ps[b]]]
           ps2 == [ps EXCEPT ![b] = ps[rem[last]], ![rem[last]] = ps[b]]
           pc2 == MoveBehind(pc, b)
<1>1. /\ n \in Nat \ {0} /\ BlockRange(size) = 0 .. n - 1
      /\ Blocks(pc) = 0 .. n - 1
      /\ pc.blocks_left_ \in 0 .. n
      /\ rem \in [0 .. n - 1 -> 0 .. n - 1]
      /\ ps \in [0 .. n - 1 -> 0 .. n - 1]
      /\ \A c \in 0 .. n - 1 : rem[ps[c]] = c /\ ps[rem[c]] = c
  BY PieceFacts DEF BlockRange, VectorsInverse
<1>2. ps[b] <= last /\ last \in 0 .. n - 1 /\ b \in 0 .. n - 1
  BY <1>1 DEF is_block_received
<1>3. pc2 = [pc EXCEPT !.remaining_blocks_ = rem2,
                       !.block_pos_in_rem_ = ps2,
                       !.blocks_left_ = last]
  BY DEF MoveBehind
<1>4. /\ pc2.remaining_blocks_ = rem2 /\ pc2.block_pos_in_rem_ = ps2
      /\ pc2.blocks_left_ = last
      /\ pc2.piece_data_ = pc.piece_data_ /\ pc2.request_age_ = pc.request_age_
      /\ pc2.unrequested_blocks_ = pc.unrequested_blocks_
      /\ pc2.blocks_cnt_ = pc.blocks_cnt_
  BY <1>3 DEF PieceOfSize
<1>5. /\ rem2 \in [0 .. n - 1 -> 0 .. n - 1]
      /\ ps2 \in [0 .. n - 1 -> 0 .. n - 1]
      /\ \A c \in 0 .. n - 1 : rem2[ps2[c]] = c /\ ps2[rem2[c]] = c
      /\ \A c \in 0 .. n - 1 : ps2[c] >= last <=> ps[c] > last \/ c = b
  <2> HIDE DEF n, last, rem, ps
  <2> USE <1>1, <1>2
  <2> DEFINE sw  == rem[last]
             pos == ps[b]
  <2>1. /\ pos \in 0 .. n - 1 /\ sw \in 0 .. n - 1
        /\ ps[sw] = last /\ rem[pos] = b
    BY <1>1, <1>2
  <2>2. /\ rem2 \in [0 .. n - 1 -> 0 .. n - 1]
        /\ ps2 \in [0 .. n - 1 -> 0 .. n - 1]
    BY <2>1
  <2>3. \A c \in 0 .. n - 1 : ps2[c] = IF c = sw THEN pos
                                       ELSE IF c = b THEN last ELSE ps[c]
    BY <2>1
  <2>4. \A i \in 0 .. n - 1 : rem2[i] = IF i = last THEN b
                                        ELSE IF i = pos THEN sw ELSE rem[i]
    BY <2>1
  <2> HIDE DEF rem2, ps2, sw, pos
  <2>5. ASSUME NEW c \in 0 .. n - 1
        PROVE  rem2[ps2[c]] = c
    <3>1. CASE c = sw
      <4>1. ps2[c] = pos
        BY <2>3, <3>1
      <4>2. rem2[pos] = IF pos = last THEN b ELSE sw
        BY <2>1, <2>4
      <4>3. pos = last => b = sw
        BY <2>1 DEF sw
      <4> QED BY <3>1, <4>1, <4>2, <4>3
    <3>2. CASE c # sw /\ c = b
      BY <2>3, <2>4, <3>2
    <3>3. CASE c # sw /\ c # b
      <4>1. ps2[c] = ps[c] /\ ps[c] \in 0 .. n - 1
        BY <2>3, <3>3
      <4>2. ps[c] # last /\ ps[c] # pos
        BY <2>1, <3>3 DEF sw, pos
      <4> QED BY <2>4, <4>1, <4>2
    <3> QED BY <3>1, <3>2, <3>3
  <2>6. ASSUME NEW i \in 0 .. n - 1
        PROVE  ps2[rem2[i]] = i
    <3>1. CASE i = last
      <4>1. rem2[i] = b
        BY <2>4, <3>1
      <4>2. ps2[b] = IF b = sw THEN pos ELSE last
        BY <2>3
      <4>3. b = sw => pos = last
        BY <2>1 DEF pos
      <4> QED BY <3>1, <4>1, <4>2, <4>3
    <3>2. CASE i # last /\ i = pos
      BY <2>1, <2>3, <2>4, <3>2
    <3>3. CASE i # last /\ i # pos
      <4>1. rem2[i] = rem[i] /\ rem[i] \in 0 .. n - 1
        BY <2>4, <3>3
      <4>2. rem[i] # sw /\ rem[i] # b
        BY <2>1, <3>3 DEF sw, pos
      <4> QED BY <2>3, <4>1, <4>2
    <3> QED BY <3>1, <3>2, <3>3
  <2>7. \A c \in 0 .. n - 1 : ps2[c] >= last <=> ps[c] > last \/ c = b
    <3> SUFFICES ASSUME NEW c \in 0 .. n - 1
                 PROVE  ps2[c] >= last <=> ps[c] > last \/ c = b
      OBVIOUS
    <3>1. ps[c] \in 0 .. n - 1
      OBVIOUS
    <3>2. CASE c = sw
      <4>1. ps2[c] = pos /\ ps[c] = last
        BY <2>1, <2>3, <3>2
      <4>2. pos \in Int /\ last \in Int /\ pos <= last
        BY <2>1 DEF pos
      <4>3. pos = last <=> c = b
        BY <2>1, <3>2 DEF pos, sw
      <4>4. CASE pos = last
        BY <4>1, <4>2, <4>3, <4>4
      <4>5. CASE pos < last
        BY <4>1, <4>2, <4>3, <4>5
      <4> QED BY <4>2, <4>4, <4>5
    <3>3. CASE c # sw /\ c = b
      <4>1. ps2[c] = last
        BY <2>3, <3>3
      <4> QED BY <3>3, <4>1
    <3>4. CASE c # sw /\ c # b
      <4>1. ps2[c] = ps[c]
        BY <2>3, <3>4
      <4>2. ps[c] # last
        BY <2>1, <3>1, <3>4 DEF sw
      <4>3. CASE ps[c] > last
        BY <3>1, <4>1, <4>3
      <4>4. CASE ps[c] < last
        BY <3>1, <3>4, <4>1, <4>4
      <4> QED BY <3>1, <4>2, <4>3, <4>4
    <3> QED BY <3>2, <3>3, <3>4
  <2> QED BY <2>2, <2>5, <2>6, <2>7
<1>6. pc2 \in PieceOfSize(size, D)
  <2>1. last \in 0 .. ceil_div(size, BLOCK_SIZE)
    BY <1>1, <1>2
  <2>2. /\ rem2 \in [BlockRange(size) -> BlockRange(size)]
        /\ ps2 \in [BlockRange(size) -> BlockRange(size)]
    BY <1>1, <1>5
  <2> HIDE DEF n, rem, ps, rem2, ps2, last, pc2
  <2> QED BY <1>3, <2>1, <2>2 DEF PieceOfSize
<1> HIDE DEF rem2, ps2, pc2
<1>7. VectorsInverse(pc2)
  BY <1>1, <1>4, <1>5 DEF VectorsInverse, Blocks
<1>8. ASSUME NEW c \in 0 .. n - 1
      PROVE  is_block_received(pc2, c) <=> is_block_received(pc, c) \/ c = b
  <2>1. ps[c] > last <=> ps[c] >= pc.blocks_left_
    BY <1>1
  <2>2. ps2[c] >= last <=> ps[c] > last \/ c = b
    BY <1>5
  <2> HIDE DEF last
  <2> QED BY <1>4, <2>1, <2>2 DEF is_block_received
<1> QED BY <1>1, <1>4, <1>6, <1>7, <1>8 DEF pc2

\* receive_block keeps a piece well formed; it stores the first payload that
\* arrives for a block and ignores later ones.
LEMMA ReceiveBlockCorrect ==
  ASSUME NEW size \in Nat \ {0}, NEW D, NoData \notin D,
         NEW pc \in PieceOfSize(size, D), WellFormed(pc),
         NEW offset, get_block_index(offset) \in BlockRange(size), NEW d \in D
  PROVE  LET b   == get_block_index(offset)
             pc2 == ReceiveBlock(pc, d, offset)
         IN /\ pc2 \in PieceOfSize(size, D)
            /\ WellFormed(pc2)
            /\ is_block_received(pc, b) => pc2 = pc
            /\ ~ is_block_received(pc, b) =>
                 /\ pc2.piece_data_ = [pc.piece_data_ EXCEPT ![b] = d]
                 /\ pc2.request_age_ = pc.request_age_
                 /\ \A c \in BlockRange(size) :
                      is_block_received(pc2, c)
                        <=> is_block_received(pc, c) \/ c = b
<1> DEFINE b == get_block_index(offset)
           mid == [pc EXCEPT !.piece_data_[b] = d]
           pc2 == ReceiveBlock(pc, d, offset)
<1>1. CASE is_block_received(pc, b)
  BY <1>1 DEF ReceiveBlock
<1>2. CASE ~ is_block_received(pc, b)
  <2>1. /\ mid \in PieceOfSize(size, D)
        /\ mid.piece_data_ = [pc.piece_data_ EXCEPT ![b] = d]
        /\ mid.request_age_ = pc.request_age_
        /\ mid.unrequested_blocks_ = pc.unrequested_blocks_
        /\ mid.remaining_blocks_ = pc.remaining_blocks_
        /\ mid.block_pos_in_rem_ = pc.block_pos_in_rem_
        /\ mid.blocks_left_ = pc.blocks_left_
        /\ mid.blocks_cnt_ = pc.blocks_cnt_
    BY DEF PieceOfSize
  <2> HIDE DEF mid
  <2>2. VectorsInverse(mid) /\ \A c : is_block_received(mid, c)
                                        <=> is_block_received(pc, c)
    BY <2>1 DEF WellFormed, VectorsInverse, Blocks, is_block_received
  <2>3. pc2 = MoveBehind(mid, b)
    BY <1>2 DEF ReceiveBlock, mid
  <2> HIDE DEF pc2, b
  <2>4. /\ pc2 \in PieceOfSize(size, D)
        /\ VectorsInverse(pc2)
        /\ \A c \in BlockRange(size) :
             is_block_received(pc2, c) <=> is_block_received(pc, c) \/ c = b
        /\ pc2.piece_data_ = [pc.piece_data_ EXCEPT ![b] = d]
        /\ pc2.request_age_ = pc.request_age_
        /\ pc2.unrequested_blocks_ = pc.unrequested_blocks_
    BY <1>2, <2>1, <2>2, <2>3, MoveBehindCorrect DEF b
  <2>5. Blocks(pc2) = BlockRange(size) /\ Blocks(pc) = BlockRange(size)
    BY <2>4, PieceFacts
  <2>6. ReceivedFilled(pc2)
    BY <2>4, <2>5, PieceFacts DEF WellFormed, ReceivedFilled, b
  <2>7. UnrequestedExact(pc2)
    BY <2>4, <2>5 DEF WellFormed, UnrequestedExact, get_unreq_blocks_cnt,
                      is_block_requested
  <2> QED BY <1>2, <2>4, <2>6, <2>7 DEF WellFormed, pc2, b
<1> QED BY <1>1, <1>2

\* request_next_block answers with a block that is missing and has no
\* outstanding request, whenever there is one.
LEMMA NextBlockCorrect ==
  ASSUME NEW size \in Nat \ {0}, NEW D, NEW pc \in PieceOfSize(size, D),
         VectorsInverse(pc)
  PROVE  /\ HasNextBlock(pc) =>
              NextBlock(pc) \in BlockRange(size) /\ Requestable(pc, NextBlock(pc))
         /\ ~ HasNextBlock(pc) => \A b \in BlockRange(size) : ~ Requestable(pc, b)
<1> DEFINE S == RequestablePositions(pc)
           n == ceil_div(size, BLOCK_SIZE)
           left == pc.blocks_left_
           rem == pc.remaining_blocks_
           ps == pc.block_pos_in_rem_
<1>1. /\ n \in Nat \ {0} /\ BlockRange(size) = 0 .. n - 1 /\ left \in 0 .. n
      /\ rem \in [0 .. n - 1 -> 0 .. n - 1]
      /\ ps \in [0 .. n - 1 -> 0 .. n - 1]
      /\ \A c \in 0 .. n - 1 : rem[ps[c]] = c /\ ps[rem[c]] = c
  BY PieceFacts DEF BlockRange, VectorsInverse
<1>2. S = {i \in 0 .. left - 1 : Requestable(pc, rem[i])}
  BY DEF RequestablePositions
<1>3. \A b : Requestable(pc, b) => ~ (ps[b] >= left)
  BY DEF Requestable, is_block_received
<1>4. NextBlock(pc) = rem[CHOOSE i \in S : \A j \in S : i <= j]
  BY DEF NextBlock
<1>5. HasNextBlock(pc) <=> S # {}
  BY DEF HasNextBlock
<1> HIDE DEF S, n, left, rem, ps
<1>6. ASSUME S # {}
      PROVE  NextBlock(pc) \in 0 .. n - 1 /\ Requestable(pc, NextBlock(pc))
  <2>1. S \in SUBSET Nat
    BY <1>1, <1>2
  <2>2. \E i \in S : \A j \in S : i <= j
    BY <1>6, <2>1, LeastElement
  <2> DEFINE least == CHOOSE i \in S : \A j \in S : i <= j
  <2>3. least \in S
    BY <2>2
  <2>4. NextBlock(pc) = rem[least]
    BY <1>4
  <2> HIDE DEF least
  <2>5. least \in 0 .. n - 1 /\ Requestable(pc, rem[least])
    BY <1>1, <1>2, <2>3
  <2> QED BY <1>1, <2>4, <2>5
<1>7. ASSUME S = {}, NEW b \in 0 .. n - 1, Requestable(pc, b)
      PROVE  FALSE
  <2>1. ps[b] \in 0 .. left - 1
    BY <1>1, <1>3, <1>7
  <2>2. rem[ps[b]] = b
    BY <1>1
  <2> QED BY <1>2, <1>7, <2>1, <2>2
<1> QED BY <1>1, <1>5, <1>6, <1>7

\* Noting a request keeps a piece well formed: only that request's age changes.
LEMMA MarkRequestedCorrect ==
  ASSUME NEW size \in Nat \ {0}, NEW D, NEW pc \in PieceOfSize(size, D),
         WellFormed(pc), NEW b \in BlockRange(size)
  PROVE  LET pc2 == MarkRequested(pc, b)
         IN /\ pc2 \in PieceOfSize(size, D)
            /\ WellFormed(pc2)
            /\ pc2.request_age_ = [pc.request_age_ EXCEPT ![b] = 0]
            /\ is_complete(pc2) <=> is_complete(pc)
            /\ pc2.piece_data_ = pc.piece_data_
            /\ pc2.blocks_left_ = pc.blocks_left_
            /\ pc2.remaining_blocks_ = pc.remaining_blocks_
            /\ pc2.block_pos_in_rem_ = pc.block_pos_in_rem_
<1> DEFINE n == ceil_div(size, BLOCK_SIZE)
           pc2 == MarkRequested(pc, b)
           U == {c \in BlockRange(size) : ~ is_block_requested(pc, c)}
           dec == IF is_block_requested(pc, b) THEN 0 ELSE 1
<1>1. /\ n \in Nat \ {0} /\ BlockRange(size) = 0 .. n - 1
      /\ Blocks(pc) = BlockRange(size)
      /\ pc.unrequested_blocks_ = Cardinality(U)
      /\ pc.unrequested_blocks_ \in 0 .. n
      /\ pc.request_age_ \in [BlockRange(size) -> Ages]
  BY PieceFacts DEF BlockRange, WellFormed, UnrequestedExact,
                    get_unreq_blocks_cnt
<1>2. IsFiniteSet(U)
  <2>1. IsFiniteSet(0 .. n - 1)
    <3>1. 0 \in Int /\ n - 1 \in Int
      BY <1>1
    <3> QED BY <3>1, FS_Interval
  <2>2. U \in SUBSET (0 .. n - 1)
    BY <1>1
  <2> QED BY <2>1, <2>2, FS_Subset
<1>3. b \in U <=> ~ is_block_requested(pc, b)
  OBVIOUS
<1>4. /\ Cardinality(U \ {b}) = Cardinality(U) - dec
      /\ Cardinality(U \ {b}) \in Nat
  <2> HIDE DEF U
  <2>1. /\ IsFiniteSet(U \ {b})
        /\ Cardinality(U \ {b}) = IF b \in U THEN Cardinality(U) - 1
                                            ELSE Cardinality(U)
    BY <1>2, FS_RemoveElement
  <2>2. Cardinality(U) \in Nat /\ Cardinality(U \ {b}) \in Nat
    BY <1>2, <2>1, FS_CardinalityType
  <2> QED BY <1>3, <2>1, <2>2
<1>5. 0 \in Ages /\ 0 # Unrequested
  BY TimeoutAssumption DEF Ages, Unrequested, Expired
<1>6. pc2 = [pc EXCEPT !.unrequested_blocks_ = pc.unrequested_blocks_ - dec,
                       !.request_age_ = [pc.request_age_ EXCEPT ![b] = 0]]
  BY DEF MarkRequested
<1>7. pc.unrequested_blocks_ - dec \in 0 .. n
  BY <1>1, <1>4
<1>8. [pc.request_age_ EXCEPT ![b] = 0] \in [BlockRange(size) -> Ages]
  BY <1>1, <1>5
<1> HIDE DEF dec, pc2
<1>9. /\ pc2 \in PieceOfSize(size, D)
      /\ pc2.unrequested_blocks_ = pc.unrequested_blocks_ - dec
      /\ pc2.request_age_ = [pc.request_age_ EXCEPT ![b] = 0]
      /\ pc2.piece_data_ = pc.piece_data_
      /\ pc2.blocks_left_ = pc.blocks_left_
      /\ pc2.blocks_cnt_ = pc.blocks_cnt_
      /\ pc2.remaining_blocks_ = pc.remaining_blocks_
      /\ pc2.block_pos_in_rem_ = pc.block_pos_in_rem_
  BY <1>6, <1>7, <1>8 DEF PieceOfSize
<1>10. Blocks(pc2) = BlockRange(size)
  BY <1>1, <1>9 DEF Blocks
<1>11. {c \in BlockRange(size) : ~ is_block_requested(pc2, c)} = U \ {b}
  BY <1>1, <1>5, <1>9 DEF is_block_requested
<1>12. UnrequestedExact(pc2)
  BY <1>1, <1>4, <1>9, <1>10, <1>11 DEF UnrequestedExact, get_unreq_blocks_cnt
<1>13. VectorsInverse(pc2) /\ ReceivedFilled(pc2)
  BY <1>1, <1>9, <1>10
     DEF WellFormed, VectorsInverse, ReceivedFilled, is_block_received
<1> QED BY <1>9, <1>12, <1>13 DEF WellFormed, is_complete, pc2

\* Time passing keeps a piece well formed: a request ages but is not forgotten.
LEMMA OlderCorrect ==
  ASSUME NEW size \in Nat \ {0}, NEW D, NEW pc \in PieceOfSize(size, D),
         WellFormed(pc)
  PROVE  LET pc2 == Older(pc)
         IN /\ pc2 \in PieceOfSize(size, D)
            /\ WellFormed(pc2)
            /\ \A b \in BlockRange(size) :
                 /\ is_block_requested(pc2, b) <=> is_block_requested(pc, b)
                 /\ is_block_timed_out(pc, b) => is_block_timed_out(pc2, b)
            /\ is_complete(pc2) <=> is_complete(pc)
            /\ pc2.piece_data_ = pc.piece_data_
            /\ pc2.blocks_left_ = pc.blocks_left_
            /\ pc2.remaining_blocks_ = pc.remaining_blocks_
            /\ pc2.block_pos_in_rem_ = pc.block_pos_in_rem_
<1> DEFINE pc2 == Older(pc)
           ages == [b \in BlockRange(size) |->
                      IF pc.request_age_[b] \in {Unrequested, Expired}
                      THEN pc.request_age_[b] ELSE pc.request_age_[b] + 1]
<1>1. /\ Blocks(pc) = BlockRange(size)
      /\ pc.request_age_ \in [BlockRange(size) -> Ages]
  BY PieceFacts
<1>2. pc2 = [pc EXCEPT !.request_age_ = ages]
  BY <1>1 DEF Older
<1>3. ages \in [BlockRange(size) -> Ages]
  BY <1>1, TimeoutAssumption DEF Ages, Unrequested, Expired
<1>4. ASSUME NEW b \in BlockRange(size)
      PROVE  /\ ages[b] # Unrequested <=> pc.request_age_[b] # Unrequested
             /\ pc.request_age_[b] > RequestTimeout => ages[b] > RequestTimeout
  BY <1>1, TimeoutAssumption DEF Ages, Unrequested, Expired
<1> HIDE DEF ages, pc2
<1>5. /\ pc2 \in PieceOfSize(size, D)
      /\ pc2.unrequested_blocks_ = pc.unrequested_blocks_
      /\ pc2.request_age_ = ages
      /\ pc2.piece_data_ = pc.piece_data_
      /\ pc2.blocks_left_ = pc.blocks_left_
      /\ pc2.blocks_cnt_ = pc.blocks_cnt_
      /\ pc2.remaining_blocks_ = pc.remaining_blocks_
      /\ pc2.block_pos_in_rem_ = pc.block_pos_in_rem_
  BY <1>2, <1>3 DEF PieceOfSize
<1>6. Blocks(pc2) = BlockRange(size)
  BY <1>1, <1>5 DEF Blocks
<1>7. ASSUME NEW b \in BlockRange(size)
      PROVE  /\ is_block_requested(pc2, b) <=> is_block_requested(pc, b)
             /\ is_block_timed_out(pc, b) => is_block_timed_out(pc2, b)
  BY <1>4, <1>5 DEF is_block_requested, is_block_timed_out
<1>8. {b \in BlockRange(size) : ~ is_block_requested(pc2, b)} =
      {b \in BlockRange(size) : ~ is_block_requested(pc, b)}
  BY <1>7
<1>9. UnrequestedExact(pc2)
  BY <1>1, <1>5, <1>6, <1>8
     DEF WellFormed, UnrequestedExact, get_unreq_blocks_cnt
<1>10. VectorsInverse(pc2) /\ ReceivedFilled(pc2)
  BY <1>1, <1>5, <1>6
     DEF WellFormed, VectorsInverse, ReceivedFilled, is_block_received
<1> QED BY <1>5, <1>7, <1>9, <1>10 DEF WellFormed, is_complete, pc2
=============================================================================
