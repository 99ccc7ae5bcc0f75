------------------------------ MODULE BlockSet ------------------------------
(***************************************************************************)
(* What a piece promises to its caller, without the index vectors: a set   *)
(* of blocks that are missing, the data of the others, and the requests    *)
(* that have not timed out.  A block is asked for only while it is missing *)
(* and no request for it is outstanding, and the first data to arrive for  *)
(* a block is the data that stays.                                         *)
(***************************************************************************)
CONSTANTS Block, Data, NoData, NoBlock

VARIABLES
  missing,      \* the blocks without data
  data,         \* what has arrived for each block
  outstanding,  \* the blocks with a request that has not timed out
  answer        \* the result of the last request_next_block

vars == <<missing, data, outstanding, answer>>

Init ==
  /\ missing = Block
  /\ data = [b \in Block |-> NoData]
  /\ outstanding = {}
  /\ answer = NoBlock

Request(b) ==
  /\ b \in missing \ outstanding
  /\ outstanding' = outstanding \cup {b}
  /\ answer' = b
  /\ UNCHANGED <<missing, data>>

NothingToRequest ==
  /\ missing \subseteq outstanding
  /\ answer' = NoBlock
  /\ UNCHANGED <<missing, data, outstanding>>

Receive(b, d) ==
  /\ b \in missing
  /\ missing' = missing \ {b}
  /\ data' = [data EXCEPT ![b] = d]
  /\ UNCHANGED <<outstanding, answer>>

Expire ==
  /\ outstanding' \in SUBSET outstanding
  /\ UNCHANGED <<missing, data, answer>>

Next ==
  \/ \E b \in Block : Request(b)
  \/ NothingToRequest
  \/ \E b \in Block, d \in Data : Receive(b, d)
  \/ Expire

Spec == Init /\ [][Next]_vars
=============================================================================
