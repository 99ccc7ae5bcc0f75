----------------------------- MODULE Allocator -----------------------------
(***************************************************************************)
(* What a pool of fixed-size blocks promises: a block is in use from the   *)
(* allocation that returns it to the deallocation that gives it back, and  *)
(* an allocation fails only when every block is in use.                    *)
(***************************************************************************)
CONSTANTS Blocks, Null

VARIABLES
  used,     \* the blocks in use
  returned  \* the last call of allocate: did the size fit, what came back

vars == <<used, returned>>

Init == used = {} /\ returned = <<TRUE, Null>>

Allocate(b) ==
  /\ b \notin used
  /\ used' = used \cup {b}
  /\ returned' = <<TRUE, b>>

Fail ==
  /\ used = Blocks
  /\ returned' = <<TRUE, Null>>
  /\ UNCHANGED used

\* A request for more than a block holds fails at any time.
Refuse ==
  /\ returned' = <<FALSE, Null>>
  /\ UNCHANGED used

Deallocate(b) ==
  /\ b \in used
  /\ used' = used \ {b}
  /\ UNCHANGED returned

Next == (\E b \in Blocks : Allocate(b) \/ Deallocate(b)) \/ Fail \/ Refuse

Spec == Init /\ [][Next]_vars
=============================================================================
