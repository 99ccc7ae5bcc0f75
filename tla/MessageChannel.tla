--------------------------- MODULE MessageChannel ---------------------------
(***************************************************************************)
(* What one direction of a connection promises: messages arrive whole, as  *)
(* they were sent and in the order they were sent; when the connection is  *)
(* lost, so is what is on the way.                                         *)
(***************************************************************************)
EXTENDS Naturals, Sequences

VARIABLES
  on_the_way,  \* messages sent and not received
  received     \* the last message received, in a sequence that is empty at first

Init == on_the_way = <<>> /\ received = <<>>

\* One or more messages follow those that are on the way.
Send ==
  /\ Len(on_the_way) < Len(on_the_way')
  /\ on_the_way = SubSeq(on_the_way', 1, Len(on_the_way))
  /\ UNCHANGED received

\* After the last message it receives a side may close the connection.
Receive ==
  /\ on_the_way # <<>>
  /\ received' = <<Head(on_the_way)>>
  /\ on_the_way' \in {Tail(on_the_way), <<>>}

Lose == on_the_way' = <<>> /\ UNCHANGED received

Next == Send \/ Receive \/ Lose

Spec == Init /\ [][Next]_<<on_the_way, received>>
=============================================================================
