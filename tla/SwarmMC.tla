------------------------------ MODULE SwarmMC ------------------------------
(***************************************************************************)
(* Small instances of Swarm and SwarmHonest for TLC.                       *)
(***************************************************************************)
EXTENDS SwarmHonest

\* A peer has the first piece, or all of them.
FirstOrAll == {{0}, PieceIds}

\* A peer has all pieces.
All == {PieceIds}

\* Every peer but one has only the first piece.
OneSeed ==
  LET seed == CHOOSE c \in Peers : TRUE
  IN [c \in Peers |-> IF c = seed THEN PieceIds ELSE {0}]
=============================================================================
