-------------------------- MODULE VerifiedDownload --------------------------
(***************************************************************************)
(* What the download promises: pieces are stored one at a time, each once, *)
(* with the bytes of the torrent at their place in the file, nothing that  *)
(* has been stored is lost or overwritten, and completion is announced     *)
(* with the last piece and not before.                                     *)
(***************************************************************************)
EXTENDS Integers

CONSTANTS PIECE_SIZE, TORRENT_SIZE, PieceIds, Unwritten

VARIABLES
  have,  \* the pieces that are stored
  file,  \* file[i]: the index of the torrent byte stored at offset i
  done   \* completion has been announced

vars == <<have, file, done>>

Bytes == 0 .. TORRENT_SIZE - 1
BytesOf(p) == {i \in Bytes : i \div PIECE_SIZE = p}

Init ==
  /\ have = {}
  /\ file = [i \in Bytes |-> Unwritten]
  /\ done = FALSE

Store(p) ==
  /\ p \notin have
  /\ have' = have \cup {p}
  /\ file' = [i \in Bytes |-> IF i \in BytesOf(p) THEN i ELSE file[i]]
  /\ done' = (have' = PieceIds)

Next == \E p \in PieceIds : Store(p)

Spec == Init /\ [][Next]_vars
=============================================================================
