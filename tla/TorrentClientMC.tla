-------------------------- MODULE TorrentClientMC --------------------------
(***************************************************************************)
(* Torrents for TLC: one without an announce-list, one with two groups and *)
(* a tracker of an unknown type, and one with a malformed UDP address.     *)
(***************************************************************************)
EXTENDS TorrentClient

CONSTANTS u1, u2, h1, x1, bad

Lists == {<<>>, << <<x1, h1>>, <<u2>> >>, << <<u1, bad>> >>}
Types == (u1 :> "UDP") @@ (u2 :> "UDP") @@ (h1 :> "HTTP") @@ (x1 :> "UNKNOWN")
           @@ (bad :> "INVALID")
=============================================================================
