---------------------------- MODULE SwarmHonest ----------------------------
(***************************************************************************)
(* Swarm when nothing fails: peer c has the pieces Holds[c], sends its     *)
(* bitfield and then unchokes, and answers every request with the bytes of *)
(* the torrent, as late as it likes.                                       *)
(*                                                                         *)
(* Fairness is strong: a handler that is ready waits in the FIFO queue of  *)
(* the io_context, and the steps in which another one runs, which disable  *)
(* it here, are followed by its own.                                       *)
(***************************************************************************)
EXTENDS Swarm

CONSTANT Holds

ASSUME HoldsAssumption ==
  /\ Holds \in [Peers -> SUBSET PieceIds]
  /\ UNION {Holds[c] : c \in Peers} = PieceIds

SendRequests(c) ==
  \/ Connect(c) \/ ConnectSucceeds(c) \/ Replace(c)
  \/ RunStarts(c) \/ InterestedSent(c)
  \/ SenderWakes(c) \/ LoadBlock(c) \/ LoadReturns(c) \/ RequestsSent(c)
  \/ EndgameWakes(c) \/ CancelsSent(c) \/ EndgameRequestsSent(c)

WindDown(c) == ReceiveCancelled(c) \/ SendCancelled(c) \/ RunEnds(c)

SendBitfield(c) ==
  /\ ~ conn[c].bitfield_received_
  /\ ReceiveBitfield(c, Holds[c])

Unchoke(c) ==
  /\ conn[c].bitfield_received_
  /\ conn[c].peer_choking_
  /\ ReceiveChoke(c, FALSE)

Answer(c, request) ==
  /\ BagIn(request, wire[c])
  /\ ReceivePiece(c, request, Good)

HonestNext ==
  \/ \E c \in Peers :
       \/ SendRequests(c) \/ WindDown(c) \/ SendBitfield(c) \/ Unchoke(c)
       \/ \E request \in BagToSet(wire[c]) : Answer(c, request)
  \/ Tick

HonestSpec ==
  /\ Init
  /\ [][HonestNext]_vars
  /\ \A c \in Peers :
       /\ SF_vars(SendRequests(c))
       /\ SF_vars(WindDown(c))
       /\ SF_vars(SendBitfield(c))
       /\ SF_vars(Unchoke(c))
       /\ \A request \in Requests : SF_vars(Answer(c, request))
-----------------------------------------------------------------------------
(* Properties *)

\* A connection in the endgame loop of endgame_send_requests never loses
\* sight of a block: a block its peer has and the torrent lacks is still to
\* be asked for or in flight, whatever refresh, load and receive do to both
\* lists.
EndgameKeepsBlocks ==
  \A c \in Peers :
    conn[c].sender \in {"endgame_wait", "cancelling", "endgame_sending"} =>
      \A r \in endgame_requests_ :
        r[1] \in Holds[c] /\ ~ IsBlockReceived(r[1], r[2]) =>
          \/ BagIn(r, conn[c].endgame_remaining_blocks_)
          \/ \E e \in BagToSet(conn[c].pending_requests_) : e[1] = r

\* A swarm that has every piece and answers honestly makes TorrentClient's
\* wait for completed_thread_safe end: requests that time out, are repeated by
\* several connections, cancelled or forgotten by the refresh never leave a
\* block that nobody asks for.
HonestDownloadCompletes == <>completion_flag_
=============================================================================
