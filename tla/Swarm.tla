------------------------------- MODULE Swarm -------------------------------
(***************************************************************************)
(* The download: the PieceManager and the coroutines of the PeerConnections*)
(* that share it, on the one thread of peer_conn_ctx_.  A step is what one *)
(* coroutine does between two suspension points, and steps of different    *)
(* connections interleave freely; only load_block_requests, which calls    *)
(* request_next_block several times, takes several steps, and nobody else  *)
(* runs meanwhile.                                                         *)
(*                                                                         *)
(* wire[c] is the bag of requests that peer c has been sent and has not    *)
(* answered; peers are external.  They answer requests, in any order, and  *)
(* their messages are well formed, with indices that lie in the torrent.   *)
(*                                                                         *)
(* PeerManager is here only as far as it starts connect and run: a peer    *)
(* whose state is TIMED_OUT is connected again or given up (the number of  *)
(* connected peers may be at its limit at any time), one that is           *)
(* DISCONNECTED is removed and may be added again.  It is assumed to act   *)
(* on a state only when the run that set it has wound down, and steps are  *)
(* taken to be atomic although a run that try_reconnection starts is on    *)
(* another thread: see the hazards at PeerManager.cpp.                     *)
(***************************************************************************)
EXTENDS PeerConnection, PieceManagerCalls

CONSTANTS
  Peers,
  Offers,     \* the bitfields a peer may send
  Haves,      \* the pieces a peer may announce later
  Chokes,     \* the values a peer may give peer_choking_
  Answers,    \* the payloads a peer may answer with
  Errors,     \* the errors of socket operations: "timed_out", "failed"
  MaxWire     \* bound on the environment, not in the code: what a peer
              \* owes when more is asked of it

ASSUME PeersAssumption ==
  /\ IsFiniteSet(Peers)
  /\ Offers \subseteq SUBSET PieceIds
  /\ Haves \subseteq PieceIds
  /\ Chokes \subseteq BOOLEAN
  /\ Answers \subseteq Payload

VARIABLES
  conn,  \* the PeerConnection of each peer
  wire   \* requests on their way to each peer

vars == <<pmVars, conn, wire>>

Init ==
  /\ PmInit
  /\ conn = [c \in Peers |-> NewConnection]
  /\ wire = [c \in Peers |-> EmptyBag]

\* No connection is inside load_block_requests.
ThreadFree == \A c \in Peers : conn[c].sender # "loading"

Becomes(c, k) == conn' = [conn EXCEPT ![c] = k]

\* Where a coroutine goes at the head of its loop: the download is complete,
\* or the other coroutine has returned and the next co_await throws.
Continue(other, at) == IF completed \/ other = "done" THEN "done" ELSE at
LoopHead(k) == [k EXCEPT !.sender = Continue(k.receiver, "wait")]
EndgameHead(k) == [k EXCEPT !.sender = Continue(k.receiver, "endgame_wait")]

\* A co_await of the sender, which throws once the receiver has returned.
Await(k, at) ==
  [k EXCEPT !.sender = IF k.receiver = "done" THEN "done" ELSE at]
-----------------------------------------------------------------------------
(* connect, and the start of run *)

\* Mutant: retries_left_ is not looked at.
Connect_NoRetryCheck(c) ==
  LET k == conn[c]
  IN /\ ThreadFree
     /\ k.sender = "idle"
     /\ k.state_ = "UNINITIATED" \/ k.is_reconnecting
     /\ Becomes(c, [reset_state(k) EXCEPT !.retries_left_ = @ - 1,
                                          !.state_ = "CONNECTING",
                                          !.sender = "connecting"])
     /\ UNCHANGED <<pmVars, wire>>

Connect(c) ==
  LET k == conn[c]
  IN /\ ThreadFree
     /\ k.sender = "idle"
     /\ k.state_ = "UNINITIATED" \/ k.is_reconnecting
     /\ k.retries_left_ > 0
     /\ Becomes(c, [reset_state(k) EXCEPT !.retries_left_ = @ - 1,
                                          !.state_ = "CONNECTING",
                                          !.sender = "connecting"])
     /\ UNCHANGED <<pmVars, wire>>

ConnectFails(c, ec) ==
  /\ ThreadFree
  /\ conn[c].sender = "connecting"
  /\ Becomes(c, [handle_failure(conn[c], ec) EXCEPT !.sender = "idle"])
  /\ UNCHANGED <<pmVars, wire>>

ConnectSucceeds(c) ==
  /\ ThreadFree
  /\ conn[c].sender = "connecting"
  /\ Becomes(c, [conn[c] EXCEPT !.state_ = "CONNECTED",
                                !.retries_left_ = MAX_RETRIES,
                                !.was_connected_ = TRUE,
                                !.sender = "connected"])
  /\ UNCHANGED <<pmVars, wire>>

\* cleanup_peer_connections finds the peer timed out.
StartReconnection(c) ==
  /\ ThreadFree
  /\ conn[c].sender = "idle"
  /\ conn[c].state_ = "TIMED_OUT"
  /\ ~ conn[c].is_reconnecting
  /\ Becomes(c, [conn[c] EXCEPT !.is_reconnecting = TRUE])
  /\ UNCHANGED <<pmVars, wire>>

\* try_reconnection gives a peer up: no retry is left, or there are enough
\* peers.
GiveUp(c) ==
  /\ ThreadFree
  /\ conn[c].is_reconnecting
  /\ conn[c].sender \in {"idle", "connected"}
  /\ Becomes(c, [disconnect(conn[c]) EXCEPT !.is_reconnecting = FALSE,
                                            !.sender = "idle"])
  /\ UNCHANGED <<pmVars, wire>>

\* cleanup_peer_connections erases a connection; add_peers makes a new one.
Replace(c) ==
  /\ ThreadFree
  /\ conn[c].sender = "idle"
  /\ conn[c].state_ = "DISCONNECTED"
  /\ ~ conn[c].is_reconnecting
  /\ Becomes(c, NewConnection)
  /\ UNCHANGED <<pmVars, wire>>

RunStarts(c) ==
  /\ ThreadFree
  /\ conn[c].sender = "connected"
  /\ Becomes(c, [conn[c] EXCEPT !.sender = "interested",
                                !.is_reconnecting = FALSE])
  /\ UNCHANGED <<pmVars, wire>>

InterestedFails(c, ec) ==
  /\ ThreadFree
  /\ conn[c].sender = "interested"
  /\ Becomes(c, [handle_failure(conn[c], ec) EXCEPT !.sender = "idle"])
  /\ UNCHANGED <<pmVars, wire>>

InterestedSent(c) ==
  LET at == IF completed THEN <<"done", "done">> ELSE <<"wait", "receiving">>
  IN /\ ThreadFree
     /\ conn[c].sender = "interested"
     /\ Becomes(c, [conn[c] EXCEPT !.state_ = "RUNNING",
                                   !.sender = at[1], !.receiver = at[2]])
     /\ UNCHANGED <<pmVars, wire>>
-----------------------------------------------------------------------------
(* send_requests *)

\* The request interval is over, or the wait was cancelled: the code goes on
\* in either case.
SenderWakes(c) ==
  LET k    == conn[c]
      list == endgame_remaining_blocks(k.bitfield_)
      kept == refresh_pending_requests(k)
  IN /\ ThreadFree
     /\ k.sender = "wait"
     /\ BagCardinality(wire[c]) <= MaxWire
     /\ \/ /\ k.peer_choking_
           /\ Becomes(c, LoopHead(k))
        \/ /\ ~ k.peer_choking_
           /\ is_endgame
           /\ \/ /\ k.receiver = "done" \/ list = {}
                 /\ Becomes(c, [k EXCEPT !.sender = "done",
                                !.endgame_remaining_blocks_ =
                                  IF k.receiver = "done" THEN @ ELSE EmptyBag])
              \/ /\ k.receiver # "done" /\ list # {}
                 /\ Becomes(c, EndgameHead([k EXCEPT
                      !.endgame_remaining_blocks_ = SetToBag(list)]))
        \/ /\ ~ k.peer_choking_
           /\ ~ is_endgame
           /\ Becomes(c, [kept EXCEPT !.quota = num_blocks(kept),
                                      !.outbox = EmptyBag,
                                      !.sender = "loading"])
     /\ UNCHANGED <<pmVars, wire>>

\* One call of request_next_block in load_block_requests.
LoadBlock(c) ==
  LET k == conn[c]
  IN /\ k.sender = "loading"
     /\ k.quota > 0
     /\ \E result \in Requests \cup {NoBlock} :
          /\ RequestNextBlock(k.bitfield_, result)
          /\ Becomes(c, IF result = NoBlock THEN [k EXCEPT !.quota = 0]
                        ELSE [Requested(k, result) EXCEPT !.quota = @ - 1])
     /\ UNCHANGED wire

\* load_block_requests returns, and send_requests sends what there is.
LoadReturns(c) ==
  LET k == conn[c]
  IN /\ k.sender = "loading"
     /\ k.quota = 0
     /\ Becomes(c, IF k.outbox = EmptyBag THEN LoopHead(k) ELSE Await(k, "sending"))
     /\ UNCHANGED <<pmVars, wire>>

RequestsSent(c) ==
  /\ ThreadFree
  /\ conn[c].sender = "sending"
  /\ Becomes(c, LoopHead([conn[c] EXCEPT !.outbox = EmptyBag]))
  /\ wire' = [wire EXCEPT ![c] = @ (+) conn[c].outbox]
  /\ UNCHANGED pmVars

\* A send fails, or is cancelled because the receiver has returned.
SendFails(c, ec) ==
  /\ ThreadFree
  /\ conn[c].sender \in {"sending", "cancelling", "endgame_sending"}
  /\ Becomes(c, [handle_failure(conn[c], ec) EXCEPT !.sender = "done"])
  /\ UNCHANGED <<pmVars, wire>>
-----------------------------------------------------------------------------
(* endgame_send_requests *)

\* Load requests and send them, or wait again if there are none.
LoadEndgame(c, k) ==
  \E loaded \in EndgameLoaded(k) :
    Becomes(c, IF loaded.outbox = EmptyBag THEN EndgameHead(loaded)
               ELSE Await(loaded, "endgame_sending"))

EndgameWakes(c) ==
  LET k    == conn[c]
      kept == endgame_refresh_pending_requests(k)
  IN /\ ThreadFree
     /\ k.sender = "endgame_wait"
     /\ BagCardinality(wire[c]) <= MaxWire
     /\ \/ /\ k.peer_choking_
           /\ Becomes(c, EndgameHead(k))
        \/ /\ ~ k.peer_choking_
           /\ kept.outbox # EmptyBag
           /\ Becomes(c, Await(kept, "cancelling"))
        \/ /\ ~ k.peer_choking_
           /\ kept.outbox = EmptyBag
           /\ LoadEndgame(c, kept)
     /\ UNCHANGED <<pmVars, wire>>

\* The peer drops what it is told to, but for the answers that have left already.
CancelsSent(c) ==
  /\ ThreadFree
  /\ conn[c].sender = "cancelling"
  /\ \E crossing \in SUBSET BagToSet(conn[c].outbox) :
       LET kept(request) == request \in crossing \/ ~ BagIn(request, conn[c].outbox)
       IN wire' = [wire EXCEPT ![c] = Filter(@, kept)]
  /\ LoadEndgame(c, conn[c])
  /\ UNCHANGED pmVars

EndgameRequestsSent(c) ==
  /\ ThreadFree
  /\ conn[c].sender = "endgame_sending"
  /\ Becomes(c, EndgameHead([conn[c] EXCEPT !.outbox = EmptyBag]))
  /\ wire' = [wire EXCEPT ![c] = @ (+) conn[c].outbox]
  /\ UNCHANGED pmVars
-----------------------------------------------------------------------------
(* receive_messages *)

\* The receiver handles a message that turns the connection into k and goes
\* back to the head of its loop.
Handled(c, k) ==
  Becomes(c, [k EXCEPT !.receiver =
    IF completed' \/ k.sender = "done" THEN "done" ELSE "receiving"])

Receiving(c) == ThreadFree /\ conn[c].receiver = "receiving"

\* CHOKE and UNCHOKE.
ReceiveChoke(c, choking) ==
  /\ Receiving(c)
  /\ UNCHANGED <<pmVars, wire>>
  /\ Handled(c, [conn[c] EXCEPT !.peer_choking_ = choking])

\* A keep-alive, or a REQUEST.
ReceiveIgnored(c) ==
  /\ Receiving(c)
  /\ UNCHANGED <<pmVars, wire>>
  /\ Handled(c, conn[c])

ReceiveHave(c, p) ==
  /\ Receiving(c)
  /\ piece_avail_[p] < MaxAvail
  /\ AddAvailablePiece(p)
  /\ UNCHANGED wire
  /\ Handled(c, [conn[c] EXCEPT !.bitfield_ = @ \cup {p}])

\* Mutant: add_peer_bitfield is called before the bits are stored.
ReceiveBitfield_Early(c, bitfield) ==
  /\ Receiving(c)
  /\ \A p \in bitfield : piece_avail_[p] < MaxAvail
  /\ AddPeerBitfield(conn[c].bitfield_)
  /\ UNCHANGED wire
  /\ Handled(c, [conn[c] EXCEPT !.bitfield_ = bitfield,
                                !.bitfield_received_ = TRUE])

ReceiveBitfield(c, bitfield) ==
  /\ Receiving(c)
  /\ \A p \in bitfield : piece_avail_[p] < MaxAvail
  /\ AddPeerBitfield(bitfield)
  /\ UNCHANGED wire
  /\ Handled(c, [conn[c] EXCEPT !.bitfield_ = bitfield,
                                !.bitfield_received_ = TRUE])

\* PIECE: the answer to one of the requests, however late; the block has its
\* own size, whatever size was asked for.
ReceivePiece(c, request, payload) ==
  LET p == request[1]
      b == get_block_index(request[2])
      info == BlockInfo(p, NewPiece(cur_piece_size(p)), b)
  IN /\ Receiving(c)
     /\ request \in BagToSet(wire[c])
     /\ PmReceiveBlock(p, payload, request[2])
     /\ wire' = [wire EXCEPT ![c] = @ (-) SetToBag({request})]
     /\ \E k \in PieceAnswered(conn[c], info) : Handled(c, k)

\* The peer closes the connection, or nothing arrives for RECEIVE_MSG_TIMEOUT.
ReceiveFails(c, ec) ==
  /\ Receiving(c)
  /\ Becomes(c, [handle_failure(conn[c], ec) EXCEPT !.receiver = "done"])
  /\ UNCHANGED <<pmVars, wire>>

\* The sender has returned, so operator|| cancels the receive.
ReceiveCancelled(c) ==
  /\ Receiving(c)
  /\ conn[c].sender = "done"
  /\ Becomes(c, [handle_failure(conn[c], "aborted") EXCEPT !.receiver = "done"])
  /\ UNCHANGED <<pmVars, wire>>

\* The receiver has returned, so operator|| cancels the send.
SendCancelled(c) ==
  /\ conn[c].receiver = "done"
  /\ SendFails(c, "aborted")
-----------------------------------------------------------------------------
\* Mutant: the bitfield is taken back whether or not there was one.
RunEnds_Always(c) ==
  /\ ThreadFree
  /\ conn[c].sender = "done" /\ conn[c].receiver = "done"
  /\ RemovePeerBitfield(conn[c].bitfield_)
  /\ Becomes(c, [conn[c] EXCEPT !.sender = "idle", !.receiver = "idle"])
  /\ wire' = [wire EXCEPT ![c] = EmptyBag]

\* The rest of run, when both coroutines have returned.
RunEnds(c) ==
  /\ ThreadFree
  /\ conn[c].sender = "done" /\ conn[c].receiver = "done"
  /\ IF conn[c].bitfield_received_ THEN RemovePeerBitfield(conn[c].bitfield_)
                                   ELSE UNCHANGED pmVars
  /\ Becomes(c, [conn[c] EXCEPT !.sender = "idle", !.receiver = "idle"])
  /\ wire' = [wire EXCEPT ![c] = EmptyBag]

Tick ==
  /\ ThreadFree
  /\ PmTick
  /\ conn' = [c \in Peers |-> Aged(conn[c])]
  /\ UNCHANGED wire

\* What the client's coroutines do on their own.
Coroutine(c) ==
  \/ Connect(c) \/ ConnectSucceeds(c) \/ StartReconnection(c) \/ Replace(c)
  \/ RunStarts(c) \/ InterestedSent(c)
  \/ SenderWakes(c) \/ LoadBlock(c) \/ LoadReturns(c) \/ RequestsSent(c)
  \/ EndgameWakes(c) \/ CancelsSent(c) \/ EndgameRequestsSent(c)
  \/ ReceiveCancelled(c) \/ SendCancelled(c) \/ RunEnds(c)

\* What a peer, or the network, does.
Message(c) ==
  \/ \E choking \in Chokes : ReceiveChoke(c, choking)
  \/ \E p \in Haves : ReceiveHave(c, p)
  \/ \E bitfield \in Offers : ReceiveBitfield(c, bitfield)
  \/ \E request \in BagToSet(wire[c]), payload \in Answers :
       ReceivePiece(c, request, payload)
  \/ ReceiveIgnored(c)

Failure(c) ==
  \/ \E ec \in Errors : \/ ConnectFails(c, ec) \/ InterestedFails(c, ec)
                        \/ SendFails(c, ec) \/ ReceiveFails(c, ec)
  \/ GiveUp(c)

Next ==
  \/ \E c \in Peers : Coroutine(c) \/ Message(c) \/ Failure(c)
  \/ Tick

Spec == Init /\ [][Next]_vars
-----------------------------------------------------------------------------
(* Properties *)

\* Every member keeps its type.  A receiver runs only beside a sender that
\* run has started, and only load_block_requests has calls left to make.
TypeOK ==
  \A c \in Peers :
    LET k == conn[c]
    IN /\ k \in [state_                    : PeerStates,
                 retries_left_             : 0 .. MAX_RETRIES,
                 peer_choking_             : BOOLEAN,
                 was_connected_            : BOOLEAN,
                 bitfield_received_        : BOOLEAN,
                 bitfield_                 : SUBSET PieceIds,
                 pending_requests_         : {k.pending_requests_},
                 endgame_remaining_blocks_ : {k.endgame_remaining_blocks_},
                 outbox                    : {k.outbox},
                 quota                     : 0 .. MAX_BLOCKS_PER_REQUEST,
                 is_reconnecting           : BOOLEAN,
                 sender                    : SenderAt,
                 receiver                  : ReceiverAt]
       /\ \A e \in BagToSet(k.pending_requests_) : e[2] \in 0 .. Expired
       /\ k.receiver # "idle" =>
            k.sender \notin {"idle", "connecting", "connected", "interested"}
       /\ k.quota > 0 => k.sender = "loading"

\* blocks_info holds "at most MAX_BLOCKS_IN_FLIGHT" entries: neither
\* load_block_requests nor its endgame twin, which take turns with the
\* removals of the receiver, writes past its end.
InFlightBounded ==
  \A c \in Peers : in_flight(conn[c]) <= MAX_BLOCKS_IN_FLIGHT

\* The connections whose run will take piece p back.
Owners(p) ==
  {c \in Peers : /\ conn[c].receiver # "idle"
                 /\ conn[c].bitfield_received_
                 /\ p \in conn[c].bitfield_}

\* However bitfields, haves, failures and reconnections interleave, what the
\* runs still have to take back has been added: piece_avail_, which is
\* unsigned, never wraps below zero.
AvailabilityCovered ==
  \A p \in PieceIds : Cardinality(Owners(p)) <= piece_avail_[p]

\* refresh_pending_requests, which runs when send_requests goes on to load,
\* is there for "removing the blocks that have timed out".
RefreshRemovesTimedOut ==
  [][\A c \in Peers :
       conn[c].sender = "wait" /\ conn'[c].sender = "loading" =>
         \A e \in BagToSet(conn'[c].pending_requests_) : Fresh(e)]_vars

\* The interleaved connections call PieceManager only as PieceManagerCalls
\* does, so what is proved there holds for the whole download.
ImplementsCalls == CallsSpec
=============================================================================
