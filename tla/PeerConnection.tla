--------------------------- MODULE PeerConnection ---------------------------
(***************************************************************************)
(* class PeerConnection: the members of one connection, and what its       *)
(* functions do to them between two suspension points.  Swarm builds the   *)
(* coroutines from these operators.                                        *)
(*                                                                         *)
(* A connection is a record.  sender is where the coroutine of connect,    *)
(* run and send_requests stands, receiver where receive_messages stands:   *)
(* run starts both with operator|| and goes on when both are done.         *)
(*   idle        no coroutine runs                                         *)
(*   connecting  connect waits for the connection and the handshakes       *)
(*   connected   connect has returned, run has not started                 *)
(*   interested  run waits until the interested message is sent            *)
(*   wait        send_requests waits for the request interval              *)
(*   loading     load_block_requests runs                                  *)
(*   sending     send_requests waits until its requests are sent           *)
(*   endgame_wait, cancelling, endgame_sending                             *)
(*               the suspension points of endgame_send_requests            *)
(*   done        the coroutine has returned                                *)
(* pending_requests_ and endgame_remaining_blocks_ are bags: the code only *)
(* searches them and removes by swapping with the last element.  Request   *)
(* times are ages, as in Piece.  outbox, the bag of requests or cancels    *)
(* that are to be sent, stands for send_buffer_.                           *)
(***************************************************************************)
EXTENDS PieceManager, Bags

CONSTANTS
  MAX_RETRIES,
  MAX_BLOCKS_IN_FLIGHT,
  MAX_BLOCKS_PER_REQUEST

ASSUME LimitsAssumption ==
  /\ MAX_RETRIES \in Nat \ {0}
  /\ MAX_BLOCKS_IN_FLIGHT \in Nat \ {0}
  /\ MAX_BLOCKS_PER_REQUEST \in 1 .. MAX_BLOCKS_IN_FLIGHT

PeerStates == {"UNINITIATED", "CONNECTING", "CONNECTED", "RUNNING",
               "DISCONNECTED", "TIMED_OUT"}
SenderAt == {"idle", "connecting", "connected", "interested", "wait",
             "loading", "sending", "endgame_wait", "cancelling",
             "endgame_sending", "done"}
ReceiverAt == {"idle", "receiving", "done"}

\* The constructor.
NewConnection ==
  [state_                    |-> "UNINITIATED",
   retries_left_             |-> MAX_RETRIES,
   peer_choking_             |-> TRUE,
   was_connected_            |-> FALSE,
   bitfield_received_        |-> FALSE,
   bitfield_                 |-> {},
   pending_requests_         |-> EmptyBag,
   endgame_remaining_blocks_ |-> EmptyBag,
   outbox                    |-> EmptyBag,
   quota                     |-> 0,  \* calls left in load_block_requests
   is_reconnecting           |-> FALSE,  \* try_reconnection runs
   sender                    |-> "idle",
   receiver                  |-> "idle"]

\* The copies in a bag, told apart; and the bag of the first members of a set
\* of pairs.
Copies(B) == UNION {{e} \X (1 .. B[e]) : e \in BagToSet(B)}
Tally(pairs) == [e \in {d[1] : d \in pairs} |-> Cardinality({d \in pairs : d[1] = e})]

\* The part of a bag whose elements satisfy P, and the bag of their images.
Filter(B, P(_)) ==
  [e \in {x \in BagToSet(B) : P(x)} |-> B[e]]
Image(F(_), B) == Tally({<<F(d[1]), d>> : d \in Copies(B)})

in_flight(k) == Cardinality(Copies(k.pending_requests_))

handle_failure(k, ec) ==
  [k EXCEPT !.state_ = IF ec = "timed_out" THEN "TIMED_OUT" ELSE "DISCONNECTED"]

disconnect(k) == [k EXCEPT !.state_ = "DISCONNECTED"]

\* bitfield_ is not part of it: the bits of the last connection stay.
reset_state(k) ==
  [k EXCEPT !.state_ = "UNINITIATED",
            !.peer_choking_ = TRUE,
            !.pending_requests_ = EmptyBag,
            !.bitfield_received_ = FALSE,
            !.was_connected_ = FALSE]

\* request_time + REQUEST_TIMEOUT >= now
Fresh(entry) == entry[2] <= RequestTimeout

\* refresh_pending_requests keeps the entries that are not fresh.
refresh_pending_requests(k) ==
  LET kept(e) == ~ Fresh(e)
  IN [k EXCEPT !.pending_requests_ = Filter(@, kept)]

\* Mutant: the blocks in flight are not counted.
num_blocks_Uncounted(k) == MAX_BLOCKS_PER_REQUEST

\* How many blocks send_requests asks load_block_requests for.
num_blocks(k) ==
  IF MAX_BLOCKS_IN_FLIGHT >= MAX_BLOCKS_PER_REQUEST + in_flight(k)
  THEN MAX_BLOCKS_PER_REQUEST ELSE 0

\* A block is asked for: it is in the send buffer and in flight.
Requested(k, info) ==
  [k EXCEPT !.pending_requests_ = @ (+) SetToBag({<<info, 0>>}),
            !.outbox = @ (+) SetToBag({info})]

\* Mutant: the entry of a block that has arrived stays.
PieceAnswered_Kept(k, info) == {k}

\* handle_piece_message: the connections that remain when one of the entries
\* for the block, if there is any, is taken out.
PieceAnswered(k, info) ==
  LET matches == {e \in BagToSet(k.pending_requests_) : e[1] = info}
  IN IF matches = {} THEN {k}
     ELSE {[k EXCEPT !.pending_requests_ = @ (-) SetToBag({e})] : e \in matches}

\* Mutant: what is in flight is forgotten instead of being asked for again.
endgame_refresh_pending_requests_Dropped(k) ==
  LET missing(info) == ~ IsBlockReceived(info[1], info[2])
      answered(e)   == ~ missing(e[1])
      stale(e)      == missing(e[1]) /\ ~ Fresh(e)
      first(e)      == e[1]
  IN [k EXCEPT
       !.endgame_remaining_blocks_ = Filter(@, missing),
       !.pending_requests_ = Filter(@, stale),
       !.outbox = Image(first, Filter(k.pending_requests_, answered))]

\* endgame_refresh_pending_requests: blocks that have been received are taken
\* out of both bags, with a cancel message for the ones in flight; fresh ones
\* in flight go back to the remaining ones.
endgame_refresh_pending_requests(k) ==
  LET received(info) == IsBlockReceived(info[1], info[2])
      missing(info)  == ~ received(info)
      answered(e)    == received(e[1])
      stale(e)       == missing(e[1]) /\ ~ Fresh(e)
      again(e)       == missing(e[1]) /\ Fresh(e)
      first(e)       == e[1]
  IN [k EXCEPT
       !.endgame_remaining_blocks_ =
          Filter(@, missing) (+) Image(first, Filter(k.pending_requests_, again)),
       !.pending_requests_ = Filter(@, stale),
       !.outbox = Image(first, Filter(k.pending_requests_, answered))]

\* endgame_load_block_requests: the connections that result, one for each
\* choice of blocks (the list is shuffled).
EndgameLoaded(k) ==
  LET room   == MAX_BLOCKS_IN_FLIGHT - in_flight(k)
      left   == Copies(k.endgame_remaining_blocks_)
      limits == {room, MAX_BLOCKS_PER_REQUEST, Cardinality(left)}
      n      == CHOOSE m \in limits : \A l \in limits : m <= l
      stamped(info) == <<info, 0>>
  IN {[k EXCEPT !.endgame_remaining_blocks_ = @ (-) Tally(chosen),
                !.pending_requests_ = @ (+) Image(stamped, Tally(chosen)),
                !.outbox = Tally(chosen)] :
      chosen \in {S \in SUBSET left : Cardinality(S) = n}}

\* One tick of the clock.
Aged(k) ==
  LET older(e) == <<e[1], IF e[2] = Expired THEN Expired ELSE e[2] + 1>>
  IN [k EXCEPT !.pending_requests_ = Image(older, @)]
=============================================================================
