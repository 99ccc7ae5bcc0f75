----------------------------- MODULE UdpTracker -----------------------------
(***************************************************************************)
(* The UDP tracker: resolve, a connect request and its answer, an announce *)
(* request and its answer, each sent once and waited for once, up to       *)
(* UDP_TRACKER_TIMEOUT.  exchange says where retrieve_peers is.            *)
(*                                                                         *)
(* The network is external.  It delivers any answer to any request that    *)
(* was sent, any number of times, or none: answers are lost, duplicated,   *)
(* reordered, and late ones of an earlier exchange reach the socket of a   *)
(* later one that was given the same port (the sender is not looked at).   *)
(* Transaction ids are drawn at random and taken never to collide with the *)
(* ids of the last TransactionIds - 1 requests; older ones get no answer.  *)
(*                                                                         *)
(* A list of peers is abstracted to the announce it answers.               *)
(***************************************************************************)
EXTENDS Integers

CONSTANTS
  Nothing,         \* the empty optional
  NoTracker,       \* cur_tracker_ is null
  NoRequest,
  TransactionIds,  \* bound: ids are 0 .. TransactionIds - 1, drawn in turn
  Intervals,       \* the intervals trackers ask for, in seconds
  Garbage          \* what the text of an error message reads as in their place

ASSUME UdpTrackerAssumption ==
  /\ TransactionIds \in Nat \ {0, 1}
  /\ Intervals \subseteq Nat /\ Garbage \in Nat

VARIABLES
  cur_tracker_,    \* [announce, interval_] of the tracker in use, or NoTracker
  exchange,        \* where its retrieve_peers is
  result,          \* what it returned
  requests,        \* the request that was sent with each transaction id
  transaction_id   \* the id of the last one

trackerVars == <<cur_tracker_, exchange, result, requests, transaction_id>>

Ids == 0 .. TransactionIds - 1

TrackerInit ==
  /\ cur_tracker_ = NoTracker
  /\ exchange = "none"
  /\ result = Nothing
  /\ requests = [t \in Ids |-> NoRequest]
  /\ transaction_id = 0

\* retrieve_peers returns r.
Return(r) ==
  /\ exchange' = "returned"
  /\ result' = r
  /\ UNCHANGED <<requests, transaction_id>>

\* A request of the given kind goes out under a new id.
Send(kind, at) ==
  LET t == (transaction_id + 1) % TransactionIds
  IN /\ transaction_id' = t
     /\ requests' = [requests EXCEPT ![t] =
                       [kind |-> kind, announce |-> cur_tracker_.announce]]
     /\ exchange' = at
     /\ UNCHANGED result

\* The datagrams that may answer the request with id t.  Sizes are told apart
\* as far as the code does: "short" is less than 20 bytes, "whole" is 20 and a
\* multiple of 6, "odd" is anything else.  An error has action 3 and a text.
Answers(t) ==
  LET answer(action, size, interval) ==
        [action |-> action, id |-> t, size |-> size, interval |-> interval,
         peers |-> [announce |-> requests[t].announce, id |-> t]]
      errors == {answer(3, size, Garbage) : size \in {"short", "odd", "whole"}}
      answers == IF requests[t].kind = "connect" THEN {answer(0, "short", 0)}
                 ELSE {answer(1, size, i) : size \in {"odd", "whole"}, i \in Intervals}
  IN IF requests[t] = NoRequest THEN {} ELSE errors \cup answers

Datagrams == UNION {Answers(t) : t \in Ids}
-----------------------------------------------------------------------------
\* The host cannot be resolved.
UdpUnresolved ==
  /\ exchange = "resolving"
  /\ Return(Nothing)
  /\ UNCHANGED cur_tracker_

\* The request cannot be sent, or the answer is not there in time.
UdpUnanswered ==
  /\ exchange \in {"connecting", "announcing"}
  /\ Return(Nothing)
  /\ UNCHANGED cur_tracker_

UdpResolved ==
  /\ exchange = "resolving"
  /\ Send("connect", "connecting")
  /\ UNCHANGED cur_tracker_

\* The rest of send_connect_request, on any datagram.
ConnectAnswered(d) ==
  /\ exchange = "connecting"
  /\ d \in Datagrams
  /\ IF d.action # 0 \/ d.id # transaction_id THEN Return(Nothing)
     ELSE Send("announce", "announcing")
  /\ UNCHANGED cur_tracker_

\* What follows the first 20 bytes has to be a multiple of 6 bytes.
extract_peers(d) == IF d.size = "whole" THEN d.peers ELSE Nothing

\* Mutant: the transaction id is not compared.
AnnounceAnswered_AnyId(d) ==
  /\ exchange = "announcing"
  /\ d \in Datagrams
  /\ cur_tracker_' = IF d.size = "short" THEN cur_tracker_
                     ELSE [cur_tracker_ EXCEPT !.interval_ = d.interval]
  /\ Return(IF d.size = "short" \/ d.action # 1 THEN Nothing ELSE extract_peers(d))

\* The rest of send_announce_request, on any datagram.  interval_ is taken
\* before the action and the id are compared.
AnnounceAnswered(d) ==
  /\ exchange = "announcing"
  /\ d \in Datagrams
  /\ cur_tracker_' = IF d.size = "short" THEN cur_tracker_
                     ELSE [cur_tracker_ EXCEPT !.interval_ = d.interval]
  /\ Return(IF d.size = "short" \/ d.action # 1 \/ d.id # transaction_id
            THEN Nothing ELSE extract_peers(d))

UdpNext ==
  \/ UdpUnresolved
  \/ UdpUnanswered
  \/ UdpResolved
  \/ \E d \in Datagrams : ConnectAnswered(d) \/ AnnounceAnswered(d)
=============================================================================
