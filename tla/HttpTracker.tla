---------------------------- MODULE HttpTracker ----------------------------
(***************************************************************************)
(* The HTTP tracker: one GET, which waits as long as the library does.     *)
(***************************************************************************)
EXTENDS UdpTracker

Peers(t) == [announce |-> t.announce, id |-> "http"]

\* The status is not 200, or the answer is not a dictionary with an interval.
HttpFails ==
  /\ exchange = "getting"
  /\ Return(Nothing)
  /\ UNCHANGED cur_tracker_

\* The interval is taken, and then the peers, which may be missing or not a
\* multiple of 6 bytes. The number is signed: a negative one is over at once, as
\* zero is, so that naturals stand for all that the clock can add.
HttpAnswered(interval) ==
  /\ exchange = "getting"
  /\ cur_tracker_' = [cur_tracker_ EXCEPT !.interval_ = interval]
  /\ Return(Nothing) \/ Return(Peers(cur_tracker_))

HttpNext == HttpFails \/ \E i \in Intervals : HttpAnswered(i)
=============================================================================
