--------------------------- MODULE PeerRetriever ---------------------------
(***************************************************************************)
(* PeerRetriever: the tracker that answered last, and the groups of        *)
(* announces that are tried in order when it does not.  retrieve_peers     *)
(* runs on the main thread; call, group and index say where it is.         *)
(***************************************************************************)
EXTENDS HttpTracker, Sequences, SequencesExt

CONSTANTS
  Announce,      \* the announce of the torrent file
  AnnounceLists, \* the announce-lists it may have: sequences of sequences
  TypeOf         \* "HTTP", "UDP", "UNKNOWN", or "INVALID": udp, but no port

ASSUME RetrieverAssumption ==
  /\ TypeOf \in [DOMAIN TypeOf -> {"HTTP", "UDP", "UNKNOWN", "INVALID"}]
  /\ Announce \in DOMAIN TypeOf
  /\ AnnounceLists \subseteq Seq(Seq(DOMAIN TypeOf))
  /\ NoTracker \notin [announce : DOMAIN TypeOf,
                       interval_ : Intervals \cup {0, Garbage}]

VARIABLES
  announce_list_,
  call,    \* "none", with the tracker in use, in the list, returned or thrown
  group, index,  \* the announce that the loops are at
  tried    \* history: the announces this call has asked

loopVars == <<group, index>>
retrieverVars == <<announce_list_, call, loopVars, tried>>

\* What the constructor makes of its arguments.
Groups(announce, list) ==
  CASE list = <<>> -> <<<<announce>>>>
    [] list # <<>> /\ announce \in ToSet(list[1]) -> list
    [] OTHER -> [list EXCEPT ![1] = <<announce>> \o @]

RetrieverInit ==
  /\ TrackerInit
  /\ announce_list_ \in {Groups(Announce, list) : list \in AnnounceLists}
  /\ call = "none"
  /\ group = 1 /\ index = 1
  /\ tried = {}

Announces == UNION {ToSet(announce_list_[g]) : g \in DOMAIN announce_list_}
current == announce_list_[group][index]

\* The call of a tracker's retrieve_peers.
Ask(tracker) ==
  /\ cur_tracker_' = tracker
  /\ exchange' = IF TypeOf[tracker.announce] = "HTTP" THEN "getting" ELSE "resolving"
  /\ UNCHANGED <<result, requests, transaction_id>>

\* The current tracker comes first, if there is one.
RetrievePeers ==
  /\ call = "none"
  /\ group' = 1 /\ index' = 1
  /\ UNCHANGED announce_list_
  /\ \/ /\ cur_tracker_ = NoTracker
        /\ call' = "list"
        /\ tried' = {}
        /\ UNCHANGED trackerVars
     \/ /\ cur_tracker_ # NoTracker
        /\ call' = "current"
        /\ tried' = {cur_tracker_.announce}
        /\ Ask(cur_tracker_)

\* The loops are at an announce of one of the given types.
At(types) ==
  /\ call = "list" /\ exchange = "none"
  /\ group <= Len(announce_list_) /\ index <= Len(announce_list_[group])
  /\ TypeOf[current] \in types

\* Mutant: a tracker of an unknown type ends the search.
SkipUnknown_Ends ==
  /\ At({"UNKNOWN"})
  /\ call' = "over"
  /\ UNCHANGED <<trackerVars, announce_list_, loopVars, tried>>

SkipUnknown ==
  /\ At({"UNKNOWN"})
  /\ index' = index + 1
  /\ UNCHANGED <<trackerVars, announce_list_, call, group, tried>>

\* The inner loop is through with a group.
NextGroup ==
  /\ call = "list" /\ exchange = "none"
  /\ group <= Len(announce_list_) /\ index > Len(announce_list_[group])
  /\ group' = group + 1 /\ index' = 1
  /\ UNCHANGED <<trackerVars, announce_list_, call, tried>>

\* A new tracker takes the place of the current one.
AskNext ==
  /\ At({"HTTP", "UDP"})
  /\ Ask([announce |-> current, interval_ |-> 0])
  /\ tried' = tried \cup {current}
  /\ UNCHANGED <<announce_list_, call, loopVars>>

\* The constructor of UdpTracker throws, and nobody catches it.
AskThrows ==
  /\ At({"INVALID"})
  /\ call' = "threw"
  /\ UNCHANGED <<trackerVars, announce_list_, loopVars, tried>>

\* Mutant: the announce that answered overwrites the front of its group.
Promoted_Overwrites(s, i) == [s EXCEPT ![1] = s[i]]

\* The announce that answered changes places with the front of its group.
Promoted(s, i) == [s EXCEPT ![i] = s[1], ![1] = s[i]]

\* A tracker has returned peers, and so does the call.
TrackerAnswers ==
  /\ exchange = "returned" /\ result # Nothing
  /\ exchange' = "none"
  /\ call' = "over"
  /\ announce_list_' =
       IF call = "list" THEN [announce_list_ EXCEPT ![group] = Promoted(@, index)]
       ELSE announce_list_
  /\ UNCHANGED <<cur_tracker_, result, requests, transaction_id, loopVars, tried>>

\* A tracker has returned nothing: on to the next one.
TrackerFails ==
  /\ exchange = "returned" /\ result = Nothing
  /\ exchange' = "none"
  /\ call' = "list"
  /\ index' = IF call = "list" THEN index + 1 ELSE 1
  /\ UNCHANGED <<cur_tracker_, result, requests, transaction_id, announce_list_,
                 group, tried>>

Exhausted ==
  /\ call = "list" /\ exchange = "none"
  /\ group > Len(announce_list_)
  /\ call' = "over"
  /\ UNCHANGED <<trackerVars, announce_list_, loopVars, tried>>

\* Everything between the call of retrieve_peers and its return.
RetrieverNext ==
  \/ (UdpNext \/ HttpNext) /\ UNCHANGED retrieverVars
  \/ SkipUnknown \/ NextGroup \/ AskNext \/ AskThrows
  \/ TrackerAnswers \/ TrackerFails \/ Exhausted

get_interval == IF cur_tracker_ = NoTracker THEN 0 ELSE cur_tracker_.interval_
=============================================================================
