------------------------ MODULE TorrentClientProofs ------------------------
(***************************************************************************)
(* Proofs about TorrentClient, for any torrent, any trackers, any number   *)
(* of transaction ids and any intervals.                                   *)
(***************************************************************************)
EXTENDS TorrentClient, SequenceTheorems, TLAPS

Trackers == [announce : DOMAIN TypeOf, interval_ : Intervals \cup {0, Garbage}]
Known == {"HTTP", "UDP"}

\* The announces of a list of groups.
AnnouncesOf(list) == UNION {ToSet(list[g]) : g \in DOMAIN list}

\* The loops are inside the list, at the tracker in use.
AtCurrent ==
  /\ group \in DOMAIN announce_list_ /\ index \in DOMAIN announce_list_[group]
  /\ current = cur_tracker_.announce

\* What the tracker in use returned, if anything, is an answer to the last
\* request it was sent.
Answered ==
  result # Nothing =>
    /\ result.announce = cur_tracker_.announce
    /\ TypeOf[result.announce] = "UDP" => result.id = transaction_id

\* The exchange that is under way is the tracker's in use: the last id is that
\* of its request, and what it returned answers that request.
ExchangeOK ==
  /\ DOMAIN requests = Ids
  /\ exchange # "none" => cur_tracker_ # NoTracker
  /\ exchange = "getting" => TypeOf[cur_tracker_.announce] = "HTTP"
  /\ exchange = "announcing" => requests[transaction_id].announce = cur_tracker_.announce
  /\ exchange = "returned" => Answered
  /\ cur_tracker_ = NoTracker => result = Nothing

\* The place of the loops: with the tracker in use they have not started, and
\* in the list a tracker that is asked is the one they are at.
LoopsOK ==
  /\ call = "current" => group = 1 /\ index = 1
  /\ call = "list" /\ exchange # "none" => AtCurrent
  /\ call = "list" /\ exchange = "none" => result = Nothing

\* What the loops have passed was asked, unless nobody knows how.
PassedTried ==
  call = "list" =>
    /\ \A g \in DOMAIN announce_list_ : \A i \in DOMAIN announce_list_[g] :
         /\ g < group \/ (g = group /\ i < index)
         /\ TypeOf[announce_list_[g][i]] \in Known
         => announce_list_[g][i] \in tried
    /\ exchange # "none" => cur_tracker_.announce \in tried

ClientInv ==
  /\ announce_list_ \in Seq(Seq(DOMAIN TypeOf))
  /\ TypeOK
  /\ ExchangeOK
  /\ LoopsOK
  /\ PassedTried
  /\ PeersAnswerThisCall
  /\ GivesUpLast

\* What the constructor makes of the announce-list is a list of groups.
LEMMA GroupsAreLists ==
  ASSUME NEW list \in AnnounceLists
  PROVE  Groups(Announce, list) \in Seq(Seq(DOMAIN TypeOf))
<1> DEFINE A == DOMAIN TypeOf
<1>1. list \in Seq(Seq(A)) /\ Announce \in A /\ <<Announce>> \in Seq(A)
  BY RetrieverAssumption
<1>2. CASE list = <<>>
  BY <1>1, <1>2 DEF Groups
<1>3. CASE list # <<>>
  <2>1. 1 \in 1 .. Len(list) /\ list[1] \in Seq(A)
    BY <1>1, <1>3
  <2>2. <<Announce>> \o list[1] \in Seq(A)
    BY <1>1, <2>1
  <2>3. [list EXCEPT ![1] = <<Announce>> \o list[1]] \in Seq(Seq(A))
    BY <1>1, <2>1, <2>2, ExceptSeq
  <2> QED BY <1>1, <1>3, <2>3 DEF Groups
<1> QED BY <1>2, <1>3

\* Changing places with the front keeps a group's length and its announces,
\* and puts the announce in front.
LEMMA PromotedFacts ==
  ASSUME NEW S, NEW s \in Seq(S), NEW i \in DOMAIN s
  PROVE  /\ Promoted(s, i) \in Seq(S)
         /\ Len(Promoted(s, i)) = Len(s)
         /\ ToSet(Promoted(s, i)) = ToSet(s)
         /\ Promoted(s, i)[1] = s[i]
<1> DEFINE r == [s EXCEPT ![i] = s[1]]
           t == [r EXCEPT ![1] = s[i]]
<1>1. /\ Len(s) \in Nat /\ DOMAIN s = 1 .. Len(s)
      /\ i \in 1 .. Len(s) /\ 1 \in 1 .. Len(s) /\ s[i] \in S /\ s[1] \in S
  OBVIOUS
<1>2. /\ r \in Seq(S) /\ Len(r) = Len(s)
      /\ \A j \in 1 .. Len(s) : r[j] = IF j = i THEN s[1] ELSE s[j]
  BY <1>1, ExceptSeq
<1> HIDE DEF r
<1>3. /\ t \in Seq(S) /\ Len(t) = Len(s)
      /\ \A j \in 1 .. Len(s) : t[j] = IF j = 1 THEN s[i] ELSE r[j]
  BY <1>1, <1>2, ExceptSeq
<1>4. Promoted(s, i) = t
  BY DEF Promoted, r
<1> HIDE DEF t
<1>5. DOMAIN t = 1 .. Len(s)
  BY <1>3
<1>6. t[1] = s[i]
  BY <1>1, <1>3
<1>7. \A j \in 1 .. Len(s) : \E k \in 1 .. Len(s) : t[j] = s[k]
  BY <1>1, <1>2, <1>3
<1>8. \A k \in 1 .. Len(s) : \E j \in 1 .. Len(s) : t[j] = s[k]
  <2> SUFFICES ASSUME NEW k \in 1 .. Len(s)
               PROVE  \E j \in 1 .. Len(s) : t[j] = s[k]
    OBVIOUS
  <2>1. CASE k = i
    BY <1>1, <1>6, <2>1
  <2>2. CASE k = 1 /\ k # i
    <3>1. t[i] = s[1]
      BY <1>1, <1>2, <1>3, <2>2
    <3> QED BY <1>1, <2>2, <3>1
  <2>3. CASE k # 1 /\ k # i
    <3>1. t[k] = s[k]
      BY <1>1, <1>2, <1>3, <2>3
    <3> QED BY <3>1
  <2> QED BY <2>1, <2>2, <2>3
<1>9. ToSet(t) = ToSet(s)
  <2>1. ToSet(t) = {t[j] : j \in 1 .. Len(s)} /\ ToSet(s) = {s[j] : j \in 1 .. Len(s)}
    BY <1>1, <1>5 DEF ToSet
  <2> QED BY <1>7, <1>8, <2>1
<1> QED BY <1>3, <1>4, <1>6, <1>9

\* So promoting inside one group of a list keeps every group, and with them
\* the announces of the list.
PromotedIn(list, g, i) == [list EXCEPT ![g] = Promoted(list[g], i)]

SameGroups(new, list) ==
  /\ Len(new) = Len(list) /\ DOMAIN new = DOMAIN list
  /\ \A g \in DOMAIN list : Len(new[g]) = Len(list[g]) /\ ToSet(new[g]) = ToSet(list[g])
  /\ AnnouncesOf(new) = AnnouncesOf(list)

LEMMA PromotedList ==
  ASSUME NEW S, NEW list \in Seq(Seq(S)), NEW g \in DOMAIN list, NEW i \in DOMAIN list[g]
  PROVE  /\ PromotedIn(list, g, i) \in Seq(Seq(S))
         /\ SameGroups(PromotedIn(list, g, i), list)
         /\ PromotedIn(list, g, i)[g][1] = list[g][i]
<1> DEFINE new == PromotedIn(list, g, i)
<1>1. list[g] \in Seq(S) /\ g \in 1 .. Len(list) /\ DOMAIN list = 1 .. Len(list)
  OBVIOUS
<1>2. /\ Promoted(list[g], i) \in Seq(S)
      /\ Len(Promoted(list[g], i)) = Len(list[g])
      /\ ToSet(Promoted(list[g], i)) = ToSet(list[g])
      /\ Promoted(list[g], i)[1] = list[g][i]
  BY <1>1, PromotedFacts
<1>3. /\ new \in Seq(Seq(S)) /\ Len(new) = Len(list)
      /\ \A h \in 1 .. Len(list) : new[h] = IF h = g THEN Promoted(list[g], i) ELSE list[h]
  BY <1>1, <1>2, ExceptSeq DEF PromotedIn
<1> HIDE DEF new
<1>4. DOMAIN new = DOMAIN list
  BY <1>1, <1>3
<1>5. \A h \in DOMAIN list : /\ Len(new[h]) = Len(list[h])
                             /\ ToSet(new[h]) = ToSet(list[h])
  BY <1>1, <1>2, <1>3
<1>6. AnnouncesOf(new) = AnnouncesOf(list)
  BY <1>4, <1>5 DEF AnnouncesOf
<1>7. new[g][1] = list[g][i]
  BY <1>1, <1>2, <1>3
<1> QED BY <1>3, <1>4, <1>5, <1>6, <1>7 DEF new, SameGroups
-----------------------------------------------------------------------------
(* The invariant holds *)

LEMMA AnnouncesKnown ==
  ASSUME announce_list_ \in Seq(Seq(DOMAIN TypeOf))
  PROVE  Announces \subseteq DOMAIN TypeOf
<1> SUFFICES ASSUME NEW g \in DOMAIN announce_list_, NEW i \in DOMAIN announce_list_[g]
             PROVE  announce_list_[g][i] \in DOMAIN TypeOf
  BY DEF Announces, ToSet
<1>1. announce_list_[g] \in Seq(DOMAIN TypeOf)
  OBVIOUS
<1> QED BY <1>1

\* The tracker in use is one of the torrent's.
LEMMA TrackerInUse ==
  ASSUME ClientInv, cur_tracker_ # NoTracker
  PROVE  /\ cur_tracker_ \in Trackers
         /\ cur_tracker_.announce \in Announces
         /\ cur_tracker_.announce \in DOMAIN TypeOf
         /\ cur_tracker_.interval_ \in Intervals \cup {0, Garbage}
<1>1. cur_tracker_ \in [announce : Announces, interval_ : Intervals \cup {0, Garbage}]
  BY DEF ClientInv, TypeOK
<1>2. Announces \subseteq DOMAIN TypeOf
  BY AnnouncesKnown DEF ClientInv
<1> QED BY <1>1, <1>2 DEF Trackers

\* A step of the exchange with the tracker in use.
LEMMA ExchangeStep ==
  ASSUME ClientInv, main = "retrieving", exchange # "none",
         UNCHANGED <<retrieverVars, clientVars, barVars>>,
         cur_tracker_' \in Trackers, cur_tracker_'.announce = cur_tracker_.announce,
         exchange' \in {"connecting", "announcing", "returned"},
         transaction_id' \in Ids, DOMAIN requests' = Ids,
         exchange' = "announcing" =>
           requests'[transaction_id'].announce = cur_tracker_.announce,
         exchange' = "returned" => Answered'
  PROVE  ClientInv'
<1> USE DEF ClientInv
<1>1. /\ UNCHANGED <<announce_list_, call, group, index, tried, main, remaining, bar>>
      /\ Announces' = Announces /\ current' = current
      /\ call \in {"current", "list"}
  BY DEF retrieverVars, loopVars, clientVars, barVars, Announces, current, TypeOK
<1>2. /\ cur_tracker_' # NoTracker
      /\ cur_tracker_' \in [announce : Announces, interval_ : Intervals \cup {0, Garbage}]
  <2>1. cur_tracker_' # NoTracker
    BY RetrieverAssumption DEF Trackers
  <2>2. cur_tracker_.announce \in Announces
    BY TrackerInUse DEF ExchangeOK
  <2> QED BY <2>1, <2>2 DEF Trackers
<1>3. TypeOK'
  BY <1>1, <1>2 DEF TypeOK, Ids
<1>4. ExchangeOK'
  BY <1>2 DEF ExchangeOK
<1>5. LoopsOK'
  BY <1>1 DEF LoopsOK, AtCurrent
<1>6. PassedTried'
  BY <1>1 DEF PassedTried
<1>7. PeersAnswerThisCall' /\ GivesUpLast'
  BY <1>1 DEF PeersAnswerThisCall, GivesUpLast
<1> QED BY <1>1, <1>3, <1>4, <1>5, <1>6, <1>7

\* The request that Send sends is the last one.
LEMMA SendStep ==
  ASSUME ClientInv, main = "retrieving", exchange # "none",
         UNCHANGED <<retrieverVars, clientVars, barVars>>,
         NEW kind, NEW at \in {"connecting", "announcing"},
         Send(kind, at), UNCHANGED cur_tracker_
  PROVE  ClientInv'
<1> DEFINE t == (transaction_id + 1) % TransactionIds
<1>1. t \in Ids
  BY UdpTrackerAssumption DEF ClientInv, TypeOK, Ids
<1> HIDE DEF t
<1>2. /\ transaction_id' = t /\ exchange' = at
      /\ requests' = [requests EXCEPT ![t] =
                        [kind |-> kind, announce |-> cur_tracker_.announce]]
  BY DEF Send, t
<1>3. DOMAIN requests' = Ids /\ requests'[t].announce = cur_tracker_.announce
  BY <1>1, <1>2 DEF ClientInv, ExchangeOK
<1>4. cur_tracker_ \in Trackers
  BY TrackerInUse DEF ClientInv, ExchangeOK
<1> QED BY <1>1, <1>2, <1>3, <1>4, ExchangeStep

\* The tracker in use returns nothing, or an answer to its last request.
LEMMA ReturnStep ==
  ASSUME ClientInv, main = "retrieving", exchange # "none",
         UNCHANGED <<retrieverVars, clientVars, barVars>>,
         NEW r, Return(r),
         cur_tracker_' \in Trackers, cur_tracker_'.announce = cur_tracker_.announce,
         r # Nothing =>
           /\ r.announce = cur_tracker_.announce
           /\ TypeOf[r.announce] = "UDP" => r.id = transaction_id
  PROVE  ClientInv'
<1>1. exchange' = "returned" /\ result' = r /\ UNCHANGED <<requests, transaction_id>>
  BY DEF Return
<1>2. Answered'
  BY <1>1 DEF Answered
<1>3. transaction_id' \in Ids /\ DOMAIN requests' = Ids
  BY <1>1 DEF ClientInv, TypeOK, ExchangeOK
<1> QED BY <1>1, <1>2, <1>3, ExchangeStep

\* An answer carries the id of its request and the peers of its tracker.
LEMMA DatagramFacts ==
  ASSUME NEW d \in Datagrams
  PROVE  /\ d.id \in Ids
         /\ d.interval \in Intervals \cup {0, Garbage}
         /\ d.peers = [announce |-> requests[d.id].announce, id |-> d.id]
<1>1. PICK t \in Ids : d \in Answers(t)
  BY DEF Datagrams
<1>2. PICK action \in {0, 1, 3}, size \in {"short", "odd", "whole"},
           interval \in Intervals \cup {0, Garbage} :
        d = [action |-> action, id |-> t, size |-> size, interval |-> interval,
             peers |-> [announce |-> requests[t].announce, id |-> t]]
  BY <1>1 DEF Answers
<1> QED BY <1>2

LEMMA UdpKeeps ==
  ASSUME ClientInv, main = "retrieving",
         UNCHANGED <<retrieverVars, clientVars, barVars>>, UdpNext
  PROVE  ClientInv'
<1>0. exchange # "none" => cur_tracker_ # NoTracker /\ cur_tracker_ \in Trackers
  BY TrackerInUse DEF ClientInv, ExchangeOK
<1>1. CASE UdpUnresolved \/ UdpUnanswered
  <2>1. exchange # "none" /\ Return(Nothing) /\ UNCHANGED cur_tracker_
    BY <1>1 DEF UdpUnresolved, UdpUnanswered
  <2> QED BY <1>0, <2>1, ReturnStep
<1>2. CASE UdpResolved
  <2>1. exchange # "none" /\ Send("connect", "connecting") /\ UNCHANGED cur_tracker_
    BY <1>2 DEF UdpResolved
  <2> QED BY <2>1, SendStep
<1>3. ASSUME NEW d \in Datagrams, ConnectAnswered(d)
      PROVE  ClientInv'
  <2>1. /\ exchange # "none" /\ UNCHANGED cur_tracker_
        /\ Return(Nothing) \/ Send("announce", "announcing")
    BY <1>3 DEF ConnectAnswered
  <2> QED BY <1>0, <2>1, ReturnStep, SendStep
<1>4. ASSUME NEW d \in Datagrams, AnnounceAnswered(d)
      PROVE  ClientInv'
  <2>1. exchange = "announcing"
    BY <1>4 DEF AnnounceAnswered
  <2>2. /\ cur_tracker_' \in Trackers
        /\ cur_tracker_'.announce = cur_tracker_.announce
    BY <1>0, <1>4, <2>1, DatagramFacts DEF AnnounceAnswered, Trackers
  <2> DEFINE r == IF d.size = "short" \/ d.action # 1 \/ d.id # transaction_id
                  THEN Nothing ELSE extract_peers(d)
  <2>3. Return(r)
    BY <1>4 DEF AnnounceAnswered
  <2>4. r # Nothing =>
          /\ r.announce = cur_tracker_.announce
          /\ r.id = transaction_id
    <3> SUFFICES ASSUME r # Nothing
                 PROVE  r.announce = cur_tracker_.announce /\ r.id = transaction_id
      OBVIOUS
    <3>1. d.id = transaction_id /\ r = d.peers
      BY DEF extract_peers
    <3>2. r = [announce |-> requests[transaction_id].announce, id |-> transaction_id]
      BY <3>1, DatagramFacts
    <3>3. requests[transaction_id].announce = cur_tracker_.announce
      BY <2>1 DEF ClientInv, ExchangeOK
    <3> HIDE DEF r
    <3> QED BY <3>2, <3>3
  <2> HIDE DEF r
  <2> QED BY <2>1, <2>2, <2>3, <2>4, ReturnStep
<1> QED BY <1>1, <1>2, <1>3, <1>4 DEF UdpNext

LEMMA HttpKeeps ==
  ASSUME ClientInv, main = "retrieving",
         UNCHANGED <<retrieverVars, clientVars, barVars>>, HttpNext
  PROVE  ClientInv'
<1>1. /\ exchange = "getting"
      /\ \/ HttpFails
         \/ \E i \in Intervals : HttpAnswered(i)
  BY DEF HttpNext, HttpFails, HttpAnswered
<1>2. cur_tracker_ \in Trackers /\ TypeOf[cur_tracker_.announce] = "HTTP"
  BY <1>1, TrackerInUse DEF ClientInv, ExchangeOK
<1>3. CASE HttpFails
  BY <1>1, <1>2, <1>3, ReturnStep DEF HttpFails
<1>4. ASSUME NEW i \in Intervals, HttpAnswered(i)
      PROVE  ClientInv'
  <2>1. /\ cur_tracker_' \in Trackers
        /\ cur_tracker_'.announce = cur_tracker_.announce
    BY <1>2, <1>4 DEF HttpAnswered, Trackers
  <2>2. Peers(cur_tracker_).announce = cur_tracker_.announce
    BY DEF Peers
  <2>3. Return(Nothing) \/ Return(Peers(cur_tracker_))
    BY <1>4 DEF HttpAnswered
  <2> QED BY <1>1, <1>2, <2>1, <2>2, <2>3, ReturnStep
<1> QED BY <1>1, <1>3, <1>4

\* The loops, while no tracker is being asked.  All that changes is where they
\* are, what was tried, and the call when it ends.
LEMMA LoopStep ==
  ASSUME ClientInv, main = "retrieving", call = "list", exchange = "none",
         UNCHANGED <<trackerVars, announce_list_, clientVars, barVars, tried>>,
         call' \in {"list", "over", "threw"},
         group' \in 1 .. Len(announce_list_) + 1, index' \in Nat \ {0},
         call' = "list" => PassedTried', call' = "over" => GivesUpLast'
  PROVE  ClientInv'
<1> USE DEF ClientInv
<1>1. /\ UNCHANGED <<cur_tracker_, exchange, result, requests, transaction_id,
                     main, remaining, bar>>
      /\ Announces' = Announces
  BY DEF trackerVars, clientVars, barVars, Announces
<1>2. TypeOK'
  BY <1>1 DEF TypeOK, Ids
<1>3. ExchangeOK'
  BY <1>1 DEF ExchangeOK, Ids
<1>4. LoopsOK' /\ result' = Nothing
  BY <1>1 DEF LoopsOK
<1>5. PeersAnswerThisCall' /\ GivesUpLast' /\ PassedTried'
  BY <1>4 DEF PeersAnswerThisCall, GivesUpLast, PassedTried
<1> QED BY <1>1, <1>2, <1>3, <1>4, <1>5

LEMMA SkipKeeps ==
  ASSUME ClientInv, main = "retrieving", UNCHANGED <<clientVars, barVars>>, SkipUnknown
  PROVE  ClientInv'
<1> USE DEF ClientInv
<1>1. /\ call = "list" /\ exchange = "none" /\ TypeOf[current] = "UNKNOWN"
      /\ index' = index + 1
      /\ UNCHANGED <<trackerVars, announce_list_, call, group, tried>>
  BY DEF SkipUnknown, At
<1>2. exchange' = exchange
  BY <1>1 DEF trackerVars
<1>3. group \in 1 .. Len(announce_list_) + 1 /\ index \in Nat \ {0}
  BY DEF TypeOK
<1>4. PassedTried'
  <2> SUFFICES ASSUME NEW g \in DOMAIN announce_list_, NEW i \in DOMAIN announce_list_[g],
                      g < group \/ (g = group /\ i < index + 1),
                      TypeOf[announce_list_[g][i]] \in Known
               PROVE  announce_list_[g][i] \in tried
    BY <1>1, <1>2 DEF PassedTried
  <2>1. g = group => i # index
    BY <1>1 DEF current, Known
  <2>2. i \in Nat
    <3>1. announce_list_[g] \in Seq(DOMAIN TypeOf)
      OBVIOUS
    <3> QED BY <3>1
  <2>3. g < group \/ (g = group /\ i < index)
    BY <1>3, <2>1, <2>2
  <2> QED BY <1>1, <2>3 DEF PassedTried
<1> QED BY <1>1, <1>3, <1>4, LoopStep

LEMMA NextGroupKeeps ==
  ASSUME ClientInv, main = "retrieving", UNCHANGED <<clientVars, barVars>>, NextGroup
  PROVE  ClientInv'
<1> USE DEF ClientInv
<1>1. /\ call = "list" /\ exchange = "none"
      /\ group <= Len(announce_list_) /\ index > Len(announce_list_[group])
      /\ group' = group + 1 /\ index' = 1
      /\ UNCHANGED <<trackerVars, announce_list_, call, tried>>
  BY DEF NextGroup
<1>2. exchange' = exchange
  BY <1>1 DEF trackerVars
<1>3. group \in 1 .. Len(announce_list_) + 1 /\ index \in Nat \ {0}
  BY DEF TypeOK
<1>4. PassedTried'
  <2> SUFFICES ASSUME NEW g \in DOMAIN announce_list_, NEW i \in DOMAIN announce_list_[g],
                      g < group + 1 \/ (g = group + 1 /\ i < 1),
                      TypeOf[announce_list_[g][i]] \in Known
               PROVE  announce_list_[g][i] \in tried
    BY <1>1, <1>2 DEF PassedTried
  <2>1. g \in 1 .. Len(announce_list_) /\ i \in 1 .. Len(announce_list_[g])
        /\ Len(announce_list_[g]) \in Nat
    <3>1. announce_list_[g] \in Seq(DOMAIN TypeOf)
      OBVIOUS
    <3> QED BY <3>1
  <2>2. g < group \/ (g = group /\ i < index)
    BY <1>1, <1>3, <2>1
  <2> QED BY <1>1, <2>2 DEF PassedTried
<1>5. group' \in 1 .. Len(announce_list_) + 1
  BY <1>1, <1>3
<1> QED BY <1>1, <1>4, <1>5, LoopStep

LEMMA ExhaustedKeeps ==
  ASSUME ClientInv, main = "retrieving", UNCHANGED <<clientVars, barVars>>, Exhausted
  PROVE  ClientInv'
<1> USE DEF ClientInv
<1>1. /\ call = "list" /\ exchange = "none" /\ group > Len(announce_list_)
      /\ call' = "over" /\ UNCHANGED <<trackerVars, announce_list_, loopVars, tried>>
  BY DEF Exhausted
<1>2. group \in 1 .. Len(announce_list_) + 1 /\ index \in Nat \ {0}
  BY DEF TypeOK
<1>3. \A a \in Announces : TypeOf[a] \in Known => a \in tried
  <2> SUFFICES ASSUME NEW g \in DOMAIN announce_list_, NEW i \in DOMAIN announce_list_[g],
                      TypeOf[announce_list_[g][i]] \in Known
               PROVE  announce_list_[g][i] \in tried
    BY DEF Announces, ToSet
  <2>1. g < group
    BY <1>1, <1>2
  <2> QED BY <1>1, <2>1 DEF PassedTried
<1>4. GivesUpLast'
  BY <1>1, <1>3 DEF GivesUpLast, Announces, Known
<1> QED BY <1>1, <1>2, <1>4, LoopStep DEF loopVars

LEMMA ThrowsKeeps ==
  ASSUME ClientInv, main = "retrieving", UNCHANGED <<clientVars, barVars>>, AskThrows
  PROVE  ClientInv'
<1>1. /\ call = "list" /\ exchange = "none" /\ call' = "threw"
      /\ UNCHANGED <<trackerVars, announce_list_, loopVars, tried>>
  BY DEF AskThrows, At
<1>2. group \in 1 .. Len(announce_list_) + 1 /\ index \in Nat \ {0}
  BY DEF ClientInv, TypeOK
<1> QED BY <1>1, <1>2, LoopStep DEF loopVars

LEMMA AskNextKeeps ==
  ASSUME ClientInv, main = "retrieving", UNCHANGED <<clientVars, barVars>>, AskNext
  PROVE  ClientInv'
<1> USE DEF ClientInv
<1> DEFINE tracker == [announce |-> current, interval_ |-> 0]
<1>1. /\ call = "list" /\ exchange = "none"
      /\ group <= Len(announce_list_) /\ index <= Len(announce_list_[group])
      /\ Ask(tracker) /\ tried' = tried \cup {current}
      /\ UNCHANGED <<announce_list_, call, loopVars>>
  BY DEF AskNext, At
<1>2. /\ cur_tracker_' = tracker
      /\ exchange' = IF TypeOf[tracker.announce] = "HTTP" THEN "getting" ELSE "resolving"
      /\ UNCHANGED <<result, requests, transaction_id>>
  BY <1>1 DEF Ask
<1>3. /\ UNCHANGED <<announce_list_, call, group, index, main, remaining, bar>>
      /\ Announces' = Announces /\ current' = current
  BY <1>1 DEF loopVars, clientVars, barVars, Announces, current
<1>4. /\ group \in DOMAIN announce_list_ /\ index \in DOMAIN announce_list_[group]
      /\ current \in Announces /\ current \in DOMAIN TypeOf
  <2>1. group \in 1 .. Len(announce_list_) + 1 /\ index \in Nat \ {0}
    BY DEF TypeOK
  <2>2. group \in DOMAIN announce_list_
    BY <1>1, <2>1
  <2>3. announce_list_[group] \in Seq(DOMAIN TypeOf)
    BY <2>2
  <2>4. index \in DOMAIN announce_list_[group]
    BY <1>1, <2>1, <2>3
  <2>5. current \in Announces
    BY <2>2, <2>4 DEF current, Announces, ToSet
  <2> QED BY <2>2, <2>4, <2>5, AnnouncesKnown
<1>5. /\ cur_tracker_' \in [announce : Announces, interval_ : Intervals \cup {0, Garbage}]
      /\ cur_tracker_' # NoTracker
      /\ cur_tracker_'.announce = current
  BY <1>2, <1>4, RetrieverAssumption
<1>6. exchange' \in {"getting", "resolving"}
      /\ (exchange' = "getting" => TypeOf[current] = "HTTP")
  BY <1>2
<1> HIDE DEF tracker
<1>7. TypeOK'
  BY <1>1, <1>2, <1>3, <1>5, <1>6 DEF TypeOK, Ids
<1>8. ExchangeOK'
  BY <1>2, <1>5, <1>6 DEF ExchangeOK, Ids
<1>9. LoopsOK'
  BY <1>1, <1>3, <1>4, <1>5, <1>6 DEF LoopsOK, AtCurrent
<1>10. PassedTried'
  BY <1>1, <1>3, <1>5 DEF PassedTried
<1>11. PeersAnswerThisCall' /\ GivesUpLast'
  BY <1>1 DEF PeersAnswerThisCall, GivesUpLast
<1> QED BY <1>3, <1>7, <1>8, <1>9, <1>10, <1>11

LEMMA FailsKeeps ==
  ASSUME ClientInv, main = "retrieving", UNCHANGED <<clientVars, barVars>>, TrackerFails
  PROVE  ClientInv'
<1> USE DEF ClientInv
<1>1. /\ exchange = "returned" /\ result = Nothing /\ exchange' = "none" /\ call' = "list"
      /\ index' = IF call = "list" THEN index + 1 ELSE 1
      /\ UNCHANGED <<cur_tracker_, result, requests, transaction_id, announce_list_,
                     group, tried>>
  BY DEF TrackerFails
<1>2. UNCHANGED <<main, remaining, bar>> /\ Announces' = Announces
  BY <1>1 DEF clientVars, barVars, Announces
<1>3. /\ group \in 1 .. Len(announce_list_) + 1 /\ index \in Nat \ {0}
      /\ call \in {"current", "list"}
      /\ call = "current" => group = 1
  BY <1>1 DEF TypeOK, LoopsOK
<1>4. TypeOK'
  BY <1>1, <1>2, <1>3 DEF TypeOK, Ids
<1>5. ExchangeOK'
  BY <1>1 DEF ExchangeOK, Ids
<1>6. LoopsOK' /\ PeersAnswerThisCall' /\ GivesUpLast'
  BY <1>1 DEF LoopsOK, PeersAnswerThisCall, GivesUpLast
<1>7. PassedTried'
  <2> SUFFICES ASSUME NEW g \in DOMAIN announce_list_, NEW i \in DOMAIN announce_list_[g],
                      g < group \/ (g = group /\ i < index'),
                      TypeOf[announce_list_[g][i]] \in Known
               PROVE  announce_list_[g][i] \in tried
    BY <1>1 DEF PassedTried
  <2>1. g \in 1 .. Len(announce_list_) /\ i \in 1 .. Len(announce_list_[g])
        /\ Len(announce_list_[g]) \in Nat
    <3>1. announce_list_[g] \in Seq(DOMAIN TypeOf)
      OBVIOUS
    <3> QED BY <3>1
  <2>2. call = "list"
    BY <1>1, <1>3, <2>1
  <2>3. CASE g < group \/ (g = group /\ i < index)
    BY <2>2, <2>3 DEF PassedTried
  <2>4. CASE g = group /\ i = index
    BY <1>1, <2>2, <2>4 DEF LoopsOK, AtCurrent, PassedTried, current
  <2> QED BY <1>1, <1>3, <2>1, <2>2, <2>3, <2>4
<1> QED BY <1>1, <1>4, <1>5, <1>6, <1>7

\* What a call that is answered leaves: the same groups, one reordered.
LEMMA AnswersKeeps ==
  ASSUME ClientInv, main = "retrieving", UNCHANGED <<clientVars, barVars>>, TrackerAnswers
  PROVE  /\ ClientInv'
         /\ \A g \in DOMAIN announce_list_ :
              /\ Len(announce_list_'[g]) = Len(announce_list_[g])
              /\ ToSet(announce_list_'[g]) = ToSet(announce_list_[g])
         /\ call = "list" => \E g \in DOMAIN announce_list_ :
                               announce_list_'[g][1] = cur_tracker_.announce
<1> USE DEF ClientInv
<1>1. /\ exchange = "returned" /\ result # Nothing /\ exchange' = "none" /\ call' = "over"
      /\ announce_list_' =
           IF call = "list" THEN [announce_list_ EXCEPT ![group] =
                                    Promoted(announce_list_[group], index)]
           ELSE announce_list_
      /\ UNCHANGED <<cur_tracker_, result, requests, transaction_id, group, index, tried>>
  BY DEF TrackerAnswers, loopVars
<1>2. UNCHANGED <<main, remaining, bar>>
  BY DEF clientVars, barVars
<1>3. /\ announce_list_' \in Seq(Seq(DOMAIN TypeOf))
      /\ SameGroups(announce_list_', announce_list_)
      /\ call = "list" => \E g \in DOMAIN announce_list_ :
                            announce_list_'[g][1] = cur_tracker_.announce
  <2>1. CASE call = "list"
    <3>1. AtCurrent
      BY <1>1, <2>1 DEF LoopsOK
    <3>2. /\ group \in DOMAIN announce_list_ /\ index \in DOMAIN announce_list_[group]
          /\ announce_list_[group][index] = cur_tracker_.announce
      BY <3>1 DEF AtCurrent, current
    <3>3. announce_list_' = PromotedIn(announce_list_, group, index)
      BY <1>1, <2>1 DEF PromotedIn
    <3>4. /\ PromotedIn(announce_list_, group, index) \in Seq(Seq(DOMAIN TypeOf))
          /\ SameGroups(PromotedIn(announce_list_, group, index), announce_list_)
          /\ PromotedIn(announce_list_, group, index)[group][1] = announce_list_[group][index]
      BY <3>2, PromotedList, Zenon
    <3> QED BY <3>2, <3>3, <3>4, Zenon
  <2>2. CASE call # "list"
    BY <1>1, <2>2 DEF SameGroups
  <2> QED BY <2>1, <2>2
<1>4. Announces' = Announces
  BY <1>3 DEF Announces, AnnouncesOf, SameGroups
<1>5. /\ announce_list_' \in Seq(Seq(DOMAIN TypeOf)) /\ Len(announce_list_') = Len(announce_list_)
  BY <1>3 DEF SameGroups
<1>6. TypeOK'
  BY <1>1, <1>2, <1>4, <1>5 DEF TypeOK, Ids
<1>7. ExchangeOK' /\ LoopsOK' /\ PassedTried' /\ GivesUpLast'
  BY <1>1 DEF ExchangeOK, LoopsOK, PassedTried, GivesUpLast, Ids
<1>8. PeersAnswerThisCall'
  BY <1>1 DEF ExchangeOK, Answered, PeersAnswerThisCall
<1> QED BY <1>3, <1>5, <1>6, <1>7, <1>8 DEF SameGroups

\* A call begins.
LEMMA CallKeeps ==
  ASSUME ClientInv, RetrievePeers, main' = "retrieving", remaining' \in Nat,
         UNCHANGED barVars
  PROVE  ClientInv'
<1> USE DEF ClientInv
<1>1. /\ group' = 1 /\ index' = 1 /\ UNCHANGED <<announce_list_, bar>>
      /\ Announces' = Announces /\ exchange = "none"
      /\ 1 \in 1 .. Len(announce_list_) + 1
  BY DEF RetrievePeers, barVars, Announces, TypeOK
<1>2. PassedTried' /\ PeersAnswerThisCall' /\ GivesUpLast' /\ call' \in {"current", "list"}
  <2>1. call' \in {"current", "list"} /\ (call' = "list" => exchange' = "none")
    BY <1>1 DEF RetrievePeers, trackerVars
  <2>2. \A g \in DOMAIN announce_list_ : \A i \in DOMAIN announce_list_[g] :
          ~ (g < 1 \/ (g = 1 /\ i < 1))
    <3> SUFFICES ASSUME NEW g \in DOMAIN announce_list_, NEW i \in DOMAIN announce_list_[g]
                 PROVE  g >= 1 /\ i >= 1 /\ g \in Nat /\ i \in Nat
      OBVIOUS
    <3>1. announce_list_[g] \in Seq(DOMAIN TypeOf)
      OBVIOUS
    <3> QED BY <3>1
  <2> QED BY <1>1, <2>1, <2>2 DEF PassedTried, PeersAnswerThisCall, GivesUpLast
<1>3. CASE cur_tracker_ = NoTracker
  <2>1. call' = "list" /\ UNCHANGED <<cur_tracker_, exchange, result, requests, transaction_id>>
    BY <1>3 DEF RetrievePeers, trackerVars
  <2> QED BY <1>1, <1>2, <1>3, <2>1 DEF TypeOK, ExchangeOK, LoopsOK, Ids, Answered
<1>4. CASE cur_tracker_ # NoTracker
  <2>1. call' = "current" /\ Ask(cur_tracker_)
    BY <1>4 DEF RetrievePeers
  <2>2. /\ UNCHANGED <<cur_tracker_, result, requests, transaction_id>>
        /\ exchange' \in {"getting", "resolving"}
        /\ exchange' = "getting" => TypeOf[cur_tracker_.announce] = "HTTP"
    BY <2>1 DEF Ask
  <2>3. TypeOK'
    BY <1>1, <2>1, <2>2 DEF TypeOK, Ids
  <2>4. ExchangeOK' /\ LoopsOK'
    BY <1>1, <1>4, <2>1, <2>2 DEF ExchangeOK, LoopsOK, Ids
  <2> QED BY <1>1, <1>2, <2>3, <2>4
<1> QED BY <1>3, <1>4

\* A step that leaves the trackers and the list alone, and at most takes the
\* result of a call.
LEMMA MainStep ==
  ASSUME ClientInv, UNCHANGED <<trackerVars, announce_list_, loopVars, tried>>,
         call' = call \/ (call = "over" /\ call' = "none"),
         call' # "none" => main' \in {"retrieving", "aborted"},
         remaining' \in Nat, bar' \in {"waiting", "drawing", "done"}
  PROVE  ClientInv'
<1> USE DEF ClientInv
<1>1. /\ UNCHANGED <<cur_tracker_, exchange, result, requests, transaction_id, group, index>>
      /\ Announces' = Announces /\ current' = current
  BY DEF trackerVars, loopVars, Announces, current
<1>2. TypeOK'
  BY <1>1 DEF TypeOK, Ids
<1>3. ExchangeOK'
  BY <1>1 DEF ExchangeOK, Answered, Ids
<1>4. LoopsOK' /\ PassedTried'
  BY <1>1 DEF LoopsOK, AtCurrent, PassedTried
<1>5. PeersAnswerThisCall' /\ GivesUpLast'
  BY <1>1 DEF PeersAnswerThisCall, GivesUpLast
<1> QED BY <1>2, <1>3, <1>4, <1>5

LEMMA ClientInit == Init => ClientInv
<1> SUFFICES ASSUME Init PROVE ClientInv
  OBVIOUS
<1>1. /\ cur_tracker_ = NoTracker /\ exchange = "none" /\ result = Nothing
      /\ DOMAIN requests = Ids /\ transaction_id = 0
      /\ call = "none" /\ group = 1 /\ index = 1
      /\ remaining = 0 /\ bar = "waiting"
  BY DEF Init, RetrieverInit, TrackerInit
<1>2. PICK list \in AnnounceLists : announce_list_ = Groups(Announce, list)
  BY DEF Init, RetrieverInit
<1>3. announce_list_ \in Seq(Seq(DOMAIN TypeOf))
  BY <1>2, GroupsAreLists
<1>4. TypeOK
  BY <1>1, <1>3, UdpTrackerAssumption DEF TypeOK, Ids
<1>5. ExchangeOK /\ LoopsOK /\ PassedTried /\ PeersAnswerThisCall /\ GivesUpLast
  BY <1>1 DEF ExchangeOK, LoopsOK, PassedTried, PeersAnswerThisCall, GivesUpLast
<1> QED BY <1>3, <1>4, <1>5 DEF ClientInv

\* Every step is the answer of a tracker, or leaves the list of groups alone.
LEMMA ClientStep ==
  ASSUME ClientInv, [Next]_vars
  PROVE  /\ ClientInv'
         /\ \/ main = "retrieving" /\ TrackerAnswers /\ UNCHANGED <<clientVars, barVars>>
            \/ announce_list_' = announce_list_ /\ ~ (call = "list" /\ call' = "over" /\ result # Nothing)
<1> DEFINE Quiet == /\ announce_list_' = announce_list_
                    /\ ~ (call = "list" /\ call' = "over" /\ result # Nothing)
           Answer == main = "retrieving" /\ TrackerAnswers /\ UNCHANGED <<clientVars, barVars>>
<1>0. /\ remaining \in Nat /\ bar \in {"waiting", "drawing", "done"}
      /\ call # "none" => main \in {"retrieving", "aborted"}
  BY DEF ClientInv, TypeOK
<1>1. CASE Retrieving
  <2> USE <1>1 DEF Retrieving
  <2>0. main = "retrieving" /\ UNCHANGED <<clientVars, barVars>>
    OBVIOUS
  <2>1. CASE UdpNext /\ UNCHANGED retrieverVars
    BY <2>0, <2>1, UdpKeeps DEF retrieverVars
  <2>2. CASE HttpNext /\ UNCHANGED retrieverVars
    BY <2>0, <2>2, HttpKeeps DEF retrieverVars
  <2>3. CASE SkipUnknown
    BY <2>0, <2>3, SkipKeeps DEF SkipUnknown
  <2>4. CASE NextGroup
    BY <2>0, <2>4, NextGroupKeeps DEF NextGroup
  <2>5. CASE AskNext
    <3>1. announce_list_' = announce_list_ /\ call' = call
      BY <2>5 DEF AskNext
    <3> QED BY <2>0, <2>5, <3>1, AskNextKeeps
  <2>6. CASE AskThrows
    BY <2>0, <2>6, ThrowsKeeps DEF AskThrows
  <2>7. CASE TrackerAnswers
    BY <2>0, <2>7, AnswersKeeps
  <2>8. CASE TrackerFails
    BY <2>0, <2>8, FailsKeeps DEF TrackerFails
  <2>9. CASE Exhausted
    <3>1. result = Nothing
      BY <2>9 DEF Exhausted, ClientInv, LoopsOK
    <3>2. announce_list_' = announce_list_
      BY <2>9 DEF Exhausted
    <3> QED BY <2>0, <2>9, <3>1, <3>2, ExhaustedKeeps
  <2> QED BY <2>1, <2>2, <2>3, <2>4, <2>5, <2>6, <2>7, <2>8, <2>9 DEF RetrieverNext
<1>2. CASE StartDownload
  <2>1. RetrievePeers /\ main' = "retrieving" /\ remaining' = remaining /\ UNCHANGED barVars
    BY <1>2 DEF StartDownload
  <2> QED BY <1>0, <2>1, CallKeeps DEF RetrievePeers
<1>3. CASE WakeUp
  <2>1. remaining' \in Nat /\ UNCHANGED barVars
    BY <1>0, <1>3 DEF WakeUp
  <2>2. CASE main' = "retrieving" /\ RetrievePeers
    BY <2>1, <2>2, CallKeeps DEF RetrievePeers
  <2>3. CASE UNCHANGED <<trackerVars, retrieverVars>>
    <3>1. UNCHANGED <<announce_list_, call, loopVars, tried>> /\ call = "none"
      BY <1>0, <1>3, <2>3 DEF WakeUp, retrieverVars
    <3> QED BY <1>0, <2>1, <2>3, <3>1, MainStep DEF barVars
  <2> QED BY <1>3, <2>2, <2>3 DEF WakeUp
<1>4. CASE Started \/ Retrieved
  <2>1. /\ UNCHANGED <<trackerVars, announce_list_, loopVars, tried, remaining, barVars>>
        /\ call = "over" /\ call' = "none"
    BY <1>4 DEF Started, Retrieved
  <2> QED BY <1>0, <2>1, MainStep DEF barVars
<1>5. CASE Aborts
  <2>1. /\ UNCHANGED <<trackerVars, retrieverVars, remaining, barVars>>
        /\ main' = "aborted"
    BY <1>5 DEF Aborts
  <2> QED BY <1>0, <2>1, MainStep DEF barVars, retrieverVars
<1>6. CASE Schedule
  <2>1. /\ UNCHANGED <<trackerVars, retrieverVars, barVars>>
        /\ main = "scheduling" /\ remaining' = get_interval
    BY <1>6 DEF Schedule
  <2>2. get_interval \in Nat
    <3>1. cur_tracker_ # NoTracker => cur_tracker_.interval_ \in Intervals \cup {0, Garbage}
      BY TrackerInUse
    <3>2. Intervals \cup {0, Garbage} \subseteq Nat
      BY UdpTrackerAssumption
    <3>3. cur_tracker_ # NoTracker => cur_tracker_.interval_ \in Nat
      BY <3>1, <3>2, Zenon
    <3>4. get_interval = 0 \/ (cur_tracker_ # NoTracker /\ get_interval = cur_tracker_.interval_)
      BY Zenon DEF get_interval
    <3> QED BY <3>3, <3>4
  <2> QED BY <1>0, <2>1, <2>2, MainStep DEF barVars, retrieverVars
<1>7. CASE LoopHead \/ Finish \/ StopDraw \/ Join
  <2>1. /\ UNCHANGED <<trackerVars, retrieverVars, remaining, bar>>
        /\ main \in {"looping", "stopping", "finished", "joining"}
    BY <1>7 DEF LoopHead, Finish, StopDraw, Join, barVars
  <2> QED BY <1>0, <2>1, MainStep DEF retrieverVars
<1>8. CASE BarWaits \/ BarDraws
  <2>1. /\ UNCHANGED <<trackerVars, retrieverVars, clientVars>>
        /\ bar' \in {"waiting", "drawing", "done"}
    BY <1>8 DEF BarWaits, BarDraws
  <2> QED BY <1>0, <2>1, MainStep DEF retrieverVars, clientVars
<1>9. CASE Complete \/ PeersChange \/ Ended \/ UNCHANGED vars
  <2>1. UNCHANGED <<trackerVars, retrieverVars, main, remaining, bar>>
    BY <1>9 DEF Complete, PeersChange, Downloading, Ended, vars, barVars, clientVars
  <2> QED BY <1>0, <2>1, MainStep DEF retrieverVars
<1> QED BY <1>1, <1>2, <1>3, <1>4, <1>5, <1>6, <1>7, <1>8, <1>9 DEF Next, Main

\* Every member keeps its type, and exchanges happen only inside a call of
\* retrieve_peers that the main thread is in.
THEOREM ClientTypeCorrect == Spec => []TypeOK
<1>1. ClientInv /\ [Next]_vars => ClientInv'
  BY ClientStep
<1>2. ClientInv => TypeOK
  BY DEF ClientInv
<1> QED BY ClientInit, <1>1, <1>2, PTL DEF Spec

\* Whatever datagrams are lost, duplicated, reordered or late, the peers that
\* retrieve_peers returns answer the announce that this call sent.
THEOREM PeersAlwaysAnswer == Spec => []PeersAnswerThisCall
<1>1. ClientInv /\ [Next]_vars => ClientInv'
  BY ClientStep
<1>2. ClientInv => PeersAnswerThisCall
  BY DEF ClientInv
<1> QED BY ClientInit, <1>1, <1>2, PTL DEF Spec

\* retrieve_peers never gives up while a tracker it could ask is left, for any
\* announce-list and however it has been reordered by earlier calls.
THEOREM AlwaysGivesUpLast == Spec => []GivesUpLast
<1>1. ClientInv /\ [Next]_vars => ClientInv'
  BY ClientStep
<1>2. ClientInv => GivesUpLast
  BY DEF ClientInv
<1> QED BY ClientInit, <1>1, <1>2, PTL DEF Spec

\* The swap that promotes a tracker neither loses nor duplicates an announce,
\* and does put the tracker that answered in front.
THEOREM GroupsAlwaysKept == Spec => GroupsKept
<1> DEFINE Keeps ==
      /\ \A g \in DOMAIN announce_list_ :
           /\ Len(announce_list_'[g]) = Len(announce_list_[g])
           /\ ToSet(announce_list_'[g]) = ToSet(announce_list_[g])
      /\ call = "list" /\ call' = "over" /\ result # Nothing =>
           \E g \in DOMAIN announce_list_ :
             announce_list_'[g][1] = cur_tracker_.announce
<1>1. ClientInv /\ [Next]_vars => ClientInv'
  BY ClientStep
<1>2. ClientInv /\ [Next]_vars => Keeps
  <2> SUFFICES ASSUME ClientInv, [Next]_vars
               PROVE  Keeps
    OBVIOUS
  <2>1. CASE main = "retrieving" /\ TrackerAnswers /\ UNCHANGED <<clientVars, barVars>>
    BY <2>1, AnswersKeeps
  <2>2. CASE /\ announce_list_' = announce_list_
             /\ ~ (call = "list" /\ call' = "over" /\ result # Nothing)
    BY <2>2
  <2> QED BY <2>1, <2>2, ClientStep
<1>3. ClientInv /\ [Next]_vars => [Keeps]_vars
  BY <1>2
<1> QED BY ClientInit, <1>1, <1>3, PTL DEF Spec, GroupsKept
=============================================================================
