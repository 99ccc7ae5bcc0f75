-------------------------- MODULE ConnectionProofs --------------------------
(***************************************************************************)
(* Proofs about connections.  First how PeerManager keeps them, for any    *)
(* set of peers, any limits, and any value that is read from an erased     *)
(* entry.  Then how the bytes on one of them become messages, for any      *)
(* torrent, blocks and buffer and any messages of the peer: Spells says    *)
(* that a stream consists of the bytes of the messages that are on the     *)
(* way, and the lemmas on single messages say that to read the front of    *)
(* such a stream is to read the first of them.                             *)
(***************************************************************************)
EXTENDS PeerManager, Wire, SequenceTheorems, TLAPS

-----------------------------------------------------------------------------
(* PeerManager *)


\* The strengthening: is_reconnecting is set exactly while try_reconnection
\* has the entry, an entry that waits for its first connect has a retry left
\* and no run, and a run that has not failed shows in state_.
Linked(k) ==
  /\ k.is_reconnecting <=> k.task \in {"retrying", "reconnecting"}
  /\ k.task = "spawned" => k.retries_left_ > 0
  /\ k.task \in {"spawned", "connecting"} => k.run = "none"
  /\ k.run = "starting" => k.state_ = "CONNECTED"
  /\ k.run = "running" => k.state_ = "RUNNING"

Good(k) == k \in PeerConnections /\ Tells(k) /\ Linked(k)

EntriesGood == \A p \in Entries : Good(peer_connections_[p])

\* A pass is under way exactly while cleanup has the lock, add_peers goes
\* through its peers exactly while main has it, and cleanup is spawned once.
PassLocked ==
  /\ (lock = "cleanup") <=> (cleanup = "visiting")
  /\ (lock = "main") <=> (main = "adding")
  /\ cleanup # "visiting" => visiting = {}
  /\ main = "idle" => started_ \/ stopped \/ cleanup = "none"
  /\ main \in {"locking", "adding"} => started_

PeersInv == TypeOK /\ EntriesGood /\ PassLocked

\* A step that keeps the invariant and erases nothing.
Kept == PeersInv' /\ Entries \subseteq Entries'

\* Only the entry of p changes, and nothing that the other conjuncts are about.
LEMMA EntryBecomes ==
  ASSUME PeersInv, NEW p \in Entries, NEW k, Good(k), Becomes(p, k),
         UNCHANGED <<mainVars, lock, cleanup, stopped>>,
         visiting' \in SUBSET visiting, cleanup = "visiting" \/ visiting' = visiting,
         connected_peers_' \in 0 .. UINT32 - 1
  PROVE  Kept
<1> USE DEF PeersInv
<1>1. p \in Peers /\ k # NoEntry /\ peer_connections_ \in [Peers -> PeerConnections \cup {NoEntry}]
  BY NoEntryAssumption DEF Entries, Good, TypeOK
<1>2. peer_connections_' = [peer_connections_ EXCEPT ![p] = k]
  BY DEF Becomes
<1>3. /\ peer_connections_'[p] = k
      /\ \A q \in Peers : q # p => peer_connections_'[q] = peer_connections_[q]
      /\ peer_connections_' \in [Peers -> PeerConnections \cup {NoEntry}]
  BY <1>1, <1>2 DEF Good
<1>4. Entries' = Entries
  BY <1>1, <1>3 DEF Entries
<1>5. TypeOK'
  BY <1>3, <1>4 DEF TypeOK, mainVars
<1>6. EntriesGood'
  <2> SUFFICES ASSUME NEW q \in Entries'
               PROVE  Good(peer_connections_'[q])
    BY DEF EntriesGood
  <2>1. q \in Entries /\ q \in Peers
    BY <1>4 DEF Entries
  <2> QED BY <1>3, <2>1 DEF EntriesGood
<1>7. PassLocked'
  BY DEF PassLocked, mainVars
<1> QED BY <1>4, <1>5, <1>6, <1>7 DEF Kept

\* An entry is what its record says, so facts about it are facts about fields.
LEMMA EntryIsGood ==
  ASSUME PeersInv, NEW p \in Entries
  PROVE  p \in Peers /\ Good(peer_connections_[p])
BY DEF PeersInv, EntriesGood, Entries

\* What handle_failure makes of a connection that nobody connects for the
\* first time, with its run and its coroutine at r and t.
LEMMA FailedIsGood ==
  ASSUME NEW k, Good(k), NEW ec,
         NEW t \in {"none", "retrying", "reconnecting"},
         NEW r \in {"none", "winding", "returning"}, NEW u \in BOOLEAN,
         k.is_reconnecting <=> t \in {"retrying", "reconnecting"}
  PROVE  Good([Failed(k, ec) EXCEPT !.task = t, !.run = r, !.on_utils = u])
BY DEF Good, Tells, Linked, Failed, PeerConnections

\* What connect makes of a connection that has a retry left.
LEMMA ConnectingIsGood ==
  ASSUME NEW k, Good(k), k.retries_left_ > 0,
         k.run \notin {"starting", "running"},
         NEW t \in {"connecting", "reconnecting"},
         k.is_reconnecting <=> t = "reconnecting",
         t = "connecting" => k.run = "none"
  PROVE  Good([Connecting(k) EXCEPT !.task = t])
<1> DEFINE m == [Connecting(k) EXCEPT !.task = t]
<1>1. k \in PeerConnections
  BY DEF Good
<1>2. /\ m.state_ = "CONNECTING" /\ m.task = t
      /\ m.is_reconnecting = k.is_reconnecting /\ m.run = k.run
  BY <1>1 DEF Connecting, PeerConnections
<1>3. k.retries_left_ - 1 \in 0 .. MAX_RETRIES
  BY <1>1, PeerManagerAssumption DEF PeerConnections
<1>4. m \in PeerConnections
  BY <1>1, <1>3 DEF Connecting, PeerConnections
<1> QED BY <1>2, <1>4 DEF Good, Tells, Linked

\* A connection whose run is about to start.
LEMMA StartingIsGood ==
  ASSUME NEW m \in PeerConnections, m.state_ = "CONNECTED", m.run = "starting",
         m.task = "none", ~ m.is_reconnecting
  PROVE  Good(m)
BY DEF Good, Tells, Linked

\* A connection that connect has given back.
LEMMA ConnectedTyped ==
  ASSUME NEW k \in PeerConnections
  PROVE  /\ Connected(k) \in PeerConnections
         /\ Connected(k).state_ = "CONNECTED"
         /\ Connected(k).run = k.run
         /\ Connected(k).is_reconnecting = k.is_reconnecting
<1>1. MAX_RETRIES \in 0 .. MAX_RETRIES
  BY PeerManagerAssumption
<1> QED BY <1>1 DEF Connected, PeerConnections

\* The counter stays a uint32_t.
LEMMA CountWraps ==
  ASSUME connected_peers_ \in 0 .. UINT32 - 1
  PROVE  /\ (connected_peers_ + 1) % UINT32 \in 0 .. UINT32 - 1
         /\ (connected_peers_ + UINT32 - 1) % UINT32 \in 0 .. UINT32 - 1
BY PeerManagerAssumption
-----------------------------------------------------------------------------
(* The steps of each thread keep the invariant *)

LEMMA MainKeeps ==
  ASSUME PeersInv, Main
  PROVE  Kept
<1> USE DEF PeersInv, Kept
<1>1. CASE \E peers \in SUBSET Peers \ {{}} : AddPeers(peers)
  BY <1>1 DEF AddPeers, TypeOK, EntriesGood, PassLocked, Entries
<1>2. CASE StartReturns
  BY <1>2 DEF StartReturns, cleanupVars, TypeOK, EntriesGood, PassLocked, Entries
<1>3. CASE AddLocks
  BY <1>3 DEF AddLocks, cleanupVars, TypeOK, EntriesGood, PassLocked, Entries
<1>4. CASE AddReturns
  BY <1>4 DEF AddReturns, cleanupVars, TypeOK, EntriesGood, PassLocked, Entries
<1>5. CASE Stop
  BY <1>5 DEF Stop, cleanupVars, TypeOK, EntriesGood, PassLocked, Entries
<1>6. ASSUME NEW p \in Peers, AddPeer(p)
      PROVE  Kept
  <2> USE <1>6 DEF AddPeer
  <2>1. CASE p \in Entries
    BY <2>1 DEF cleanupVars, TypeOK, EntriesGood, PassLocked, Entries
  <2>2. CASE p \notin Entries
    <3>1. Good(NewEntry)
      BY PeerManagerAssumption
      DEF Good, NewEntry, PeerConnections, Tells, Linked
    <3>2. /\ peer_connections_'[p] = NewEntry
          /\ \A q \in Peers : q # p => peer_connections_'[q] = peer_connections_[q]
          /\ peer_connections_' \in [Peers -> PeerConnections \cup {NoEntry}]
      BY <2>2, <3>1 DEF Becomes, TypeOK, Good
    <3>3. Entries \subseteq Entries'
      BY <2>2, <3>2 DEF Entries
    <3>4. TypeOK'
      BY <3>2, <3>3 DEF TypeOK, cleanupVars
    <3>5. EntriesGood'
      BY <3>1, <3>2 DEF EntriesGood, Entries
    <3>6. PassLocked'
      BY DEF PassLocked, cleanupVars
    <3> QED BY <3>3, <3>4, <3>5, <3>6
  <2> QED BY <2>1, <2>2
<1> QED BY <1>1, <1>2, <1>3, <1>4, <1>5, <1>6 DEF Main

LEMMA ConnectKeeps ==
  ASSUME PeersInv, NEW p \in Entries, Connect(p)
  PROVE  Kept
<1> DEFINE k == peer_connections_[p]
<1>1. p \in Peers /\ Good(k) /\ connected_peers_ \in 0 .. UINT32 - 1
  BY EntryIsGood DEF PeersInv, TypeOK
<1>2. CASE ConnectStarts(p)
  <2>1. Good([Connecting(k) EXCEPT !.task = "connecting"])
    <3>1. /\ k.task = "spawned" /\ k.retries_left_ > 0 /\ ~ k.is_reconnecting
          /\ k.run = "none"
      BY <1>1, <1>2 DEF ConnectStarts, Good, Tells, Linked, PeerConnections
    <3> QED BY <1>1, <3>1, ConnectingIsGood
  <2> QED BY <1>1, <1>2, <2>1, EntryBecomes DEF ConnectStarts, cleanupVars
<1>3. ASSUME NEW ec, ConnectFails(p, ec)
      PROVE  Kept
  <2>1. Good([Failed(k, ec) EXCEPT !.task = "none"])
    BY <1>1, <1>3 DEF ConnectFails, Failed, Good, Tells, Linked, PeerConnections
  <2> QED BY <1>1, <1>3, <2>1, EntryBecomes DEF ConnectFails, cleanupVars
<1>4. CASE ConnectSucceeds(p)
  <2>1. Good([Connected(k) EXCEPT !.task = "none", !.run = "starting"])
    <3>1. k \in PeerConnections /\ ~ k.is_reconnecting
      BY <1>1, <1>4 DEF ConnectSucceeds, Good, Linked, PeerConnections
    <3> DEFINE n == Connected(k)
               m == [n EXCEPT !.task = "none", !.run = "starting"]
    <3>2. n \in PeerConnections /\ n.state_ = "CONNECTED" /\ ~ n.is_reconnecting
      BY <3>1, ConnectedTyped
    <3> HIDE DEF n
    <3>3. /\ m \in PeerConnections
          /\ m.state_ = "CONNECTED" /\ m.run = "starting" /\ m.task = "none"
          /\ ~ m.is_reconnecting
      BY <3>2 DEF PeerConnections
    <3>4. Good(m)
      BY <3>3, StartingIsGood
    <3> QED BY <3>4 DEF n
  <2> QED BY <1>1, <1>4, <2>1, EntryBecomes, CountWraps DEF ConnectSucceeds, cleanupVars
<1> QED BY <1>2, <1>3, <1>4 DEF Connect

\* What follows the loop of try_reconnection, for what the loop leaves.
LEMMA ReconnectionEndsKeeps ==
  ASSUME PeersInv, NEW p \in Entries, NEW k \in PeerConnections,
         k.run \notin {"starting", "running"},
         ReconnectionEnds(p, k), UNCHANGED <<mainVars, lock, cleanupVars, stopped>>
  PROVE  Kept
<1>1. p \in Peers /\ connected_peers_ \in 0 .. UINT32 - 1
  BY EntryIsGood DEF PeersInv, TypeOK
<1>2. CASE k.state_ # "CONNECTED" \/ connected_peers_ >= MAX_PEER_COUNT
  <2> DEFINE m == [k EXCEPT !.state_ = "DISCONNECTED", !.is_reconnecting = FALSE,
                            !.task = "none"]
  <2>1. Good(m)
    BY DEF Good, Tells, Linked, PeerConnections
  <2> QED BY <1>1, <1>2, <2>1, EntryBecomes DEF ReconnectionEnds, cleanupVars
<1>3. CASE ~ (k.state_ # "CONNECTED" \/ connected_peers_ >= MAX_PEER_COUNT)
  <2> DEFINE m == [k EXCEPT !.is_reconnecting = FALSE, !.task = "none",
                            !.run = "starting", !.on_utils = TRUE]
  <2>1. Good(m)
    <3>1. /\ m \in PeerConnections
          /\ m.state_ = "CONNECTED" /\ m.run = "starting" /\ m.task = "none"
          /\ ~ m.is_reconnecting
      BY <1>3 DEF PeerConnections
    <3> QED BY <3>1, StartingIsGood
  <2> QED BY <1>1, <1>3, <2>1, EntryBecomes, CountWraps DEF ReconnectionEnds, cleanupVars
<1> QED BY <1>2, <1>3

LEMMA ReconnectKeeps ==
  ASSUME PeersInv, NEW p \in Entries, Reconnect(p)
  PROVE  Kept
<1> DEFINE k == peer_connections_[p]
<1>1. /\ p \in Peers /\ Good(k) /\ k \in PeerConnections
      /\ connected_peers_ \in 0 .. UINT32 - 1
  BY EntryIsGood DEF PeersInv, TypeOK, Good
<1>2. CASE Retry(p)
  <2>1. /\ k.task = "retrying" /\ k.is_reconnecting
        /\ k.run \notin {"starting", "running"}
    BY <1>1, <1>2 DEF Retry, Good, Tells, Linked
  <2>2. CASE k.retries_left_ > 0 /\ connected_peers_ < MAX_PEER_COUNT
    <3>1. Good([Connecting(k) EXCEPT !.task = "reconnecting"])
      BY <1>1, <2>1, <2>2, ConnectingIsGood
    <3> QED BY <1>1, <1>2, <2>2, <3>1, EntryBecomes DEF Retry, cleanupVars
  <2>3. CASE ~ (k.retries_left_ > 0 /\ connected_peers_ < MAX_PEER_COUNT)
    BY <1>1, <1>2, <2>1, <2>3, ReconnectionEndsKeeps DEF Retry
  <2> QED BY <2>2, <2>3
<1>3. ASSUME NEW ec, ReconnectFails(p, ec)
      PROVE  Kept
  <2> DEFINE f == Failed(k, ec)
  <2>1. /\ f \in PeerConnections /\ f.task = "reconnecting" /\ f.is_reconnecting
        /\ f.state_ \in {"TIMED_OUT", "DISCONNECTED"}
        /\ f.run \notin {"starting", "running"}
    BY <1>1, <1>3 DEF ReconnectFails, Failed, Good, Tells, Linked, PeerConnections
  <2>2. CASE f.retries_left_ = 0
    BY <1>1, <1>3, <2>1, <2>2, ReconnectionEndsKeeps DEF ReconnectFails
  <2>3. CASE f.retries_left_ # 0
    <3>1. Good([f EXCEPT !.task = "retrying"])
      BY <2>1 DEF Good, Tells, Linked, PeerConnections
    <3> QED BY <1>1, <1>3, <2>3, <3>1, EntryBecomes DEF ReconnectFails, cleanupVars
  <2> QED BY <2>2, <2>3
<1>4. CASE ReconnectSucceeds(p)
  <2>1. Connected(k) \in PeerConnections /\ Connected(k).run = "none"
    BY <1>1, <1>4, ConnectedTyped DEF ReconnectSucceeds
  <2> QED BY <1>4, <2>1, ReconnectionEndsKeeps DEF ReconnectSucceeds
<1> QED BY <1>2, <1>3, <1>4 DEF Reconnect

LEMMA CleanupKeeps ==
  ASSUME PeersInv, CleanupStarts \/ CleanupLocks \/ CleanupSkips \/ PassEnds
  PROVE  Kept
<1> USE DEF PeersInv, Kept
<1>1. CASE CleanupStarts
  BY <1>1 DEF CleanupStarts, mainVars, TypeOK, EntriesGood, PassLocked, Entries
<1>2. CASE CleanupLocks
  BY <1>2 DEF CleanupLocks, mainVars, TypeOK, EntriesGood, PassLocked, Entries
<1>3. CASE CleanupSkips
  BY <1>3 DEF CleanupSkips, mainVars, TypeOK, EntriesGood, PassLocked, Entries
<1>4. CASE PassEnds
  BY <1>4 DEF PassEnds, mainVars, TypeOK, EntriesGood, PassLocked, Entries
<1> QED BY <1>1, <1>2, <1>3, <1>4

\* Subtracting a peer leaves a uint32_t.
LEMMA UncountTyped ==
  ASSUME connected_peers_ \in 0 .. UINT32 - 1, NEW counted, Uncount(counted)
  PROVE  connected_peers_' \in 0 .. UINT32 - 1
BY CountWraps DEF Uncount

LEMMA VisitKeeps ==
  ASSUME PeersInv, NEW p \in Entries, Visit(p)
  PROVE  /\ PeersInv'
         /\ \/ Entries \subseteq Entries'
            \/ VisitDisconnected(p) /\ Entries \ {p} \subseteq Entries'
<1> DEFINE k == peer_connections_[p]
<1>1. /\ p \in Peers /\ Good(k) /\ k \in PeerConnections
      /\ connected_peers_ \in 0 .. UINT32 - 1
  BY EntryIsGood DEF PeersInv, TypeOK, Good
<1>2. ASSUME p \in visiting
      PROVE  cleanup = "visiting"
  BY <1>2 DEF PeersInv, PassLocked
<1>3. CASE VisitDisconnected(p)
  <2> USE <1>3 DEF VisitDisconnected
  <2>1. /\ peer_connections_'[p] = NoEntry
        /\ \A q \in Peers : q # p => peer_connections_'[q] = peer_connections_[q]
        /\ peer_connections_' \in [Peers -> PeerConnections \cup {NoEntry}]
    BY <1>1 DEF Becomes, PeersInv, TypeOK
  <2>2. Entries' = Entries \ {p}
    BY <2>1 DEF Entries
  <2>3. connected_peers_' \in 0 .. UINT32 - 1
    BY <1>1, UncountTyped
  <2>4. TypeOK'
    BY <2>1, <2>2, <2>3 DEF PeersInv, TypeOK, mainVars
  <2>5. EntriesGood'
    BY <2>1, <2>2 DEF PeersInv, EntriesGood, Entries
  <2>6. PassLocked'
    BY <1>2 DEF PeersInv, PassLocked, mainVars
  <2> QED BY <2>2, <2>4, <2>5, <2>6 DEF PeersInv
<1>4. CASE VisitTimedOut(p)
  <2>1. Good([k EXCEPT !.is_reconnecting = TRUE, !.task = "retrying"])
    BY <1>1, <1>4 DEF VisitTimedOut, Good, Tells, Linked, PeerConnections
  <2>2. connected_peers_' \in 0 .. UINT32 - 1
    BY <1>1, <1>4, UncountTyped DEF VisitTimedOut
  <2> QED BY <1>2, <1>4, <2>1, <2>2, EntryBecomes DEF VisitTimedOut, Kept
<1>5. CASE VisitOther(p)
  BY <1>2, <1>5 DEF VisitOther, mainVars, PeersInv, TypeOK, EntriesGood, PassLocked, Entries
<1> QED BY <1>3, <1>4, <1>5 DEF Visit

LEMMA RunKeeps ==
  ASSUME PeersInv, NEW p \in Entries, Run(p)
  PROVE  Kept
<1> DEFINE k == peer_connections_[p]
<1>1. /\ p \in Peers /\ Good(k) /\ k \in PeerConnections
      /\ connected_peers_ \in 0 .. UINT32 - 1
  BY EntryIsGood DEF PeersInv, TypeOK, Good
<1>2. ASSUME NEW m, Good(m), RunBecomes(p, m)
      PROVE  Kept
  BY <1>1, <1>2, EntryBecomes DEF RunBecomes, cleanupVars
<1>3. ASSUME NEW ec, RunFailsToStart(p, ec)
      PROVE  Kept
  <2>1. Good([Failed(k, ec) EXCEPT !.run = "returning"])
    BY <1>1, <1>3 DEF RunFailsToStart, RunAt, Failed, Good, Tells, Linked, PeerConnections
  <2> QED BY <1>2, <1>3, <2>1 DEF RunFailsToStart
<1>4. CASE RunStarts(p)
  <2>1. Good([k EXCEPT !.state_ = "RUNNING", !.run = "running"])
    BY <1>1, <1>4 DEF RunStarts, RunAt, Good, Tells, Linked, PeerConnections
  <2> QED BY <1>2, <1>4, <2>1 DEF RunStarts
<1>5. ASSUME NEW ec, RunFails(p, ec)
      PROVE  Kept
  <2>1. Good([Failed(k, ec) EXCEPT !.run = "winding"])
    BY <1>1, <1>5 DEF RunFails, RunAt, Failed, Good, Tells, Linked, PeerConnections
  <2> QED BY <1>2, <1>5, <2>1 DEF RunFails
<1>6. CASE RunWindsDown(p)
  <2>1. PICK aborted \in BOOLEAN :
          RunBecomes(p, [IF aborted THEN Failed(k, "aborted") ELSE k
                         EXCEPT !.run = "none", !.on_utils = FALSE])
    BY <1>6 DEF RunWindsDown
  <2>2. k.run = "winding" /\ k.state_ \notin {"CONNECTED", "RUNNING"}
    BY <1>1, <1>6 DEF RunWindsDown, RunAt, Good, Tells
  <2>3. CASE aborted
    <3>1. Good([Failed(k, "aborted") EXCEPT !.run = "none", !.on_utils = FALSE])
      BY <1>1, <2>2 DEF Failed, Good, Tells, Linked, PeerConnections
    <3> QED BY <1>2, <2>1, <2>3, <3>1
  <2>4. CASE ~ aborted
    <3>1. Good([k EXCEPT !.run = "none", !.on_utils = FALSE])
      BY <1>1, <2>2 DEF Good, Tells, Linked, PeerConnections
    <3> QED BY <1>2, <2>1, <2>4, <3>1
  <2> QED BY <2>3, <2>4
<1>7. CASE RunReturns(p)
  <2>1. k.run = "returning" /\ k.state_ \notin {"CONNECTED", "RUNNING"}
    BY <1>1, <1>7 DEF RunReturns, RunAt, Good, Tells
  <2>2. Good([k EXCEPT !.run = "none", !.on_utils = FALSE])
    BY <1>1, <2>1 DEF Good, Tells, Linked, PeerConnections
  <2> QED BY <1>2, <1>7, <2>2 DEF RunReturns
<1> QED BY <1>3, <1>4, <1>5, <1>6, <1>7 DEF Run
-----------------------------------------------------------------------------
(* Theorems *)

LEMMA PeersInvStep == PeersInv /\ [Next]_vars => PeersInv'
<1> SUFFICES ASSUME PeersInv, [Next]_vars
             PROVE  PeersInv'
  OBVIOUS
<1>1. CASE Main
  BY <1>1, MainKeeps DEF Kept
<1>2. CASE CleanupStarts \/ CleanupLocks \/ CleanupSkips \/ PassEnds
  BY <1>2, CleanupKeeps DEF Kept
<1>3. ASSUME NEW p \in Entries, Visit(p) \/ Connect(p) \/ Reconnect(p) \/ Run(p)
      PROVE  PeersInv'
  BY <1>3, VisitKeeps, ConnectKeeps, ReconnectKeeps, RunKeeps DEF Kept
<1>4. CASE UNCHANGED vars
  BY <1>4 DEF vars, mainVars, cleanupVars, PeersInv, TypeOK, EntriesGood, PassLocked, Entries
<1> QED BY <1>1, <1>2, <1>3, <1>4 DEF Next, Terminated

LEMMA OnlyVisitErases ==
  ASSUME PeersInv, Next, NEW p \in Entries, p \notin Entries'
  PROVE  VisitDisconnected(p)
<1>1. CASE Main \/ CleanupStarts \/ CleanupLocks \/ CleanupSkips \/ PassEnds
  BY <1>1, MainKeeps, CleanupKeeps DEF Kept
<1>2. ASSUME NEW q \in Entries, Connect(q) \/ Reconnect(q) \/ Run(q)
      PROVE  FALSE
  BY <1>2, ConnectKeeps, ReconnectKeeps, RunKeeps DEF Kept
<1>3. ASSUME NEW q \in Entries, Visit(q)
      PROVE  VisitDisconnected(p)
  BY <1>3, VisitKeeps
<1>4. CASE Terminated
  BY <1>4 DEF Terminated, vars, Entries
<1> QED BY <1>1, <1>2, <1>3, <1>4 DEF Next

LEMMA PeersInvAlways == Spec => []PeersInv
<1>1. ASSUME Init
      PROVE  PeersInv
  <2>1. Entries = {}
    BY <1>1 DEF Init, Entries
  <2>2. TypeOK
    <3>1. 0 \in 0 .. UINT32 - 1
      BY PeerManagerAssumption
    <3>2. peer_connections_ \in [Peers -> PeerConnections \cup {NoEntry}]
      BY <1>1 DEF Init
    <3> QED BY <1>1, <3>1, <3>2 DEF Init, TypeOK
  <2>3. EntriesGood /\ PassLocked
    BY <1>1, <2>1 DEF Init, EntriesGood, PassLocked
  <2> QED BY <2>2, <2>3 DEF PeersInv
<1> QED BY <1>1, PeersInvStep, PTL DEF Spec

\* Every member of PeerManager keeps its type: retries_left_ never falls below
\* zero, and no pass of cleanup_peer_connections stands on an erased entry.
THEOREM PeersTypeCorrect == Spec => []TypeOK
BY PeersInvAlways, PTL DEF PeersInv

\* For any number of peers, state_ tells cleanup_peer_connections what still
\* happens to a connection.
THEOREM StateAlwaysTells == Spec => []StateTellsActivity
<1>1. PeersInv => StateTellsActivity
  BY DEF PeersInv, EntriesGood, Good, StateTellsActivity
<1> QED BY <1>1, PeersInvAlways, PTL

\* An entry leaves the map only by the hand of cleanup, and never while connect
\* or try_reconnection hold a reference to it.
THEOREM ErasesOnlyIdle == Spec => OnlyIdleErased
<1> DEFINE A == \A p \in Peers :
       peer_connections_[p] # NoEntry /\ peer_connections_'[p] = NoEntry =>
         /\ peer_connections_[p].task = "none"
         /\ peer_connections_[p].run \in {"none", "winding", "returning"}
<1>1. PeersInv /\ [Next]_vars => [A]_vars
  <2> SUFFICES ASSUME PeersInv, Next, NEW p \in Peers,
                      peer_connections_[p] # NoEntry, peer_connections_'[p] = NoEntry
               PROVE  /\ peer_connections_[p].task = "none"
                      /\ peer_connections_[p].run \in {"none", "winding", "returning"}
    OBVIOUS
  <2>1. p \in Entries /\ Good(peer_connections_[p])
    BY EntryIsGood DEF Entries
  <2>2. p \notin Entries'
    BY DEF Entries
  <2>3. VisitDisconnected(p)
    BY <2>1, <2>2, OnlyVisitErases
  <2> QED BY <2>1, <2>3 DEF VisitDisconnected, Good, Tells, Linked, PeerConnections
<1> QED BY <1>1, PeersInvAlways, PTL DEF Spec, OnlyIdleErased

-----------------------------------------------------------------------------
(* Wire: sequences of bytes *)

\* A stream is made of the bytes of some messages, one behind the other: left[n]
\* is what is left of it behind the first n.
Spells(seq, enc, ms) ==
  \E left \in [0 .. Len(ms) -> Seq(Byte)] :
    /\ left[0] = seq /\ left[Len(ms)] = <<>>
    /\ \A n \in 1 .. Len(ms) : left[n - 1] = enc[ms[n]] \o left[n]

\* Dropping the first n bytes.
LEMMA DropFacts ==
  ASSUME NEW S, NEW s \in Seq(S), NEW n \in 0 .. Len(s)
  PROVE  /\ Drop(s, n) \in Seq(S)
         /\ Len(Drop(s, n)) = Len(s) - n
         /\ \A i \in 1 .. Len(s) - n : Drop(s, n)[i] = s[i + n]
         /\ SubSeq(s, 1, n) \in Seq(S)
         /\ Len(SubSeq(s, 1, n)) = n
         /\ \A i \in 1 .. n : SubSeq(s, 1, n)[i] = s[i]
         /\ s = SubSeq(s, 1, n) \o Drop(s, n)
<1>1. Len(s) \in Nat /\ \A i \in 1 .. Len(s) : s[i] \in S
  BY LenProperties, ElementOfSeq
<1>2. /\ Drop(s, n) \in Seq(S)
      /\ Len(Drop(s, n)) = IF n + 1 <= Len(s) THEN Len(s) - (n + 1) + 1 ELSE 0
      /\ \A i \in 1 .. Len(s) - (n + 1) + 1 : Drop(s, n)[i] = s[n + 1 + i - 1]
  <2> DEFINE m == n + 1
  <2>1. m \in Int /\ Len(s) \in Int /\ \A i \in m .. Len(s) : s[i] \in S
    BY <1>1
  <2> HIDE DEF m
  <2>2. /\ SubSeq(s, m, Len(s)) \in Seq(S)
        /\ Len(SubSeq(s, m, Len(s))) = IF m <= Len(s) THEN Len(s) - m + 1 ELSE 0
        /\ \A i \in 1 .. Len(s) - m + 1 : SubSeq(s, m, Len(s))[i] = s[m + i - 1]
    BY <2>1, SubSeqProperties
  <2> QED BY <2>2 DEF m, Drop
<1>3. /\ SubSeq(s, 1, n) \in Seq(S)
      /\ Len(SubSeq(s, 1, n)) = IF 1 <= n THEN n - 1 + 1 ELSE 0
      /\ \A i \in 1 .. n - 1 + 1 : SubSeq(s, 1, n)[i] = s[1 + i - 1]
  <2>1. 1 \in Int /\ n \in Int /\ \A i \in 1 .. n : s[i] \in S
    BY <1>1
  <2> QED BY <2>1, SubSeqProperties
<1>4. SubSeq(s, 1, n) \o Drop(s, n) = SubSeq(s, 1, Len(s))
  <2>1. 1 \in 1 .. Len(s) + 1 /\ n \in 1 - 1 .. Len(s) /\ Len(s) \in n .. Len(s)
    BY <1>1
  <2> QED BY <2>1, ConcatAdjacentSubSeq DEF Drop
<1>5. s = SubSeq(s, 1, Len(s))
  BY SubSeqFull
<1>6. \A i \in 1 .. Len(s) - n : i \in 1 .. Len(s) - (n + 1) + 1 /\ n + 1 + i - 1 = i + n
  BY <1>1
<1>7. \A i \in 1 .. n : i \in 1 .. n - 1 + 1 /\ 1 + i - 1 = i
  BY <1>1
<1>8. Len(Drop(s, n)) = Len(s) - n /\ Len(SubSeq(s, 1, n)) = n
  BY <1>1, <1>2, <1>3
<1> QED BY <1>2, <1>3, <1>4, <1>5, <1>6, <1>7, <1>8

\* What comes behind the first part of a stream.
LEMMA DropFront ==
  ASSUME NEW S, NEW s \in Seq(S), NEW t \in Seq(S)
  PROVE  /\ SubSeq(s \o t, 1, Len(s)) = s
         /\ Drop(s \o t, Len(s)) = t
<1>1. /\ Len(s) \in Nat /\ Len(t) \in Nat
      /\ s \o t \in Seq(S) /\ Len(s \o t) = Len(s) + Len(t)
      /\ \A i \in 1 .. Len(s) + Len(t) :
           (s \o t)[i] = IF i <= Len(s) THEN s[i] ELSE t[i - Len(s)]
  BY LenProperties, ConcatProperties
<1>2. Len(s) \in 0 .. Len(s \o t)
  BY <1>1
<1>3. /\ Drop(s \o t, Len(s)) \in Seq(S) /\ Len(Drop(s \o t, Len(s))) = Len(t)
      /\ \A i \in 1 .. Len(t) : Drop(s \o t, Len(s))[i] = (s \o t)[i + Len(s)]
      /\ SubSeq(s \o t, 1, Len(s)) \in Seq(S) /\ Len(SubSeq(s \o t, 1, Len(s))) = Len(s)
      /\ \A i \in 1 .. Len(s) : SubSeq(s \o t, 1, Len(s))[i] = (s \o t)[i]
  <2> DEFINE st == s \o t
  <2>1. Len(st) - Len(s) = Len(t) /\ st \in Seq(S) /\ Len(s) \in 0 .. Len(st)
    BY <1>1
  <2> HIDE DEF st
  <2>2. /\ Drop(st, Len(s)) \in Seq(S) /\ Len(Drop(st, Len(s))) = Len(st) - Len(s)
        /\ \A i \in 1 .. Len(st) - Len(s) : Drop(st, Len(s))[i] = st[i + Len(s)]
        /\ SubSeq(st, 1, Len(s)) \in Seq(S) /\ Len(SubSeq(st, 1, Len(s))) = Len(s)
        /\ \A i \in 1 .. Len(s) : SubSeq(st, 1, Len(s))[i] = st[i]
    BY <2>1, DropFacts
  <2> QED BY <2>1, <2>2 DEF st
<1>4. \A i \in 1 .. Len(t) : Drop(s \o t, Len(s))[i] = t[i]
  BY <1>1, <1>3
<1>5. \A i \in 1 .. Len(s) : SubSeq(s \o t, 1, Len(s))[i] = s[i]
  BY <1>1, <1>3
<1> QED BY <1>3, <1>4, <1>5, SeqEqual

\* No message, no bytes.
LEMMA SpellsNothing ==
  ASSUME NEW enc, NEW seq
  PROVE  Spells(seq, enc, <<>>) <=> seq = <<>>
<1>1. Len(<<>>) = 0 /\ <<>> \in Seq(Byte)
  BY EmptySeq
<1>2. ASSUME seq = <<>> PROVE Spells(seq, enc, <<>>)
  <2> DEFINE left == [n \in 0 .. 0 |-> <<>>]
  <2>1. left \in [0 .. Len(<<>>) -> Seq(Byte)] /\ left[0] = seq /\ left[Len(<<>>)] = <<>>
    BY <1>1, <1>2
  <2>2. 1 .. Len(<<>>) = {}
    BY <1>1
  <2> QED BY <2>1, <2>2 DEF Spells
<1>3. ASSUME Spells(seq, enc, <<>>) PROVE seq = <<>>
  BY <1>1, <1>3 DEF Spells
<1> QED BY <1>2, <1>3

\* The bytes of the first message come first, then those of the others.
LEMMA SpellsFirst ==
  ASSUME NEW M, NEW enc \in [M -> Seq(Byte)], NEW ms \in Seq(M), ms # <<>>,
         NEW seq, Spells(seq, enc, ms)
  PROVE  /\ ms[1] \in M /\ Tail(ms) \in Seq(M)
         /\ \E rest \in Seq(Byte) : /\ seq = enc[ms[1]] \o rest
                                    /\ Spells(rest, enc, Tail(ms))
<1> DEFINE others == Tail(ms)
<1>1. /\ Len(ms) \in Nat \ {0} /\ others \in Seq(M) /\ Len(others) = Len(ms) - 1
      /\ \A n \in 1 .. Len(others) : others[n] = ms[n + 1]
      /\ ms[1] \in M
  BY EmptySeq, HeadTailProperties, ElementOfSeq
<1> HIDE DEF others
<1>2. PICK left \in [0 .. Len(ms) -> Seq(Byte)] :
        /\ left[0] = seq /\ left[Len(ms)] = <<>>
        /\ \A n \in 1 .. Len(ms) : left[n - 1] = enc[ms[n]] \o left[n]
  BY DEF Spells
<1>3. left[1] \in Seq(Byte) /\ seq = enc[ms[1]] \o left[1]
  <2>1. 1 \in 0 .. Len(ms) /\ 1 \in 1 .. Len(ms) /\ 1 - 1 = 0
    BY <1>1
  <2>2. left[1 - 1] = enc[ms[1]] \o left[1]
    BY <1>2, <2>1
  <2> QED BY <1>2, <2>1, <2>2
<1>4. Spells(left[1], enc, others)
  <2> DEFINE new == [n \in 0 .. Len(others) |-> left[n + 1]]
  <2>1. \A n \in 0 .. Len(others) : n + 1 \in 1 .. Len(ms) /\ n + 1 \in 0 .. Len(ms)
    BY <1>1
  <2>2. new \in [0 .. Len(others) -> Seq(Byte)]
    BY <1>2, <2>1
  <2>3. new[0] = left[1] /\ new[Len(others)] = <<>>
    <3>1. 0 \in 0 .. Len(others) /\ Len(others) \in 0 .. Len(others) /\ Len(others) + 1 = Len(ms)
      BY <1>1
    <3> QED BY <1>2, <3>1
  <2>4. ASSUME NEW n \in 1 .. Len(others) PROVE new[n - 1] = enc[others[n]] \o new[n]
    <3>1. /\ n - 1 \in 0 .. Len(others) /\ n \in 0 .. Len(others) /\ n - 1 + 1 = n
          /\ n + 1 \in 1 .. Len(ms) /\ n + 1 - 1 = n
      BY <1>1
    <3>2. left[n] = enc[ms[n + 1]] \o left[n + 1]
      <4> DEFINE k == n + 1
      <4>1. k \in 1 .. Len(ms) /\ k - 1 = n
        BY <3>1
      <4> HIDE DEF k
      <4>2. left[k - 1] = enc[ms[k]] \o left[k]
        BY <1>2, <4>1
      <4> QED BY <4>1, <4>2 DEF k
    <3>3. new[n - 1] = left[n] /\ new[n] = left[n + 1] /\ others[n] = ms[n + 1]
      BY <1>1, <3>1
    <3> QED BY <3>1, <3>2, <3>3
  <2> HIDE DEF new
  <2> QED BY <2>2, <2>3, <2>4 DEF Spells
<1> QED BY <1>1, <1>3, <1>4 DEF others

\* Bytes may be put together in any order.
LEMMA BytesAssociate ==
  ASSUME NEW x \in Seq(Byte), NEW y \in Seq(Byte), NEW z \in Seq(Byte)
  PROVE  (x \o y) \o z = x \o (y \o z)
BY ConcatAssociative

\* One stream behind another.
LEMMA SpellsJoin ==
  ASSUME NEW M, NEW enc \in [M -> Seq(Byte)], NEW ms \in Seq(M), NEW ks \in Seq(M),
         NEW s \in Seq(Byte), NEW t \in Seq(Byte),
         Spells(s, enc, ms), Spells(t, enc, ks)
  PROVE  Spells(s \o t, enc, ms \o ks)
<1> DEFINE all == ms \o ks
<1>1. /\ Len(ms) \in Nat /\ Len(ks) \in Nat /\ Len(all) = Len(ms) + Len(ks)
      /\ \A n \in 1 .. Len(ms) + Len(ks) : all[n] = IF n <= Len(ms) THEN ms[n] ELSE ks[n - Len(ms)]
      /\ \A n \in 1 .. Len(ms) : ms[n] \in M
  BY LenProperties, ConcatProperties, ElementOfSeq
<1> HIDE DEF all
<1>2. PICK a \in [0 .. Len(ms) -> Seq(Byte)] :
        /\ a[0] = s /\ a[Len(ms)] = <<>>
        /\ \A n \in 1 .. Len(ms) : a[n - 1] = enc[ms[n]] \o a[n]
  BY DEF Spells
<1>3. PICK b \in [0 .. Len(ks) -> Seq(Byte)] :
        /\ b[0] = t /\ b[Len(ks)] = <<>>
        /\ \A n \in 1 .. Len(ks) : b[n - 1] = enc[ks[n]] \o b[n]
  BY DEF Spells
<1> DEFINE left == [n \in 0 .. Len(all) |-> IF n <= Len(ms) THEN a[n] \o t ELSE b[n - Len(ms)]]
<1>4. \A n \in 0 .. Len(all) :
        /\ n <= Len(ms) => n \in 0 .. Len(ms) /\ left[n] = a[n] \o t
        /\ n > Len(ms) => n - Len(ms) \in 0 .. Len(ks) /\ left[n] = b[n - Len(ms)]
  BY <1>1
<1> HIDE DEF left
<1>5. left[Len(ms)] = b[0]
  <2>1. Len(ms) \in 0 .. Len(all) /\ Len(ms) <= Len(ms)
    BY <1>1
  <2>2. <<>> \o t = t
    BY ConcatEmptySeq
  <2> QED BY <1>2, <1>3, <1>4, <2>1, <2>2
<1>6. \A n \in 0 .. Len(all) : n >= Len(ms) => left[n] = b[n - Len(ms)]
  <2> SUFFICES ASSUME NEW n \in 0 .. Len(all), n >= Len(ms) PROVE left[n] = b[n - Len(ms)]
    OBVIOUS
  <2>1. CASE n = Len(ms)
    BY <1>1, <1>5, <2>1
  <2>2. CASE n # Len(ms)
    <3>1. n > Len(ms)
      BY <1>1, <2>2
    <3> QED BY <1>4, <3>1
  <2> QED BY <2>1, <2>2
<1>7. left \in [0 .. Len(all) -> Seq(Byte)]
  <2>1. \A u \in Seq(Byte) : u \o t \in Seq(Byte)
    BY ConcatProperties
  <2>2. ASSUME NEW n \in 0 .. Len(all) PROVE left[n] \in Seq(Byte)
    <3>1. CASE n <= Len(ms)
      BY <1>2, <1>4, <2>1, <3>1
    <3>2. CASE n > Len(ms)
      BY <1>3, <1>4, <3>2
    <3> QED BY <1>1, <3>1, <3>2
  <2> QED BY <2>2 DEF left
<1>8. left[0] = s \o t /\ left[Len(all)] = <<>>
  <2>1. 0 \in 0 .. Len(all) /\ Len(all) \in 0 .. Len(all) /\ 0 <= Len(ms)
        /\ Len(all) >= Len(ms) /\ Len(all) - Len(ms) = Len(ks)
    BY <1>1
  <2> QED BY <1>2, <1>3, <1>4, <1>6, <2>1
<1>9. ASSUME NEW n \in 1 .. Len(all) PROVE left[n - 1] = enc[all[n]] \o left[n]
  <2>1. CASE n <= Len(ms)
    <3>1. /\ n \in 1 .. Len(ms) /\ n - 1 \in 0 .. Len(all) /\ n \in 0 .. Len(all)
          /\ n - 1 <= Len(ms) /\ n \in 0 .. Len(ms) /\ n \in 1 .. Len(ms) + Len(ks)
      BY <1>1, <2>1
    <3>2. left[n - 1] = a[n - 1] \o t /\ left[n] = a[n] \o t /\ all[n] = ms[n]
      BY <1>1, <1>4, <2>1, <3>1
    <3>3. a[n - 1] = enc[ms[n]] \o a[n]
      BY <1>2, <3>1
    <3>4. enc[ms[n]] \in Seq(Byte) /\ a[n] \in Seq(Byte)
      BY <1>1, <1>2, <3>1
    <3>5. (enc[ms[n]] \o a[n]) \o t = enc[ms[n]] \o (a[n] \o t)
      BY <3>4, BytesAssociate
    <3> QED BY <3>2, <3>3, <3>5
  <2>2. CASE n > Len(ms)
    <3> DEFINE k == n - Len(ms)
    <3>1. /\ k \in 1 .. Len(ks) /\ n - 1 \in 0 .. Len(all) /\ n \in 0 .. Len(all)
          /\ n - 1 - Len(ms) = k - 1 /\ n \in 1 .. Len(ms) + Len(ks)
          /\ n - 1 >= Len(ms) /\ n >= Len(ms) /\ ~ (n <= Len(ms))
      BY <1>1, <2>2
    <3>2. left[n - 1] = b[k - 1] /\ left[n] = b[k] /\ all[n] = ks[k]
      BY <1>1, <1>6, <3>1
    <3> HIDE DEF k
    <3>3. b[k - 1] = enc[ks[k]] \o b[k]
      BY <1>3, <3>1
    <3> QED BY <3>2, <3>3
  <2>3. n <= Len(ms) \/ n > Len(ms)
    BY <1>1
  <2> QED BY <2>1, <2>2, <2>3
<1> QED BY <1>7, <1>8, <1>9 DEF Spells, all

\* The bytes of one message.
LEMMA SpellsOne ==
  ASSUME NEW M, NEW enc \in [M -> Seq(Byte)], NEW m \in M
  PROVE  Spells(enc[m], enc, <<m>>)
<1>1. Len(<<m>>) = 1 /\ <<m>>[1] = m /\ enc[m] \in Seq(Byte) /\ <<>> \in Seq(Byte)
  BY EmptySeq
<1> DEFINE left == [n \in 0 .. 1 |-> IF n = 0 THEN enc[m] ELSE <<>>]
<1>2. left \in [0 .. 1 -> Seq(Byte)] /\ left[0] = enc[m] /\ left[1] = <<>>
  BY <1>1
<1> HIDE DEF left
<1>3. 1 .. 1 = {1} /\ 1 - 1 = 0
  OBVIOUS
<1>4. enc[m] \o <<>> = enc[m]
  BY <1>1, ConcatEmptySeq
<1> QED BY <1>1, <1>2, <1>3, <1>4 DEF Spells

-----------------------------------------------------------------------------
\* The bytes in the middle of three parts.
LEMMA Middle ==
  ASSUME NEW x \in Seq(Byte), NEW y \in Seq(Byte), NEW z \in Seq(Byte)
  PROVE  SubSeq(x \o y \o z, Len(x) + 1, Len(x) + Len(y)) = y
<1> DEFINE all == x \o y \o z
           a == Len(x) + 1
           b == Len(x) + Len(y)
<1>1. Len(x) \in Nat /\ Len(y) \in Nat /\ Len(z) \in Nat
  BY LenProperties
<1>2. /\ x \o y \in Seq(Byte) /\ Len(x \o y) = b
      /\ \A i \in 1 .. Len(x) + Len(y) : (x \o y)[i] = IF i <= Len(x) THEN x[i] ELSE y[i - Len(x)]
  BY ConcatProperties
<1>3. /\ all \in Seq(Byte) /\ Len(all) = b + Len(z)
      /\ \A i \in 1 .. b + Len(z) : all[i] = IF i <= b THEN (x \o y)[i] ELSE z[i - b]
  <2> DEFINE xy == x \o y
  <2>1. xy \in Seq(Byte) /\ Len(xy) = b
    BY <1>2
  <2> HIDE DEF xy, b
  <2>2. /\ xy \o z \in Seq(Byte) /\ Len(xy \o z) = Len(xy) + Len(z)
        /\ \A i \in 1 .. Len(xy) + Len(z) : (xy \o z)[i] = IF i <= Len(xy) THEN xy[i] ELSE z[i - Len(xy)]
    BY <2>1, ConcatProperties
  <2> QED BY <2>1, <2>2 DEF xy
<1>4. \A i \in 1 .. Len(y) : /\ i + Len(x) \in 1 .. b + Len(z) /\ i + Len(x) <= b
                             /\ i + Len(x) \in 1 .. Len(x) + Len(y)
                             /\ ~ (i + Len(x) <= Len(x)) /\ i + Len(x) - Len(x) = i
  BY <1>1
<1>5. \A i \in 1 .. Len(y) : all[i + Len(x)] = y[i]
  BY <1>2, <1>3, <1>4
<1> HIDE DEF all
<1>6. \A i \in 1 .. b - a + 1 : a + i - 1 = i + Len(x) /\ i \in 1 .. Len(y)
  BY <1>1
<1>7. /\ a \in Int /\ b \in Int /\ b - a + 1 = Len(y) /\ (IF a <= b THEN b - a + 1 ELSE 0) = Len(y)
      /\ \A i \in a .. b : i \in 1 .. Len(all)
  BY <1>1, <1>3
<1>8. \A i \in a .. b : all[i] \in Byte
  BY <1>3, <1>7, ElementOfSeq
<1> HIDE DEF a, b
<1>9. /\ SubSeq(all, a, b) \in Seq(Byte) /\ Len(SubSeq(all, a, b)) = Len(y)
      /\ \A i \in 1 .. b - a + 1 : SubSeq(all, a, b)[i] = all[a + i - 1]
  BY <1>7, <1>8, SubSeqProperties
<1>10. \A i \in 1 .. Len(y) : SubSeq(all, a, b)[i] = y[i]
  BY <1>5, <1>6, <1>7, <1>9
<1>11. SubSeq(all, a, b) = y
  BY <1>9, <1>10, SeqEqual
<1> QED BY <1>11 DEF all, a, b

\* Putting bytes together.
LEMMA Bytes ==
  ASSUME NEW x \in Seq(Byte), NEW y \in Seq(Byte)
  PROVE  /\ x \o y \in Seq(Byte)
         /\ Len(x \o y) = Len(x) + Len(y)
         /\ Len(x) \in Nat
         /\ x \o <<>> = x /\ <<>> \o x = x
BY ConcatProperties, LenProperties, ConcatEmptySeq

\* A byte alone.
LEMMA OneByte ==
  ASSUME NEW b \in Byte
  PROVE  <<b>> \in Seq(Byte) /\ Len(<<b>>) = 1 /\ <<b>>[1] = b
OBVIOUS

\* Four bytes from one end or the other.
LEMMA WordReversed ==
  ASSUME NEW w \in UInt32
  PROVE  /\ w \in Seq(Byte) /\ Len(w) = 4
         /\ host_to_network_order(w) = BigEndian(w)
         /\ BigEndian(w) \in Seq(Byte) /\ BigEndian(w) \in UInt32 /\ Len(BigEndian(w)) = 4
         /\ BigEndian(BigEndian(w)) = w
<1>1. w \in Seq(Byte)
  <2>1. \A n \in Nat : [1 .. n -> Byte] \subseteq Seq(Byte)
    BY SeqDef
  <2> QED BY <2>1 DEF UInt32
<1>2. Len(w) = 4
  BY <1>1, LenProperties DEF UInt32
<1>3. /\ w[1] \in Byte /\ w[2] \in Byte /\ w[3] \in Byte /\ w[4] \in Byte
  BY DEF UInt32
<1>4. /\ BigEndian(w) \in Seq(Byte) /\ Len(BigEndian(w)) = 4
      /\ BigEndian(w)[1] = w[4] /\ BigEndian(w)[2] = w[3]
      /\ BigEndian(w)[3] = w[2] /\ BigEndian(w)[4] = w[1]
  BY <1>3 DEF BigEndian
<1>5. BigEndian(w) \in UInt32
  BY <1>4, LenProperties DEF UInt32
<1>6. BigEndian(BigEndian(w)) = w
  <2>1. /\ BigEndian(BigEndian(w)) \in Seq(Byte) /\ Len(BigEndian(BigEndian(w))) = 4
        /\ BigEndian(BigEndian(w))[1] = w[1] /\ BigEndian(BigEndian(w))[2] = w[2]
        /\ BigEndian(BigEndian(w))[3] = w[3] /\ BigEndian(BigEndian(w))[4] = w[4]
    BY <1>3, <1>4 DEF BigEndian
  <2>2. \A i \in 1 .. 4 : BigEndian(BigEndian(w))[i] = w[i]
    BY <2>1
  <2> QED BY <1>1, <1>2, <2>1, <2>2, SeqEqual
<1>7. host_to_network_order(w) = BigEndian(w)
  <2> DEFINE r == host_to_network_order(w)
  <2>1. r = [i \in 1 .. 4 |-> w[4 - i + 1]]
    BY <1>2 DEF host_to_network_order, Reverse
  <2>2. r[1] = w[4] /\ r[2] = w[3] /\ r[3] = w[2] /\ r[4] = w[1]
    BY <2>1
  <2>3. r \in [1 .. 4 -> Byte]
    BY <1>3, <2>1
  <2>4. r \in Seq(Byte) /\ Len(r) = 4
    <3>1. \A n \in Nat : [1 .. n -> Byte] \subseteq Seq(Byte)
      BY SeqDef
    <3>2. r \in Seq(Byte)
      BY <2>3, <3>1
    <3> QED BY <2>3, <3>2, LenProperties
  <2>5. \A i \in 1 .. 4 : r[i] = BigEndian(w)[i]
    BY <1>4, <2>2
  <2> HIDE DEF r
  <2>6. r = BigEndian(w)
    BY <1>4, <2>4, <2>5, SeqEqual
  <2> QED BY <2>6 DEF r
<1> QED BY <1>1, <1>2, <1>4, <1>5, <1>6, <1>7

\* A number is the value of its four bytes.
LEMMA WordOfNumber ==
  ASSUME NEW n \in Nat, n < 2147483648
  PROVE  Word(n) \in UInt32 /\ WordValue(Word(n)) = n
<1> DEFINE a == n % 256
           b == (n \div 256) % 256
           c == (n \div 65536) % 256
           d == n \div 16777216
<1>1. n \in Nat /\ n < 2147483648
  OBVIOUS
<1>2. a \in 0 .. 255
  BY <1>1, SMT
<1>3. b \in 0 .. 255
  BY <1>1, SMT
<1>4. c \in 0 .. 255
  BY <1>1, SMT
<1>5. d \in 0 .. 255
  BY <1>1, SMT
<1>6. n = a + 256 * b + 65536 * c + 16777216 * d
  BY <1>1, SMTT(60)
<1>7. Word(n) = <<a, b, c, d>>
  BY SMT DEF Word
<1> HIDE DEF a, b, c, d
<1>8. <<a, b, c, d>> \in UInt32
  BY <1>2, <1>3, <1>4, <1>5, SMT DEF UInt32, Byte
<1>9. WordValue(<<a, b, c, d>>) = n
  BY <1>6, SMT DEF WordValue
<1> QED BY <1>7, <1>8, <1>9, SMT

\* The bytes of the first of two parts.
LEMMA FrontBytes ==
  ASSUME NEW x \in Seq(Byte), NEW y \in Seq(Byte), NEW i \in 1 .. Len(x)
  PROVE  (x \o y)[i] = x[i]
<1>1. Len(x) \in Nat /\ Len(y) \in Nat
  BY LenProperties
<1>2. i \in 1 .. Len(x) + Len(y) /\ i <= Len(x)
  BY <1>1
<1>3. \A k \in 1 .. Len(x) + Len(y) : (x \o y)[k] = IF k <= Len(x) THEN x[k] ELSE y[k - Len(x)]
  BY ConcatProperties
<1> QED BY <1>2, <1>3

\* The parts of a message, and what is left when some have been read.
FrameParts(w, one, p, r) ==
  LET f == w \o one \o p
  IN /\ f \in Seq(Byte) /\ Len(f) = 5 + Len(p) /\ Len(f \o r) = 5 + Len(p) + Len(r)
     /\ SubSeq(f \o r, 1, 4) = w
     /\ Drop(f, 4) = one \o p /\ Drop(f, 5) = p
     /\ Drop(f \o r, 4) = (one \o p) \o r
     /\ ((one \o p) \o r)[1] = one[1]
     /\ Drop((one \o p) \o r, 1) = p \o r
     /\ one \o p \in Seq(Byte) /\ Len(one \o p) = 1 + Len(p)

LEMMA Frame ==
  ASSUME NEW w \in Seq(Byte), Len(w) = 4, NEW one \in Seq(Byte), Len(one) = 1,
         NEW p \in Seq(Byte), NEW r \in Seq(Byte)
  PROVE  FrameParts(w, one, p, r)
<1>1. one \in Seq(Byte) /\ Len(one) = 1
  OBVIOUS
<1> DEFINE bp == one \o p
           pr == p \o r
           wb == w \o one
           f == wb \o p
<1>2. bp \in Seq(Byte) /\ Len(bp) = 1 + Len(p) /\ pr \in Seq(Byte) /\ Len(p) \in Nat /\ Len(r) \in Nat
  BY <1>1, Bytes
<1>3. wb \in Seq(Byte) /\ Len(wb) = 5
  <2>1. w \o one \in Seq(Byte) /\ Len(w \o one) = Len(w) + Len(one)
    BY <1>1, Bytes
  <2> QED BY <1>1, <2>1
<1> HIDE DEF wb
<1>4. f \in Seq(Byte) /\ Len(f) = 5 + Len(p)
  BY <1>3, Bytes
<1>5. f = w \o bp
  BY <1>1, BytesAssociate DEF wb
<1> HIDE DEF f
<1>6. Len(f \o r) = 5 + Len(p) + Len(r)
  BY <1>4, <1>2, Bytes
<1> HIDE DEF bp
<1>7. Drop(f, 4) = bp
  <2>1. Drop(w \o bp, Len(w)) = bp
    BY <1>2, DropFront
  <2> QED BY <1>5, <2>1
<1>8. Drop(f, 5) = p
  BY <1>3, DropFront DEF f
<1>9. f \o r = w \o (bp \o r) /\ bp \o r \in Seq(Byte)
  <2>1. (w \o bp) \o r = w \o (bp \o r)
    BY <1>2, BytesAssociate
  <2>2. bp \o r \in Seq(Byte)
    BY <1>2, Bytes
  <2> QED BY <1>5, <2>1, <2>2
<1>10. SubSeq(f \o r, 1, 4) = w /\ Drop(f \o r, 4) = bp \o r
  BY <1>9, DropFront
<1>11. bp \o r = one \o pr
  BY <1>1, BytesAssociate DEF bp
<1> HIDE DEF pr
<1>12. Drop(bp \o r, 1) = pr
  BY <1>1, <1>2, <1>11, DropFront
<1>13. (bp \o r)[1] = one[1]
  <2>1. (one \o pr)[1] = one[1]
    <3>1. 1 \in 1 .. Len(one) /\ pr \in Seq(Byte)
      BY <1>1, <1>2
    <3> QED BY <1>1, <3>1, FrontBytes
  <2> QED BY <1>11, <2>1
<1> QED BY <1>2, <1>4, <1>6, <1>7, <1>8, <1>10, <1>12, <1>13 DEF FrameParts, f, wb, bp, pr

\* What a reader makes of a message with other bytes behind it.
SerializedParts(type, payload, r) ==
  LET f == serialize_message(type, payload)
      size == 1 + Len(payload)
      bp == <<type>> \o payload
  IN /\ f \in Seq(Byte) /\ Len(f) = 4 + size /\ Len(f \o r) = 4 + size + Len(r)
     /\ Len(payload) \in Nat
     /\ SubSeq(f \o r, 1, 4) \in UInt32
     /\ WordValue(BigEndian(SubSeq(f \o r, 1, 4))) = size
     /\ WordValue(host_to_network_order(SubSeq(f \o r, 1, 4))) = size
     /\ SubSeq(f \o r, 5, size + 4) = bp /\ Drop(f \o r, size + 4) = r
     /\ Drop(f, 4) = bp /\ Drop(f, 5) = payload
     /\ Drop(f \o r, 4) = bp \o r
     /\ bp \in Seq(Byte) /\ (bp \o r)[1] = type
     /\ Drop(bp \o r, 1) = payload \o r

LEMMA Serialized ==
  ASSUME NEW type \in Byte, NEW payload \in Seq(Byte), Len(payload) <= MAX_PAYLOAD,
         NEW r \in Seq(Byte)
  PROVE  SerializedParts(type, payload, r)
<1> DEFINE size == 1 + Len(payload)
           w == host_to_network_order(Word(size))
           one == <<type>>
           bp == one \o payload
           f == w \o one \o payload
<1>1. Len(payload) \in Nat /\ size \in Nat
  BY LenProperties
<1>2. Word(size) \in UInt32 /\ WordValue(Word(size)) = size
  <2>1. size < 2147483648
    BY <1>1, SMT DEF MAX_PAYLOAD
  <2> HIDE DEF size
  <2> QED BY <1>1, <2>1, WordOfNumber, SMT
<1>3. w = BigEndian(Word(size)) /\ w \in UInt32 /\ w \in Seq(Byte) /\ Len(w) = 4
  <2> DEFINE u == Word(size)
  <2>1. u \in UInt32
    BY <1>2
  <2> HIDE DEF u
  <2>2. /\ host_to_network_order(u) = BigEndian(u)
        /\ BigEndian(u) \in Seq(Byte) /\ BigEndian(u) \in UInt32 /\ Len(BigEndian(u)) = 4
    BY <2>1, WordReversed
  <2> QED BY <2>2 DEF u
<1>4. BigEndian(w) = Word(size) /\ host_to_network_order(w) = Word(size)
  <2>1. BigEndian(BigEndian(Word(size))) = Word(size)
    BY <1>2, WordReversed
  <2>2. BigEndian(w) = Word(size)
    BY <1>3, <2>1
  <2> HIDE DEF w
  <2>3. host_to_network_order(w) = BigEndian(w)
    BY <1>3, WordReversed
  <2> QED BY <2>2, <2>3
<1> HIDE DEF w
<1>w. w \in Seq(Byte) /\ Len(w) = 4
  BY <1>3
<1>o. one \in Seq(Byte) /\ Len(one) = 1 /\ one[1] = type
  BY OneByte
<1> HIDE DEF one
<1>p. FrameParts(w, one, payload, r)
  BY <1>w, <1>o, Frame
<1>5. /\ f \in Seq(Byte) /\ Len(f) = 5 + Len(payload) /\ Len(f \o r) = 5 + Len(payload) + Len(r)
      /\ SubSeq(f \o r, 1, 4) = w
      /\ Drop(f, 4) = bp /\ Drop(f, 5) = payload
      /\ Drop(f \o r, 4) = bp \o r
      /\ (bp \o r)[1] = one[1]
      /\ Drop(bp \o r, 1) = payload \o r
      /\ bp \in Seq(Byte) /\ Len(bp) = 1 + Len(payload)
  BY <1>p DEF FrameParts
<1>b. bp \in Seq(Byte) /\ Len(bp) = 1 + Len(payload)
  BY <1>5
<1>6. f = w \o bp
  BY <1>w, <1>o, BytesAssociate
<1> HIDE DEF bp, f
<1>7. SubSeq(f \o r, 5, size + 4) = bp
  <2>1. SubSeq(w \o bp \o r, Len(w) + 1, Len(w) + Len(bp)) = bp
    BY <1>w, <1>b, Middle
  <2>2. Len(w) + 1 = 5 /\ Len(w) + Len(bp) = size + 4
    BY <1>1, <1>w, <1>b
  <2> QED BY <1>6, <2>1, <2>2
<1>8. Drop(f \o r, size + 4) = r
  <2>1. Drop(f \o r, Len(f)) = r
    BY <1>5, DropFront
  <2>2. Len(f) = size + 4
    BY <1>1, <1>5
  <2> QED BY <2>1, <2>2
<1>9. Len(f) = 4 + size /\ Len(f \o r) = 4 + size + Len(r)
  BY <1>1, <1>5, LenProperties
<1>10. f = serialize_message(type, payload)
  BY DEF serialize_message, f, w, size, one
<1> HIDE DEF size
<1>11. /\ SubSeq(f \o r, 1, 4) \in UInt32
       /\ WordValue(BigEndian(SubSeq(f \o r, 1, 4))) = size
       /\ WordValue(host_to_network_order(SubSeq(f \o r, 1, 4))) = size
  BY <1>2, <1>3, <1>4, <1>5
<1> QED BY <1>1, <1>5, <1>7, <1>8, <1>9, <1>10, <1>11, <1>o, Zenon DEF SerializedParts, size, bp, one

\* Three numbers behind an id.
ThreeParts(one, a, b, c) ==
  LET first == one \o ((a \o b) \o c)
  IN /\ (a \o b) \o c \in Seq(Byte) /\ Len((a \o b) \o c) = 12
     /\ first \in Seq(Byte) /\ first[1] = one[1]
     /\ SubSeq(first, 2, 5) = a /\ SubSeq(first, 6, 9) = b /\ SubSeq(first, 10, 13) = c

LEMMA ThreeWords ==
  ASSUME NEW one \in Seq(Byte), Len(one) = 1,
         NEW a \in Seq(Byte), NEW b \in Seq(Byte), NEW c \in Seq(Byte),
         Len(a) = 4, Len(b) = 4, Len(c) = 4
  PROVE  ThreeParts(one, a, b, c)
<1> DEFINE ab == a \o b
           bc == b \o c
           oa == one \o a
           oab == one \o ab
           abc == ab \o c
           first == one \o abc
<1>1. ab \in Seq(Byte) /\ Len(ab) = 8
  <2>1. a \o b \in Seq(Byte) /\ Len(a \o b) = Len(a) + Len(b)
    BY Bytes
  <2> QED BY <2>1
<1>2. bc \in Seq(Byte)
  BY Bytes
<1>3. oa \in Seq(Byte) /\ Len(oa) = 5
  <2>1. one \o a \in Seq(Byte) /\ Len(one \o a) = Len(one) + Len(a)
    BY Bytes
  <2> QED BY <2>1
<1>4. a \o bc = abc
  BY BytesAssociate
<1>5. oa \o b = oab
  BY BytesAssociate
<1> HIDE DEF ab
<1>6. oab \in Seq(Byte) /\ Len(oab) = 9
  <2>1. one \o ab \in Seq(Byte) /\ Len(one \o ab) = Len(one) + Len(ab)
    BY <1>1, Bytes
  <2> QED BY <1>1, <2>1
<1>7. abc \in Seq(Byte) /\ Len(abc) = 12
  <2>1. ab \o c \in Seq(Byte) /\ Len(ab \o c) = Len(ab) + Len(c)
    BY <1>1, Bytes
  <2> QED BY <1>1, <2>1
<1>8. first = oab \o c
  BY <1>1, BytesAssociate
<1> HIDE DEF abc
<1>9. first \in Seq(Byte) /\ first[1] = one[1]
  <2>1. 1 \in 1 .. Len(one)
    OBVIOUS
  <2> QED BY <1>7, <2>1, Bytes, FrontBytes
<1>10. first = oa \o bc
  <2>1. (one \o a) \o bc = one \o (a \o bc)
    BY <1>2, BytesAssociate
  <2> QED BY <1>4, <2>1
<1> HIDE DEF first, oa, oab, bc
<1>11. SubSeq(first, 2, 5) = a
  <2>1. SubSeq(one \o a \o bc, Len(one) + 1, Len(one) + Len(a)) = a
    BY <1>2, Middle
  <2>2. Len(one) + 1 = 2 /\ Len(one) + Len(a) = 5
    OBVIOUS
  <2> QED BY <1>10, <2>1, <2>2, Zenon DEF oa
<1>12. SubSeq(first, 6, 9) = b
  <2>1. SubSeq(oa \o b \o c, Len(oa) + 1, Len(oa) + Len(b)) = b
    BY <1>3, Middle
  <2>2. Len(oa) + 1 = 6 /\ Len(oa) + Len(b) = 9
    BY <1>3
  <2> QED BY <1>5, <1>8, <2>1, <2>2, Zenon
<1>13. SubSeq(first, 10, 13) = c
  <2>1. <<>> \in Seq(Byte)
    OBVIOUS
  <2>2. SubSeq(oab \o c \o <<>>, Len(oab) + 1, Len(oab) + Len(c)) = c
    BY <1>6, <2>1, Middle
  <2>3. first \o <<>> = first
    BY <1>9, Bytes
  <2>4. Len(oab) + 1 = 10 /\ Len(oab) + Len(c) = 13
    BY <1>6
  <2> QED BY <1>8, <2>2, <2>3, <2>4, Zenon
<1> QED BY <1>7, <1>9, <1>11, <1>12, <1>13, Zenon DEF ThreeParts, first, abc, ab

\* What PeerReads takes from the front of a stream.
Taken(stream_, m, r) ==
  LET size  == WordValue(BigEndian(SubSeq(stream_, 1, 4)))
      first == SubSeq(stream_, 5, size + 4)
  IN /\ Len(stream_) >= 4 /\ size > 0 /\ Len(stream_) >= 4 + size
     /\ m = Message(first[1],
              [n \in 1 .. (size - 1) \div 4 |-> BigEndian(SubSeq(first, 4 * n - 2, 4 * n + 1))], <<>>)
     /\ Drop(stream_, size + 4) = r

LEMMA InterestedTaken ==
  ASSUME NEW r \in Seq(Byte)
  PROVE  LET f == serialize_message(ID.INTERESTED, <<>>)
         IN f \in Seq(Byte) /\ Len(f) = 5 /\ Taken(f \o r, Message(ID.INTERESTED, <<>>, <<>>), r)
<1> DEFINE f == serialize_message(ID.INTERESTED, <<>>)
           two == <<2>>
<1>1. ID.INTERESTED = 2 /\ 2 \in Byte
  BY DEF ID, Byte
<1>2. <<>> \in Seq(Byte) /\ Len(<<>>) = 0 /\ 0 <= MAX_PAYLOAD
  BY SMT DEF MAX_PAYLOAD
<1>3. SerializedParts(2, <<>>, r)
  BY <1>1, <1>2, Serialized
<1>4. two \in Seq(Byte) /\ Len(two) = 1 /\ two[1] = 2
  BY <1>1, OneByte
<1>5. two \o <<>> = two
  BY <1>4, Bytes
<1>6. /\ f \in Seq(Byte) /\ Len(f) = 4 + (1 + Len(<<>>)) /\ Len(f \o r) = 4 + (1 + Len(<<>>)) + Len(r)
      /\ WordValue(BigEndian(SubSeq(f \o r, 1, 4))) = 1 + Len(<<>>)
      /\ SubSeq(f \o r, 5, 1 + Len(<<>>) + 4) = <<2>> \o <<>> /\ Drop(f \o r, 1 + Len(<<>>) + 4) = r
  BY <1>1, <1>3, Zenon DEF SerializedParts
<1> HIDE DEF f, two
<1>7. /\ f \in Seq(Byte) /\ Len(f) = 5 /\ Len(f \o r) = 5 + Len(r) /\ Len(r) \in Nat
      /\ WordValue(BigEndian(SubSeq(f \o r, 1, 4))) = 1
      /\ SubSeq(f \o r, 5, 5) = two /\ Drop(f \o r, 5) = r
  BY <1>2, <1>5, <1>6, LenProperties DEF two
<1>9. Taken(f \o r, Message(2, <<>>, <<>>), r)
  <2> DEFINE words == [n \in 1 .. (1 - 1) \div 4 |-> BigEndian(SubSeq(two, 4 * n - 2, 4 * n + 1))]
  <2>1. words = <<>>
    OBVIOUS
  <2> HIDE DEF words
  <2>2. Message(2, <<>>, <<>>) = Message(two[1], words, <<>>)
    BY <1>4, <2>1
  <2>3. Len(f \o r) >= 4 /\ 1 > 0 /\ Len(f \o r) >= 4 + 1 /\ 1 + 4 = 5
    BY <1>7
  <2> QED BY <1>7, <2>2, <2>3, Zenon DEF Taken, words
<1> QED BY <1>1, <1>7, <1>9 DEF f

LEMMA BlockTaken ==
  ASSUME NEW type \in {ID.REQUEST, ID.CANCEL}, NEW info \in [1 .. 3 -> UInt32], NEW r \in Seq(Byte)
  PROVE  LET f == create_block_message(type, info)
         IN f \in Seq(Byte) /\ Len(f) = 17 /\ Taken(f \o r, Message(type, info, <<>>), r)
<1> DEFINE one == <<type>>
           a == BigEndian(info[1])
           b == BigEndian(info[2])
           c == BigEndian(info[3])
           p == (a \o b) \o c
           first == one \o p
           f == serialize_message(type, p)
<1>1. type \in Byte
  BY DEF ID, Byte
<1>2. one \in Seq(Byte) /\ Len(one) = 1 /\ one[1] = type
  BY <1>1, OneByte
<1>3. info[1] \in UInt32 /\ info[2] \in UInt32 /\ info[3] \in UInt32
  OBVIOUS
<1>4. /\ a \in Seq(Byte) /\ Len(a) = 4 /\ BigEndian(a) = info[1] /\ host_to_network_order(info[1]) = a
      /\ b \in Seq(Byte) /\ Len(b) = 4 /\ BigEndian(b) = info[2] /\ host_to_network_order(info[2]) = b
      /\ c \in Seq(Byte) /\ Len(c) = 4 /\ BigEndian(c) = info[3] /\ host_to_network_order(info[3]) = c
  BY <1>3, WordReversed, Zenon
<1>5. f = create_block_message(type, info)
  BY <1>4, Zenon DEF create_block_message
<1> HIDE DEF one, a, b, c
<1>6. ThreeParts(one, a, b, c)
  BY <1>2, <1>4, ThreeWords
<1>7. /\ p \in Seq(Byte) /\ Len(p) = 12 /\ first[1] = type
      /\ SubSeq(first, 2, 5) = a /\ SubSeq(first, 6, 9) = b /\ SubSeq(first, 10, 13) = c
  BY <1>2, <1>6, Zenon DEF ThreeParts
<1> HIDE DEF p
<1>8. 12 <= MAX_PAYLOAD
  BY SMT DEF MAX_PAYLOAD
<1>9. SerializedParts(type, p, r)
  BY <1>1, <1>7, <1>8, Serialized
<1>10. /\ f \in Seq(Byte) /\ Len(f) = 4 + (1 + 12) /\ Len(f \o r) = 4 + (1 + 12) + Len(r)
       /\ WordValue(BigEndian(SubSeq(f \o r, 1, 4))) = 1 + 12
       /\ SubSeq(f \o r, 5, 1 + 12 + 4) = first /\ Drop(f \o r, 1 + 12 + 4) = r
  BY <1>7, <1>9, Zenon DEF SerializedParts, one
<1> HIDE DEF f, first
<1>11. /\ f \in Seq(Byte) /\ Len(f) = 17 /\ Len(f \o r) = 17 + Len(r) /\ Len(r) \in Nat
       /\ WordValue(BigEndian(SubSeq(f \o r, 1, 4))) = 13
       /\ SubSeq(f \o r, 5, 17) = first /\ Drop(f \o r, 17) = r
  <2>1. 1 + 12 = 13 /\ 13 + 4 = 17 /\ 4 + 13 = 17
    OBVIOUS
  <2>2. Len(r) \in Nat
    BY LenProperties
  <2> QED BY <1>10, <2>1, <2>2, Zenon
<1>12. Taken(f \o r, Message(type, info, <<>>), r)
  <2> DEFINE words == [n \in 1 .. (13 - 1) \div 4 |-> BigEndian(SubSeq(first, 4 * n - 2, 4 * n + 1))]
  <2>1. (13 - 1) \div 4 = 3
    BY SMT
  <2>2. words = [n \in 1 .. 3 |-> BigEndian(SubSeq(first, 4 * n - 2, 4 * n + 1))]
    BY <2>1, Zenon
  <2>3. \A n \in 1 .. 3 : BigEndian(SubSeq(first, 4 * n - 2, 4 * n + 1)) = info[n]
    <3> SUFFICES ASSUME NEW n \in 1 .. 3
                 PROVE  BigEndian(SubSeq(first, 4 * n - 2, 4 * n + 1)) = info[n]
      OBVIOUS
    <3>1. CASE n = 1
      <4>1. 4 * n - 2 = 2 /\ 4 * n + 1 = 5
        BY <3>1
      <4> QED BY <1>4, <1>7, <3>1, <4>1, Zenon
    <3>2. CASE n = 2
      <4>1. 4 * n - 2 = 6 /\ 4 * n + 1 = 9
        BY <3>2
      <4> QED BY <1>4, <1>7, <3>2, <4>1, Zenon
    <3>3. CASE n = 3
      <4>1. 4 * n - 2 = 10 /\ 4 * n + 1 = 13
        BY <3>3
      <4> QED BY <1>4, <1>7, <3>3, <4>1, Zenon
    <3>4. n = 1 \/ n = 2 \/ n = 3
      OBVIOUS
    <3> QED BY <3>1, <3>2, <3>3, <3>4
  <2>4. words = info
    <3> DEFINE g(n) == BigEndian(SubSeq(first, 4 * n - 2, 4 * n + 1))
    <3>1. words = [n \in 1 .. 3 |-> g(n)] /\ \A n \in 1 .. 3 : g(n) = info[n]
      BY <2>2, <2>3
    <3> HIDE DEF words, g
    <3> QED BY <3>1
  <2> HIDE DEF words
  <2>5. Len(f \o r) >= 4 /\ 13 > 0 /\ Len(f \o r) >= 4 + 13 /\ 13 + 4 = 17
    BY <1>11
  <2> QED BY <1>7, <1>11, <2>4, <2>5, Zenon DEF Taken, words
<1> QED BY <1>5, <1>11, <1>12, Zenon DEF f

\* A handshake by its fields, with other bytes behind it.
HandshakeParts(p, z, h, i, r) ==
  LET f == p \o z \o h \o i
  IN /\ f \in Seq(Byte) /\ Len(f) = 68 /\ Len(f \o r) >= 68
     /\ SubSeq(f \o r, 1, 20) = p /\ SubSeq(f \o r, 29, 48) = h
     /\ SubSeq(f \o r, 1, 68) = f /\ Drop(f \o r, 68) = r
     /\ parse_handshake_message(f) = IF p = Protocol THEN h ELSE NoHash

LEMMA ProtocolBytes ==
  Protocol \in Seq(Byte) /\ Len(Protocol) = 20 /\ PROTOCOL_IDENTIFIER \in Seq(Byte)
<1> DEFINE one == <<19>>
<1>1. one \in Seq(Byte) /\ Len(one) = 1
  <2>1. 19 \in Byte
    BY DEF Byte
  <2> QED BY <2>1, OneByte
<1>2. PROTOCOL_IDENTIFIER \in Seq(Byte) /\ Len(PROTOCOL_IDENTIFIER) = 19
  <2>1. PROTOCOL_IDENTIFIER \in [1 .. 19 -> Byte]
    BY DEF PROTOCOL_IDENTIFIER, Byte
  <2>2. \A n \in Nat : [1 .. n -> Byte] \subseteq Seq(Byte)
    BY SeqDef
  <2>3. PROTOCOL_IDENTIFIER \in Seq(Byte)
    BY <2>1, <2>2
  <2> QED BY <2>1, <2>3, LenProperties
<1> HIDE DEF one
<1>3. /\ one \o PROTOCOL_IDENTIFIER \in Seq(Byte)
      /\ Len(one \o PROTOCOL_IDENTIFIER) = Len(one) + Len(PROTOCOL_IDENTIFIER)
  BY <1>1, <1>2, Bytes
<1> QED BY <1>1, <1>2, <1>3 DEF Protocol, one

LEMMA HandshakeBytes ==
  ASSUME NEW p \in Seq(Byte), NEW z \in Seq(Byte), NEW h \in Seq(Byte), NEW i \in Seq(Byte),
         NEW r \in Seq(Byte), Len(p) = 20, Len(z) = 8, Len(h) = 20, Len(i) = 20
  PROVE  HandshakeParts(p, z, h, i, r)
<1> DEFINE pz == p \o z
           pzh == pz \o h
           f == pzh \o i
           ir == i \o r
           zh == z \o h
           zhi == zh \o i
<1>1. pz \in Seq(Byte) /\ Len(pz) = 28
  <2>1. p \o z \in Seq(Byte) /\ Len(p \o z) = Len(p) + Len(z)
    BY Bytes
  <2> QED BY <2>1
<1>2. ir \in Seq(Byte)
  BY Bytes
<1>z. zh \in Seq(Byte)
  BY Bytes
<1>3. p \o zh = pzh
  BY BytesAssociate
<1> HIDE DEF pz, zh
<1>4. pzh \in Seq(Byte) /\ Len(pzh) = 48
  <2>1. pz \o h \in Seq(Byte) /\ Len(pz \o h) = Len(pz) + Len(h)
    BY <1>1, Bytes
  <2> QED BY <1>1, <2>1
<1>5. zhi \in Seq(Byte)
  BY <1>z, Bytes
<1>6. p \o zhi = f
  <2>1. (p \o zh) \o i = p \o (zh \o i)
    BY <1>z, BytesAssociate
  <2> QED BY <1>3, <2>1
<1> HIDE DEF zhi
<1>7. f \o r = pzh \o ir
  BY <1>4, BytesAssociate
<1> HIDE DEF ir
<1>8. f \in Seq(Byte) /\ Len(f) = 68
  <2>1. pzh \o i \in Seq(Byte) /\ Len(pzh \o i) = Len(pzh) + Len(i)
    BY <1>4, Bytes
  <2> QED BY <1>4, <2>1
<1>9. Len(f \o r) >= 68
  <2> HIDE DEF f
  <2>1. Len(f \o r) = Len(f) + Len(r) /\ Len(r) \in Nat
    BY <1>8, Bytes
  <2> QED BY <1>8, <2>1
<1>10. SubSeq(f, 29, 48) = h
  <2>1. SubSeq(pz \o h \o i, Len(pz) + 1, Len(pz) + Len(h)) = h
    BY <1>1, Middle
  <2>2. Len(pz) + 1 = 29 /\ Len(pz) + Len(h) = 48
    BY <1>1
  <2> QED BY <2>1, <2>2, Zenon
<1>11. SubSeq(f \o r, 29, 48) = h
  <2>1. SubSeq(pz \o h \o ir, Len(pz) + 1, Len(pz) + Len(h)) = h
    BY <1>1, <1>2, Middle
  <2>2. Len(pz) + 1 = 29 /\ Len(pz) + Len(h) = 48
    BY <1>1
  <2> QED BY <1>7, <2>1, <2>2, Zenon
<1> HIDE DEF f
<1>12. SubSeq(f \o r, 1, 20) = p
  <2> DEFINE zr == zhi \o r
  <2>1. zr \in Seq(Byte) /\ (p \o zhi) \o r = p \o zr
    BY <1>5, Bytes, BytesAssociate
  <2> HIDE DEF zr
  <2>2. SubSeq(p \o zr, 1, Len(p)) = p
    BY <2>1, DropFront
  <2> QED BY <1>6, <2>1, <2>2, Zenon
<1>13. SubSeq(f \o r, 1, Len(f)) = f /\ Drop(f \o r, Len(f)) = r
  BY <1>8, DropFront
<1>14. parse_handshake_message(f) = IF p = Protocol THEN h ELSE NoHash
  <2> DEFINE one == SubSeq(p, 1, 1)
             rest == Drop(p, 1)
  <2>1. one \in Seq(Byte) /\ Len(one) = 1 /\ one[1] = p[1] /\ rest \in Seq(Byte) /\ Len(rest) = 19
        /\ p = one \o rest
    <3>1. 1 \in 0 .. Len(p) /\ 1 \in 1 .. 1
      OBVIOUS
    <3>2. one \in Seq(Byte) /\ Len(one) = 1 /\ rest \in Seq(Byte) /\ Len(rest) = Len(p) - 1
          /\ p = one \o rest /\ \A k \in 1 .. 1 : one[k] = p[k]
      BY <3>1, DropFacts
    <3> HIDE DEF one, rest
    <3> QED BY <3>1, <3>2
  <2> HIDE DEF one, rest
  <2>2. f[1] = p[1]
    <3>1. 1 \in 1 .. Len(p)
      OBVIOUS
    <3>2. (p \o zhi)[1] = p[1]
      BY <1>5, <3>1, FrontBytes
    <3> QED BY <1>6, <3>2
  <2>3. SubSeq(f, 2, 20) = rest
    <3>1. SubSeq(one \o rest \o zhi, Len(one) + 1, Len(one) + Len(rest)) = rest
      BY <1>5, <2>1, Middle
    <3>2. Len(one) + 1 = 2 /\ Len(one) + Len(rest) = 20
      BY <2>1
    <3> QED BY <1>6, <2>1, <3>1, <3>2, Zenon
  <2>4. p = Protocol <=> p[1] = 19 /\ rest = PROTOCOL_IDENTIFIER
    <3> DEFINE nineteen == <<19>>
    <3>1. nineteen \in Seq(Byte) /\ Len(nineteen) = 1 /\ nineteen[1] = 19
      <4>1. 19 \in Byte
        BY DEF Byte
      <4> QED BY <4>1, OneByte
    <3>2. Protocol = nineteen \o PROTOCOL_IDENTIFIER
      BY DEF Protocol
    <3> HIDE DEF nineteen
    <3>3. ASSUME p = Protocol PROVE p[1] = 19 /\ rest = PROTOCOL_IDENTIFIER
      <4>1. Drop(nineteen \o PROTOCOL_IDENTIFIER, Len(nineteen)) = PROTOCOL_IDENTIFIER
        BY <3>1, ProtocolBytes, DropFront
      <4>2. 1 \in 1 .. Len(nineteen)
        BY <3>1
      <4>3. (nineteen \o PROTOCOL_IDENTIFIER)[1] = nineteen[1]
        BY <3>1, <4>2, ProtocolBytes, FrontBytes
      <4> QED BY <3>1, <3>2, <3>3, <4>1, <4>3, Zenon DEF rest
    <3>4. ASSUME p[1] = 19, rest = PROTOCOL_IDENTIFIER PROVE p = Protocol
      <4>1. \A k \in 1 .. Len(one) : one[k] = nineteen[k]
        BY <2>1, <3>1, <3>4
      <4>2. one = nineteen
        BY <2>1, <3>1, <4>1, SeqEqual
      <4> QED BY <2>1, <3>2, <3>4, <4>2
    <3> QED BY <3>3, <3>4
  <2> QED BY <1>10, <2>2, <2>3, <2>4, Zenon DEF parse_handshake_message
<1> QED BY <1>8, <1>9, <1>11, <1>12, <1>13, <1>14, Zenon DEF HandshakeParts, f, pzh, pz

\* The bytes of no number, of one and of two.
LEMMA NoNumbers ==
  ASSUME NEW words \in [1 .. 0 -> UInt32]
  PROVE  words = <<>> /\ Numbers(words) = <<>>
<1>1. words \in Seq(UInt32) /\ Len(words) = 0
  <2>1. \A n \in Nat : [1 .. n -> UInt32] \subseteq Seq(UInt32)
    BY SeqDef
  <2>2. words \in Seq(UInt32)
    BY <2>1
  <2>3. 1 .. Len(words) = 1 .. 0 /\ Len(words) \in Nat
    BY <2>2, LenProperties
  <2> QED BY <2>2, <2>3
<1>2. words = <<>>
  BY <1>1, EmptySeq
<1>3. 4 * Len(words) = 0
  BY <1>1
<1>4. Numbers(words) = [n \in 1 .. 0 |-> BigEndian(words[(n + 3) \div 4])[((n - 1) % 4) + 1]]
  BY <1>3, Zenon DEF Numbers
<1>5. \A f : [n \in 1 .. 0 |-> f[n]] = <<>>
  OBVIOUS
<1>6. Numbers(words) = <<>>
  <2> DEFINE g(n) == BigEndian(words[(n + 3) \div 4])[((n - 1) % 4) + 1]
  <2>1. Numbers(words) = [n \in 1 .. 0 |-> g(n)]
    BY <1>4
  <2> HIDE DEF g
  <2> QED BY <2>1
<1> QED BY <1>2, <1>6

LEMMA ManyNumbers ==
  ASSUME NEW k \in {1, 2}, NEW words \in [1 .. k -> UInt32]
  PROVE  /\ words \in Seq(UInt32) /\ Len(words) = k
         /\ Numbers(words) \in Seq(Byte) /\ Len(Numbers(words)) = 4 * k
         /\ \A w \in 1 .. k, n \in 1 .. 4 : Numbers(words)[4 * (w - 1) + n] = BigEndian(words[w])[n]
<1> DEFINE g(n) == BigEndian(words[(n + 3) \div 4])[((n - 1) % 4) + 1]
           bytes == [n \in 1 .. 4 * k |-> g(n)]
<1>1. words \in Seq(UInt32) /\ Len(words) = k
  <2>1. \A n \in Nat : [1 .. n -> UInt32] \subseteq Seq(UInt32)
    BY SeqDef
  <2>2. words \in Seq(UInt32)
    BY <2>1
  <2>3. 1 .. Len(words) = 1 .. k /\ Len(words) \in Nat
    BY <2>2, LenProperties
  <2> QED BY <2>2, <2>3
<1>2. Numbers(words) = bytes
  BY <1>1, Zenon DEF Numbers
<1>3. \A w \in 1 .. k : BigEndian(words[w]) \in UInt32
  BY WordReversed
<1>4. ASSUME NEW w \in 1 .. k, NEW n \in 1 .. 4
      PROVE  4 * (w - 1) + n \in 1 .. 4 * k /\ g(4 * (w - 1) + n) = BigEndian(words[w])[n]
  <2> DEFINE m == 4 * (w - 1) + n
  <2>1. m \in 1 .. 4 * k
    OBVIOUS
  <2>2. (m + 3) \div 4 = w
    BY SMT
  <2>3. ((m - 1) % 4) + 1 = n
    BY SMT
  <2> QED BY <2>1, <2>2, <2>3, Zenon
<1>5. ASSUME NEW m \in 1 .. 4 * k PROVE g(m) \in Byte
  <2> DEFINE w == (m + 3) \div 4
             n == ((m - 1) % 4) + 1
  <2>1. w \in 1 .. k
    BY SMT
  <2>2. n \in 1 .. 4
    BY SMT
  <2> HIDE DEF w, n
  <2>3. BigEndian(words[w]) \in [1 .. 4 -> Byte]
    BY <1>3, <2>1 DEF UInt32
  <2>4. BigEndian(words[w])[n] \in Byte
    BY <2>2, <2>3
  <2> QED BY <2>4, Zenon DEF w, n
<1> HIDE DEF g
<1>6. bytes \in [1 .. 4 * k -> Byte]
  BY <1>5
<1>7. bytes \in Seq(Byte) /\ Len(bytes) = 4 * k
  <2>1. \A n \in Nat : [1 .. n -> Byte] \subseteq Seq(Byte)
    BY SeqDef
  <2>2. 4 * k \in Nat
    OBVIOUS
  <2>3. bytes \in Seq(Byte)
    BY <1>6, <2>1, <2>2
  <2>4. 1 .. Len(bytes) = 1 .. 4 * k /\ Len(bytes) \in Nat
    BY <1>6, <2>3, LenProperties
  <2> QED BY <2>2, <2>3, <2>4
<1>8. \A w \in 1 .. k, n \in 1 .. 4 : bytes[4 * (w - 1) + n] = BigEndian(words[w])[n]
  BY <1>4
<1> HIDE DEF bytes
<1> QED BY <1>1, <1>2, <1>7, <1>8

LEMMA OneNumber ==
  ASSUME NEW words \in [1 .. 1 -> UInt32]
  PROVE  /\ words[1] \in UInt32 /\ words = <<words[1]>>
         /\ Numbers(words) = BigEndian(words[1])
<1>1. words[1] \in UInt32
  OBVIOUS
<1>2. words \in Seq(UInt32) /\ Len(words) = 1
  <2>1. 1 \in {1, 2}
    OBVIOUS
  <2> QED BY <2>1, ManyNumbers
<1>3. words = <<words[1]>>
  BY <1>1, <1>2, SeqEqual
<1>4. BigEndian(words[1]) \in Seq(Byte) /\ Len(BigEndian(words[1])) = 4
  BY <1>1, WordReversed
<1>5. /\ Numbers(words) \in Seq(Byte) /\ Len(Numbers(words)) = 4 * 1
      /\ \A w \in 1 .. 1, n \in 1 .. 4 : Numbers(words)[4 * (w - 1) + n] = BigEndian(words[w])[n]
  <2>1. 1 \in {1, 2}
    OBVIOUS
  <2> QED BY <2>1, ManyNumbers
<1>6. \A n \in 1 .. 4 : Numbers(words)[n] = BigEndian(words[1])[n]
  <2>1. \A n \in 1 .. 4 : 4 * (1 - 1) + n = n /\ 1 \in 1 .. 1
    OBVIOUS
  <2> QED BY <1>5, <2>1
<1>7. Numbers(words) = BigEndian(words[1])
  BY <1>4, <1>5, <1>6, SeqEqual
<1> QED BY <1>1, <1>3, <1>7

LEMMA TwoNumbers ==
  ASSUME NEW words \in [1 .. 2 -> UInt32]
  PROVE  /\ words[1] \in UInt32 /\ words[2] \in UInt32 /\ words = <<words[1], words[2]>>
         /\ Numbers(words) = BigEndian(words[1]) \o BigEndian(words[2])
<1> DEFINE a == BigEndian(words[1])
           b == BigEndian(words[2])
           ab == a \o b
<1>1. words[1] \in UInt32 /\ words[2] \in UInt32
  OBVIOUS
<1>2. 2 \in {1, 2}
  OBVIOUS
<1>3. /\ words \in Seq(UInt32) /\ Len(words) = 2
      /\ Numbers(words) \in Seq(Byte) /\ Len(Numbers(words)) = 4 * 2
      /\ \A w \in 1 .. 2, n \in 1 .. 4 : Numbers(words)[4 * (w - 1) + n] = BigEndian(words[w])[n]
  BY <1>2, ManyNumbers
<1>4. words = <<words[1], words[2]>>
  <2> DEFINE x == words[1]
             y == words[2]
             xy == <<x, y>>
  <2>1. xy \in Seq(UInt32) /\ Len(xy) = 2 /\ xy[1] = x /\ xy[2] = y
    BY <1>1
  <2>2. \A i \in 1 .. 2 : i = 1 \/ i = 2
    OBVIOUS
  <2>3. \A i \in 1 .. Len(words) : words[i] = xy[i]
    BY <1>3, <2>1, <2>2
  <2> HIDE DEF xy
  <2>4. words = xy
    BY <1>3, <2>1, <2>3, SeqEqual
  <2> QED BY <2>4 DEF xy
<1>5. a \in Seq(Byte) /\ Len(a) = 4 /\ b \in Seq(Byte) /\ Len(b) = 4
  BY <1>1, WordReversed
<1>6. \A n \in 1 .. 4 : Numbers(words)[n] = a[n] /\ Numbers(words)[4 + n] = b[n]
  <2>1. /\ \A n \in 1 .. 4 : 4 * (1 - 1) + n = n /\ 4 * (2 - 1) + n = 4 + n
        /\ 1 \in 1 .. 2 /\ 2 \in 1 .. 2
    OBVIOUS
  <2> QED BY <1>3, <2>1
<1> HIDE DEF a, b
<1>7. /\ ab \in Seq(Byte) /\ Len(ab) = 8
      /\ \A i \in 1 .. 4 + 4 : ab[i] = IF i <= 4 THEN a[i] ELSE b[i - 4]
  <2>1. /\ a \o b \in Seq(Byte) /\ Len(a \o b) = Len(a) + Len(b)
        /\ \A i \in 1 .. Len(a) + Len(b) : (a \o b)[i] = IF i <= Len(a) THEN a[i] ELSE b[i - Len(a)]
    BY <1>5, ConcatProperties
  <2> QED BY <1>5, <2>1
<1> HIDE DEF ab
<1>8. ASSUME NEW i \in 1 .. 8 PROVE Numbers(words)[i] = ab[i]
  <2>1. CASE i <= 4
    BY <1>6, <1>7, <2>1
  <2>2. CASE i > 4
    <3>1. i - 4 \in 1 .. 4 /\ 4 + (i - 4) = i /\ ~ (i <= 4) /\ i \in 1 .. 4 + 4
      BY <2>2
    <3>2. Numbers(words)[4 + (i - 4)] = b[i - 4]
      BY <1>6, <3>1
    <3> QED BY <1>7, <3>1, <3>2
  <2> QED BY <2>1, <2>2
<1>9. Numbers(words) = ab
  <2>1. /\ Numbers(words) \in Seq(Byte) /\ ab \in Seq(Byte)
        /\ Len(Numbers(words)) = 8 /\ Len(ab) = 8
    BY <1>3, <1>7
  <2>2. \A i \in 1 .. Len(Numbers(words)) : Numbers(words)[i] = ab[i]
    BY <1>8, <2>1
  <2> QED BY <2>1, <2>2, SeqEqual
<1> QED BY <1>1, <1>4, <1>9 DEF a, b, ab

\* What is known of a message of a peer.
LEMMA PeerMessage ==
  ASSUME NEW m \in PeerMessages
  PROVE  /\ m = Message(m.id, m.words, m.rest)
         /\ m.id \in Byte /\ m.words \in [1 .. WordsOf(m.id) -> UInt32] /\ m.rest \in Seq(Byte)
         /\ 4 * WordsOf(m.id) + Len(m.rest) <= MAX_PAYLOAD
         /\ m.id = ID.KEEP_ALIVE => m = KeepAlive
<1>1. /\ m = Message(m.id, m.words, m.rest)
      /\ m.id \in Byte /\ m.words \in [1 .. WordsOf(m.id) -> UInt32] /\ m.rest \in Seq(Byte)
      /\ 4 * WordsOf(m.id) + Len(m.rest) <= RECEIVE_BUFFER
      /\ m.id = ID.KEEP_ALIVE => m = KeepAlive
  BY WireAssumption
<1>2. RECEIVE_BUFFER \in Nat /\ RECEIVE_BUFFER <= MAX_PAYLOAD
  BY BufferAssumption
<1>3. 4 * WordsOf(m.id) + Len(m.rest) \in Nat
  <2>1. Len(m.rest) \in Nat
    BY <1>1
  <2>2. WordsOf(m.id) \in {0, 1, 2}
    BY DEF WordsOf
  <2> QED BY <2>1, <2>2
<1>4. 4 * WordsOf(m.id) + Len(m.rest) <= MAX_PAYLOAD
  BY <1>1, <1>2, <1>3, SMT DEF MAX_PAYLOAD
<1> QED BY <1>1, <1>4

\* In host order again
LEMMA HostOrder ==
  ASSUME NEW w \in UInt32
  PROVE  host_to_network_order(BigEndian(w)) = w
<1> DEFINE v == BigEndian(w)
<1>1. v \in UInt32 /\ BigEndian(v) = w
  BY WordReversed
<1> HIDE DEF v
<1>2. host_to_network_order(v) = BigEndian(v)
  BY <1>1, WordReversed
<1> QED BY <1>1, <1>2 DEF v

\* The handlers take the numbers and the block out of the payload again.
PayloadParts(m, payload) ==
  /\ m.id \in Byte
  /\ payload \in Seq(Byte) /\ Len(payload) <= MAX_PAYLOAD
  /\ Encoded(m) = serialize_message(m.id, payload)
  /\ handle_message(m.id, payload) = m

LEMMA Payload ==
  ASSUME NEW m \in PeerMessages, m # KeepAlive
  PROVE  PayloadParts(m, Numbers(m.words) \o m.rest)
<1> DEFINE payload == Numbers(m.words) \o m.rest
<1>1. /\ m = Message(m.id, m.words, m.rest)
      /\ m.id \in Byte /\ m.words \in [1 .. WordsOf(m.id) -> UInt32] /\ m.rest \in Seq(Byte)
      /\ 4 * WordsOf(m.id) + Len(m.rest) <= MAX_PAYLOAD
  BY PeerMessage
<1>2. Len(m.rest) \in Nat
  BY <1>1, LenProperties
<1>3. ID.PIECE = 7 /\ ID.HAVE_ = 4
  BY DEF ID
<1>4. /\ payload \in Seq(Byte) /\ Len(payload) = 4 * WordsOf(m.id) + Len(m.rest)
      /\ handle_message(m.id, payload) = m
  <2>1. CASE m.id = 7
    <3> DEFINE a == BigEndian(m.words[1])
               b == BigEndian(m.words[2])
               ab == a \o b
               rest == m.rest
    <3>1. WordsOf(m.id) = 2
      BY <1>3, <2>1 DEF WordsOf
    <3>2. /\ m.words[1] \in UInt32 /\ m.words[2] \in UInt32 /\ m.words = <<m.words[1], m.words[2]>>
          /\ Numbers(m.words) = ab
      <4>1. m.words \in [1 .. 2 -> UInt32]
        BY <1>1, <3>1, Zenon
      <4> QED BY <4>1, TwoNumbers, Zenon
    <3>3. /\ a \in Seq(Byte) /\ Len(a) = 4 /\ host_to_network_order(a) = m.words[1]
          /\ b \in Seq(Byte) /\ Len(b) = 4 /\ host_to_network_order(b) = m.words[2]
      BY <3>2, WordReversed, HostOrder, Zenon
    <3>4. rest \in Seq(Byte) /\ Len(rest) \in Nat
      BY <1>1, <1>2
    <3> HIDE DEF a, b, rest
    <3>5. ab \in Seq(Byte) /\ Len(ab) = 8
      <4>1. a \o b \in Seq(Byte) /\ Len(a \o b) = Len(a) + Len(b)
        BY <3>3, Bytes
      <4> QED BY <3>3, <4>1
    <3> DEFINE bytes == ab \o rest
               br == b \o rest
    <3>6. br \in Seq(Byte) /\ bytes = a \o br
      BY <3>3, <3>4, Bytes, BytesAssociate
    <3> HIDE DEF br
    <3>7. SubSeq(bytes, 1, 4) = a
      <4>1. SubSeq(a \o br, 1, Len(a)) = a
        BY <3>3, <3>6, DropFront
      <4> QED BY <3>3, <3>6, <4>1, Zenon
    <3>8. SubSeq(bytes, 5, 8) = b
      <4>1. SubSeq(a \o b \o rest, Len(a) + 1, Len(a) + Len(b)) = b
        BY <3>3, <3>4, Middle
      <4>2. Len(a) + 1 = 5 /\ Len(a) + Len(b) = 8
        BY <3>3
      <4> QED BY <4>1, <4>2, Zenon
    <3> HIDE DEF ab
    <3>9. bytes \in Seq(Byte) /\ Len(bytes) = 8 + Len(rest)
      <4>1. ab \o rest \in Seq(Byte) /\ Len(ab \o rest) = Len(ab) + Len(rest)
        BY <3>4, <3>5, Bytes
      <4> QED BY <3>5, <4>1
    <3>10. SubSeq(bytes, 9, Len(bytes)) = rest
      <4>1. Drop(ab \o rest, Len(ab)) = rest
        BY <3>4, <3>5, DropFront
      <4>2. SubSeq(bytes, 8 + 1, Len(bytes)) = rest
        BY <3>5, <4>1, Zenon DEF Drop
      <4>3. 8 + 1 = 9
        OBVIOUS
      <4> QED BY <4>2, <4>3, Zenon
    <3> HIDE DEF bytes
    <3>11. handle_message(7, bytes) = Message(7, <<m.words[1], m.words[2]>>, rest)
      <4>1. ~ (Len(bytes) < 8)
        BY <3>4, <3>9
      <4>2. parse_piece_message(bytes) = <<m.words[1], rest, m.words[2]>>
        BY <3>3, <3>7, <3>8, <3>10, <4>1, Zenon DEF parse_piece_message
      <4>3. handle_message(7, bytes) =
              Message(7, <<parse_piece_message(bytes)[1], parse_piece_message(bytes)[3]>>,
                      parse_piece_message(bytes)[2])
        BY <1>3, Zenon DEF handle_message
      <4> HIDE DEF rest
      <4> QED BY <4>2, <4>3
    <3>12. payload = bytes
      BY <3>2 DEF bytes, ab, rest
    <3>13. handle_message(m.id, payload) = m
      BY <1>1, <2>1, <3>2, <3>11, <3>12, Zenon DEF rest
    <3>14. 4 * WordsOf(m.id) + Len(m.rest) = 8 + Len(rest)
      BY <3>1 DEF rest
    <3> QED BY <3>9, <3>12, <3>13, <3>14, Zenon
  <2>2. CASE m.id = 4
    <3> DEFINE a == BigEndian(m.words[1])
               rest == m.rest
    <3>1. WordsOf(m.id) = 1
      BY <1>3, <2>2 DEF WordsOf
    <3>2. m.words[1] \in UInt32 /\ m.words = <<m.words[1]>> /\ Numbers(m.words) = a
      <4>1. m.words \in [1 .. 1 -> UInt32]
        BY <1>1, <3>1, Zenon
      <4> QED BY <4>1, OneNumber, Zenon
    <3>3. a \in Seq(Byte) /\ Len(a) = 4 /\ host_to_network_order(a) = m.words[1]
      BY <3>2, WordReversed, HostOrder, Zenon
    <3>4. rest \in Seq(Byte) /\ Len(rest) \in Nat
      BY <1>1, <1>2
    <3> HIDE DEF a, rest
    <3> DEFINE bytes == a \o rest
    <3>5. bytes \in Seq(Byte) /\ Len(bytes) = 4 + Len(rest)
      <4>1. a \o rest \in Seq(Byte) /\ Len(a \o rest) = Len(a) + Len(rest)
        BY <3>3, <3>4, Bytes
      <4> QED BY <3>3, <4>1
    <3>6. SubSeq(bytes, 1, 4) = a /\ Drop(bytes, 4) = rest
      <4>1. SubSeq(a \o rest, 1, Len(a)) = a /\ Drop(a \o rest, Len(a)) = rest
        BY <3>3, <3>4, DropFront
      <4> QED BY <3>3, <4>1, Zenon
    <3> HIDE DEF bytes
    <3>7. handle_message(4, bytes) = Message(4, <<m.words[1]>>, rest)
      <4>1. 4 # 7
        OBVIOUS
      <4> QED BY <1>3, <3>3, <3>6, <4>1, Zenon DEF handle_message
    <3>8. payload = bytes
      BY <3>2 DEF bytes, rest
    <3>9. handle_message(m.id, payload) = m
      BY <1>1, <2>2, <3>2, <3>7, <3>8, Zenon DEF rest
    <3>10. 4 * WordsOf(m.id) + Len(m.rest) = 4 + Len(rest)
      BY <3>1 DEF rest
    <3> QED BY <3>5, <3>8, <3>9, <3>10, Zenon
  <2>3. CASE m.id # 7 /\ m.id # 4
    <3>1. WordsOf(m.id) = 0
      BY <1>3, <2>3 DEF WordsOf
    <3>2. m.words = <<>> /\ Numbers(m.words) = <<>>
      <4>1. m.words \in [1 .. 0 -> UInt32]
        BY <1>1, <3>1, Zenon
      <4> QED BY <4>1, NoNumbers, Zenon
    <3>3. payload = m.rest
      <4>1. <<>> \o m.rest = m.rest
        BY <1>1, ConcatEmptySeq
      <4> QED BY <3>2, <4>1
    <3>4. handle_message(m.id, payload) = m
      BY <1>1, <1>3, <2>3, <3>2, <3>3, Zenon DEF handle_message
    <3>5. 4 * WordsOf(m.id) + Len(m.rest) = Len(m.rest)
      BY <1>2, <3>1
    <3> QED BY <1>1, <3>3, <3>4, <3>5, Zenon
  <2> QED BY <2>1, <2>2, <2>3
<1> HIDE DEF payload
<1>5. Encoded(m) = serialize_message(m.id, payload)
  <2> DEFINE size == 1 + Len(payload)
  <2>1. Len(payload) \in Nat /\ Len(payload) <= MAX_PAYLOAD
    BY <1>1, <1>4, LenProperties
  <2>2. Word(size) \in UInt32
    <3>1. size \in Nat /\ size < 2147483648
      BY <2>1, SMT DEF MAX_PAYLOAD
    <3> HIDE DEF size
    <3> QED BY <3>1, WordOfNumber, SMT
  <2>3. host_to_network_order(Word(size)) = BigEndian(Word(size))
    BY <2>2, WordReversed
  <2> QED BY <2>3, Zenon DEF Encoded, serialize_message, payload
<1>6. Len(payload) <= MAX_PAYLOAD
  BY <1>1, <1>4
<1> QED BY <1>1, <1>4, <1>5, <1>6, Zenon DEF PayloadParts, payload

\* What PeerConnection sends, and its bytes.
BlockMessages(type) == {Message(type, info, <<>>) : info \in BlockInfos}
Interested == Message(ID.INTERESTED, <<>>, <<>>)
OurMessages ==
  {Introduction(info_hash), Interested} \cup BlockMessages(ID.REQUEST) \cup BlockMessages(ID.CANCEL)

OurBytes ==
  [m \in OurMessages |->
     IF m.id = Handshake THEN create_handshake_message(info_hash, peer_id)
     ELSE IF m.id = ID.INTERESTED THEN serialize_message(ID.INTERESTED, <<>>)
     ELSE create_block_message(m.id, m.words)]

PeerBytes == [m \in PeerMessages |-> Encoded(m)]

LEMMA Ids ==
  /\ Handshake = 256 /\ ID.INTERESTED = 2 /\ ID.REQUEST = 6 /\ ID.CANCEL = 8 /\ ID.KEEP_ALIVE = 10
  /\ KeepAlive.id = 10
  /\ \A m \in PeerMessages : m.id # Handshake
<1>1. Handshake = 256 /\ ID.INTERESTED = 2 /\ ID.REQUEST = 6 /\ ID.CANCEL = 8 /\ ID.KEEP_ALIVE = 10
  BY DEF ID, Handshake
<1>2. KeepAlive.id = 10
  BY <1>1 DEF KeepAlive, Message
<1>3. \A m \in PeerMessages : m.id # 256
  <2>1. \A m \in PeerMessages : m.id \in Byte
    BY PeerMessage
  <2>2. 256 \notin Byte
    BY DEF Byte
  <2> QED BY <2>1, <2>2
<1> QED BY <1>1, <1>2, <1>3

\* The fields of a handshake are byte arrays of their lengths.
LEMMA HandshakeFields ==
  ASSUME NEW r \in Seq(Byte), NEW p \in [1 .. 20 -> Byte], NEW z \in [1 .. 8 -> Byte],
         NEW h \in [1 .. 20 -> Byte], NEW i \in [1 .. 20 -> Byte]
  PROVE  HandshakeParts(p, z, h, i, r)
<1>1. \A n \in Nat : [1 .. n -> Byte] \subseteq Seq(Byte)
  BY SeqDef
<1>2. p \in Seq(Byte) /\ z \in Seq(Byte) /\ h \in Seq(Byte) /\ i \in Seq(Byte)
  BY <1>1
<1>3. Len(p) = 20 /\ Len(z) = 8 /\ Len(h) = 20 /\ Len(i) = 20
  <2>1. /\ 1 .. Len(p) = 1 .. 20 /\ 1 .. Len(z) = 1 .. 8
        /\ 1 .. Len(h) = 1 .. 20 /\ 1 .. Len(i) = 1 .. 20
    BY <1>2, LenProperties
  <2>2. Len(p) \in Nat /\ Len(z) \in Nat /\ Len(h) \in Nat /\ Len(i) \in Nat
    BY <1>2, LenProperties
  <2> QED BY <2>1, <2>2
<1> QED BY <1>2, <1>3, HandshakeBytes

LEMMA OurHandshake ==
  ASSUME NEW r \in Seq(Byte)
  PROVE  LET f == create_handshake_message(info_hash, peer_id)
         IN /\ f \in Seq(Byte) /\ Len(f \o r) >= 68
            /\ SubSeq(f \o r, 1, 20) = Protocol /\ SubSeq(f \o r, 29, 48) = info_hash
            /\ Drop(f \o r, 68) = r
<1> DEFINE z == [n \in 1 .. 8 |-> 0]
           f == Protocol \o z \o info_hash \o peer_id
<1>1. z \in [1 .. 8 -> Byte]
  BY DEF Byte
<1>2. info_hash \in [1 .. 20 -> Byte] /\ peer_id \in [1 .. 20 -> Byte]
  BY WireAssumption
<1>3. Protocol \in [1 .. 20 -> Byte]
  BY ProtocolBytes, LenProperties
<1>4. create_handshake_message(info_hash, peer_id) = f
  BY Zenon DEF create_handshake_message, Protocol
<1> HIDE DEF z
<1>5. HandshakeParts(Protocol, z, info_hash, peer_id, r)
  BY <1>1, <1>2, <1>3, HandshakeFields
<1> QED BY <1>4, <1>5, Zenon DEF HandshakeParts

LEMMA OurBytesAre ==
  /\ OurBytes \in [OurMessages -> Seq(Byte)]
  /\ Introduction(info_hash) \in OurMessages
  /\ OurBytes[Introduction(info_hash)] = create_handshake_message(info_hash, peer_id)
  /\ Interested \in OurMessages
  /\ OurBytes[Interested] = serialize_message(ID.INTERESTED, <<>>)
  /\ \A type \in {ID.REQUEST, ID.CANCEL}, info \in BlockInfos :
       /\ info \in [1 .. 3 -> UInt32]
       /\ Message(type, info, <<>>) \in BlockMessages(type)
       /\ BlockMessages(type) \subseteq OurMessages
       /\ OurBytes[Message(type, info, <<>>)] = create_block_message(type, info)
<1>1. Introduction(info_hash) \in OurMessages /\ Interested \in OurMessages
  BY DEF OurMessages
<1>2. Introduction(info_hash).id = 256 /\ Interested.id = 2
  BY Ids DEF Introduction, Interested, Message
<1>3. <<>> \in Seq(Byte)
  OBVIOUS
<1>4. create_handshake_message(info_hash, peer_id) \in Seq(Byte)
  BY <1>3, OurHandshake
<1>5. serialize_message(ID.INTERESTED, <<>>) \in Seq(Byte)
  BY <1>3, InterestedTaken
<1>6. ASSUME NEW type \in {ID.REQUEST, ID.CANCEL}, NEW info \in BlockInfos
      PROVE  /\ info \in [1 .. 3 -> UInt32]
             /\ Message(type, info, <<>>) \in BlockMessages(type)
             /\ BlockMessages(type) \subseteq OurMessages
             /\ OurBytes[Message(type, info, <<>>)] = create_block_message(type, info)
             /\ create_block_message(type, info) \in Seq(Byte)
  <2> DEFINE m == Message(type, info, <<>>)
  <2>1. info \in [1 .. 3 -> UInt32]
    BY WireAssumption
  <2>2. m \in BlockMessages(type) /\ BlockMessages(type) \subseteq OurMessages
    BY DEF OurMessages, BlockMessages
  <2>3. m.id = type /\ m.words = info
    BY DEF Message
  <2>4. type # 256 /\ type # 2
    BY Ids
  <2> HIDE DEF m
  <2>5. OurBytes[m] = create_block_message(m.id, m.words)
    BY <2>2, <2>3, <2>4, Ids, Zenon DEF OurBytes
  <2>6. create_block_message(type, info) \in Seq(Byte)
    BY <1>3, <2>1, BlockTaken
  <2> QED BY <2>1, <2>2, <2>3, <2>5, <2>6, Zenon DEF m
<1>7. OurBytes[Introduction(info_hash)] = create_handshake_message(info_hash, peer_id)
  BY <1>1, <1>2, Ids, Zenon DEF OurBytes
<1>8. OurBytes[Interested] = serialize_message(ID.INTERESTED, <<>>)
  <2>1. Interested.id # Handshake /\ Interested.id = ID.INTERESTED
    BY <1>2, Ids
  <2> QED BY <1>1, <2>1, Zenon DEF OurBytes
<1>9. ASSUME NEW m \in OurMessages PROVE OurBytes[m] \in Seq(Byte)
  <2>1. CASE m = Introduction(info_hash)
    BY <1>4, <1>7, <2>1
  <2>2. CASE m = Interested
    BY <1>5, <1>8, <2>2
  <2>3. CASE m \in BlockMessages(ID.REQUEST) \/ m \in BlockMessages(ID.CANCEL)
    <3>1. PICK type \in {ID.REQUEST, ID.CANCEL}, info \in BlockInfos : m = Message(type, info, <<>>)
      BY <2>3, Zenon DEF BlockMessages
    <3> QED BY <1>6, <3>1
  <2> QED BY <2>1, <2>2, <2>3 DEF OurMessages
<1>10. OurBytes \in [OurMessages -> Seq(Byte)]
  <2>1. OurBytes = [m \in OurMessages |-> OurBytes[m]]
    BY DEF OurBytes
  <2> HIDE DEF OurBytes
  <2> QED BY <1>9, <2>1
<1> QED BY <1>1, <1>6, <1>7, <1>8, <1>10

\* The peer takes each message as it was sent.
LEMMA OursTaken ==
  ASSUME NEW m \in OurMessages, m.id # Handshake, NEW r \in Seq(Byte)
  PROVE  Taken(OurBytes[m] \o r, m, r)
<1>1. m # Introduction(info_hash)
  BY DEF Introduction, Message
<1>2. CASE m = Interested
  <2>1. Taken(serialize_message(ID.INTERESTED, <<>>) \o r, Interested, r)
    BY InterestedTaken, Zenon DEF Interested
  <2> QED BY <1>2, <2>1, OurBytesAre, Zenon
<1>3. CASE m \in BlockMessages(ID.REQUEST) \/ m \in BlockMessages(ID.CANCEL)
  <2>1. PICK type \in {ID.REQUEST, ID.CANCEL}, info \in BlockInfos : m = Message(type, info, <<>>)
    BY <1>3, Zenon DEF BlockMessages
  <2>2. /\ info \in [1 .. 3 -> UInt32]
        /\ OurBytes[Message(type, info, <<>>)] = create_block_message(type, info)
    BY OurBytesAre
  <2>3. Taken(create_block_message(type, info) \o r, Message(type, info, <<>>), r)
    BY <2>2, BlockTaken
  <2> QED BY <2>1, <2>2, <2>3, Zenon
<1> QED BY <1>1, <1>2, <1>3 DEF OurMessages

\* How receive_messages reads a message.
PeerParts(m, r) ==
  LET whole == PeerBytes[m]
      size == Len(whole) - 4
  IN /\ whole \in Seq(Byte) /\ size \in Nat
     /\ Len(whole \o r) >= 4
     /\ WordValue(host_to_network_order(SubSeq(whole \o r, 1, 4))) = size
     /\ Drop(whole, 4) \in Seq(Byte)
     /\ Drop(whole \o r, 4) = Drop(whole, 4) \o r
     /\ m = KeepAlive => size = 0 /\ Drop(whole, 4) = <<>>
     /\ m # KeepAlive =>
          /\ size >= 1 /\ m.id \in Byte
          /\ Len(Drop(whole, 4) \o r) >= 1
          /\ (Drop(whole, 4) \o r)[1] = m.id
          /\ Drop(Drop(whole, 4) \o r, 1) = Drop(whole, 5) \o r
          /\ Drop(whole, 5) \in Seq(Byte) /\ Len(Drop(whole, 5)) = size - 1
          /\ handle_message(m.id, Drop(whole, 5)) = m

LEMMA PeersRead ==
  ASSUME NEW m \in PeerMessages, NEW r \in Seq(Byte)
  PROVE  PeerParts(m, r)
<1> DEFINE whole == PeerBytes[m]
<1>1. whole = Encoded(m)
  BY DEF PeerBytes
<1> HIDE DEF whole
<1>2. Len(r) \in Nat
  BY LenProperties
<1>3. CASE m = KeepAlive
  <2> DEFINE zero == <<0, 0, 0, 0>>
  <2>1. whole = zero
    BY <1>1, <1>3, Zenon DEF Encoded
  <2>2. zero \in Seq(Byte) /\ Len(zero) = 4 /\ zero[1] = 0 /\ zero[2] = 0 /\ zero[3] = 0 /\ zero[4] = 0
    BY DEF Byte
  <2> HIDE DEF zero
  <2>3. zero \in UInt32
    BY <2>2, LenProperties DEF UInt32
  <2>4. /\ host_to_network_order(zero) = BigEndian(zero)
    BY <2>3, WordReversed
  <2>5. WordValue(host_to_network_order(zero)) = 0
    <3>1. BigEndian(zero) = <<0, 0, 0, 0>>
      BY <2>2 DEF BigEndian
    <3>2. WordValue(<<0, 0, 0, 0>>) = 0
      BY SMT DEF WordValue
    <3> QED BY <2>4, <3>1, <3>2, Zenon
  <2>6. SubSeq(zero \o r, 1, 4) = zero /\ Drop(zero \o r, 4) = r
    <3>1. SubSeq(zero \o r, 1, Len(zero)) = zero /\ Drop(zero \o r, Len(zero)) = r
      BY <2>2, DropFront
    <3> QED BY <2>2, <3>1, Zenon
  <2>7. Len(zero \o r) >= 4
    <3>1. Len(zero \o r) = Len(zero) + Len(r)
      BY <2>2, Bytes
    <3> QED BY <1>2, <2>2, <3>1
  <2>8. Drop(zero, 4) = <<>> /\ <<>> \in Seq(Byte)
    <3>1. <<>> \in Seq(Byte) /\ zero \o <<>> = zero
      BY <2>2, Bytes
    <3>2. Drop(zero \o <<>>, Len(zero)) = <<>>
      BY <2>2, <3>1, DropFront
    <3> QED BY <2>2, <3>1, <3>2, Zenon
  <2>9. <<>> \o r = r
    BY Bytes
  <2>10. Len(zero) - 4 = 0 /\ 0 \in Nat
    BY <2>2
  <2> QED BY <1>3, <2>1, <2>2, <2>5, <2>6, <2>7, <2>8, <2>9, <2>10, Zenon DEF PeerParts, whole
<1>4. CASE m # KeepAlive
  <2> DEFINE payload == Numbers(m.words) \o m.rest
             size == 1 + Len(payload)
             bp == <<m.id>> \o payload
  <2>1. PayloadParts(m, payload)
    BY <1>4, Payload
  <2> HIDE DEF payload
  <2>2. m.id \in Byte /\ payload \in Seq(Byte) /\ Len(payload) <= MAX_PAYLOAD
        /\ whole = serialize_message(m.id, payload) /\ handle_message(m.id, payload) = m
    BY <1>1, <2>1, Zenon DEF PayloadParts
  <2>3. SerializedParts(m.id, payload, r)
    BY <2>2, Serialized
  <2>4. /\ whole \in Seq(Byte) /\ Len(whole) = 4 + size /\ Len(whole \o r) = 4 + size + Len(r)
        /\ Len(payload) \in Nat
        /\ WordValue(host_to_network_order(SubSeq(whole \o r, 1, 4))) = size
        /\ Drop(whole, 4) = bp /\ Drop(whole, 5) = payload
        /\ Drop(whole \o r, 4) = bp \o r
        /\ bp \in Seq(Byte) /\ (bp \o r)[1] = m.id
        /\ Drop(bp \o r, 1) = payload \o r
    BY <2>2, <2>3, Zenon DEF SerializedParts
  <2>5. Len(bp) = 1 + Len(payload)
    <3>1. <<m.id>> \in Seq(Byte) /\ Len(<<m.id>>) = 1
      BY <2>2, OneByte
    <3>2. Len(<<m.id>> \o payload) = Len(<<m.id>>) + Len(payload)
      BY <2>2, <3>1, Bytes
    <3> QED BY <3>1, <3>2
  <2> HIDE DEF bp
  <2>6. Len(bp \o r) >= 1
    <3>1. Len(bp \o r) = Len(bp) + Len(r)
      BY <2>4, Bytes
    <3>2. Len(payload) \in Nat
      BY <2>4
    <3> QED BY <1>2, <2>5, <3>1, <3>2
  <2>7. Len(whole) - 4 = size /\ size \in Nat /\ size >= 1 /\ size - 1 = Len(payload)
        /\ Len(whole \o r) >= 4
    <3>1. Len(payload) \in Nat /\ Len(whole) = 4 + size /\ Len(whole \o r) = 4 + size + Len(r)
      BY <2>4
    <3> QED BY <1>2, <3>1
  <2> HIDE DEF size
  <2> QED BY <1>4, <2>2, <2>4, <2>6, <2>7, Zenon DEF PeerParts, whole
<1> QED BY <1>3, <1>4

LEMMA PeerBytesAre ==
  PeerBytes \in [PeerMessages -> Seq(Byte)]
<1>1. <<>> \in Seq(Byte)
  OBVIOUS
<1>2. \A m \in PeerMessages : PeerBytes[m] \in Seq(Byte)
  BY <1>1, PeersRead DEF PeerParts
<1>3. PeerBytes = [m \in PeerMessages |-> PeerBytes[m]]
  BY DEF PeerBytes
<1> QED BY <1>2, <1>3

\* Our handshake is the first message, and the only handshake.
OutgoingSpelled ==
  /\ asked \in Seq(OurMessages)
  /\ Spells(outgoing, OurBytes, asked)
  /\ ~ introduced /\ state_ # "disconnected" => asked # <<>>
  /\ \A n \in 1 .. Len(asked) : asked[n].id = Handshake <=> n = 1 /\ ~ introduced

\* The buffer holds what has been loaded since it was cleared.
BufferSpelled ==
  loading # 0 =>
    /\ state_ = "running"
    /\ loaded \in Seq(BlockMessages(loading))
    /\ Len(send_buffer_) = 17 * Len(loaded)
    /\ Spells(send_buffer_, OurBytes, loaded)

\* What is still to be read of the first message.
Remainder(first) ==
  LET m     == told[1]
      whole == PeerBytes[m]
  IN IF state_ = "connecting"
     THEN Len(first) = 68 /\ m = Introduction(parse_handshake_message(first))
     ELSE /\ m \in PeerMessages
          /\ IF state_ # "running" \/ reading = "size" THEN first = whole
             ELSE /\ message_size = Len(whole) - 4
                  /\ IF reading = "id" THEN first = Drop(whole, 4) /\ message_size > 0
                     ELSE first = Drop(whole, 5) /\ message_size > 1 /\ id = m.id

IncomingSpelled ==
  IF told = <<>> THEN incoming = <<>>
  ELSE \E first, rest \in Seq(Byte) :
         /\ incoming = first \o rest
         /\ Remainder(first)
         /\ Tail(told) \in Seq(PeerMessages)
         /\ Spells(rest, PeerBytes, Tail(told))

\* A closed connection has nothing under way; one that is open has been greeted
\* once its handshake has been read; a message that is being read was sent.
Phases ==
  /\ state_ = "disconnected" =>
       /\ asked = <<>> /\ told = <<>> /\ ~ introduced /\ ~ greeted
  /\ state_ \in {"connected", "running"} => greeted
  /\ state_ = "connecting" => (greeted <=> told # <<>>)
  /\ state_ = "running" /\ reading # "size" => told # <<>>

WireInv == WireTypeOK /\ OutgoingSpelled /\ BufferSpelled /\ IncomingSpelled /\ Phases
-----------------------------------------------------------------------------
LEMMA MessagesTyped ==
  /\ OurMessages \subseteq Messages /\ PeerMessages \subseteq Messages
  /\ \A h \in Seq(Byte) \cup {NoHash} : Introduction(h) \in Messages
<1>1. \A S : \A n \in Nat : [1 .. n -> S] \subseteq Seq(S)
  BY SeqDef
<1>2. UInt32 \subseteq Seq(Byte) \cup {NoHash}
  BY <1>1 DEF UInt32
<1> DEFINE Words == Seq(Seq(Byte) \cup {NoHash})
<1>3. \A n \in Nat : [1 .. n -> UInt32] \subseteq Words
  <2> DEFINE W == Seq(Byte) \cup {NoHash}
  <2> SUFFICES ASSUME NEW n \in Nat, NEW f \in [1 .. n -> UInt32] PROVE f \in Seq(W)
    OBVIOUS
  <2>1. f \in [1 .. n -> W]
    BY <1>2
  <2> HIDE DEF W
  <2> QED BY <1>1, <2>1
<1>4. <<>> \in Seq(Byte) /\ <<>> \in Words
  OBVIOUS
<1>5. \A w \in Seq(Byte) \cup {NoHash} : <<w>> \in Words
  OBVIOUS
<1> HIDE DEF Words
<1>6. \A i \in Byte \cup {Handshake}, w \in Words, r \in Seq(Byte) : Message(i, w, r) \in Messages
  BY DEF Message, Messages, Words
<1>7. \A h \in Seq(Byte) \cup {NoHash} : Introduction(h) \in Messages
  BY <1>4, <1>5, <1>6 DEF Introduction
<1>8. PeerMessages \subseteq Messages
  <2> SUFFICES ASSUME NEW m \in PeerMessages PROVE m \in Messages
    OBVIOUS
  <2>1. /\ m = Message(m.id, m.words, m.rest)
        /\ m.id \in Byte /\ m.words \in [1 .. WordsOf(m.id) -> UInt32] /\ m.rest \in Seq(Byte)
    BY PeerMessage
  <2>2. WordsOf(m.id) \in Nat
    BY DEF WordsOf
  <2> QED BY <1>3, <1>6, <2>1, <2>2, Zenon
<1>9. OurMessages \subseteq Messages
  <2>1. info_hash \in Seq(Byte)
    BY <1>1, WireAssumption
  <2>2. Introduction(info_hash) \in Messages
    BY <1>7, <2>1
  <2>3. {ID.INTERESTED, ID.REQUEST, ID.CANCEL} \subseteq Byte
    BY Ids DEF Byte
  <2>4. Interested \in Messages
    BY <1>4, <1>6, <2>3 DEF Interested
  <2>5. \A type \in {ID.REQUEST, ID.CANCEL}, info \in BlockInfos : Message(type, info, <<>>) \in Messages
    <3>1. \A info \in BlockInfos : info \in Words
      BY <1>3, WireAssumption
    <3> QED BY <1>4, <1>6, <2>3, <3>1
  <2>6. BlockMessages(ID.REQUEST) \subseteq Messages /\ BlockMessages(ID.CANCEL) \subseteq Messages
    BY <2>5 DEF BlockMessages
  <2> QED BY <2>2, <2>4, <2>6 DEF OurMessages
<1> QED BY <1>7, <1>8, <1>9

LEMMA WireStarts ==
  ASSUME WireInit
  PROVE  WireInv
<1>1. <<>> \in Seq(Byte) /\ <<>> \in Seq(Messages) /\ <<>> \in Seq(OurMessages) /\ Len(<<>>) = 0
  OBVIOUS
<1>2. 0 \in Byte
  BY DEF Byte
<1>3. WireTypeOK
  BY <1>1, <1>2 DEF WireInit, WireTypeOK
<1>4. OutgoingSpelled
  BY <1>1, SpellsNothing DEF WireInit, OutgoingSpelled
<1>5. BufferSpelled /\ IncomingSpelled /\ Phases
  BY DEF WireInit, BufferSpelled, IncomingSpelled, Phases
<1> QED BY <1>3, <1>4, <1>5 DEF WireInv
-----------------------------------------------------------------------------
\* A step that leaves a stream, or the buffer, alone.
LEMMA SameOutgoing ==
  ASSUME OutgoingSpelled, UNCHANGED <<outgoing, asked, introduced>>,
         state_' # "disconnected" => state_ # "disconnected"
  PROVE  OutgoingSpelled'
BY DEF OutgoingSpelled

LEMMA SameBuffer ==
  ASSUME BufferSpelled, UNCHANGED ours, state_ = "running" => state_' = "running"
  PROVE  BufferSpelled'
BY DEF BufferSpelled, ours

LEMMA SameIncoming ==
  ASSUME IncomingSpelled, UNCHANGED <<incoming, told, state_, reader>>
  PROVE  IncomingSpelled'
BY DEF IncomingSpelled, Remainder, reader

\* The streams are lost with the connection.
LEMMA Lost ==
  ASSUME WireInv, HandleFailure, UNCHANGED <<ours, got, reader>>, loading = 0,
         handled' \in Seq(Messages)
  PROVE  WireInv'
<1>1. <<>> \in Seq(Byte) /\ <<>> \in Seq(Messages) /\ <<>> \in Seq(OurMessages) /\ Len(<<>>) = 0
  OBVIOUS
<1>2. WireTypeOK'
  BY <1>1 DEF WireInv, WireTypeOK, HandleFailure, ours, reader
<1>3. OutgoingSpelled'
  BY <1>1, SpellsNothing DEF HandleFailure, OutgoingSpelled
<1>4. BufferSpelled' /\ IncomingSpelled' /\ Phases'
  BY DEF HandleFailure, ours, BufferSpelled, IncomingSpelled, Phases
<1> QED BY <1>2, <1>3, <1>4 DEF WireInv

\* The message behind one that has been read.
LEMMA NextMessage ==
  ASSUME NEW rest \in Seq(Byte), NEW ks \in Seq(PeerMessages), Spells(rest, PeerBytes, ks),
         incoming' = rest, told' = ks,
         state_' # "connecting", state_' = "running" => reading' = "size"
  PROVE  IncomingSpelled'
<1>1. CASE ks = <<>>
  BY <1>1, SpellsNothing DEF IncomingSpelled
<1>2. CASE ks # <<>>
  <2>1. PICK others \in Seq(Byte) :
          /\ ks[1] \in PeerMessages /\ Tail(ks) \in Seq(PeerMessages)
          /\ rest = PeerBytes[ks[1]] \o others
          /\ Spells(others, PeerBytes, Tail(ks))
    BY <1>2, PeerBytesAre, SpellsFirst
  <2>2. PeerBytes[ks[1]] \in Seq(Byte)
    BY <2>1, PeerBytesAre
  <2>3. Remainder(PeerBytes[ks[1]])'
    BY <2>1 DEF Remainder
  <2> QED BY <1>2, <2>1, <2>2, <2>3, Zenon DEF IncomingSpelled
<1> QED BY <1>1, <1>2

LEMMA DropOne ==
  ASSUME NEW M, NEW ms \in Seq(M), ms # <<>>
  PROVE  Drop(ms, 1) = Tail(ms) /\ Head(ms) = ms[1]
<1>1. /\ Len(ms) \in Nat \ {0} /\ Tail(ms) \in Seq(M) /\ Len(Tail(ms)) = Len(ms) - 1
      /\ \A n \in 1 .. Len(Tail(ms)) : Tail(ms)[n] = ms[n + 1]
      /\ Head(ms) = ms[1]
  BY EmptySeq, HeadTailProperties
<1>2. 1 \in 0 .. Len(ms)
  BY <1>1
<1>3. /\ Drop(ms, 1) \in Seq(M) /\ Len(Drop(ms, 1)) = Len(ms) - 1
      /\ \A n \in 1 .. Len(ms) - 1 : Drop(ms, 1)[n] = ms[n + 1]
  BY <1>2, DropFacts
<1>4. \A n \in 1 .. Len(Drop(ms, 1)) : Drop(ms, 1)[n] = Tail(ms)[n]
  BY <1>1, <1>3
<1>5. Drop(ms, 1) = Tail(ms)
  BY <1>1, <1>3, <1>4, SeqEqual
<1> QED BY <1>1, <1>5

\* A message is put behind those that are on the way.
LEMMA AppendOne ==
  ASSUME NEW M, NEW ms \in Seq(M), NEW m \in M
  PROVE  Append(ms, m) = ms \o <<m>> /\ Append(ms, m) \in Seq(M) /\ <<m>> \in Seq(M)
<1>1. <<m>> \in Seq(M) /\ Append(ms, m) \in Seq(M)
  OBVIOUS
<1>2. Append(ms, m) = ms \o <<m>>
  BY AppendIsConcat
<1> QED BY <1>1, <1>2
-----------------------------------------------------------------------------
LEMMA FirstOutgoing ==
  ASSUME OutgoingSpelled, asked # <<>>
  PROVE  /\ asked[1] \in OurMessages /\ Tail(asked) \in Seq(OurMessages)
         /\ asked[1].id = Handshake <=> ~ introduced
         /\ \E rest \in Seq(Byte) : /\ outgoing = OurBytes[asked[1]] \o rest
                                    /\ Spells(rest, OurBytes, Tail(asked))
<1>1. asked \in Seq(OurMessages) /\ Spells(outgoing, OurBytes, asked)
  BY DEF OutgoingSpelled
<1>2. 1 \in 1 .. Len(asked)
  <2>1. Len(asked) \in Nat \ {0}
    BY <1>1, LenProperties, EmptySeq
  <2> QED BY <2>1
<1>3. asked[1].id = Handshake <=> ~ introduced
  BY <1>2 DEF OutgoingSpelled
<1>4. /\ asked[1] \in OurMessages /\ Tail(asked) \in Seq(OurMessages)
      /\ \E rest \in Seq(Byte) : /\ outgoing = OurBytes[asked[1]] \o rest
                                 /\ Spells(rest, OurBytes, Tail(asked))
  BY <1>1, OurBytesAre, SpellsFirst
<1> QED BY <1>3, <1>4

\* More is sent.
LEMMA MoreSent ==
  ASSUME OutgoingSpelled, outgoing \in Seq(Byte),
         NEW ks \in Seq(OurMessages), \A n \in 1 .. Len(ks) : ks[n].id # Handshake,
         NEW bytes \in Seq(Byte), Spells(bytes, OurBytes, ks),
         outgoing' = outgoing \o bytes, asked' = asked \o ks,
         UNCHANGED introduced, state_ # "disconnected"
  PROVE  OutgoingSpelled' /\ outgoing' \in Seq(Byte) /\ asked' \in Seq(OurMessages)
<1>1. /\ asked \in Seq(OurMessages) /\ Spells(outgoing, OurBytes, asked)
      /\ ~ introduced => asked # <<>>
      /\ \A n \in 1 .. Len(asked) : asked[n].id = Handshake <=> n = 1 /\ ~ introduced
  BY DEF OutgoingSpelled
<1>2. /\ asked' \in Seq(OurMessages) /\ Len(asked') = Len(asked) + Len(ks)
      /\ Len(asked) \in Nat /\ Len(ks) \in Nat
      /\ \A n \in 1 .. Len(asked) + Len(ks) :
           asked'[n] = IF n <= Len(asked) THEN asked[n] ELSE ks[n - Len(asked)]
  BY <1>1, ConcatProperties, LenProperties
<1>3. Spells(outgoing', OurBytes, asked')
  BY <1>1, OurBytesAre, SpellsJoin
<1>4. ~ introduced => asked' # <<>>
  <2>1. ASSUME ~ introduced PROVE Len(asked') > 0
    <3>1. Len(asked) > 0
      BY <1>1, <2>1, EmptySeq, LenProperties
    <3> QED BY <1>2, <3>1
  <2>2. Len(<<>>) = 0
    OBVIOUS
  <2> QED BY <2>1, <2>2
<1>5. ASSUME NEW n \in 1 .. Len(asked')
      PROVE  asked'[n].id = Handshake <=> n = 1 /\ ~ introduced
  <2>1. CASE n <= Len(asked)
    BY <1>1, <1>2, <2>1
  <2>2. CASE n > Len(asked)
    <3>1. n - Len(asked) \in 1 .. Len(ks) /\ ~ (n <= Len(asked)) /\ n \in 1 .. Len(asked) + Len(ks)
      BY <1>2, <2>2
    <3>2. asked'[n].id # Handshake
      BY <1>2, <3>1
    <3>3. introduced \/ n # 1
      <4>1. ~ introduced => Len(asked) > 0
        BY <1>1, EmptySeq, LenProperties
      <4> QED BY <1>2, <2>2, <4>1
    <3> QED BY <3>2, <3>3
  <2> QED BY <1>2, <2>1, <2>2
<1>6. outgoing' \in Seq(Byte)
  BY Bytes
<1> QED BY <1>2, <1>3, <1>4, <1>5, <1>6 DEF OutgoingSpelled

\* The peer reads the first message.
LEMMA OneRead ==
  ASSUME OutgoingSpelled, asked # <<>>, asked' = Tail(asked), introduced' = TRUE,
         Spells(outgoing', OurBytes, Tail(asked))
  PROVE  OutgoingSpelled'
<1>1. asked \in Seq(OurMessages)
      /\ \A n \in 1 .. Len(asked) : asked[n].id = Handshake <=> n = 1 /\ ~ introduced
  BY DEF OutgoingSpelled
<1>2. /\ Len(asked) \in Nat \ {0} /\ Tail(asked) \in Seq(OurMessages)
      /\ Len(Tail(asked)) = Len(asked) - 1
      /\ \A n \in 1 .. Len(Tail(asked)) : Tail(asked)[n] = asked[n + 1]
  BY <1>1, EmptySeq, HeadTailProperties
<1>3. ASSUME NEW n \in 1 .. Len(Tail(asked)) PROVE Tail(asked)[n].id # Handshake
  <2>1. n + 1 \in 1 .. Len(asked) /\ n + 1 # 1
    BY <1>2
  <2>2. asked[n + 1].id # Handshake
    BY <1>1, <2>1
  <2> QED BY <1>2, <2>2
<1> QED BY <1>2, <1>3, Zenon DEF OutgoingSpelled

LEMMA SendHandshakeStep ==
  ASSUME WireInv, SendHandshake
  PROVE  WireInv'
<1> DEFINE f == create_handshake_message(info_hash, peer_id)
           m == Introduction(info_hash)
<1>1. /\ state_ = "disconnected" /\ state_' = "connecting"
      /\ outgoing' = f /\ asked' = <<m>>
      /\ UNCHANGED <<ours, theirs, stream, reader, handled>>
  BY DEF SendHandshake
<1>2. asked = <<>> /\ told = <<>> /\ introduced = FALSE /\ greeted = FALSE /\ loading = 0
  BY <1>1 DEF WireInv, WireTypeOK, BufferSpelled, Phases
<1>3. m \in OurMessages /\ OurBytes[m] = f /\ f \in Seq(Byte) /\ m \in Messages /\ m.id = Handshake
  <2>1. m \in OurMessages /\ OurBytes[m] = f /\ OurBytes[m] \in Seq(Byte)
    BY OurBytesAre
  <2> QED BY <2>1, MessagesTyped DEF Introduction, Message
<1>4. Spells(f, OurBytes, <<m>>)
  <2>1. Spells(OurBytes[m], OurBytes, <<m>>)
    BY <1>3, OurBytesAre, SpellsOne
  <2> QED BY <1>3, <2>1
<1> HIDE DEF f, m
<1>5. /\ <<m>> \in Seq(OurMessages) /\ <<m>> \in Seq(Messages) /\ <<m>> # <<>>
      /\ Len(<<m>>) = 1 /\ <<m>>[1] = m /\ \A n \in 1 .. 1 : n = 1
  BY <1>3
<1>6. WireTypeOK'
  BY <1>1, <1>3, <1>5 DEF WireInv, WireTypeOK, ours, theirs, stream, reader
<1>7. OutgoingSpelled'
  <2>1. introduced' = FALSE
    BY <1>1, <1>2 DEF theirs
  <2>2. \A n \in 1 .. Len(<<m>>) : <<m>>[n].id = Handshake /\ n = 1
    BY <1>3, <1>5
  <2> QED BY <1>1, <1>4, <1>5, <2>1, <2>2, Zenon DEF OutgoingSpelled
<1>8. BufferSpelled' /\ IncomingSpelled' /\ Phases'
  BY <1>1, <1>2 DEF WireInv, BufferSpelled, IncomingSpelled, Phases, ours, theirs, stream, reader
<1> QED BY <1>6, <1>7, <1>8 DEF WireInv

LEMMA SomethingComes ==
  ASSUME IncomingSpelled, Len(incoming) > 0
  PROVE  told # <<>>
<1>1. Len(<<>>) = 0
  OBVIOUS
<1> QED BY <1>1 DEF IncomingSpelled

LEMMA FirstTold ==
  ASSUME WireTypeOK, told # <<>>
  PROVE  told[1] \in Messages /\ Head(told) = told[1] /\ Drop(told, 1) = Tail(told)
<1>1. told \in Seq(Messages)
  BY DEF WireTypeOK
<1>2. Len(told) \in Nat \ {0}
  BY <1>1, LenProperties, EmptySeq
<1>3. 1 \in 1 .. Len(told)
  BY <1>2
<1>4. told[1] \in Messages
  BY <1>1, <1>3, ElementOfSeq
<1> QED BY <1>1, <1>4, DropOne

LEMMA HandshakeRead ==
  ASSUME WireInv, state_ = "connecting", Len(incoming) >= 68
  PROVE  /\ told # <<>>
         /\ told[1] = Introduction(parse_handshake_message(SubSeq(incoming, 1, 68)))
         /\ Drop(incoming, 68) \in Seq(Byte) /\ Tail(told) \in Seq(PeerMessages)
         /\ Spells(Drop(incoming, 68), PeerBytes, Tail(told))
<1>1. told # <<>>
  <2>1. incoming \in Seq(Byte)
    BY DEF WireInv, WireTypeOK
  <2>2. Len(incoming) > 0
    BY <2>1, LenProperties
  <2> QED BY <2>2, SomethingComes DEF WireInv
<1>2. PICK first \in Seq(Byte), rest \in Seq(Byte) :
        /\ incoming = first \o rest /\ Remainder(first)
        /\ Tail(told) \in Seq(PeerMessages) /\ Spells(rest, PeerBytes, Tail(told))
  BY <1>1 DEF WireInv, IncomingSpelled
<1>3. Len(first) = 68 /\ told[1] = Introduction(parse_handshake_message(first))
  BY <1>2 DEF Remainder
<1>4. SubSeq(first \o rest, 1, Len(first)) = first /\ Drop(first \o rest, Len(first)) = rest
  BY DropFront
<1>5. SubSeq(incoming, 1, 68) = first /\ Drop(incoming, 68) = rest
  BY <1>2, <1>3, <1>4, Zenon
<1> QED BY <1>1, <1>2, <1>3, <1>5

LEMMA receive_handshakeStep ==
  ASSUME WireInv, receive_handshake
  PROVE  WireInv'
<1> DEFINE hash == parse_handshake_message(SubSeq(incoming, 1, 68))
<1>1. /\ state_ = "connecting" /\ Len(incoming) >= 68 /\ handled' = <<Introduction(hash)>>
      /\ UNCHANGED <<ours, got, reader>>
      /\ \/ /\ state_' = "connected"
            /\ incoming' = Drop(incoming, 68) /\ told' = Drop(told, 1)
            /\ UNCHANGED <<outgoing, asked, introduced, greeted>>
         \/ HandleFailure
  BY DEF receive_handshake
<1> HIDE DEF hash
<1>2. /\ told # <<>> /\ told[1] = Introduction(hash)
      /\ Drop(incoming, 68) \in Seq(Byte) /\ Tail(told) \in Seq(PeerMessages)
      /\ Spells(Drop(incoming, 68), PeerBytes, Tail(told))
  BY <1>1, HandshakeRead DEF hash
<1>3. told[1] \in Messages /\ Drop(told, 1) = Tail(told)
  BY <1>2, FirstTold DEF WireInv
<1>4. handled' \in Seq(Messages)
  <2>1. \A m \in Messages : <<m>> \in Seq(Messages)
    OBVIOUS
  <2> QED BY <1>1, <1>2, <1>3, <2>1
<1>5. loading = 0
  BY <1>1 DEF WireInv, BufferSpelled
<1>6. CASE HandleFailure
  BY <1>1, <1>4, <1>5, <1>6, Lost
<1>7. CASE /\ state_' = "connected"
           /\ incoming' = Drop(incoming, 68) /\ told' = Drop(told, 1)
           /\ UNCHANGED <<outgoing, asked, introduced, greeted>>
  <2>1. WireTypeOK'
    <3>1. Seq(PeerMessages) \subseteq Seq(Messages)
      BY MessagesTyped
    <3>2. told' \in Seq(Messages)
      BY <1>2, <1>3, <1>7, <3>1
    <3> QED BY <1>1, <1>2, <1>4, <1>7, <3>2 DEF WireInv, WireTypeOK, ours, reader
  <2>2. OutgoingSpelled'
    BY <1>1, <1>7, SameOutgoing DEF WireInv
  <2>3. BufferSpelled'
    BY <1>1, <1>5 DEF BufferSpelled, ours
  <2>4. IncomingSpelled'
    BY <1>2, <1>3, <1>7, NextMessage
  <2>5. Phases'
    <3>1. greeted
      BY <1>1, <1>2 DEF WireInv, Phases
    <3> QED BY <1>7, <3>1 DEF Phases
  <2> QED BY <2>1, <2>2, <2>3, <2>4, <2>5 DEF WireInv
<1> QED BY <1>1, <1>6, <1>7

LEMMA ConnectionLostStep ==
  ASSUME WireInv, ConnectionLost
  PROVE  WireInv'
<1>1. handled' \in Seq(Messages)
  BY DEF ConnectionLost, WireInv, WireTypeOK
<1> QED BY <1>1, Lost DEF ConnectionLost

LEMMA SendInterestedStep ==
  ASSUME WireInv, SendInterested
  PROVE  WireInv'
<1> DEFINE f == serialize_message(ID.INTERESTED, <<>>)
           longer == Resized(send_buffer_, 17 * MAX_BLOCKS_IN_FLIGHT)
<1>1. /\ state_ = "connected" /\ state_' = "running" /\ reading' = "size"
      /\ send_buffer_' = f \o Drop(longer, 5)
      /\ outgoing' = outgoing \o f
      /\ asked' = Append(asked, Interested)
      /\ UNCHANGED <<loading, loaded, theirs, stream, message_size, id, handled>>
  BY DEF SendInterested, Interested
<1>2. loading = 0 /\ greeted /\ outgoing \in Seq(Byte) /\ asked \in Seq(OurMessages)
      /\ send_buffer_ \in Seq(Byte)
  BY <1>1 DEF WireInv, WireTypeOK, BufferSpelled, Phases, OutgoingSpelled
<1>3. Interested \in OurMessages /\ OurBytes[Interested] = f /\ f \in Seq(Byte)
      /\ Spells(f, OurBytes, <<Interested>>)
  <2>1. Interested \in OurMessages /\ OurBytes[Interested] = f /\ OurBytes[Interested] \in Seq(Byte)
    BY OurBytesAre
  <2>2. Spells(OurBytes[Interested], OurBytes, <<Interested>>)
    BY <2>1, OurBytesAre, SpellsOne
  <2> QED BY <2>1, <2>2
<1>4. asked' = asked \o <<Interested>> /\ <<Interested>> \in Seq(OurMessages)
  BY <1>1, <1>2, <1>3, AppendOne
<1> HIDE DEF f
<1>5. OutgoingSpelled' /\ outgoing' \in Seq(Byte) /\ asked' \in Seq(OurMessages)
  <2>1. Interested.id # Handshake
    BY Ids DEF Interested, Message
  <2>2. \A n \in 1 .. Len(<<Interested>>) : <<Interested>>[n].id # Handshake
    BY <2>1
  <2>3. UNCHANGED introduced
    BY <1>1 DEF theirs
  <2> QED BY <1>1, <1>2, <1>3, <1>4, <2>2, <2>3, MoreSent DEF WireInv
<1>6. send_buffer_' \in Seq(Byte)
  <2> DEFINE k == 17 * MAX_BLOCKS_IN_FLIGHT
  <2>1. k \in Nat /\ k >= 5
    BY WireAssumption
  <2> HIDE DEF k
  <2>2. \A i \in 1 .. Len(send_buffer_) : send_buffer_[i] \in Byte
    BY <1>2, ElementOfSeq
  <2>3. \A i \in 1 .. k : i <= Len(send_buffer_) => i \in 1 .. Len(send_buffer_)
    BY <1>2, <2>1, LenProperties
  <2>4. 0 \in Byte
    BY DEF Byte
  <2>5. Resized(send_buffer_, k) \in [1 .. k -> Byte]
    BY <2>2, <2>3, <2>4 DEF Resized
  <2> DEFINE more == Resized(send_buffer_, k)
  <2>6. more \in Seq(Byte) /\ Len(more) = k
    <3>1. \A n \in Nat : [1 .. n -> Byte] \subseteq Seq(Byte)
      BY SeqDef
    <3>2. more \in Seq(Byte)
      BY <2>1, <2>5, <3>1
    <3>3. 1 .. Len(more) = 1 .. k /\ Len(more) \in Nat
      BY <2>5, <3>2, LenProperties
    <3> QED BY <2>1, <3>2, <3>3
  <2> HIDE DEF more
  <2>7. 5 \in 0 .. Len(more)
    BY <2>1, <2>6
  <2>8. Drop(more, 5) \in Seq(Byte)
    BY <2>6, <2>7, DropFacts
  <2>9. f \o Drop(more, 5) \in Seq(Byte)
    BY <1>3, <2>8, Bytes
  <2> QED BY <1>1, <2>9, Zenon DEF more, k
<1>7. WireTypeOK'
  <2>1. Seq(OurMessages) \subseteq Seq(Messages)
    BY MessagesTyped
  <2>2. asked' \in Seq(Messages)
    BY <1>5, <2>1
  <2> QED BY <1>1, <1>5, <1>6, <2>2 DEF WireInv, WireTypeOK, theirs, stream
<1>8. BufferSpelled'
  BY <1>1, <1>2 DEF BufferSpelled
<1>9. IncomingSpelled'
  BY <1>1 DEF WireInv, IncomingSpelled, Remainder, stream
<1>10. Phases'
  BY <1>1, <1>2 DEF Phases, stream
<1> QED BY <1>5, <1>7, <1>8, <1>9, <1>10 DEF WireInv

LEMMA StartLoadStep ==
  ASSUME WireInv, NEW type \in {ID.REQUEST, ID.CANCEL}, StartLoad(type)
  PROVE  WireInv'
<1>1. /\ state_ = "running" /\ loading = 0 /\ loading' = type /\ loaded' = <<>>
      /\ send_buffer_' = <<>>
      /\ UNCHANGED <<state_, outgoing, asked, theirs, stream, reader, handled>>
  BY DEF StartLoad
<1>2. <<>> \in Seq(Byte) /\ <<>> \in Seq(Messages) /\ <<>> \in Seq(BlockMessages(type)) /\ Len(<<>>) = 0
  OBVIOUS
<1>3. WireTypeOK'
  BY <1>1, <1>2 DEF WireInv, WireTypeOK, theirs, stream, reader
<1>4. OutgoingSpelled'
  BY <1>1, SameOutgoing DEF WireInv, theirs
<1>5. BufferSpelled'
  BY <1>1, <1>2, SpellsNothing DEF BufferSpelled
<1>6. IncomingSpelled'
  BY <1>1, SameIncoming DEF WireInv, stream
<1>7. Phases'
  BY <1>1 DEF WireInv, Phases, theirs, stream, reader
<1> QED BY <1>3, <1>4, <1>5, <1>6, <1>7 DEF WireInv

\* A message is written behind those that the buffer holds.
LEMMA Slot ==
  ASSUME NEW buffer \in Seq(Byte), NEW i \in Nat, Len(buffer) = 17 * i,
         NEW msg \in Seq(Byte), Len(msg) = 17
  PROVE  InSlot(buffer, i, msg) = buffer \o msg
<1> DEFINE zeros == [n \in 1 .. 17 |-> 0]
           longer == buffer \o zeros
<1>1. zeros \in Seq(Byte) /\ Len(zeros) = 17
  <2>1. zeros \in [1 .. 17 -> Byte]
    BY DEF Byte
  <2>2. \A n \in Nat : [1 .. n -> Byte] \subseteq Seq(Byte)
    BY SeqDef
  <2>3. zeros \in Seq(Byte)
    BY <2>1, <2>2
  <2>4. 1 .. Len(zeros) = 1 .. 17 /\ Len(zeros) \in Nat
    BY <2>1, <2>3, LenProperties
  <2> QED BY <2>3, <2>4
<1> HIDE DEF zeros
<1>2. longer \in Seq(Byte) /\ Len(longer) = i * 17 + 17
  <2>1. buffer \o zeros \in Seq(Byte) /\ Len(buffer \o zeros) = Len(buffer) + Len(zeros)
    BY <1>1, Bytes
  <2> QED BY <1>1, <2>1
<1>3. SubSeq(longer, 1, i * 17) = buffer
  <2>1. SubSeq(buffer \o zeros, 1, Len(buffer)) = buffer
    BY <1>1, DropFront
  <2>2. i * 17 = Len(buffer)
    OBVIOUS
  <2> QED BY <2>1, <2>2, Zenon
<1> HIDE DEF longer
<1>4. Drop(longer, i * 17 + 17) = <<>>
  <2>1. <<>> \in Seq(Byte) /\ longer \o <<>> = longer
    BY <1>2, Bytes
  <2>2. Drop(longer \o <<>>, Len(longer)) = <<>>
    BY <1>2, <2>1, DropFront
  <2> QED BY <1>2, <2>1, <2>2, Zenon
<1>5. (buffer \o msg) \o <<>> = buffer \o msg
  BY Bytes
<1>6. InSlot(buffer, i, msg) = SubSeq(longer, 1, i * 17) \o msg \o Drop(longer, i * 17 + 17)
  BY Zenon DEF InSlot, longer, zeros
<1> QED BY <1>3, <1>4, <1>5, <1>6, Zenon

LEMMA LoadBlockStep ==
  ASSUME WireInv, NEW info \in BlockInfos, LoadBlock(info)
  PROVE  WireInv'
<1> DEFINE m == Message(loading, info, <<>>)
           f == create_block_message(loading, info)
<1>1. /\ loading # 0
      /\ send_buffer_' = InSlot(send_buffer_, Len(loaded), f)
      /\ loaded' = Append(loaded, m)
      /\ UNCHANGED <<state_, loading, outgoing, asked, theirs, stream, reader, handled>>
  BY DEF LoadBlock
<1>2. /\ loading \in {ID.REQUEST, ID.CANCEL} /\ state_ = "running"
      /\ loaded \in Seq(BlockMessages(loading)) /\ Len(send_buffer_) = 17 * Len(loaded)
      /\ Spells(send_buffer_, OurBytes, loaded) /\ send_buffer_ \in Seq(Byte)
  BY <1>1 DEF WireInv, WireTypeOK, BufferSpelled
<1>3. /\ info \in [1 .. 3 -> UInt32] /\ m \in BlockMessages(loading)
      /\ BlockMessages(loading) \subseteq OurMessages /\ OurBytes[m] = f
  BY <1>2, OurBytesAre
<1>4. f \in Seq(Byte) /\ Len(f) = 17
  <2>1. <<>> \in Seq(Byte)
    OBVIOUS
  <2> QED BY <1>2, <1>3, <2>1, BlockTaken
<1> HIDE DEF m, f
<1>5. send_buffer_' = send_buffer_ \o f
  <2>1. Len(loaded) \in Nat
    BY <1>2, LenProperties
  <2> QED BY <1>1, <1>2, <1>4, <2>1, Slot
<1>6. loaded' = loaded \o <<m>> /\ loaded' \in Seq(BlockMessages(loading))
  BY <1>1, <1>2, <1>3, AppendOne
<1>7. Len(send_buffer_') = 17 * Len(loaded') /\ send_buffer_' \in Seq(Byte)
  <2>1. Len(send_buffer_ \o f) = Len(send_buffer_) + Len(f) /\ send_buffer_ \o f \in Seq(Byte)
    BY <1>2, <1>4, Bytes
  <2>2. Len(loaded') = Len(loaded) + 1 /\ Len(loaded) \in Nat
    BY <1>1, <1>2, <1>3, AppendProperties, LenProperties
  <2> QED BY <1>2, <1>4, <1>5, <2>1, <2>2
<1>8. Spells(send_buffer_', OurBytes, loaded')
  <2>1. m \in OurMessages /\ <<m>> \in Seq(OurMessages)
    BY <1>3
  <2>2. Spells(f, OurBytes, <<m>>)
    <3>1. Spells(OurBytes[m], OurBytes, <<m>>)
      BY <2>1, OurBytesAre, SpellsOne
    <3> QED BY <1>3, <3>1
  <2>3. loaded \in Seq(OurMessages)
    BY <1>2, <1>3
  <2>4. Spells(send_buffer_ \o f, OurBytes, loaded \o <<m>>)
    BY <1>2, <1>4, <2>1, <2>2, <2>3, OurBytesAre, SpellsJoin
  <2> QED BY <1>5, <1>6, <2>4
<1>9. BufferSpelled'
  BY <1>1, <1>2, <1>6, <1>7, <1>8 DEF BufferSpelled
<1>10. WireTypeOK'
  <2>1. Seq(BlockMessages(loading)) \subseteq Seq(Messages)
    BY <1>3, MessagesTyped
  <2>2. loaded' \in Seq(Messages)
    BY <1>6, <2>1
  <2> QED BY <1>1, <1>7, <2>2 DEF WireInv, WireTypeOK, theirs, stream, reader
<1>11. OutgoingSpelled'
  BY <1>1, SameOutgoing DEF WireInv, theirs
<1>12. IncomingSpelled'
  BY <1>1, SameIncoming DEF WireInv, stream
<1>13. Phases'
  BY <1>1 DEF WireInv, Phases, theirs, stream, reader
<1> QED BY <1>9, <1>10, <1>11, <1>12, <1>13 DEF WireInv

LEMMA SendLoadedStep ==
  ASSUME WireInv, SendLoaded
  PROVE  WireInv'
<1>1. /\ loading # 0 /\ outgoing' = outgoing \o send_buffer_ /\ asked' = asked \o loaded
      /\ loading' = 0
      /\ UNCHANGED <<state_, send_buffer_, loaded, theirs, stream, reader, handled>>
  BY DEF SendLoaded
<1>2. /\ loading \in {ID.REQUEST, ID.CANCEL} /\ state_ = "running"
      /\ loaded \in Seq(BlockMessages(loading))
      /\ Spells(send_buffer_, OurBytes, loaded)
      /\ send_buffer_ \in Seq(Byte) /\ outgoing \in Seq(Byte)
  BY <1>1 DEF WireInv, WireTypeOK, BufferSpelled
<1>3. \A n \in 1 .. Len(loaded) : loaded[n].id # Handshake
  <2> SUFFICES ASSUME NEW n \in 1 .. Len(loaded) PROVE loaded[n].id # Handshake
    OBVIOUS
  <2>1. loaded[n] \in BlockMessages(loading)
    BY <1>2, ElementOfSeq
  <2>2. loaded[n].id = loading
    BY <2>1 DEF BlockMessages, Message
  <2> QED BY <1>2, <2>2, Ids
<1>4. loaded \in Seq(OurMessages)
  <2>1. BlockMessages(loading) \subseteq OurMessages
    BY <1>2 DEF OurMessages
  <2> QED BY <1>2, <2>1
<1>5. OutgoingSpelled' /\ outgoing' \in Seq(Byte) /\ asked' \in Seq(OurMessages)
  <2>1. UNCHANGED introduced /\ OutgoingSpelled
    BY <1>1 DEF theirs, WireInv
  <2> QED BY <1>1, <1>2, <1>3, <1>4, <2>1, MoreSent
<1>6. WireTypeOK'
  <2>1. Seq(OurMessages) \subseteq Seq(Messages)
    BY MessagesTyped
  <2>2. asked' \in Seq(Messages)
    BY <1>5, <2>1
  <2> QED BY <1>1, <1>5, <2>2 DEF WireInv, WireTypeOK, theirs, stream, reader
<1>7. BufferSpelled'
  BY <1>1 DEF BufferSpelled
<1>8. IncomingSpelled'
  BY <1>1, SameIncoming DEF WireInv, stream
<1>9. Phases'
  BY <1>1, <1>2 DEF WireInv, Phases, theirs, stream, reader
<1> QED BY <1>5, <1>6, <1>7, <1>8, <1>9 DEF WireInv

\* The message that is being read.
LEMMA FirstIncoming ==
  ASSUME WireInv, state_ = "running", told # <<>>
  PROVE  \E first, rest \in Seq(Byte) :
           /\ incoming = first \o rest /\ Remainder(first)
           /\ told[1] \in PeerMessages /\ PeerParts(told[1], rest)
           /\ Tail(told) \in Seq(PeerMessages) /\ Spells(rest, PeerBytes, Tail(told))
<1>1. PICK first \in Seq(Byte), rest \in Seq(Byte) :
        /\ incoming = first \o rest /\ Remainder(first)
        /\ Tail(told) \in Seq(PeerMessages) /\ Spells(rest, PeerBytes, Tail(told))
  BY DEF WireInv, IncomingSpelled
<1>2. told[1] \in PeerMessages
  BY <1>1 DEF Remainder
<1>3. PeerParts(told[1], rest)
  BY <1>2, PeersRead
<1> QED BY <1>1, <1>2, <1>3

\* Nobody waits for what will not come, and what is handled was sent.
LEMMA SizeRead ==
  ASSUME WireInv, state_ = "running", reading = "size", told # <<>>
  PROVE  \E rest \in Seq(Byte) :
           LET m     == told[1]
               whole == PeerBytes[m]
               size  == WordValue(host_to_network_order(SubSeq(incoming, 1, 4)))
           IN /\ Len(incoming) >= 4
              /\ m \in PeerMessages
              /\ size \in Nat /\ size = Len(whole) - 4
              /\ Drop(whole, 4) \in Seq(Byte) /\ Drop(incoming, 4) = Drop(whole, 4) \o rest
              /\ size = 0 => m = KeepAlive /\ Drop(incoming, 4) = rest
              /\ Tail(told) \in Seq(PeerMessages) /\ Spells(rest, PeerBytes, Tail(told))
<1> DEFINE m     == told[1]
           whole == PeerBytes[m]
           size  == WordValue(host_to_network_order(SubSeq(incoming, 1, 4)))
<1>1. PICK first \in Seq(Byte), rest \in Seq(Byte) :
        /\ incoming = first \o rest /\ Remainder(first)
        /\ m \in PeerMessages /\ PeerParts(m, rest)
        /\ Tail(told) \in Seq(PeerMessages) /\ Spells(rest, PeerBytes, Tail(told))
  BY FirstIncoming
<1>2. first = whole
  BY <1>1 DEF Remainder
<1>3. /\ Len(whole) - 4 \in Nat
      /\ Len(whole \o rest) >= 4
      /\ WordValue(host_to_network_order(SubSeq(whole \o rest, 1, 4))) = Len(whole) - 4
      /\ Drop(whole, 4) \in Seq(Byte)
      /\ Drop(whole \o rest, 4) = Drop(whole, 4) \o rest
      /\ m = KeepAlive => Drop(whole, 4) = <<>>
      /\ m # KeepAlive => Len(whole) - 4 >= 1
  BY <1>1, Zenon DEF PeerParts
<1>4. /\ Len(incoming) >= 4 /\ size = Len(whole) - 4 /\ size \in Nat
      /\ Drop(incoming, 4) = Drop(whole, 4) \o rest
  BY <1>1, <1>2, <1>3, Zenon
<1>5. size = 0 => m = KeepAlive
  BY <1>3, <1>4
<1>6. m = KeepAlive => Drop(incoming, 4) = rest
  <2>1. <<>> \o rest = rest
    BY Bytes
  <2> QED BY <1>3, <1>4, <2>1, Zenon
<1> QED BY <1>1, <1>3, <1>4, <1>5, <1>6, Zenon

LEMMA IdRead ==
  ASSUME WireInv, state_ = "running", reading = "id", told # <<>>
  PROVE  \E rest \in Seq(Byte) :
           LET m     == told[1]
               whole == PeerBytes[m]
           IN /\ Len(incoming) >= 1 /\ incoming[1] = m.id /\ m.id \in Byte
              /\ m \in PeerMessages
              /\ message_size = Len(whole) - 4 /\ message_size >= 1
              /\ Drop(whole, 5) \in Seq(Byte) /\ Drop(incoming, 1) = Drop(whole, 5) \o rest
              /\ message_size = 1 => handle_message(m.id, <<>>) = m /\ Drop(incoming, 1) = rest
              /\ Tail(told) \in Seq(PeerMessages) /\ Spells(rest, PeerBytes, Tail(told))
<1> DEFINE m     == told[1]
           whole == PeerBytes[m]
<1>1. PICK first \in Seq(Byte), rest \in Seq(Byte) :
        /\ incoming = first \o rest /\ Remainder(first)
        /\ m \in PeerMessages /\ PeerParts(m, rest)
        /\ Tail(told) \in Seq(PeerMessages) /\ Spells(rest, PeerBytes, Tail(told))
  BY FirstIncoming
<1>2. first = Drop(whole, 4) /\ message_size = Len(whole) - 4 /\ message_size > 0
  BY <1>1 DEF Remainder
<1>3. /\ m = KeepAlive => Len(whole) - 4 = 0
      /\ m # KeepAlive =>
           /\ Len(whole) - 4 >= 1 /\ m.id \in Byte
           /\ Len(Drop(whole, 4) \o rest) >= 1
           /\ (Drop(whole, 4) \o rest)[1] = m.id
           /\ Drop(Drop(whole, 4) \o rest, 1) = Drop(whole, 5) \o rest
           /\ Drop(whole, 5) \in Seq(Byte) /\ Len(Drop(whole, 5)) = Len(whole) - 4 - 1
           /\ handle_message(m.id, Drop(whole, 5)) = m
  BY <1>1, Zenon DEF PeerParts
<1>4. m # KeepAlive
  <2>1. ASSUME m = KeepAlive PROVE message_size = 0
    BY <1>2, <1>3, <2>1
  <2>2. message_size # 0
    <3>1. message_size > 0
      BY <1>2, Zenon
    <3>2. message_size \in Nat
      BY DEF WireInv, WireTypeOK
    <3> QED BY <3>1, <3>2
  <2> QED BY <2>1, <2>2, Zenon
<1>5. /\ Len(incoming) >= 1 /\ incoming[1] = m.id /\ m.id \in Byte /\ message_size >= 1
      /\ Drop(incoming, 1) = Drop(whole, 5) \o rest /\ Drop(whole, 5) \in Seq(Byte)
      /\ Len(Drop(whole, 5)) = message_size - 1
      /\ handle_message(m.id, Drop(whole, 5)) = m
  BY <1>1, <1>2, <1>3, <1>4, Zenon
<1>6. ASSUME message_size = 1
      PROVE  handle_message(m.id, <<>>) = m /\ Drop(incoming, 1) = rest
  <2>1. Len(Drop(whole, 5)) = 0
    BY <1>5, <1>6
  <2>2. Drop(whole, 5) = <<>>
    BY <1>5, <2>1, EmptySeq
  <2>3. <<>> \o rest = rest
    BY Bytes
  <2> QED BY <1>5, <2>2, <2>3, Zenon
<1> QED BY <1>1, <1>2, <1>5, <1>6, Zenon

LEMMA PayloadRead ==
  ASSUME WireInv, state_ = "running", reading = "payload", told # <<>>
  PROVE  LET n == message_size - 1
         IN /\ Len(incoming) >= n
            /\ handle_message(id, SubSeq(incoming, 1, n)) = told[1]
            /\ Drop(incoming, n) \in Seq(Byte)
            /\ Tail(told) \in Seq(PeerMessages) /\ Spells(Drop(incoming, n), PeerBytes, Tail(told))
<1> DEFINE m     == told[1]
           whole == PeerBytes[m]
           n     == message_size - 1
<1>1. PICK first \in Seq(Byte), rest \in Seq(Byte) :
        /\ incoming = first \o rest /\ Remainder(first)
        /\ m \in PeerMessages /\ PeerParts(m, rest)
        /\ Tail(told) \in Seq(PeerMessages) /\ Spells(rest, PeerBytes, Tail(told))
  BY FirstIncoming
<1>2. first = Drop(whole, 5) /\ message_size = Len(whole) - 4 /\ message_size > 1 /\ id = m.id
  BY <1>1 DEF Remainder
<1>3. /\ m = KeepAlive => Len(whole) - 4 = 0
      /\ m # KeepAlive =>
           /\ Len(Drop(whole, 5)) = Len(whole) - 4 - 1
           /\ handle_message(m.id, Drop(whole, 5)) = m
  BY <1>1, Zenon DEF PeerParts
<1>4. m # KeepAlive
  <2>1. ASSUME m = KeepAlive PROVE message_size = 0
    BY <1>2, <1>3, <2>1
  <2>2. message_size # 0
    <3>1. message_size > 1
      BY <1>2, Zenon
    <3>2. message_size \in Nat
      BY DEF WireInv, WireTypeOK
    <3> QED BY <3>1, <3>2
  <2> QED BY <2>1, <2>2, Zenon
<1>5. Len(first) = n /\ handle_message(id, first) = m
  BY <1>2, <1>3, <1>4, Zenon
<1>6. SubSeq(first \o rest, 1, Len(first)) = first /\ Drop(first \o rest, Len(first)) = rest
  BY DropFront
<1>7. SubSeq(incoming, 1, n) = first /\ Drop(incoming, n) = rest
  BY <1>1, <1>5, <1>6, Zenon
<1>8. Len(incoming) >= n
  <2>1. Len(first \o rest) = Len(first) + Len(rest) /\ Len(rest) \in Nat /\ Len(first) \in Nat
    BY Bytes
  <2> QED BY <1>1, <1>5, <2>1
<1> QED BY <1>1, <1>5, <1>7, <1>8, Zenon

\* A message has been handled and the next one is to be read.
LEMMA Handled ==
  ASSUME WireInv, told # <<>>, state_ = "running", loading = 0, NEW m, m = told[1], Handle(m),
         UNCHANGED <<state_, ours, outgoing, asked, theirs, greeted>>,
         message_size' \in Nat, id' \in Byte,
         NEW rest \in Seq(Byte), incoming' = rest,
         Tail(told) \in Seq(PeerMessages), Spells(rest, PeerBytes, Tail(told))
  PROVE  WireInv'
<1>1. /\ told[1] \in Messages /\ Drop(told, 1) = Tail(told)
  BY FirstTold DEF WireInv
<1>2. handled' = <<told[1]>> /\ told' = Tail(told) /\ reading' = "size"
  BY <1>1 DEF Handle
<1>3. handled' \in Seq(Messages)
  BY <1>1, <1>2
<1>4. told' \in Seq(Messages)
  <2>1. Seq(PeerMessages) \subseteq Seq(Messages)
    BY MessagesTyped
  <2> QED BY <1>2, <2>1
<1>5. WireTypeOK'
  BY <1>2, <1>3, <1>4 DEF WireInv, WireTypeOK, ours, theirs
<1>6. OutgoingSpelled'
  BY SameOutgoing DEF WireInv, theirs
<1>7. BufferSpelled'
  BY SameBuffer DEF WireInv
<1>8. IncomingSpelled'
  BY <1>2, NextMessage
<1>9. Phases'
  BY <1>2 DEF WireInv, Phases, theirs
<1> QED BY <1>5, <1>6, <1>7, <1>8, <1>9 DEF WireInv

LEMMA ReadSizeStep ==
  ASSUME WireInv, ReadSize
  PROVE  WireInv'
<1> DEFINE m     == told[1]
           whole == PeerBytes[m]
           size  == WordValue(host_to_network_order(SubSeq(incoming, 1, 4)))
<1>1. /\ state_ = "running" /\ loading = 0 /\ reading = "size" /\ Len(incoming) >= 4
      /\ message_size' = size /\ incoming' = Drop(incoming, 4)
      /\ IF message_size' = 0 THEN Handle(KeepAlive)
         ELSE reading' = "id" /\ UNCHANGED <<told, handled>>
      /\ UNCHANGED <<state_, ours, outgoing, asked, theirs, greeted, id>>
  BY DEF ReadSize, Listening
<1>2. told # <<>>
  <2>1. Len(incoming) \in Nat
    BY LenProperties DEF WireInv, WireTypeOK
  <2> QED BY <1>1, <2>1, SomethingComes DEF WireInv
<1>3. PICK rest \in Seq(Byte) :
        /\ m \in PeerMessages
        /\ size \in Nat /\ size = Len(whole) - 4
        /\ Drop(whole, 4) \in Seq(Byte) /\ Drop(incoming, 4) = Drop(whole, 4) \o rest
        /\ size = 0 => m = KeepAlive /\ Drop(incoming, 4) = rest
        /\ Tail(told) \in Seq(PeerMessages) /\ Spells(rest, PeerBytes, Tail(told))
  BY <1>1, <1>2, SizeRead, Zenon
<1> HIDE DEF size
<1>4. id' \in Byte
  BY <1>1 DEF WireInv, WireTypeOK
<1>5. CASE size = 0
  <2>1. m = KeepAlive /\ incoming' = rest /\ Handle(KeepAlive)
    BY <1>1, <1>3, <1>5
  <2>2. message_size' \in Nat
    BY <1>1, <1>3
  <2> QED BY <1>1, <1>2, <1>3, <1>4, <2>1, <2>2, Handled
<1>6. CASE size # 0
  <2>1. /\ reading' = "id" /\ UNCHANGED <<told, handled>> /\ message_size' > 0
        /\ message_size' \in Nat /\ message_size' = Len(whole) - 4
        /\ incoming' = Drop(whole, 4) \o rest
    <3>1. size > 0
      <4>1. size \in Nat
        BY <1>3, Zenon
      <4> QED BY <1>6, <4>1
    <3> QED BY <1>1, <1>3, <1>6, <3>1, Zenon
  <2>2. incoming' \in Seq(Byte)
    BY <1>3, <2>1, Bytes
  <2>3. WireTypeOK'
    BY <1>1, <1>4, <2>1, <2>2 DEF WireInv, WireTypeOK, ours, theirs
  <2>4. OutgoingSpelled'
    BY <1>1, SameOutgoing DEF WireInv, theirs
  <2>5. BufferSpelled'
    BY <1>1, SameBuffer DEF WireInv
  <2>6. Remainder(Drop(whole, 4))'
    BY <1>1, <1>3, <2>1 DEF Remainder
  <2>7. IncomingSpelled'
    BY <1>2, <1>3, <2>1, <2>6, Zenon DEF IncomingSpelled
  <2>8. Phases'
    BY <1>1, <1>2, <2>1 DEF WireInv, Phases, theirs
  <2> QED BY <2>3, <2>4, <2>5, <2>7, <2>8 DEF WireInv
<1> QED BY <1>5, <1>6

LEMMA ReadIdStep ==
  ASSUME WireInv, ReadId
  PROVE  WireInv'
<1> DEFINE m     == told[1]
           whole == PeerBytes[m]
<1>1. /\ state_ = "running" /\ loading = 0 /\ reading = "id" /\ Len(incoming) >= 1
      /\ id' = incoming[1] /\ incoming' = Drop(incoming, 1)
      /\ IF message_size = 1 THEN Handle(handle_message(id', <<>>))
         ELSE reading' = "payload" /\ UNCHANGED <<told, handled>>
      /\ UNCHANGED <<state_, ours, outgoing, asked, theirs, greeted, message_size>>
  BY DEF ReadId, Listening
<1>2. told # <<>>
  BY <1>1 DEF WireInv, Phases
<1>3. PICK rest \in Seq(Byte) :
        /\ incoming[1] = m.id /\ m.id \in Byte
        /\ m \in PeerMessages
        /\ message_size = Len(whole) - 4 /\ message_size >= 1
        /\ Drop(whole, 5) \in Seq(Byte) /\ Drop(incoming, 1) = Drop(whole, 5) \o rest
        /\ message_size = 1 => handle_message(m.id, <<>>) = m /\ Drop(incoming, 1) = rest
        /\ Tail(told) \in Seq(PeerMessages) /\ Spells(rest, PeerBytes, Tail(told))
  BY <1>1, <1>2, IdRead, Zenon
<1>4. id' = m.id /\ id' \in Byte /\ message_size \in Nat /\ message_size' = message_size
  BY <1>1, <1>3 DEF WireInv, WireTypeOK
<1>5. CASE message_size = 1
  <2>1. m = handle_message(id', <<>>) /\ incoming' = rest /\ Handle(handle_message(id', <<>>))
    BY <1>1, <1>3, <1>4, <1>5, Zenon
  <2> QED BY <1>1, <1>2, <1>3, <1>4, <2>1, Handled
<1>6. CASE message_size # 1
  <2>1. /\ reading' = "payload" /\ UNCHANGED <<told, handled>> /\ message_size' > 1
        /\ message_size' = Len(whole) - 4
        /\ incoming' = Drop(whole, 5) \o rest
    <3>1. message_size > 1
      <4>1. message_size \in Nat /\ message_size >= 1
        BY <1>3, <1>4, Zenon
      <4> QED BY <1>6, <4>1
    <3> QED BY <1>1, <1>3, <1>4, <1>6, <3>1, Zenon
  <2>2. incoming' \in Seq(Byte)
    BY <1>3, <2>1, Bytes
  <2>3. WireTypeOK'
    BY <1>1, <1>4, <2>1, <2>2 DEF WireInv, WireTypeOK, ours, theirs
  <2>4. OutgoingSpelled'
    BY <1>1, SameOutgoing DEF WireInv, theirs
  <2>5. BufferSpelled'
    BY <1>1, SameBuffer DEF WireInv
  <2>6. Remainder(Drop(whole, 5))'
    BY <1>1, <1>3, <1>4, <2>1 DEF Remainder
  <2>7. IncomingSpelled'
    BY <1>2, <1>3, <2>1, <2>6, Zenon DEF IncomingSpelled
  <2>8. Phases'
    BY <1>1, <1>2, <2>1 DEF WireInv, Phases, theirs
  <2> QED BY <2>3, <2>4, <2>5, <2>7, <2>8 DEF WireInv
<1> QED BY <1>5, <1>6

LEMMA ReadPayloadStep ==
  ASSUME WireInv, ReadPayload
  PROVE  WireInv'
<1> DEFINE n == message_size - 1
           m == handle_message(id, SubSeq(incoming, 1, n))
<1>1. /\ state_ = "running" /\ loading = 0 /\ reading = "payload"
      /\ incoming' = Drop(incoming, n) /\ Handle(m)
      /\ UNCHANGED <<state_, ours, outgoing, asked, theirs, greeted, message_size, id>>
  BY DEF ReadPayload, Listening
<1>2. told # <<>>
  BY <1>1 DEF WireInv, Phases
<1>3. /\ m = told[1] /\ Drop(incoming, n) \in Seq(Byte)
      /\ Tail(told) \in Seq(PeerMessages) /\ Spells(Drop(incoming, n), PeerBytes, Tail(told))
  BY <1>1, <1>2, PayloadRead
<1>4. message_size' \in Nat /\ id' \in Byte
  BY <1>1 DEF WireInv, WireTypeOK
<1> HIDE DEF n, m
<1> QED BY <1>1, <1>2, <1>3, <1>4, Handled

LEMMA PeerSendsHandshakeStep ==
  ASSUME WireInv, NEW g \in Greetings, PeerSendsHandshake(g)
  PROVE  WireInv'
<1> DEFINE f == g.protocol \o g.reserved \o g.hash \o g.id
           hash == IF g.protocol = Protocol THEN g.hash ELSE NoHash
           m == Introduction(hash)
<1>1. /\ state_ # "disconnected" /\ ~ greeted /\ greeted' = TRUE
      /\ incoming' = f /\ told' = <<m>>
      /\ UNCHANGED <<state_, ours, outgoing, asked, theirs, reader, handled>>
  BY DEF PeerSendsHandshake
<1>2. state_ = "connecting" /\ loading = 0
  BY <1>1 DEF WireInv, WireTypeOK, BufferSpelled, Phases
<1>3. /\ g.protocol \in [1 .. 20 -> Byte] /\ g.reserved \in [1 .. 8 -> Byte]
      /\ g.hash \in [1 .. 20 -> Byte] /\ g.id \in [1 .. 20 -> Byte]
  BY WireAssumption
<1>4. <<>> \in Seq(Byte) /\ Len(<<>>) = 0 /\ <<>> \in Seq(PeerMessages)
  OBVIOUS
<1>5. HandshakeParts(g.protocol, g.reserved, g.hash, g.id, <<>>)
  BY <1>3, <1>4, HandshakeFields
<1>6. f \in Seq(Byte) /\ Len(f) = 68 /\ parse_handshake_message(f) = hash
  BY <1>5, Zenon DEF HandshakeParts
<1>7. m \in Messages
  <2>1. \A n \in Nat : [1 .. n -> Byte] \subseteq Seq(Byte)
    BY SeqDef
  <2>2. hash \in Seq(Byte) \cup {NoHash}
    BY <1>3, <2>1
  <2> HIDE DEF hash
  <2> QED BY <2>2, MessagesTyped
<1> HIDE DEF f, hash
<1>8. f \o <<>> = f
  BY <1>6, Bytes
<1>9. m = Introduction(parse_handshake_message(f))
  BY <1>6
<1> HIDE DEF m
<1>10. <<m>> \in Seq(Messages) /\ <<m>> # <<>> /\ <<m>>[1] = m /\ Tail(<<m>>) = <<>>
  <2>1. <<m>> \in Seq(Messages) /\ <<m>> # <<>> /\ <<m>>[1] = m
    BY <1>7
  <2>2. Tail(<<m>>) \in Seq(Messages) /\ Len(Tail(<<m>>)) = Len(<<m>>) - 1 /\ Len(<<m>>) = 1
    BY <2>1, HeadTailProperties
  <2>3. Tail(<<m>>) = <<>>
    BY <2>2, EmptySeq
  <2> QED BY <2>1, <2>3
<1>11. WireTypeOK'
  BY <1>1, <1>6, <1>10 DEF WireInv, WireTypeOK, ours, theirs, reader
<1>12. OutgoingSpelled'
  BY <1>1, SameOutgoing DEF WireInv, theirs
<1>13. BufferSpelled'
  BY <1>1, SameBuffer DEF WireInv
<1>14. IncomingSpelled'
  <2>1. Remainder(f)'
    BY <1>1, <1>2, <1>6, <1>9, <1>10 DEF Remainder
  <2>2. Spells(<<>>, PeerBytes, <<>>)
    BY SpellsNothing
  <2>3. told' # <<>> /\ incoming' = f \o <<>> /\ Tail(told') = <<>>
    BY <1>1, <1>8, <1>10
  <2> QED BY <1>4, <1>6, <2>1, <2>2, <2>3, Zenon DEF IncomingSpelled
<1>15. Phases'
  BY <1>1, <1>2, <1>10 DEF WireInv, Phases, theirs, reader
<1> QED BY <1>11, <1>12, <1>13, <1>14, <1>15 DEF WireInv

LEMMA PeerSendsStep ==
  ASSUME WireInv, NEW m \in PeerMessages, PeerSends(m)
  PROVE  WireInv'
<1> DEFINE f == Encoded(m)
<1>1. /\ greeted /\ incoming' = incoming \o f /\ told' = Append(told, m)
      /\ UNCHANGED <<state_, ours, outgoing, asked, theirs, greeted, reader, handled>>
  BY DEF PeerSends
<1>2. f = PeerBytes[m] /\ f \in Seq(Byte) /\ Spells(f, PeerBytes, <<m>>)
  <2>1. f = PeerBytes[m]
    BY DEF PeerBytes
  <2>2. PeerBytes[m] \in Seq(Byte) /\ Spells(PeerBytes[m], PeerBytes, <<m>>)
    BY PeerBytesAre, SpellsOne
  <2> QED BY <2>1, <2>2
<1> HIDE DEF f
<1>3. m \in Messages /\ told \in Seq(Messages) /\ incoming \in Seq(Byte)
  BY MessagesTyped DEF WireInv, WireTypeOK
<1>4. told' \in Seq(Messages) /\ told' # <<>>
  <2>1. told' = told \o <<m>> /\ told' \in Seq(Messages)
    BY <1>1, <1>3, AppendOne
  <2>2. Len(told') = Len(told) + 1 /\ Len(told) \in Nat
    BY <1>1, <1>3, AppendProperties, LenProperties
  <2>3. Len(told') # 0
    BY <2>2
  <2>4. Len(<<>>) = 0
    OBVIOUS
  <2> QED BY <2>1, <2>3, <2>4, Zenon
<1>5. incoming' \in Seq(Byte)
  BY <1>1, <1>2, <1>3, Bytes
<1>6. WireTypeOK'
  BY <1>1, <1>4, <1>5 DEF WireInv, WireTypeOK, ours, theirs, reader
<1>7. OutgoingSpelled'
  BY <1>1, SameOutgoing DEF WireInv, theirs
<1>8. BufferSpelled'
  BY <1>1, SameBuffer DEF WireInv
<1>9. Phases'
  <2>1. state_ = "connecting" => told # <<>>
    BY <1>1 DEF WireInv, Phases
  <2> QED BY <1>1, <1>4 DEF WireInv, Phases, theirs, reader
<1>10. IncomingSpelled'
  <2>1. CASE told = <<>>
    <3>1. incoming = <<>>
      BY <2>1 DEF WireInv, IncomingSpelled
    <3>2. incoming' = f \o <<>> /\ <<>> \in Seq(Byte) /\ <<>> \in Seq(PeerMessages)
      <4>1. <<>> \o f = f /\ f \o <<>> = f
        BY <1>2, Bytes
      <4>2. <<>> \in Seq(Byte) /\ <<>> \in Seq(PeerMessages)
        OBVIOUS
      <4> QED BY <1>1, <3>1, <4>1, <4>2, Zenon
    <3>3. told' = <<m>>
      BY <1>1, <2>1
    <3>4. told'[1] = m /\ Tail(told') = <<>>
      <4>1. <<m>>[1] = m /\ Tail(<<m>>) = <<>>
        <5>1. Tail(<<m>>) \in Seq(Messages) /\ Len(Tail(<<m>>)) = Len(<<m>>) - 1 /\ Len(<<m>>) = 1
          BY <1>3, HeadTailProperties
        <5>2. Tail(<<m>>) = <<>>
          BY <5>1, EmptySeq
        <5> QED BY <5>2
      <4> QED BY <3>3, <4>1, Zenon
    <3>5. state_ # "connecting" /\ (state_ = "running" => reading = "size")
      BY <1>1, <2>1 DEF WireInv, Phases
    <3>6. Remainder(f)'
      BY <1>1, <1>2, <3>4, <3>5 DEF Remainder, reader
    <3>7. Spells(<<>>, PeerBytes, <<>>)
      BY SpellsNothing
    <3> QED BY <1>2, <1>4, <3>2, <3>4, <3>6, <3>7, Zenon DEF IncomingSpelled
  <2>2. CASE told # <<>>
    <3>1. PICK first \in Seq(Byte), rest \in Seq(Byte) :
            /\ incoming = first \o rest /\ Remainder(first)
            /\ Tail(told) \in Seq(PeerMessages) /\ Spells(rest, PeerBytes, Tail(told))
      BY <2>2 DEF WireInv, IncomingSpelled
    <3> DEFINE more == rest \o f
    <3>2. incoming' = first \o more /\ more \in Seq(Byte)
      <4>1. f \in Seq(Byte)
        BY <1>2
      <4>2. (first \o rest) \o f = first \o (rest \o f)
        BY <4>1, BytesAssociate
      <4>3. rest \o f \in Seq(Byte)
        BY <4>1, Bytes
      <4> QED BY <1>1, <3>1, <4>2, <4>3, Zenon
    <3>3. Tail(told') = Tail(told) \o <<m>> /\ told'[1] = told[1]
      <4>1. /\ Len(told) \in Nat \ {0} /\ Len(Tail(told)) = Len(told) - 1
            /\ Tail(told) \in Seq(Messages)
            /\ \A n \in 1 .. Len(Tail(told)) : Tail(told)[n] = told[n + 1]
        BY <1>3, <2>2, EmptySeq, HeadTailProperties
      <4>2. /\ Len(told') = Len(told) + 1
            /\ \A n \in 1 .. Len(told) : told'[n] = told[n]
            /\ told'[Len(told) + 1] = m
        BY <1>1, <1>3, AppendProperties
      <4>3. /\ Len(Tail(told')) = Len(told)
            /\ Tail(told') \in Seq(Messages)
            /\ \A n \in 1 .. Len(told) : Tail(told')[n] = told'[n + 1]
        <5>1. Len(told') - 1 = Len(told)
          BY <4>1, <4>2
        <5>2. /\ Len(Tail(told')) = Len(told') - 1 /\ Tail(told') \in Seq(Messages)
              /\ \A n \in 1 .. Len(Tail(told')) : Tail(told')[n] = told'[n + 1]
          BY <1>4, HeadTailProperties
        <5> QED BY <5>1, <5>2
      <4> DEFINE long == Append(Tail(told), m)
      <4>4. /\ long \in Seq(Messages) /\ Len(long) = Len(told)
            /\ \A n \in 1 .. Len(Tail(told)) : long[n] = Tail(told)[n]
            /\ long[Len(Tail(told)) + 1] = m
            /\ long = Tail(told) \o <<m>>
        <5>1. /\ long \in Seq(Messages) /\ Len(long) = Len(Tail(told)) + 1
              /\ \A n \in 1 .. Len(Tail(told)) : long[n] = Tail(told)[n]
              /\ long[Len(Tail(told)) + 1] = m
          BY <1>3, <4>1, AppendProperties
        <5>2. long = Tail(told) \o <<m>>
          BY <1>3, <4>1, AppendOne
        <5>3. Len(Tail(told)) + 1 = Len(told)
          BY <4>1
        <5> QED BY <5>1, <5>2, <5>3
      <4> HIDE DEF long
      <4>5. ASSUME NEW n \in 1 .. Len(told) PROVE Tail(told')[n] = long[n]
        <5>1. CASE n < Len(told)
          <6>1. n \in 1 .. Len(Tail(told)) /\ n + 1 \in 1 .. Len(told)
            BY <4>1, <5>1
          <6> QED BY <4>1, <4>2, <4>3, <4>4, <6>1
        <5>2. CASE n = Len(told)
          <6>1. Len(Tail(told)) + 1 = n
            BY <4>1, <5>2
          <6> QED BY <4>2, <4>3, <4>4, <5>2, <6>1
        <5>3. n < Len(told) \/ n = Len(told)
          <6>1. Len(told) \in Nat
            BY <4>1, Zenon
          <6> QED BY <6>1
        <5> QED BY <5>1, <5>2, <5>3
      <4>6. Tail(told') = long
        BY <4>3, <4>4, <4>5, SeqEqual
      <4>7. 1 \in 1 .. Len(told)
        BY <4>1
      <4> QED BY <4>2, <4>4, <4>6, <4>7
    <3>4. Remainder(first)'
      BY <1>1, <3>1, <3>3 DEF Remainder, reader
    <3>5. <<m>> \in Seq(PeerMessages)
      OBVIOUS
    <3>6. Tail(told') \in Seq(PeerMessages)
      <4>1. Tail(told) \o <<m>> \in Seq(PeerMessages)
        BY <3>1, <3>5, ConcatProperties
      <4> QED BY <3>3, <4>1
    <3>7. Spells(more, PeerBytes, Tail(told) \o <<m>>)
      BY <1>2, <3>1, <3>5, PeerBytesAre, SpellsJoin
    <3> HIDE DEF more
    <3> QED BY <1>4, <3>2, <3>3, <3>4, <3>6, <3>7, Zenon DEF IncomingSpelled
  <2> QED BY <2>1, <2>2
<1> QED BY <1>6, <1>7, <1>8, <1>9, <1>10 DEF WireInv
-----------------------------------------------------------------------------
LEMMA HandshakeTaken ==
  ASSUME WireInv, ~ introduced, Len(outgoing) >= 68
  PROVE  /\ asked # <<>> /\ asked[1] = Introduction(info_hash) /\ Drop(asked, 1) = Tail(asked)
         /\ Head(asked) = asked[1]
         /\ SubSeq(outgoing, 1, 20) = Protocol /\ SubSeq(outgoing, 29, 48) = info_hash
         /\ Drop(outgoing, 68) \in Seq(Byte) /\ Tail(asked) \in Seq(OurMessages)
         /\ Spells(Drop(outgoing, 68), OurBytes, Tail(asked))
<1>1. OutgoingSpelled /\ asked \in Seq(OurMessages)
  BY DEF WireInv, OutgoingSpelled
<1>2. asked # <<>>
  <2>1. ASSUME asked = <<>> PROVE outgoing = <<>>
    BY <1>1, <2>1, SpellsNothing DEF OutgoingSpelled
  <2>2. Len(<<>>) = 0
    OBVIOUS
  <2> QED BY <2>1, <2>2
<1>3. PICK rest \in Seq(Byte) : outgoing = OurBytes[asked[1]] \o rest /\ Spells(rest, OurBytes, Tail(asked))
  BY <1>1, <1>2, FirstOutgoing
<1>4. /\ asked[1] \in OurMessages /\ asked[1].id = Handshake /\ Tail(asked) \in Seq(OurMessages)
  BY <1>1, <1>2, FirstOutgoing
<1>5. asked[1] = Introduction(info_hash)
  <2>1. Interested.id # Handshake
    BY Ids DEF Interested, Message
  <2>2. \A type \in {ID.REQUEST, ID.CANCEL} : \A m \in BlockMessages(type) : m.id # Handshake
    BY Ids DEF BlockMessages, Message
  <2> QED BY <1>4, <2>1, <2>2 DEF OurMessages
<1>6. outgoing = create_handshake_message(info_hash, peer_id) \o rest
  BY <1>3, <1>5, OurBytesAre
<1>7. /\ SubSeq(outgoing, 1, 20) = Protocol /\ SubSeq(outgoing, 29, 48) = info_hash
      /\ Drop(outgoing, 68) = rest
  BY <1>6, OurHandshake, Zenon
<1>8. Drop(asked, 1) = Tail(asked) /\ Head(asked) = asked[1]
  BY <1>1, <1>2, DropOne
<1> QED BY <1>2, <1>3, <1>4, <1>5, <1>7, <1>8

LEMMA PeerReadsHandshakeStep ==
  ASSUME WireInv, PeerReadsHandshake
  PROVE  WireInv' /\ asked # <<>> /\ got' = <<Head(asked)>> /\ asked' = Tail(asked)
<1>1. /\ ~ introduced /\ Len(outgoing) >= 68 /\ introduced' = TRUE
      /\ got' = <<Introduction(IF SubSeq(outgoing, 1, 20) = Protocol
                                 THEN SubSeq(outgoing, 29, 48) ELSE NoHash)>>
      /\ outgoing' = Drop(outgoing, 68) /\ asked' = Drop(asked, 1)
      /\ UNCHANGED <<state_, ours, stream, reader, handled>>
  BY DEF PeerReadsHandshake
<1>2. /\ asked # <<>> /\ asked[1] = Introduction(info_hash) /\ Drop(asked, 1) = Tail(asked)
      /\ Head(asked) = asked[1]
      /\ SubSeq(outgoing, 1, 20) = Protocol /\ SubSeq(outgoing, 29, 48) = info_hash
      /\ Drop(outgoing, 68) \in Seq(Byte) /\ Tail(asked) \in Seq(OurMessages)
      /\ Spells(Drop(outgoing, 68), OurBytes, Tail(asked))
  BY <1>1, HandshakeTaken
<1>3. got' = <<Introduction(info_hash)>> /\ asked' = Tail(asked)
  BY <1>1, <1>2
<1>4. WireTypeOK'
  <2>1. Seq(OurMessages) \subseteq Seq(Messages)
    BY MessagesTyped
  <2>2. <<Introduction(info_hash)>> \in Seq(OurMessages)
    BY OurBytesAre
  <2>3. got' \in Seq(Messages) /\ asked' \in Seq(Messages)
    BY <1>2, <1>3, <2>1, <2>2
  <2> QED BY <1>1, <1>2, <2>3 DEF WireInv, WireTypeOK, ours, stream, reader
<1>5. OutgoingSpelled'
  BY <1>1, <1>2, OneRead DEF WireInv
<1>6. BufferSpelled'
  BY <1>1, SameBuffer DEF WireInv
<1>7. IncomingSpelled'
  BY <1>1, SameIncoming DEF WireInv, stream
<1>8. Phases'
  <2>1. state_ # "disconnected"
    BY <1>2 DEF WireInv, Phases
  <2> QED BY <1>1, <2>1 DEF WireInv, Phases, stream, reader
<1> QED BY <1>2, <1>3, <1>4, <1>5, <1>6, <1>7, <1>8 DEF WireInv

LEMMA MessageTaken ==
  ASSUME WireInv, introduced, asked # <<>>
  PROVE  /\ asked[1] \in OurMessages /\ Drop(asked, 1) = Tail(asked) /\ Head(asked) = asked[1]
         /\ Tail(asked) \in Seq(OurMessages)
         /\ \E rest \in Seq(Byte) : Taken(outgoing, asked[1], rest) /\ Spells(rest, OurBytes, Tail(asked))
<1>1. OutgoingSpelled /\ asked \in Seq(OurMessages)
  BY DEF WireInv, OutgoingSpelled
<1>2. PICK rest \in Seq(Byte) : outgoing = OurBytes[asked[1]] \o rest /\ Spells(rest, OurBytes, Tail(asked))
  BY <1>1, FirstOutgoing
<1>3. asked[1] \in OurMessages /\ asked[1].id # Handshake /\ Tail(asked) \in Seq(OurMessages)
  BY <1>1, FirstOutgoing
<1>4. Taken(outgoing, asked[1], rest)
  BY <1>2, <1>3, OursTaken
<1>5. Drop(asked, 1) = Tail(asked) /\ Head(asked) = asked[1]
  BY <1>1, DropOne
<1> QED BY <1>2, <1>3, <1>4, <1>5

LEMMA PeerReadsStep ==
  ASSUME WireInv, PeerReads
  PROVE  WireInv' /\ asked # <<>> /\ got' = <<Head(asked)>> /\ asked' = Tail(asked)
<1> DEFINE size  == WordValue(BigEndian(SubSeq(outgoing, 1, 4)))
           first == SubSeq(outgoing, 5, size + 4)
           m == Message(first[1],
                  [n \in 1 .. (size - 1) \div 4 |-> BigEndian(SubSeq(first, 4 * n - 2, 4 * n + 1))], <<>>)
<1>1. /\ introduced /\ Len(outgoing) >= 4
      /\ got' = <<m>> /\ outgoing' = Drop(outgoing, size + 4) /\ asked' = Drop(asked, 1)
      /\ UNCHANGED <<state_, ours, introduced, stream, reader, handled>>
  BY Zenon DEF PeerReads
<1>2. asked # <<>>
  <2>1. ASSUME asked = <<>> PROVE outgoing = <<>>
    BY <2>1, SpellsNothing DEF WireInv, OutgoingSpelled
  <2>2. Len(<<>>) = 0
    OBVIOUS
  <2> HIDE DEF m, size
  <2> QED BY <1>1, <2>1, <2>2
<1>3. /\ asked[1] \in OurMessages /\ Drop(asked, 1) = Tail(asked) /\ Head(asked) = asked[1]
      /\ Tail(asked) \in Seq(OurMessages)
  BY <1>1, <1>2, MessageTaken, Zenon
<1>4. PICK rest \in Seq(Byte) : Taken(outgoing, asked[1], rest) /\ Spells(rest, OurBytes, Tail(asked))
  BY <1>1, <1>2, MessageTaken, Zenon
<1>5. m = asked[1] /\ outgoing' = rest
  BY <1>1, <1>4, Zenon DEF Taken
<1> HIDE DEF m, size
<1>6. got' = <<asked[1]>> /\ asked' = Tail(asked)
  BY <1>1, <1>3, <1>5
<1>7. WireTypeOK'
  <2>1. Seq(OurMessages) \subseteq Seq(Messages)
    BY MessagesTyped
  <2>2. got' \in Seq(OurMessages) /\ asked' \in Seq(OurMessages)
    BY <1>3, <1>6
  <2>3. got' \in Seq(Messages) /\ asked' \in Seq(Messages)
    BY <2>1, <2>2
  <2> QED BY <1>1, <1>5, <2>3 DEF WireInv, WireTypeOK, ours, stream, reader
<1>8. OutgoingSpelled'
  <2>1. introduced' = TRUE
    BY <1>1 DEF WireInv, WireTypeOK
  <2> QED BY <1>2, <1>4, <1>5, <1>6, <2>1, OneRead DEF WireInv
<1>9. BufferSpelled'
  BY <1>1, SameBuffer DEF WireInv
<1>10. IncomingSpelled'
  BY <1>1, SameIncoming DEF WireInv, stream
<1>11. Phases'
  <2>1. state_ # "disconnected"
    BY <1>2 DEF WireInv, Phases
  <2> QED BY <1>1, <2>1 DEF WireInv, Phases, stream, reader
<1> QED BY <1>2, <1>3, <1>6, <1>7, <1>8, <1>9, <1>10, <1>11 DEF WireInv

LEMMA WireInvStep == WireInv /\ [WireNext]_wireVars => WireInv'
<1> SUFFICES ASSUME WireInv, [WireNext]_wireVars PROVE WireInv'
  OBVIOUS
<1>1. CASE WireNext
  BY <1>1, SendHandshakeStep, receive_handshakeStep, ConnectionLostStep, SendInterestedStep,
     StartLoadStep, LoadBlockStep, SendLoadedStep, ReadSizeStep, ReadIdStep, ReadPayloadStep,
     PeerSendsHandshakeStep, PeerSendsStep, PeerReadsHandshakeStep, PeerReadsStep DEF WireNext
<1>2. CASE UNCHANGED wireVars
  <2>1. UNCHANGED <<state_, ours, outgoing, asked, theirs, stream, reader, handled>>
    BY <1>2 DEF wireVars
  <2>2. WireTypeOK'
    BY <2>1 DEF WireInv, WireTypeOK, ours, theirs, stream, reader
  <2>3. OutgoingSpelled'
    BY <2>1, SameOutgoing DEF WireInv, theirs
  <2>4. BufferSpelled'
    BY <2>1, SameBuffer DEF WireInv
  <2>5. IncomingSpelled'
    BY <2>1, SameIncoming DEF WireInv, stream
  <2>6. Phases'
    BY <2>1 DEF WireInv, Phases, theirs, stream, reader
  <2> QED BY <2>2, <2>3, <2>4, <2>5, <2>6 DEF WireInv
<1> QED BY <1>1, <1>2

LEMMA WireInvAlways == WireSpec => []WireInv
BY WireStarts, WireInvStep, PTL DEF WireSpec

\* Whatever is sent and read, for peers and torrents of any size, the streams and
\* the buffer hold bytes and what is read out of them are messages.
THEOREM WireTypeCorrect == WireSpec => []WireTypeOK
BY WireInvAlways, PTL DEF WireInv

\* For messages of every length that receive_buffer_ holds neither side is ever left
\* with a part of a message of which all has been sent.
THEOREM NobodyEverWaitsInVain == WireSpec => []NobodyWaitsInVain
<1>1. ASSUME WireInv, introduced, asked # <<>>
      PROVE  /\ Len(outgoing) >= 4
             /\ Len(outgoing) >= 4 + WordValue(BigEndian(SubSeq(outgoing, 1, 4)))
  <2>1. PICK rest \in Seq(Byte) : Taken(outgoing, asked[1], rest)
    BY <1>1, MessageTaken, Zenon
  <2> QED BY <2>1, Zenon DEF Taken
<1>2. ASSUME WireInv, state_ = "running", told # <<>>
      PROVE  Len(incoming) >= CASE reading = "size" -> 4
                                [] reading = "id" -> 1
                                [] reading = "payload" -> message_size - 1
  <2>1. reading \in {"size", "id", "payload"}
    BY <1>2 DEF WireInv, WireTypeOK
  <2>2. CASE reading = "size"
    <3>1. Len(incoming) >= 4
      BY <1>2, <2>2, SizeRead, Zenon
    <3> QED BY <2>2, <3>1
  <2>3. CASE reading = "id"
    <3>1. Len(incoming) >= 1
      BY <1>2, <2>3, IdRead, Zenon
    <3> QED BY <2>3, <3>1
  <2>4. CASE reading = "payload"
    <3>1. Len(incoming) >= message_size - 1
      BY <1>2, <2>4, PayloadRead, Zenon
    <3> QED BY <2>4, <3>1
  <2> QED BY <2>1, <2>2, <2>3, <2>4
<1>3. WireInv => NobodyWaitsInVain
  BY <1>1, <1>2 DEF NobodyWaitsInVain
<1> QED BY <1>3, WireInvAlways, PTL

\* A connection goes on exactly if the peer has named the protocol and our
\* torrent, whatever else its handshake says and whatever comes with it.
THEOREM HandshakeAlwaysChecked == WireSpec => HandshakeChecked
<1> DEFINE A == receive_handshake => (state_' = "connected" <=> told[1] = Introduction(info_hash))
<1>1. WireInv /\ [WireNext]_wireVars => [A]_wireVars
  <2> SUFFICES ASSUME WireInv, receive_handshake
               PROVE  state_' = "connected" <=> told[1] = Introduction(info_hash)
    OBVIOUS
  <2> DEFINE hash == parse_handshake_message(SubSeq(incoming, 1, 68))
  <2>1. /\ state_ = "connecting" /\ Len(incoming) >= 68
        /\ \/ hash = info_hash /\ state_' = "connected"
           \/ hash # info_hash /\ state_' = "disconnected"
    BY DEF receive_handshake, HandleFailure
  <2>2. told[1] = Introduction(hash)
    BY <2>1, HandshakeRead
  <2> HIDE DEF hash
  <2>3. Introduction(hash) = Introduction(info_hash) <=> hash = info_hash
    <3>1. \A h : Introduction(h).words[1] = h
      BY DEF Introduction, Message
    <3> QED BY <3>1
  <2> QED BY <2>1, <2>2, <2>3
<1> QED BY <1>1, WireInvAlways, PTL DEF WireSpec, HandshakeChecked
-----------------------------------------------------------------------------
\* What is put behind a sequence leaves its front.
LEMMA Behind ==
  ASSUME NEW M, NEW ms \in Seq(M), NEW ks \in Seq(M), ks # <<>>
  PROVE  Len(ms) < Len(ms \o ks) /\ ms = SubSeq(ms \o ks, 1, Len(ms))
<1>1. Len(ms \o ks) = Len(ms) + Len(ks) /\ Len(ms) \in Nat /\ Len(ks) \in Nat
  BY ConcatProperties, LenProperties
<1>2. Len(ks) # 0
  BY EmptySeq
<1>3. SubSeq(ms \o ks, 1, Len(ms)) = ms
  BY DropFront
<1> QED BY <1>1, <1>2, <1>3

LEMMA RequestsStep ==
  ASSUME WireInv, [WireNext]_wireVars
  PROVE  [Out!Next]_<<asked, got>>
<1> USE DEF Out!Next, Out!Send, Out!Receive, Out!Lose
<1>0. asked \in Seq(OurMessages)
  BY DEF WireInv, OutgoingSpelled
<1>1. CASE UNCHANGED wireVars
  BY <1>1 DEF wireVars, theirs
<1>2. ASSUME NEW ks \in Seq(OurMessages), ks # <<>>, asked' = asked \o ks, UNCHANGED got
      PROVE  Out!Send
  BY <1>0, <1>2, Behind
<1>3. CASE SendHandshake
  <2>1. asked = <<>>
    BY <1>3 DEF SendHandshake, WireInv, Phases
  <2>2. asked' = <<Introduction(info_hash)>> /\ UNCHANGED got
    BY <1>3 DEF SendHandshake, theirs
  <2>3. <<Introduction(info_hash)>> \in Seq(OurMessages) /\ <<Introduction(info_hash)>> # <<>>
    BY OurBytesAre
  <2>4. <<>> \o <<Introduction(info_hash)>> = <<Introduction(info_hash)>>
    BY <2>3, ConcatEmptySeq
  <2> QED BY <1>2, <2>1, <2>2, <2>3, <2>4
<1>4. CASE receive_handshake
  BY <1>4 DEF receive_handshake, HandleFailure
<1>5. CASE ConnectionLost
  BY <1>5 DEF ConnectionLost, HandleFailure
<1>6. CASE SendInterested
  <2>1. asked' = Append(asked, Interested) /\ UNCHANGED got
    BY <1>6 DEF SendInterested, Interested, theirs
  <2>2. asked' = asked \o <<Interested>> /\ <<Interested>> \in Seq(OurMessages)
    BY <1>0, <2>1, OurBytesAre, AppendOne
  <2>3. <<Interested>> # <<>>
    OBVIOUS
  <2> QED BY <1>2, <2>1, <2>2, <2>3
<1>7. CASE SendLoaded
  <2>1. asked' = asked \o loaded /\ UNCHANGED got /\ loading # 0
    BY <1>7 DEF SendLoaded, theirs
  <2>2. loaded \in Seq(OurMessages)
    <3>1. loaded \in Seq(BlockMessages(loading)) /\ loading \in {ID.REQUEST, ID.CANCEL}
      BY <2>1 DEF WireInv, WireTypeOK, BufferSpelled
    <3>2. BlockMessages(loading) \subseteq OurMessages
      BY <3>1 DEF OurMessages
    <3> QED BY <3>1, <3>2
  <2>3. CASE loaded = <<>>
    <3>1. asked \o <<>> = asked
      BY <1>0, ConcatEmptySeq
    <3> QED BY <2>1, <2>3, <3>1
  <2>4. CASE loaded # <<>>
    BY <1>2, <2>1, <2>2, <2>4
  <2> QED BY <2>3, <2>4
<1>8. CASE PeerReadsHandshake \/ PeerReads
  <2>1. asked # <<>> /\ got' = <<Head(asked)>> /\ asked' = Tail(asked)
    BY <1>8, PeerReadsHandshakeStep, PeerReadsStep
  <2> QED BY <2>1
<1>9. ASSUME \/ \E type \in {ID.REQUEST, ID.CANCEL} : StartLoad(type)
             \/ \E info \in BlockInfos : LoadBlock(info)
             \/ ReadSize \/ ReadId \/ ReadPayload
             \/ \E g \in Greetings : PeerSendsHandshake(g)
             \/ \E m \in PeerMessages : PeerSends(m)
      PROVE  UNCHANGED <<asked, got>>
  BY <1>9 DEF StartLoad, LoadBlock, ReadSize, ReadId, ReadPayload, PeerSendsHandshake, PeerSends,
              theirs
<1> QED BY <1>1, <1>3, <1>4, <1>5, <1>6, <1>7, <1>8, <1>9 DEF WireNext

\* Our handshake, requests and cancels reach the peer whole and in order, and
\* nothing else does, for blocks at any place and buffers of any length.
THEOREM RequestsAlwaysArrive == WireSpec => RequestsArrive
<1>1. WireInit => Out!Init
  BY DEF WireInit, Out!Init
<1>2. WireInv /\ [WireNext]_wireVars => [Out!Next]_<<asked, got>>
  BY RequestsStep
<1> QED BY <1>1, <1>2, WireInvAlways, PTL DEF WireSpec, RequestsArrive, Out!Spec

LEMMA MessagesStep ==
  ASSUME WireInv, [WireNext]_wireVars
  PROVE  [In!Next]_<<told, handled>>
<1> USE DEF In!Next, In!Send, In!Receive, In!Lose
<1>0. told \in Seq(Messages)
  BY DEF WireInv, WireTypeOK
<1>1. CASE UNCHANGED wireVars
  BY <1>1 DEF wireVars, stream
<1>2. ASSUME NEW m \in Messages, told' = told \o <<m>>, UNCHANGED handled
      PROVE  In!Send
  <2>1. <<m>> \in Seq(Messages) /\ <<m>> # <<>>
    OBVIOUS
  <2> QED BY <1>0, <1>2, <2>1, Behind
<1>3. ASSUME NEW m, told # <<>>, Handle(m), m = told[1]
      PROVE  In!Receive
  BY <1>3, FirstTold DEF Handle, WireInv
<1>4. CASE receive_handshake
  <2> DEFINE hash == parse_handshake_message(SubSeq(incoming, 1, 68))
  <2>1. /\ state_ = "connecting" /\ Len(incoming) >= 68 /\ handled' = <<Introduction(hash)>>
        /\ told' = Drop(told, 1) \/ told' = <<>>
    BY <1>4 DEF receive_handshake, HandleFailure
  <2>2. told # <<>> /\ told[1] = Introduction(hash)
    BY <2>1, HandshakeRead
  <2> HIDE DEF hash
  <2>3. Head(told) = told[1] /\ Drop(told, 1) = Tail(told)
    BY <2>2, FirstTold DEF WireInv
  <2> QED BY <2>1, <2>2, <2>3
<1>5. CASE ConnectionLost
  BY <1>5 DEF ConnectionLost, HandleFailure
<1>6. CASE ReadSize
  <2>1. /\ state_ = "running" /\ reading = "size" /\ Len(incoming) >= 4
        /\ message_size' = WordValue(host_to_network_order(SubSeq(incoming, 1, 4)))
        /\ IF message_size' = 0 THEN Handle(KeepAlive) ELSE UNCHANGED <<told, handled>>
    BY <1>6 DEF ReadSize, Listening
  <2>2. told # <<>>
    <3>1. Len(incoming) \in Nat
      BY LenProperties DEF WireInv, WireTypeOK
    <3> QED BY <2>1, <3>1, SomethingComes DEF WireInv
  <2>3. message_size' = 0 => told[1] = KeepAlive
    BY <2>1, <2>2, SizeRead, Zenon
  <2> QED BY <1>3, <2>1, <2>2, <2>3
<1>7. CASE ReadId
  <2>1. /\ state_ = "running" /\ reading = "id" /\ id' = incoming[1]
        /\ IF message_size = 1 THEN Handle(handle_message(id', <<>>)) ELSE UNCHANGED <<told, handled>>
    BY <1>7 DEF ReadId, Listening
  <2>2. told # <<>>
    BY <2>1 DEF WireInv, Phases
  <2>3. message_size = 1 => told[1] = handle_message(id', <<>>)
    BY <2>1, <2>2, IdRead, Zenon
  <2> QED BY <1>3, <2>1, <2>2, <2>3
<1>8. CASE ReadPayload
  <2> DEFINE m == handle_message(id, SubSeq(incoming, 1, message_size - 1))
  <2>1. state_ = "running" /\ reading = "payload" /\ Handle(m)
    BY <1>8 DEF ReadPayload, Listening
  <2>2. told # <<>>
    BY <2>1 DEF WireInv, Phases
  <2>3. m = told[1]
    BY <2>1, <2>2, PayloadRead
  <2> HIDE DEF m
  <2> QED BY <1>3, <2>1, <2>2, <2>3
<1>9. ASSUME NEW g \in Greetings, PeerSendsHandshake(g) PROVE In!Send
  <2> DEFINE m == Introduction(IF g.protocol = Protocol THEN g.hash ELSE NoHash)
  <2>1. state_ # "disconnected" /\ ~ greeted /\ told' = <<m>> /\ UNCHANGED handled
    BY <1>9 DEF PeerSendsHandshake
  <2>2. told = <<>>
    BY <2>1 DEF WireInv, WireTypeOK, Phases
  <2>3. m \in Messages
    <3>1. WireInv'
      BY <1>9, PeerSendsHandshakeStep
    <3>2. <<m>> \in Seq(Messages)
      BY <2>1, <3>1 DEF WireInv, WireTypeOK
    <3>3. 1 \in 1 .. Len(<<m>>) /\ <<m>>[1] = m
      OBVIOUS
    <3> HIDE DEF m
    <3> QED BY <3>2, <3>3, ElementOfSeq
  <2> HIDE DEF m
  <2>4. told' = told \o <<m>>
    <3>1. <<m>> \in Seq(Messages)
      BY <2>3
    <3>2. <<>> \o <<m>> = <<m>>
      BY <3>1, ConcatEmptySeq
    <3> QED BY <2>1, <2>2, <3>2
  <2> QED BY <1>2, <2>1, <2>3, <2>4
<1>10. ASSUME NEW m \in PeerMessages, PeerSends(m) PROVE In!Send
  <2>1. told' = Append(told, m) /\ UNCHANGED handled
    BY <1>10 DEF PeerSends
  <2>2. m \in Messages
    BY MessagesTyped
  <2>3. told' = told \o <<m>>
    BY <1>0, <2>1, <2>2, AppendOne
  <2> QED BY <1>2, <2>1, <2>2, <2>3
<1>11. ASSUME \/ SendHandshake \/ SendInterested \/ SendLoaded
              \/ \E type \in {ID.REQUEST, ID.CANCEL} : StartLoad(type)
              \/ \E info \in BlockInfos : LoadBlock(info)
              \/ PeerReadsHandshake \/ PeerReads
       PROVE  UNCHANGED <<told, handled>>
  BY <1>11, Zenon DEF SendHandshake, SendInterested, SendLoaded, StartLoad, LoadBlock,
                      PeerReadsHandshake, PeerReads, stream
<1> QED BY <1>1, <1>4, <1>5, <1>6, <1>7, <1>8, <1>9, <1>10, <1>11 DEF WireNext

\* The handshake and the messages of a peer, of every length that receive_buffer_
\* holds and however they are cut into reads, are handled whole and in order.
THEOREM MessagesAlwaysArrive == WireSpec => MessagesArrive
<1>1. WireInit => In!Init
  BY DEF WireInit, In!Init
<1>2. WireInv /\ [WireNext]_wireVars => [In!Next]_<<told, handled>>
  BY MessagesStep
<1> QED BY <1>1, <1>2, WireInvAlways, PTL DEF WireSpec, MessagesArrive, In!Spec
=============================================================================
