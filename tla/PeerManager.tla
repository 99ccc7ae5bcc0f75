---------------------------- MODULE PeerManager ----------------------------
(***************************************************************************)
(* PeerManager: the map of connections and the three threads that use it.  *)
(* The main thread adds peers and stops the manager.  The thread of        *)
(* utils_ctx_ runs cleanup_peer_connections, the connects of add_peers and *)
(* their completion handlers, try_reconnection, and the runs that          *)
(* try_reconnection starts.  The thread of peer_conn_ctx_ runs the other   *)
(* runs.  A pass of cleanup does not suspend, so nothing else happens on   *)
(* its thread while it goes from entry to entry.                           *)
(*                                                                         *)
(* What a run does with its peer is left to module Swarm.  Here it matters *)
(* that handle_failure sets state_ some time before run returns: the other *)
(* of its two coroutines is cancelled first ("winding"), and handles the   *)
(* cancellation as a failure of its own when it was in a socket operation. *)
(* A run whose connection is erased meanwhile works on freed memory; what  *)
(* it does there is not modelled.  Nor is the return of the runs when the  *)
(* download is complete, which leaves state_ as it is: the client then     *)
(* stops the manager.                                                      *)
(***************************************************************************)
EXTENDS Integers, FiniteSets

CONSTANTS
  Peers,
  NoEntry,         \* the map has no entry for a peer
  MAX_RETRIES,
  MAX_PEER_COUNT,
  UINT32,          \* uint32_t has this many values
  FreedReads       \* what was_connected() may read from an erased entry, beside the value it had

ASSUME PeerManagerAssumption ==
  /\ MAX_RETRIES \in Nat \ {0}
  /\ MAX_PEER_COUNT \in Nat
  /\ UINT32 \in Nat /\ UINT32 > MAX_PEER_COUNT
  /\ FreedReads \subseteq BOOLEAN

VARIABLES
  peer_connections_,
  connected_peers_,
  started_,
  main,       \* where the main thread is
  batch,      \* what is left of the argument of add_peers
  lock,       \* who holds peer_connections_mutex_
  cleanup,    \* where cleanup_peer_connections is
  visiting,   \* the entries its pass has still to come to
  stopped     \* the contexts have been stopped

mainVars == <<started_, main, batch>>
cleanupVars == <<cleanup, visiting>>
vars == <<peer_connections_, connected_peers_, mainVars, lock, cleanupVars,
          stopped>>

\* A PeerConnection, and is_reconnecting.  task is the coroutine of utils_ctx_
\* that has a reference to the entry: connect, "spawned" or "connecting", or
\* try_reconnection, at the head of its loop ("retrying") or in connect.
NewEntry ==
  [state_ |-> "UNINITIATED", retries_left_ |-> MAX_RETRIES,
   was_connected_ |-> FALSE, is_reconnecting |-> FALSE,
   task |-> "spawned", run |-> "none", on_utils |-> FALSE]

Entries == {p \in Peers : peer_connections_[p] # NoEntry}

Becomes(p, k) == peer_connections_' = [peer_connections_ EXCEPT ![p] = k]

Init ==
  /\ peer_connections_ = [p \in Peers |-> NoEntry]
  /\ connected_peers_ = 0
  /\ started_ = FALSE
  /\ main = "idle"
  /\ batch = {}
  /\ lock = "free"
  /\ cleanup = "none"
  /\ visiting = {}
  /\ stopped = FALSE
-----------------------------------------------------------------------------
(* The main thread *)

\* add_peers, which calls start: the threads run, and cleanup is spawned,
\* before started_ is set.
AddPeers(peers) ==
  /\ main = "idle" /\ ~ stopped
  /\ batch' = peers
  /\ \/ started_ /\ main' = "locking" /\ UNCHANGED cleanup
     \/ ~ started_ /\ main' = "starting" /\ cleanup' = "spawned"
  /\ UNCHANGED <<peer_connections_, connected_peers_, started_, lock, visiting,
                 stopped>>

StartReturns ==
  /\ main = "starting"
  /\ started_' = TRUE
  /\ main' = "locking"
  /\ UNCHANGED <<peer_connections_, connected_peers_, batch, lock, cleanupVars,
                 stopped>>

AddLocks ==
  /\ main = "locking"
  /\ lock = "free"
  /\ lock' = "main"
  /\ main' = "adding"
  /\ UNCHANGED <<peer_connections_, connected_peers_, started_, batch,
                 cleanupVars, stopped>>

AddPeer(p) ==
  /\ main = "adding"
  /\ p \in batch
  /\ batch' = batch \ {p}
  /\ IF p \in Entries THEN UNCHANGED peer_connections_ ELSE Becomes(p, NewEntry)
  /\ UNCHANGED <<connected_peers_, started_, main, lock, cleanupVars, stopped>>

AddReturns ==
  /\ main = "adding"
  /\ batch = {}
  /\ main' = "idle"
  /\ lock' = "free"
  /\ UNCHANGED <<peer_connections_, connected_peers_, started_, batch,
                 cleanupVars, stopped>>

\* The contexts finish the handler they are in and run no other.
Stop ==
  /\ main = "idle"
  /\ started_
  /\ started_' = FALSE
  /\ stopped' = TRUE
  /\ UNCHANGED <<peer_connections_, connected_peers_, main, batch, lock,
                 cleanupVars>>
-----------------------------------------------------------------------------
(* connect *)

UtilsFree == ~ stopped /\ cleanup # "visiting"

Failed(k, ec) ==
  [k EXCEPT !.state_ = IF ec = "timed_out" THEN "TIMED_OUT" ELSE "DISCONNECTED"]

\* connect up to its first suspension; reset_state is part of it.
Connecting(k) ==
  [k EXCEPT !.retries_left_ = @ - 1, !.was_connected_ = FALSE,
            !.state_ = "CONNECTING"]

Connected(k) ==
  [k EXCEPT !.state_ = "CONNECTED", !.retries_left_ = MAX_RETRIES,
            !.was_connected_ = TRUE]

ConnectStarts(p) ==
  LET k == peer_connections_[p]
  IN /\ UtilsFree
     /\ k.task = "spawned"
     /\ Becomes(p, [Connecting(k) EXCEPT !.task = "connecting"])
     /\ UNCHANGED <<connected_peers_, mainVars, lock, cleanupVars, stopped>>

ConnectFails(p, ec) ==
  LET k == peer_connections_[p]
  IN /\ UtilsFree
     /\ k.task = "connecting"
     /\ Becomes(p, [Failed(k, ec) EXCEPT !.task = "none"])
     /\ UNCHANGED <<connected_peers_, mainVars, lock, cleanupVars, stopped>>

\* The completion handler starts run and counts the peer.
ConnectSucceeds(p) ==
  LET k == peer_connections_[p]
  IN /\ UtilsFree
     /\ k.task = "connecting"
     /\ Becomes(p, [Connected(k) EXCEPT !.task = "none", !.run = "starting"])
     /\ connected_peers_' = (connected_peers_ + 1) % UINT32
     /\ UNCHANGED <<mainVars, lock, cleanupVars, stopped>>
-----------------------------------------------------------------------------
(* try_reconnection *)

\* Mutant: a peer that is given up is not disconnected.
ReconnectionEnds_Open(p, k) ==
  IF k.state_ # "CONNECTED" \/ connected_peers_ >= MAX_PEER_COUNT
  THEN /\ Becomes(p, [k EXCEPT !.is_reconnecting = FALSE, !.task = "none"])
       /\ UNCHANGED connected_peers_
  ELSE /\ Becomes(p, [k EXCEPT !.is_reconnecting = FALSE, !.task = "none",
                               !.run = "starting", !.on_utils = TRUE])
       /\ connected_peers_' = (connected_peers_ + 1) % UINT32

\* What follows the loop: the peer is given up, or runs.
ReconnectionEnds(p, k) ==
  IF k.state_ # "CONNECTED" \/ connected_peers_ >= MAX_PEER_COUNT
  THEN /\ Becomes(p, [k EXCEPT !.state_ = "DISCONNECTED",
                               !.is_reconnecting = FALSE, !.task = "none"])
       /\ UNCHANGED connected_peers_
  ELSE /\ Becomes(p, [k EXCEPT !.is_reconnecting = FALSE, !.task = "none",
                               !.run = "starting", !.on_utils = TRUE])
       /\ connected_peers_' = (connected_peers_ + 1) % UINT32

\* The head of the loop, first or after a backoff delay.
Retry(p) ==
  LET k == peer_connections_[p]
  IN /\ UtilsFree
     /\ k.task = "retrying"
     /\ IF k.retries_left_ > 0 /\ connected_peers_ < MAX_PEER_COUNT
        THEN /\ Becomes(p, [Connecting(k) EXCEPT !.task = "reconnecting"])
             /\ UNCHANGED connected_peers_
        ELSE ReconnectionEnds(p, k)
     /\ UNCHANGED <<mainVars, lock, cleanupVars, stopped>>

\* Mutant: a failed attempt is not held against the peer.
ReconnectFails_Forgiven(p, ec) ==
  LET k == Failed(peer_connections_[p], ec)
  IN /\ UtilsFree
     /\ k.task = "reconnecting"
     /\ Becomes(p, [k EXCEPT !.task = "retrying", !.retries_left_ = MAX_RETRIES])
     /\ UNCHANGED <<connected_peers_, mainVars, lock, cleanupVars, stopped>>

ReconnectFails(p, ec) ==
  LET k == Failed(peer_connections_[p], ec)
  IN /\ UtilsFree
     /\ k.task = "reconnecting"
     /\ IF k.retries_left_ = 0
        THEN ReconnectionEnds(p, k)
        ELSE /\ Becomes(p, [k EXCEPT !.task = "retrying"])
             /\ UNCHANGED connected_peers_
     /\ UNCHANGED <<mainVars, lock, cleanupVars, stopped>>

\* The completions of the socket pass through peer_conn_ctx_ in order: the
\* cancelled operations of the last run come before those of connect, and a
\* run that closes the socket under connect (state_ shows it) makes it fail.
ReconnectSucceeds(p) ==
  LET k == peer_connections_[p]
  IN /\ UtilsFree
     /\ k.task = "reconnecting"
     /\ k.run = "none" /\ k.state_ = "CONNECTING"
     /\ ReconnectionEnds(p, Connected(k))
     /\ UNCHANGED <<mainVars, lock, cleanupVars, stopped>>
-----------------------------------------------------------------------------
(* cleanup_peer_connections *)

\* The coroutine looks at started_ for the first time.
CleanupStarts ==
  /\ ~ stopped
  /\ cleanup = "spawned"
  /\ cleanup' = IF started_ THEN "sleeping" ELSE "gone"
  /\ UNCHANGED <<peer_connections_, connected_peers_, mainVars, lock, visiting,
                 stopped>>

\* PEER_CLEANUP_INTERVAL is over and try_to_lock succeeds.
CleanupLocks ==
  /\ ~ stopped
  /\ cleanup = "sleeping"
  /\ lock = "free"
  /\ lock' = "cleanup"
  /\ visiting' = Entries
  /\ cleanup' = "visiting"
  /\ UNCHANGED <<peer_connections_, connected_peers_, mainVars, stopped>>

\* The interval is over and add_peers has the lock: the pass is skipped.
CleanupSkips ==
  /\ ~ stopped
  /\ cleanup = "sleeping"
  /\ lock # "free"
  /\ cleanup' = IF started_ THEN "sleeping" ELSE "gone"
  /\ UNCHANGED <<peer_connections_, connected_peers_, mainVars, lock, visiting,
                 stopped>>

\* A peer that was counted is subtracted.
Uncount(counted) ==
  connected_peers_' = IF counted THEN (connected_peers_ + UINT32 - 1) % UINT32
                      ELSE connected_peers_

\* Mutant: is_reconnecting is not looked at.
VisitDisconnected_Any(p) ==
  LET k == peer_connections_[p]
  IN /\ p \in visiting
     /\ k.state_ = "DISCONNECTED"
     /\ visiting' = visiting \ {p}
     /\ Becomes(p, NoEntry)
     /\ \E counted \in FreedReads \cup {k.was_connected_} : Uncount(counted)
     /\ UNCHANGED <<mainVars, lock, cleanup, stopped>>

\* Mutant: erase does not move the iterator on.
VisitDisconnected_Stale(p) ==
  LET k == peer_connections_[p]
  IN /\ p \in visiting
     /\ ~ k.is_reconnecting
     /\ k.state_ = "DISCONNECTED"
     /\ Becomes(p, NoEntry)
     /\ Uncount(k.was_connected_)
     /\ UNCHANGED <<mainVars, lock, cleanupVars, stopped>>

\* The entry is erased, and then asked whether it was connected.
VisitDisconnected(p) ==
  LET k == peer_connections_[p]
  IN /\ p \in visiting
     /\ ~ k.is_reconnecting
     /\ k.state_ = "DISCONNECTED"
     /\ visiting' = visiting \ {p}
     /\ Becomes(p, NoEntry)
     /\ \E counted \in FreedReads \cup {k.was_connected_} : Uncount(counted)
     /\ UNCHANGED <<mainVars, lock, cleanup, stopped>>

\* try_reconnection is spawned; the iterator stays, and the next round skips
\* the entry because it is reconnecting.
VisitTimedOut(p) ==
  LET k == peer_connections_[p]
  IN /\ p \in visiting
     /\ ~ k.is_reconnecting
     /\ k.state_ = "TIMED_OUT"
     /\ visiting' = visiting \ {p}
     /\ Becomes(p, [k EXCEPT !.is_reconnecting = TRUE, !.task = "retrying"])
     /\ Uncount(k.was_connected_)
     /\ UNCHANGED <<mainVars, lock, cleanup, stopped>>

VisitOther(p) ==
  LET k == peer_connections_[p]
  IN /\ p \in visiting
     /\ k.is_reconnecting \/ k.state_ \notin {"DISCONNECTED", "TIMED_OUT"}
     /\ visiting' = visiting \ {p}
     /\ UNCHANGED <<peer_connections_, connected_peers_, mainVars, lock, cleanup,
                    stopped>>

\* Mutant: the lock is kept until the next pass.
PassEnds_Locked ==
  /\ cleanup = "visiting"
  /\ visiting = {}
  /\ cleanup' = IF started_ THEN "sleeping" ELSE "gone"
  /\ UNCHANGED <<peer_connections_, connected_peers_, mainVars, lock, visiting,
                 stopped>>

\* The end of a pass gives the lock back.
PassEnds ==
  /\ cleanup = "visiting"
  /\ visiting = {}
  /\ lock' = "free"
  /\ cleanup' = IF started_ THEN "sleeping" ELSE "gone"
  /\ UNCHANGED <<peer_connections_, connected_peers_, mainVars, visiting,
                 stopped>>
-----------------------------------------------------------------------------
(* run, on the context it was spawned on *)

RunAt(p, at) ==
  /\ ~ stopped
  /\ peer_connections_[p].run = at
  /\ peer_connections_[p].on_utils => cleanup # "visiting"

RunBecomes(p, k) ==
  /\ Becomes(p, k)
  /\ UNCHANGED <<connected_peers_, mainVars, lock, cleanupVars, stopped>>

\* The interested message cannot be sent.
RunFailsToStart(p, ec) ==
  /\ RunAt(p, "starting")
  /\ RunBecomes(p, [Failed(peer_connections_[p], ec) EXCEPT !.run = "returning"])

RunStarts(p) ==
  /\ RunAt(p, "starting")
  /\ RunBecomes(p, [peer_connections_[p] EXCEPT !.state_ = "RUNNING",
                                                !.run = "running"])

\* One of the coroutines of run meets an error.
RunFails(p, ec) ==
  /\ RunAt(p, "running")
  /\ RunBecomes(p, [Failed(peer_connections_[p], ec) EXCEPT !.run = "winding"])

\* The other one is cancelled, in its timer or in a socket operation.
RunWindsDown(p) ==
  /\ RunAt(p, "winding")
  /\ \E aborted \in BOOLEAN :
       LET k == peer_connections_[p]
       IN RunBecomes(p, [IF aborted THEN Failed(k, "aborted") ELSE k
                         EXCEPT !.run = "none", !.on_utils = FALSE])

RunReturns(p) ==
  /\ RunAt(p, "returning")
  /\ RunBecomes(p, [peer_connections_[p] EXCEPT !.run = "none", !.on_utils = FALSE])
-----------------------------------------------------------------------------
\* The contexts are stopped and the last pass of cleanup is over.
Terminated ==
  /\ stopped /\ cleanup # "visiting"
  /\ UNCHANGED vars

Errors == {"timed_out", "failed"}

Main ==
  \/ \E peers \in SUBSET Peers \ {{}} : AddPeers(peers)
  \/ StartReturns \/ AddLocks \/ AddReturns
  \/ \E p \in Peers : AddPeer(p)
  \/ Stop

Visit(p) == VisitDisconnected(p) \/ VisitTimedOut(p) \/ VisitOther(p)

\* The steps of p's entry, by the coroutine that takes them.
Connect(p) ==
  ConnectStarts(p) \/ ConnectSucceeds(p) \/ \E ec \in Errors : ConnectFails(p, ec)
Reconnect(p) ==
  Retry(p) \/ ReconnectSucceeds(p) \/ \E ec \in Errors : ReconnectFails(p, ec)
Run(p) ==
  \/ RunStarts(p) \/ RunWindsDown(p) \/ RunReturns(p)
  \/ \E ec \in Errors : RunFailsToStart(p, ec) \/ RunFails(p, ec)

Next ==
  \/ Main
  \/ CleanupStarts \/ CleanupLocks \/ CleanupSkips \/ PassEnds
  \/ \E p \in Entries : Visit(p) \/ Connect(p) \/ Reconnect(p) \/ Run(p)
  \/ Terminated

\* Threads go on, add_peers returns, a context runs what is posted to it in
\* turn (a pass of cleanup only delays it), and every socket operation has a
\* deadline.  Passes of cleanup are 10 seconds apart and add_peers holds the
\* lock for microseconds, so that not every pass finds it taken.
Fairness ==
  /\ WF_vars(StartReturns \/ AddLocks \/ AddReturns \/ \E p \in Peers : AddPeer(p))
  /\ WF_vars(CleanupStarts) /\ SF_vars(CleanupLocks)
  /\ WF_vars(PassEnds \/ \E p \in Entries : Visit(p))
  /\ \A p \in Peers : SF_vars(p \in Entries /\ Reconnect(p))

Spec == Init /\ [][Next]_vars /\ Fairness
-----------------------------------------------------------------------------
(* Properties *)

PeerConnections ==
  [state_ : {"UNINITIATED", "CONNECTING", "CONNECTED", "RUNNING", "TIMED_OUT",
             "DISCONNECTED"},
   retries_left_ : 0 .. MAX_RETRIES,
   was_connected_ : BOOLEAN,
   is_reconnecting : BOOLEAN,
   task : {"none", "spawned", "connecting", "retrying", "reconnecting"},
   run : {"none", "starting", "running", "winding", "returning"},
   on_utils : BOOLEAN]

ASSUME NoEntryAssumption == NoEntry \notin PeerConnections

\* Every member keeps its type: retries_left_, unsigned in the code, never
\* falls below zero, and the iterator of a pass never stands on an entry that
\* has been erased.
TypeOK ==
  /\ peer_connections_ \in [Peers -> PeerConnections \cup {NoEntry}]
  /\ connected_peers_ \in 0 .. UINT32 - 1
  /\ started_ \in BOOLEAN /\ stopped \in BOOLEAN
  /\ main \in {"idle", "starting", "locking", "adding"}
  /\ batch \subseteq Peers /\ visiting \subseteq Entries
  /\ lock \in {"free", "main", "cleanup"}
  /\ cleanup \in {"none", "spawned", "sleeping", "visiting", "gone"}

\* What state_ tells of a connection.
Tells(k) ==
  /\ k.state_ \in {"UNINITIATED", "CONNECTING"} =>
       k.task \in {"spawned", "connecting", "reconnecting"}
  /\ k.state_ = "CONNECTED" => k.run = "starting" /\ k.task = "none"
  /\ k.state_ = "RUNNING" => k.run = "running" /\ k.task = "none"
  /\ k.state_ \in {"DISCONNECTED", "TIMED_OUT"} =>
       /\ k.run \in {"none", "winding", "returning"}
       /\ k.task \notin {"spawned", "connecting"}

\* state_ is all that cleanup goes by.  It tells what still happens to the
\* connection: one that shows DISCONNECTED or TIMED_OUT runs no more, and one
\* that shows anything else has a coroutine that will change it.  No connection
\* is left that cleanup takes for alive and nobody works on.
StateTellsActivity == \A p \in Entries : Tells(peer_connections_[p])

\* connect, its completion handler and try_reconnection hold references into
\* the map: cleanup erases an entry only when none of them is under way, and
\* only when run has at least begun to return.
OnlyIdleErased ==
  [][\A p \in Peers :
       peer_connections_[p] # NoEntry /\ peer_connections_'[p] = NoEntry =>
         /\ peer_connections_[p].task = "none"
         /\ peer_connections_[p].run \in {"none", "winding", "returning"}]_vars

\* Every try_reconnection comes to an end: its loop is bounded by the retries
\* although a successful connect fills them up again and the limit on peers
\* comes and goes.
ReconnectionTerminates ==
  \A p \in Peers :
    (p \in Entries /\ peer_connections_[p].is_reconnecting)
      ~> \/ stopped \/ p \notin Entries
         \/ ~ peer_connections_[p].is_reconnecting

\* "Peers that cannot be connected will be dropped": a connection that is
\* DISCONNECTED and not reconnecting leaves the map, although passes that find
\* the lock taken are skipped.  A cleanup coroutine that was started before
\* started_ was set returned at once, and then nothing is ever dropped.
DisconnectedDropped ==
  \A p \in Peers :
    (/\ p \in Entries
     /\ peer_connections_[p].state_ = "DISCONNECTED"
     /\ ~ peer_connections_[p].is_reconnecting)
      ~> p \notin Entries \/ stopped \/ cleanup = "gone"

\* get_connected_peers gives "the number of active connections": it counts at
\* least the runs that are under way.
CountCoversRuns ==
  Cardinality({p \in Entries : peer_connections_[p].run \in {"starting", "running"}})
    <= connected_peers_
=============================================================================
