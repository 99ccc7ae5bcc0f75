--------------------------- MODULE TorrentClient ---------------------------
(***************************************************************************)
(* The program: the main thread, which asks trackers for peers, hands them *)
(* to PeerManager and goes round its loop once a second until the download *)
(* is complete, and the thread that draws the progress bar.                *)
(*                                                                         *)
(* Of the download itself only two facts are seen here, and both change at *)
(* any time: whether it is complete, and whether there are TARGET_PEER_    *)
(* COUNT connected peers.  An exception that leaves start_download ends    *)
(* the process, the bar included.                                          *)
(***************************************************************************)
EXTENDS PeerRetriever

VARIABLES
  main,              \* where the main thread is
  download_status_,
  remaining,         \* seconds until next_request_time
  completed,         \* completed_thread_safe()
  enough,            \* get_connected_peers() >= TARGET_PEER_COUNT
  bar,               \* where start_draw is
  stop_flag_

clientVars == <<main, download_status_, remaining, completed, enough>>
barVars == <<bar, stop_flag_>>
vars == <<trackerVars, retrieverVars, clientVars, barVars>>

Init ==
  /\ RetrieverInit
  /\ main = "created"
  /\ download_status_ = "STOPPED"
  /\ remaining = 0
  /\ completed = FALSE
  /\ enough = FALSE
  /\ bar = "waiting"
  /\ stop_flag_ = FALSE
-----------------------------------------------------------------------------
(* The main thread: start_download *)

StartDownload ==
  /\ main = "created"
  /\ RetrievePeers
  /\ main' = "retrieving"
  /\ UNCHANGED <<download_status_, remaining, completed, enough, barVars>>

Retrieving ==
  /\ main = "retrieving"
  /\ RetrieverNext
  /\ UNCHANGED <<clientVars, barVars>>

\* The first call found no peers, or a tracker could not be constructed.
Aborts ==
  /\ main = "retrieving"
  /\ \/ call = "threw"
     \/ call = "over" /\ result = Nothing /\ download_status_ = "STOPPED"
  /\ main' = "aborted"
  /\ UNCHANGED <<trackerVars, retrieverVars, download_status_, remaining,
                 completed, enough, barVars>>

\* The first peers are there: PeerManager::start, and the new status.
Started ==
  /\ main = "retrieving"
  /\ call = "over" /\ result # Nothing /\ download_status_ = "STOPPED"
  /\ call' = "none"
  /\ download_status_' = "DOWNLOADING"
  /\ main' = "scheduling"
  /\ UNCHANGED <<trackerVars, announce_list_, loopVars, tried, remaining, completed,
                 enough, barVars>>

\* A later call is over.
Retrieved ==
  /\ main = "retrieving"
  /\ call = "over" /\ download_status_ = "DOWNLOADING"
  /\ call' = "none"
  /\ main' = "scheduling"
  /\ UNCHANGED <<trackerVars, announce_list_, loopVars, tried, download_status_,
                 remaining, completed, enough, barVars>>

\* Mutant: the next request comes a second early.
Schedule_Early ==
  /\ main = "scheduling"
  /\ remaining' = get_interval - 1
  /\ main' = "looping"
  /\ UNCHANGED <<trackerVars, retrieverVars, download_status_, completed, enough,
                 barVars>>

\* add_peers, if there are any, and next_request_time.
Schedule ==
  /\ main = "scheduling"
  /\ remaining' = get_interval
  /\ main' = "looping"
  /\ UNCHANGED <<trackerVars, retrieverVars, download_status_, completed, enough,
                 barVars>>

\* The head of the loop: sleep, or leave it and stop PeerManager.
LoopHead ==
  /\ main = "looping"
  /\ main' = IF completed THEN "stopping" ELSE "sleeping"
  /\ UNCHANGED <<trackerVars, retrieverVars, download_status_, remaining,
                 completed, enough, barVars>>

\* Mutant: peers are asked for only when there are enough of them.
WakeUp_Inverted ==
  /\ main = "sleeping"
  /\ remaining' = IF remaining = 0 THEN 0 ELSE remaining - 1
  /\ IF remaining' = 0 /\ enough
     THEN main' = "retrieving" /\ RetrievePeers
     ELSE main' = "looping" /\ UNCHANGED <<trackerVars, retrieverVars>>
  /\ UNCHANGED <<download_status_, completed, enough, barVars>>

\* A second has passed.
WakeUp ==
  /\ main = "sleeping"
  /\ remaining' = IF remaining = 0 THEN 0 ELSE remaining - 1
  /\ IF remaining' = 0 /\ ~ enough
     THEN main' = "retrieving" /\ RetrievePeers
     ELSE main' = "looping" /\ UNCHANGED <<trackerVars, retrieverVars>>
  /\ UNCHANGED <<download_status_, completed, enough, barVars>>

Finish ==
  /\ main = "stopping"
  /\ download_status_' = "FINISHED"
  /\ main' = "finished"
  /\ UNCHANGED <<trackerVars, retrieverVars, remaining, completed, enough, barVars>>

\* main calls stop_draw, and returning joins the thread of the bar.
StopDraw ==
  /\ main = "finished"
  /\ stop_flag_' = TRUE
  /\ main' = "joining"
  /\ UNCHANGED <<trackerVars, retrieverVars, download_status_, remaining,
                 completed, enough, bar>>

Join ==
  /\ main = "joining"
  /\ bar = "done"
  /\ main' = "exited"
  /\ UNCHANGED <<trackerVars, retrieverVars, download_status_, remaining,
                 completed, enough, barVars>>
-----------------------------------------------------------------------------
(* The bar: start_draw *)

\* Mutant: the wait for the download does not look at stop_flag_.
BarWaits_Deaf ==
  /\ main # "aborted"
  /\ bar = "waiting"
  /\ bar' = IF download_status_ = "DOWNLOADING" THEN "drawing" ELSE "waiting"
  /\ UNCHANGED <<trackerVars, retrieverVars, clientVars, stop_flag_>>

\* A round of the first loop.  The status is looked at every 200 ms, so that
\* one that comes and goes is missed.
BarWaits ==
  /\ main # "aborted"
  /\ bar = "waiting"
  /\ bar' = IF download_status_ = "DOWNLOADING" \/ stop_flag_ THEN "drawing"
            ELSE "waiting"
  /\ UNCHANGED <<trackerVars, retrieverVars, clientVars, stop_flag_>>

\* A round of the second loop, once a second.
BarDraws ==
  /\ main # "aborted"
  /\ bar = "drawing"
  /\ bar' = IF download_status_ = "FINISHED" \/ stop_flag_ THEN "done"
            ELSE "drawing"
  /\ UNCHANGED <<trackerVars, retrieverVars, clientVars, stop_flag_>>
-----------------------------------------------------------------------------
(* The download, external to this module *)

Downloading ==
  /\ download_status_ = "DOWNLOADING"
  /\ main # "aborted"
  /\ UNCHANGED <<trackerVars, retrieverVars, main, download_status_, remaining,
                 barVars>>

Complete == Downloading /\ ~ completed /\ completed' = TRUE /\ UNCHANGED enough
PeersChange == Downloading /\ enough' = ~ enough /\ UNCHANGED completed

Ended ==
  /\ main \in {"exited", "aborted"}
  /\ UNCHANGED vars

Main ==
  \/ StartDownload \/ Retrieving \/ Aborts \/ Started \/ Retrieved \/ Schedule
  \/ LoopHead \/ WakeUp \/ Finish \/ StopDraw \/ Join

Next == Main \/ BarWaits \/ BarDraws \/ Complete \/ PeersChange \/ Ended

\* Both threads run, and the waits of UdpTracker have a deadline; the GET of
\* HttpTracker has none.
Fairness ==
  /\ WF_vars(Main /\ exchange # "getting")
  /\ WF_vars(BarWaits) /\ WF_vars(BarDraws)

Spec == Init /\ [][Next]_vars /\ Fairness
-----------------------------------------------------------------------------
(* Properties *)

\* Every member keeps its type, and an exchange is under way only inside a
\* call that the main thread has made.
TypeOK ==
  /\ cur_tracker_ \in [announce : Announces,
                       interval_ : Intervals \cup {0, Garbage}] \cup {NoTracker}
  /\ exchange \in {"none", "resolving", "connecting", "announcing", "getting",
                   "returned"}
  /\ transaction_id \in Ids
  /\ call \in {"none", "current", "list", "over", "threw"}
  /\ group \in 1 .. Len(announce_list_) + 1 /\ index \in Nat \ {0}
  /\ remaining \in Nat
  /\ bar \in {"waiting", "drawing", "done"}
  /\ exchange # "none" => call \in {"current", "list"}
  /\ call # "none" => main \in {"retrieving", "aborted"}

\* The peers that a call returns are those of the tracker it ended with, in
\* answer to the announce it sent: never a late or duplicated answer to an
\* earlier request of this tracker or another.
PeersAnswerThisCall ==
  call = "over" /\ result # Nothing =>
    /\ result.announce = cur_tracker_.announce
    /\ TypeOf[result.announce] = "UDP" => result.id = transaction_id

\* retrieve_peers gives up only when it has asked every tracker of a type it
\* knows, the current one twice.
GivesUpLast ==
  call = "over" /\ result = Nothing =>
    {a \in Announces : TypeOf[a] \in {"HTTP", "UDP"}} \subseteq tried

\* However often groups are reordered, each keeps its announces; and an
\* announce that was found through the list is then in front of its group.
GroupsKept ==
  [][/\ \A g \in DOMAIN announce_list_ :
          /\ Len(announce_list_'[g]) = Len(announce_list_[g])
          /\ ToSet(announce_list_'[g]) = ToSet(announce_list_[g])
     /\ call = "list" /\ call' = "over" /\ result # Nothing =>
          \E g \in DOMAIN announce_list_ :
            announce_list_'[g][1] = cur_tracker_.announce]_vars

\* The program ends when the download is complete: the bar's thread, which
\* may never see that the download has started, does not keep it from ending.
\* Only an HTTP tracker that is asked and never answers does.
CompleteEnds ==
  \/ completed ~> main \in {"exited", "aborted"}
  \/ <>[](exchange = "getting")

\* A client that stays short of peers asks for more again and again, whatever
\* trackers and late datagrams make of the interval, until it ends.
AsksAgain ==
  <>[](~ enough) => []<>(main = "retrieving") \/ <>(main \in {"exited", "aborted"})
=============================================================================
