# A TLA+ model of cpp-torrent

cpp-torrent is a command line BitTorrent client that only downloads. This
directory models it in TLA+: the bookkeeping of blocks and pieces, the memory
pool and the files below it, the coroutines of the peer connections that drive
it, the bytes of a connection, the threads that keep the set of peers, the
trackers, the program around them, and the files it reads. TLC checks the models
on small instances; TLAPS proves the safety properties of all components but the
parsers of files for all sizes, and of the download as a whole.

Paths in this text are relative to `src/src/`. Run a check with
`tlc -config X.cfg M` and a proof with `tlapm M.tla`; `PROJECT.json` lists which
configuration belongs to which module, the source lines behind every definition,
and for every property a mutant of the code that breaks it.

## 1. The system

| Part | State | Operations |
|---|---|---|
| `Piece` | buffer, request time per block, `remaining_blocks_` and its inverse `block_pos_in_rem_`, `blocks_left_`, `unrequested_blocks_` | `request_next_block`, `receive_block` |
| `PieceManager` | completed pieces, availability, map of requested pieces, `sorted_pieces_`, endgame flag and list, pieces left, completion flag | add/remove bitfield, `add_available_piece`, `request_next_block`, `receive_block`, `endgame_remaining_blocks` |
| `MemoryPool`, `FixedSizeAllocator` | a list of free blocks threaded through the blocks | `allocate`, `deallocate` |
| `FileManager`, `File` | start offset, length and stream of each file | `write` |
| `PeerConnection` | connection state, choke flag, bitfield, requests in flight, endgame list, buffers | `connect`, `run` with its coroutines `send_requests` (`endgame_send_requests`) and `receive_messages`, `disconnect` |
| `PeerManager` | map of connections with a reconnecting flag, number of connected peers, two threads | `add_peers`, `cleanup_peer_connections`, `try_reconnection`, `start`, `stop` |
| `PeerRetriever`, `HttpTracker`, `UdpTracker` | current tracker and its interval, announce groups | `retrieve_peers` |
| `TorrentClient`, `ProgressBar`, `Stats` | download status, time of the next request, stop flag | `start_download`, `start_draw`, `stop_draw` |
| `Bencode`, `TorrentMetadata`, `TorrentMessage` | none | parsing and encoding |
| `Crypto`, `Utils`, `Logger`, `Error` | none that matters | hashing, sockets with timeouts, logging |

**How they interact.** The main thread asks trackers for peers, hands them to
`PeerManager` and goes round a loop, a second at a time, until
`completed_thread_safe()`; a thread of its own draws the bar. `PeerManager` runs
`connect`, the clean-up and `try_reconnection` on one thread (`utils_ctx_`) and
`run` on another (`peer_conn_ctx_`), except that a `run` that follows a
reconnection stays on the first. Every `run` shares the one `PieceManager`, which is not
locked: coroutines interleave at their `co_await`s. `PieceManager` owns the
pools and the pieces, and writes verified pieces through `FileManager`.

**What is hard.** Blocks arrive late, twice, unasked or with wrong bytes;
requests time out and are repeated; the two coroutines of a connection cancel
each other at suspension points; connections fail and come back with members of
their last life; in the endgame several connections fetch the same blocks;
the clean-up of one thread goes by a state that another sets; messages are put
into a buffer that is used again and taken from a stream piece by piece;
datagrams of a tracker are lost, late or duplicated; parsers meet any text;
counters are unsigned, the byte offset of a piece is 32 bits wide, and the last
piece and block are short. `PROJECT.json` lists these under `hazards`, each at
its line, with the properties that watch over it.

## 2. Modules

```
 BlockSet <== PieceLife -- Piece -- PieceManager -- PeerConnection -- Swarm -- SwarmHonest -- SwarmMC
                                         |                            |
                                 PieceManagerCalls -------------------+
                                 ||             <== (Swarm implements it)
                          VerifiedDownload
 Allocator <== MemoryPool        FlatStore <== FileManager -- FileManagerMC
 PeerManager                     MessageChannel <== Wire -- TorrentMessage
 UdpTracker -- HttpTracker -- PeerRetriever -- TorrentClient -- TorrentClientMC
 Bencode -- TorrentMetadata -- Codec -- FormatsMC -- Wire
 (-- extends, <== is implemented by)
 proofs: PieceTheorems, PieceLifeProofs, PieceManagerProofs, SwarmProofs,
         MemoryPoolProofs, FileManagerProofs, ConnectionProofs (PeerManager,
         Wire), TorrentClientProofs
```

**Piece** has one operator per member function, from records to records.
Vectors are functions on `0 .. n-1`. A request time becomes the age of the
request, saturated one tick past the timeout, because the code only asks whether
a request was made and whether it is overdue. **PieceLife** runs one piece.
**BlockSet** is what a piece promises: a set of blocks that have arrived and an
age for each, no vectors.

**PieceManager** has one action per member function; the arguments of a call are
the parameters of the action and `request_next_block` has its result as a
parameter too. Decisions worth knowing:
 * a sort leaves *any* sorted permutation (it is not stable);
 * `std::upper_bound` in `add_available_piece` is called with an availability
   where the comparator takes a piece index. The model reads what the code reads
   (any value, if the index lies past the vector) and lets the search stop
   wherever the comparisons allow;
 * payloads are `Good` or `Bad`, and a digest agrees when all blocks are `Good`;
 * the file is kept by origin: for every offset the torrent byte last written
   there. The offset of a piece is taken modulo `UINT32`.

**PieceManagerCalls** lets clients call in any order (`CallsSpec`). It has one
obligation for its clients: they only take back availability that was added. **VerifiedDownload**
is what it promises: a set of stored pieces that grows by one verified piece
at a time, and a completion flag that is raised with the last.

**MemoryPool** names blocks by index and keeps the first word of each, which the
pool uses while the block is free and the owner may overwrite while it is not.
The pool starts with arbitrary memory. **Allocator** is what it promises.

**FileManager** performs `write` one file at a time, with a stream that may fail
after any number of bytes. Layouts are those `parse_info` builds. **FlatStore**
is what it promises: one array of bytes that is filled from the front.

**PeerConnection** holds the members of a connection as a record and what its
functions do to it between two suspension points; **Swarm** composes the
connections with `PieceManager`, one action per stretch between two `co_await`s.
 * `pending_requests_` and `endgame_remaining_blocks_` are bags, because the code
   only searches them and removes by swapping with the last element. `Copies`
   tells the copies in a bag apart; what the endgame asks for is a set of copies
   of the right size (the list is shuffled).
 * `run` joins its coroutines with `operator||`. When one returns, the other is
   cancelled: a wait for the timer returns (its error is ignored) and the code
   goes on to its next `co_await`, which throws; a send or receive returns
   *operation_aborted*, which `handle_failure` turns into DISCONNECTED.
 * `load_block_requests` takes several steps, during which nobody else runs.
 * The comparison in both refresh functions is inverted in the code, and in the
   model.
 * Peers are external. `wire[c]` is the bag of requests a peer has not answered;
   it may answer them in any order, late, with bad bytes, or not at all, and answers
   that have left already may cross a cancel (`CancelsSent`). Their messages are
   well formed. The connection and the handshakes are one wait; module Wire takes
   them apart.
 * `PeerManager` is there only as far as it starts `connect` and `run` again. Two
   assumptions: it acts on TIMED_OUT or DISCONNECTED after the `run` that
   set it has wound down, and steps are atomic although a reconnected `run` lives
   on the other thread. Both can fail in the code; module PeerManager has the
   first window, and both are listed as hazards.

**SwarmHonest** restricts peers to honest ones and adds fairness.

**PeerManager** has the map of connections, its lock and three threads: main in
`start`, `add_peers` and `stop`; `utils_ctx_` with `cleanup_peer_connections`,
`connect`, its completion handler and `try_reconnection`; `peer_conn_ctx_` with
the runs. An entry is the state of a connection as far as the manager looks at it,
and which coroutine is where.
 * `handle_failure` sets `state_` before `run` has returned. In between the run
   is "winding" (its other coroutine is being cancelled, and may set `state_` once
   more) or "returning", and cleanup may already reconnect or erase it.
   `OnlyIdleErased` permits that, because the code does it; what the run then does
   with freed memory is not modelled.
 * cleanup erases an entry and then calls `was_connected()` on it: `FreedReads` is
   what this may read beside the old value.
 * `start` spawns cleanup before it sets `started_`; a cleanup that looks first
   returns for ever (`"gone"`), which `DisconnectedDropped` has to except.
 * The counter wraps at `UINT32`. The return of runs at the end of the download
   is left out: they leave `state_` as it is, and the client then stops the manager.

**UdpTracker** and **HttpTracker** are the two exchanges of `retrieve_peers`,
each request sent once and waited for once. The network is external: it
delivers any answer to any request that was sent, at any time and any number of
times, late ones of an earlier exchange included. An error message is told apart
by its action, and its text reads as an interval (`Garbage`), which the code
takes before it looks at the action and the transaction id. A list of peers is
reduced to the announce it answers. **PeerRetriever** walks the
groups of announces, `group` and `index` being the places of the two loops; a UDP
address without a port makes a constructor throw (`AskThrows`). **TorrentClient** is the program: main's loop in seconds, and the
bar, which polls. Of the download it sees two facts that change at any time,
`completed` and `enough` connected peers.

**Wire** is one connection as two streams of bytes, from `connect` through the
two coroutines of `run` to a failure and the next `connect`; **TorrentMessage** has
the layout of the messages, numbers as the four bytes of a little-endian host.
 * `send_buffer_` is filled slot by slot between `StartLoad`, which clears it, and
   `SendLoaded`; what it holds before is what the last `run` left in it. "interested"
   is written over its front.
 * `receive_messages` is three actions, `ReadSize`, `ReadId` and `ReadPayload`, one
   for each wait, and a connection may be lost between any two of them.
 * A stream keeps its order and delivers what was sent (it is TCP). The peer is
   external: it sends handshakes and messages from a set, at any time once there is
   a connection, and reads as the protocol says. `receive_buffer_` has a fixed size
   while `run` runs (`RECEIVE_BUFFER`), and the payloads of the peer fit into it; a
   longer one is outside the model (section 5).
 * `asked` and `told` are ghosts: the messages whose bytes are on the way; `got` and
   `handled` hold the last message that either side has read. **MessageChannel** is
   what each direction promises in terms of them: messages arrive whole and in
   order, or not at all once the connection is lost.

**Bencode** and **TorrentMetadata** are recursive operators, put to use on
bounded inputs by **Codec**. A character is a TLA+ string and every
name of the torrent format is one character; `Invalid` stands for an exception.
The decoder is compared with `IsItem`, the grammar stated by ways to cut a text in
two. The hash of a text is the text.

## 3. Runs

| Run | Question | Instance |
|---|---|---|
| `piece` | counters, inverse vectors, received means filled; implements BlockSet | 4 blocks, last one short, 2 payloads, timeout 1 |
| `manager` | pool limit, verified and stored once in place, the repaired order loses no piece, exact endgame list; implements VerifiedDownload | pieces of 2, 2, 1 blocks, 1 at a time, availability up to 2 |
| `pool` | free list complete; implements Allocator | 4 blocks |
| `files` | implements FlatStore; every write returns | all layouts of up to 3 files of up to 2 bytes |
| `swarm_connection` | no availability taken back that was not added, requests in flight bounded; implements PieceManagerCalls | 1 peer that fails, times out and comes back, 2 pieces, 3 in flight, 2 per request |
| `swarm_honest` | endgame loses no block; the download completes | 2 peers, 2 pieces, one peer has only the first |
| `peers` | `state_` tells what still happens to a connection; nothing erased under connect or reconnect; reconnections end; the dead are dropped | 2 peers, at most 1 connected, 2 retries |
| `client` | peers answer the request that was sent; every tracker is asked before giving up; groups keep their announces; the program ends, and asks again while short of peers | 3 torrents of 1 to 3 known trackers, one of them with an unknown type and one malformed |
| `formats` | the decoder accepts the grammar and places items exactly; torrents are read or refused; only a peer with our torrent is connected; requests and the messages of the peer arrive whole and in order; nobody waits for bytes that are never sent | all texts of up to 6 of 8 characters, 1458 torrents; one connection, 2 blocks, 2 per buffer, 2 messages on the way each way, 5 handshakes, 4 messages, one of 300 bytes |

**Bounds.** `RequestTimeout` is zero or one tick: ages only matter as fresh or
overdue. With four blocks a swap may involve two blocks that are neither
first nor last. Availability goes up to the largest index, so the
misdirected search meets every place of the vector. Pools are smaller than the
torrent so that the limit is met; that `manager` has one piece under way at a time
is made up for by the proofs, which hold for all sizes. `MaxAvail`
bounds repeated bitfields and haves; `MaxWire` stops a sender while its peer owes
more than that many answers (without it the endgame, which asks again every
interval, fills the wire without end). It is a bound on the environment, not a guard
of the code; the proofs hold for each value of it. `MAX_BLOCKS_IN_FLIGHT` and
`MAX_BLOCKS_PER_REQUEST` are small and not multiples of one another. Failures
and reconnections are explored with one peer, interleaved connections with two
honest ones, to keep each question affordable. In `peers` the limit on peers is
below their number so that it is met and passed, and `UINT32` is the least value
above it so that the counter wraps early. `TransactionIds` is 3: answers may be up
to two requests late, which reaches across an exchange. `Intervals` has zero, which
makes the client ask in every round (a negative one of an HTTP tracker is over as
soon; those that overflow the clock are left out), and `Garbage` is none of them. `MaxText` is
enough for a dictionary with an entry and for a list in a list; torrents are
built from fields instead, every combination of good, wrong and absent ones.
`MaxOnWire` stops either side while that many messages of it have not been
read; a full buffer is sent all the same, so that up to three are on the way. Blocks
have a number whose bytes all differ and one with the largest byte; handshakes
differ from ours where they may and in the first and last byte of what
must agree; a payload is longer than a byte can say, and fills the buffer to its
last byte. Deadlock is checked in every run.

**Fairness.** `FileManager` assumes weak fairness of the loop in `write`: the
thread that is in it keeps running, and no stream is assumed to fail. `SwarmHonest` assumes strong fairness of
every coroutine and of each message of a peer: handlers wait in the queue of an
`io_context`, so one that becomes ready again and again is run; a peer answers
each request, sends its bitfield before it unchokes, and does not choke. The
clock is not assumed to advance. `PeerManager` assumes weak fairness of
main inside `add_peers`, of the start of cleanup and of a pass; strong fairness of
the lock of cleanup, since passes are ten seconds apart and `add_peers` holds the
lock for microseconds; and strong fairness of each `try_reconnection`, whose timer
and socket operations all have deadlines and which a pass of cleanup only delays. It
assumes nothing of runs or of calls to `add_peers`. `TorrentClient` assumes weak fairness
of main, whose waits have deadlines, except in an HTTP GET, which has none,
and of both loops of the bar. It does not assume that the download completes.

**Disagreements.** Three runs show that the code does not do what a comment or
test says; each is a `finding` with its quotation.

| Run | What it shows |
|---|---|
| `manager_endgame_gap` | a hash mismatch in the endgame leaves blocks in nobody's list |
| `swarm_refresh` | the refresh keeps what timed out and drops what is fresh |
| `peers_count` | a timed out peer is subtracted twice: `connected_peers_` falls below the runs under way |

Others were met while modelling and have no run:
 * the endgame asks for the short last block of the torrent with full size
   (`PieceManager.cpp:179`; `PieceManager.hpp:151` gives the size of each block);
 * the byte offset of a piece is 32 bits wide, so that beyond 4 GiB pieces are
   written over others (`PieceManager.cpp:90`); this is why two theorems assume
   `TORRENT_SIZE <= UINT32`;
 * cleanup may see `started_` before it is set and return (`PeerManager.cpp:81`),
   where `PeerManager.hpp:91` says that it "will run as long as the peer manager
   is running";
 * a have may leave `sorted_pieces_` out of order while `are_pieces_sorted_` says
   it is sorted (`PieceManager.hpp:190`);
 * `get_downloaded_bytes` counts the short last piece as a full one
   (`PieceManager.hpp:122`);
 * haves of a peer that never sends a bitfield are not taken back when its
   connection ends (`PieceManager.hpp:180`).

## 4. Proofs

All theorems are about every value of the constants that satisfies the named
assumptions (sizes, counts and timeouts are natural numbers, positive where the
code divides by them; distinguished values differ; a piece has at most `UINT16` blocks, because
`Piece.hpp:170-174` keeps their positions in 16 bits).

 * **PieceTheorems, PieceLifeProofs.** The inductive invariant is type
   correctness together with `WellFormed`: vectors inverse, received exactly
   when filled, unrequested counted by a cardinality. The vectors being inverse
   is what makes `is_block_received`, which looks at a position, equal to
   membership in the first `blocks_left_` entries. Lemmas say what each member
   function does to a well formed piece; PieceManagerProofs uses them again.
   Results: type correctness, the three parts, and `PieceRefinesBlockSet`.
 * **PieceManagerProofs.** `PmInv` says: all pieces under way are well formed and
   have a block left; no completed piece is under way; at most
   `max_active_requests_` are; `sorted_pieces_` is a permutation; `pieces_left_`
   counts the pieces not completed, and the flag is up exactly at zero; completed
   pieces are in the file. Counting is needed because `pieces_left_` and
   `piece_completed_` are separate in the code, and the endgame compares the
   former with the size of the map: equal counts and inclusion give that *every*
   missing piece is under way, from which `EndgameAlwaysListsMissing` follows.
   `FileAlwaysHoldsPieces` and `ManagerRefinesDownload` assume
   `TORRENT_SIZE <= UINT32`: past it an offset wraps and overwrites other pieces.
 * **MemoryPoolProofs.** `PoolInv` has as witness a function that lists the
   free blocks in the order of their links; blocks not yet initialised are
   at the end of it and link to their successor. Results: types,
   `FreeListAlwaysComplete`, `PoolRefinesAllocator`.
 * **FileManagerProofs.** `FileInv` says that the rest of the data starts at
   `offset`, which lies between the start and the end of file `file_index` while
   data is left. Results: types, `FilesRefineFlatStore`, for all layouts.

 * **SwarmProofs.** For any set of peers and anything they may send. `SwarmInv`
   says: `PmInv` holds; the endgame list, what is on the wire and the lists of
   every connection are bags of blocks of the torrent; what is in flight and
   what `load_block_requests` may still ask for fit into the array together
   (the number of blocks is fixed before the loop, so the bound alone is not
   inductive: `quota` has to be counted in); the receiver runs only after `run`
   has started it, and a connection that is being made has no bitfield yet;
   availability covers its owners. The last two belong together: a
   run takes a bitfield back when it ends, by a flag that another life of
   the connection set, and only because `reset_state` clears it before the
   sender can be anywhere in `Early` does nothing get subtracted twice. There is
   one lemma per action; `CallStep` and `QuietStep` carry the ones that call
   `PieceManager` and the ones that do not. That an action of Swarm is a call of
   PieceManagerCalls or leaves PieceManager alone falls out of the same lemmas:
   `SwarmImplementsCalls`. With it everything proved of PieceManagerCalls holds
   of the whole download; the corollaries `SwarmPoolNeverExhausted`,
   `SwarmEndgameListsMissing`, `SwarmFileHoldsPieces` and `SwarmRefinesDownload`
   say so. Finiteness and sizes of bags take a page of lemmas, because the
   prover's library has none.

   The second half is about SwarmHonest: `HonestEndgameKeepsBlocks`. `HonestInv`
   adds to `SwarmInv` that buffers hold only good bytes, that in the endgame every
   missing piece is under way, that a connection out of choke has the bitfield
   of its peer, and that nobody is in the endgame loop before the endgame. The
   first two are why a block, once received, is never missing again (`Onward`): a
   piece leaves the map only when it is stored. With bad data it may be dropped after
   the refresh has taken its blocks from the lists, and the property fails; hence the
   restriction to honest peers. What
   remains is that refresh, load and receive move what is lacking between the
   two lists (`RefreshRemembers`, `LoadedRemembers`, `AnsweredRemembers`).
 * **ConnectionProofs**, of PeerManager. `PeersInv` ties, entry by entry, `state_` and
   `is_reconnecting` to the coroutine (`task`) and the run that are under way, and
   the lock to the places of main and of cleanup. Since an entry is touched by
   three threads, the entry is the unit: `EntryBecomes` says what a step that
   changes one entry keeps, and each action has only to show the new record good.
   Results: types, `StateAlwaysTells`, `ErasesOnlyIdle`, for any number of peers.
 * **ConnectionProofs**, of Wire. For any info hash, blocks, buffer size and
   messages of the peer. `WireInv` says of each stream, and of the buffer, that it
   consists of the bytes of the messages on the way (`Spells`). That is a concatenation
   of any length; instead of a recursive operator it has a witness, the sequence of
   what is left behind each message, so that both ends can be worked at without
   induction: a reader drops the first entry (`SpellsFirst`), and what a sender puts
   behind a stream is appended to each (`SpellsJoin`). Of the first message a part may
   have been read: `Remainder` says which, by `state_` and `reading`. Below that are
   lemmas on the messages themselves, where four bytes and the number they stand
   for are shown to determine each other (`WordOfNumber`): whatever follows a
   message, reading its front gives the message and leaves the rest (`BlockTaken`,
   `InterestedTaken`, `HandshakeBytes`, `PeersRead`, `Payload`). `Slot` says that a
   write at `i * 17` is an append, which it is only because the buffer was cleared.
   Results: types, `NobodyEverWaitsInVain`, `HandshakeAlwaysChecked`, and the two
   refinements `RequestsAlwaysArrive` and `MessagesAlwaysArrive`. They are in one module
   with PeerManager because they are about the same connection from two sides.
 * **TorrentClientProofs.** `ClientInv` says in each phase of an exchange whose
   request the last transaction id is and what was returned answers
   (`ExchangeOK`), that the loops stand at the tracker being asked (`LoopsOK`), and that
   every announce behind them has been asked or is of an unknown type
   (`PassedTried`). Results: types, `PeersAlwaysAnswer` (an answer is believed only
   with the id of this exchange, however late or often datagrams arrive),
   `AlwaysGivesUpLast`, `GroupsAlwaysKept`, for all announce-lists.

The type invariants of MemoryPool and of Wire (`PoolTypeCorrect`, `WireTypeCorrect`) are
proved and in no run; what the runs check there says more than they do.

**Only model-checked:** the liveness properties (`WriteReturns`,
`HonestDownloadCompletes`, `ReconnectionTerminates`, `DisconnectedDropped`,
`CompleteEnds`, `AsksAgain`), because liveness under fairness is beyond the prover;
and the three properties of Codec in `formats`, whose operators are recursive over
their input, so that a proof would be an induction over data.

## 5. Not modelled, and the plan

What the provers can reach of the properties that runs check is proved; of the rest
the note at the end of section 4 says why not.

Not modelled:
 * the way of an exception of `File::write` through `receive_block` and `run`;
 * a `run` that works on a connection cleanup has erased, and a reconnected `run`
   that shares PieceManager, and the static payload buffer of
   `TorrentMessage.cpp:152`, with the other thread without a lock: these are data
   races, in which a step of the model is no longer atomic;
 * Crypto (a wrapper of a library; the model uses only whether digests agree),
   Logger, Error and the text of Stats and of the bar, opening files, resolving
   names, and the arguments of the program: formatting and calls of libraries;
 * peers that break the protocol (a payload longer than `receive_buffer_`, a have
   without payload): Wire and Swarm are about what well formed messages do.
