# btclient: specifications, model checking and proofs

btclient is a BitTorrent client in C: one process, one thread per peer, and a
main thread that talks to the tracker. This directory holds TLA+ modules
translated from its source, TLC configurations that check them on small
instances, and TLAPS proofs that hold for every size. Source paths below are
relative to `src/src/` of the repository.

## 1. The system

### Components, their state and their operations

| Component | Source | State | Operations |
|---|---|---|---|
| shared torrent state | `file-parser/file-parser.h`, `peer-connection/peer_connection.c` | `metainfo_t.sh` under `sh_lock`: `piece_states`, `pieces_left`, `completed`, `state`, `peer_connections`; the mapped files, under no lock | `torrent_next_request`, `handle_piece_dl_completion`, `torrent_complete`, `make_bitfield` |
| connection thread | `peer-connection/peer_connection.c` | `conn_state_t`: choke and interest flags, `peer_have`, `local_have`, `local_requests`, `peer_requests`, clocks, a POSIX message queue | handshake, `process_msg`, `process_piece_msg`, `send_requests`, `service_peer_requests`, `service_have_events`, keep-alive, clean-up |
| peer messages | `peer-msg/peer_msg.c` | the TCP stream | `peer_msg_send`, `peer_msg_recv`, `peer_msg_recv_piece`, `peer_msg_buff_nonempty` |
| piece requests | `piece-request/piece_request.c` | a `piece_request_t`: blocks, and for each block the ranges of the mapped files | `piece_request_create`, `piece_request_block_at`, `piece_request_free` |
| request queue | `queue/queue.c` | a growing ring buffer | `queue_init`, `enqueue`, `queue_resize`, `dequeue` |
| hashing | `sha1/sha1.c` | none; reads the mapped files | `torrent_sha1_verify` |
| download files | `dl-file/dl_file.c` | a file `X.incomplete`, its mapping, its path | `dl_file_create`, `dl_file_complete`, `dl_file_close_and_free` |
| UDP tracker client | `tracker/udp/tracker_udp.c` | attempts, transaction id, time of the last connect | `udp_announce` with its connect and announce loops |
| HTTP(S) tracker client | `tracker/http/`, `tracker/https/` | none between calls; a buffer and a count within one | `http_announce`, `https_announce`, `parse_tracker_response`, `parse_content` |
| main loop | `main.c`, `tracker/tracker_announce.c` | `started`, `completed`, the next event, the tracker's socket | announce, create connections, sleep |
| metainfo parser | `file-parser/file-parser.c` | the `metainfo_t` it builds | `parse_file` |
| bencode parser | `deps/stb_bencode.h` | position, the last two tokens, a token looked ahead | `next_token`, `parse_item` and what it calls |
| hash table | `deps/stb_hashtable.h` | positions, `size`, `used` | insert, look-up, delete, rehash (not modelled) |
| bit fields, URL parser, logging, peer id | `bitfield/`, `url/`, `log/`, `peer-id/`, `byte-str/` | local | conversions |

### How they interact

`main()` parses the torrent, announces, and for every peer starts a thread; only
afterwards does it append the thread to `sh.peer_connections`. A thread opens
the connection, copies the piece states into `local_have`, and then loops:
receive a message, answer requests, send requests, pass on have events. Blocks
are written straight into the mapped files as they arrive. When the last block
of its piece is in, the thread hashes the piece without a lock, then takes
`sh_lock` to record the outcome. The thread that brings `pieces_left` to 0
marks the torrent complete (which the main loop polls) and renames the files.
New pieces are announced to other threads through per-thread POSIX message
queues.

### What is hard

* two threads fetch, write, hash and complete the same piece at once; the hash
  is computed outside the lock and used inside it;
* unsigned counters (`pieces_left`, `blocks_left`, `left`, a negative `recv()`
  result) wrap instead of going below 0;
* connections end at any step and leave shared state behind;
* have events are lost by full queues, by late registration and by message size;
* the geometry of blocks across files, empty files and a short last piece;
* datagrams that are lost, late or duplicated, and retries inside retries;
* a ring buffer that grows while wrapped;
* a byte stream in which a send may fail half-way and a receiver looks for
  messages while they arrive;
* clocks that are only looked at between passes of a loop that may block;
* a completion that must be announced although announces fail;
* a process that is killed between creating, renaming and completing files;
* a parser that tells tokens apart by the two before them, and reads on in the
  heap behind its text.

`PROJECT.json` lists these at their lines, with the properties about them.

### What makes each component correct

* shared state: every piece counted once, nothing complete lost, files renamed
  once and only when intact, completion always carried through;
* connection thread: never claims a piece we lack; keeps requesting;
* piece requests: the blocks tile the piece, inside the files, where their
  `begin` says;
* queue: first in, first out; pointers inside the buffer;
* UDP client: a response only from an answer, no byte read that was not
  received, bounded retries, termination;
* messages: what one end sends is what the other gets, in order; receiving
  does not wait; only peers of the same torrent get past the handshake;
* connection loop: a silent peer is dropped, a punctual one is not, the peer
  hears from us, its requests are served and ours are made;
* main loop: the completion is announced once, to a tracker that knows the
  client, and arrives if the tracker can be reached then; no socket leaks;
* HTTP client: no overrun, whole answers are understood, no peers invented;
* files: a final name means whole data; a restart loses nothing that has one;
* bencode parser: the inverse of the encoding; the info hash is of the right
  bytes.

## 2. The modules

| Module | Models |
|---|---|
| `Download` | abstract specification: pieces are obtained one by one, the last one completes the torrent, the files are renamed in order |
| `Torrent` | shared state, mapped files and connection threads, shown to implement `Download` |
| `TorrentProofs` | proofs about `Torrent` |
| `PieceRequest`, `PieceRequestProofs` | `piece_request.c`, one action per loop iteration |
| `Fifo` | abstract specification: a queue that is first-in first-out up to a guaranteed number of entries |
| `RingQueue`, `RingQueueProofs` | `queue.c`, shown to implement `Fifo` |
| `UdpTracker` | `udp_announce()` and an unreliable network |
| `MsgChannel` | abstract specification: messages arrive one by one, in order, until one is not what its length says |
| `PeerWire`, `PeerWireProofs` | `peer_msg.c` over a stream of bytes, shown to implement `MsgChannel` |
| `PeerLoop`, `PeerLoopProofs` | the loop of `peer_connection()`, its clocks and the peer's requests |
| `AnnounceLoop`, `AnnounceLoopProofs` | `main.c` and `tracker_announce.c` |
| `HttpTracker` | `tracker_http.c` and `tracker_https.c` |
| `Trackers`, `TrackersProofs` | `tracker_announce()`: `UdpTracker` or `HttpTracker`, by the protocol, with the proofs about both |
| `DlFiles` | `dl_file.c` and its callers, with crashes and restarts |
| `Bencode` | `stb_bencode.h` |
| `ParseFile`, `ParseFileProofs` | `parse_file()`: `Bencode`, then `DlFiles`, with the proofs about both |
| `MC...` | instances for TLC (`AnnounceLoop` needs none); `MCParseFile` also defines the encoding by which `Bencode` is judged |

Definitions whose name has a suffix after an underscore and a comment starting
with `MUTANT` are deliberately wrong variants of the definition that follows.
They are used only to show that a property can fail.

### Torrent

`pc[c]` is where thread `c` can be preempted. A critical section of `sh_lock`
has no blocking call in it and is one action; the files are written and hashed
without a lock, so every block access is an action.

| Action | Code |
|---|---|
| `CreateConn`, `RegisterConn` | `create_peer_connection()` in `main.c` |
| `Start`, `Close` | `conn_state_init()`; every path to `fail_init` and `abort_conn` |
| `RecvChoke`, `RecvUnchoke`, `RecvHave`, `RecvBitfield` | cases of `process_msg()` |
| `SendRequests`, `SendRequestsFails`, `LoseInterest` | `send_requests()` with `torrent_next_request()` |
| `RecvBlock`, `RecvBlockFails` | `peer_msg_recv_piece()` and the first half of `process_piece_msg()` |
| `VerifyBlock`, `PieceInvalid` | `torrent_sha1_verify()`; the mismatch branch of `process_piece_msg()` |
| `PieceValid`, `TorrentComplete`, `RenameFile`, `Announce` | `handle_piece_dl_completion()`, `torrent_complete()`, `dl_file_complete()`, `notify_peers_have()` |
| `ServiceHaveEvents` | `service_have_events()` |

Together the threads implement `Download` (`Downloads`). The mapping takes as
obtained what is `PIECE_STATE_HAVE` and as whole what has all its blocks;
`Trusted` is `Faulty = {}`. What `Download` promises without it is less: pieces may
be lost, and the torrent may be complete too early, but an obtained piece never
leaves it incomplete once it is complete or nothing is missing, and the files get
their final names one by one, in order, after `TORRENT_STATE_SEEDING` is set.

The data is abstracted as follows. A piece has `NumBlocks` blocks, the last one
`LastNumBlocks`, which may be fewer. `content[p]` is the set of blocks of piece
`p` whose mapped bytes are the torrent's; hashing succeeds if every block was
right when it was read. `request[c]` is the single entry that `local_requests`
ever has. An assertion that fails sets `failed_assert` and stops everything.

The code is followed where it is surprising, and undefined behaviour is a free
choice:

* `peer_have` is allocated and not cleared (line 58), so `Start` gives it any
  bits;
* the test of `MSG_HAVE` (lines 420-421) shows interest in pieces that *are* in
  `local_have`;
* `notify_peers_have()` (line 265) skips every thread but the caller;
* a have event is a `size_t`, sent to a queue of 4-byte messages (line 277):
  with `SIZEOF_SIZE_T = 8` every event is lost;
* the block array that `process_piece_msg()` searches was freed at line 578, so
  `found` is arbitrary in `RecvBlock`;
* nothing shortens `local_requests`, so a connection requests one piece at most.

`Faulty` is the set of threads whose peer may send any block at any time. The
others answer each request at most once, with the right bytes; they may choke,
advertise anything, be slow, or disappear.

### PieceRequest

`starts` is the layout of the files; `Init` ranges over all layouts, piece
lengths and indices within the bounds. `terminated` says whether the array of
files ends with NULL: only single-file mode makes room for one. What is found
behind an unterminated array is taken for a file and leads to `"crash"`. Failing
allocations are the actions `CreateFails` and `NextBlockFails`. Subtraction
from `left` wraps at `WORD`.

### RingQueue and Fifo

Slots are numbered from `mem`. `queue_resize()` on a wrapped queue uses the
length of the whole new buffer for both of its moves, so it reads and writes
past the end; `overrun` records that. `Fifo` promises order until an operation
meets at least `Guaranteed` entries; the refinement maps `Guaranteed` to
`init_capacity`. So the queue is dependable up to 16 outstanding requests of a
peer, and beyond that as long as it does not wrap.

### UdpTracker

`net` is a set of datagrams: taking one may leave it there (duplicate), and it
may never be taken (loss). `recv()` stores its result in a `size_t`, so a
timeout is a datagram of `SIZE_MAX` bytes of whatever the buffer held. The
tracker is external: it answers with the right action or an error, of any of
the given sizes.

### PeerWire and MsgChannel

One direction of a connection, byte by byte. `msgs` says where in the stream
the bytes of which message start; a receiver that reads a length or a type
somewhere else reads any of `JunkLens` or `Types`. `SendFails` ends a message
half-way; for the messages in `Ignored` the caller does not look at the result
and goes on. `RecvLen` is `peer_msg_buff_nonempty()` followed by the receipt of
the length, `RecvType`, `RecvBlockHeader` and `RecvBody` are the rest of
`peer_msg_recv()`. `Peek`, `PeekedLate` and `RecvLenLate` are the case in which
nothing had come when the message was peeked at: `recv()` returns -1, which
passes for a large `uint32_t`, `len` is not set, and bytes that arrive before the
`ioctl()` are received as a message whatever their number.

`MsgChannel` promises order until the receiver comes to a message that is cut
off, is a `MSG_PIECE` of this program (sent without its body, line 172) or is a
block of another size than was asked for (line 252).

The handshake compares info hashes with `strncmp()` (line 111), which stops at a
zero byte: `SameTorrent` promises no more than that.

### PeerLoop

Times are modelled by their ages in seconds. `Top` to `AskSkipped` are the parts
of one pass; `left` is the time the pass may still take. `timeo` is whether the
socket has a timeout: `peer_connect()` sets it to what `select()` left of 5
seconds (line 188), and 0 means none: then `recv()` and `send()` may take any time
(second disjunct of `Tick`), and what is said of ages and of progress supposes
`timeo`. A message may lack its last bytes (`part`); `DrainWait` then blocks in
`recv()`. `punctual`, chosen at the start, says
whether the peer keeps to `PERIOD`.

### AnnounceLoop

The tracker can be reached or not (`up`) and changes at any time;
`TorrentCompletes` is the step of `Torrent` that sets `sh.completed`. How a
request gets to the tracker is left to `UdpTracker` and `HttpTracker`; their
outcomes, failing assertions included, are the actions `Exchange...`. `main()` sets
`completed` (line 80) before it announces; if that announce fails, the next one is
built anew, with `EVENT_STARTED`. `CompletionArrives` therefore asks for a tracker
that can be reached while the completion is announced.

`received` is the set of event numbers that have reached a UDP tracker.
`EventCode` is how `tracker_event_t` numbers the events; `fill_announce_request()`
sends the number as it is (`Sent`); `Meaning` is how a UDP tracker reads it (BEP
15, external). The two numberings differ, so what is announced is not what is
`Heard`: the start reads as no event and the completion as a start, and the tracker
is never told of the completion. `AnnouncedBefore` and `CompletionArrives` say that
the announces arrive, in terms of what they tell.

### HttpTracker

An answer is a number of bytes with positions at which its parts end, so that
what the parser makes of a cut-off answer depends on how many bytes are in the
buffer. `n` and `total_received` are `size_t`, modulo `WORD`: a reset connection
(`RecvError`) brings `total_received` to the largest value and ends at the assertion
of line 38 (`Received`) instead of the message of line 30. libcurl is external:
it calls `write_callback()` with chunks of any size.

### DlFiles

`dir` maps names to inodes, `data` says which file an inode holds whole. `Open`
and `Rename` are the two halves of `dl_file_create_and_open()` between which the
process can be killed; `CreateFails` leaves the file under its final name.
`Crash` is enabled everywhere. The ghosts `since` and `cut` count, for each file,
the starts since it was renamed back, and remember creations that were
interrupted. A file that has not been renamed back when the process dies is lost
at the next start, verified or not: `X` is created anew and renamed over
`X.incomplete`. `OutlivesRestart` is about the files that have been.

### Bencode

`next_token` and the parser's helpers are operators with the code's names; the
recursion of `parse_list()` and `parse_dict()` is the variable `stack`. The constant
operator `Encode` is the reference; `MCParseFile` defines it, recursively. `Number`
is `strtol()`, which stops at `LONG_MAX`. A dictionary is the sequence of its
insertions, so that the hash table behind it is left out.

`read_char()` has no bound. The text lies in memory that goes on with `behind`, a
sequence of any length and content, and then ends: `At` is `"FAULT"` there, and
reading it crashes the process (a token of type `OVERRUN`). The parser's own
allocations lie behind the text too, so `behind` may change between any two steps
(`HeapChanges`); it does not get shorter. The tokens `prev` and `prevprev` that
`new_lexer()` does not initialise are chosen freely, their integers included.

Errors do not stop the parser. `errors` has room for `MAX_ERRORS` of them and
`parse_error()` does not look; one more overwrites what lies behind. The model lets
the process crash at any time from then on (`ErrorsOverrun`) or go on as if
nothing had been overwritten. A number of more than `NUM_BUF` characters, which
overruns `buf` of `next_token()`, is taken for a crash.

## 3. The runs

| Run | Instance | Checks |
|---|---|---|
| `torrent_good` | 2 threads, a piece of 2 blocks and a last one of 1, 2 files, `max_peers` 1, 4-byte `size_t`, good peers | `Accounting`, `RenamedMeansIntact`, `LocalHaveSound`, `Downloads` |
| `torrent_faulty` | 2 threads, 1 piece of 2 blocks, 2 files, one faulty peer, `FairSpec` | `HashIsCurrent`, `NeverOvercounted`, `RenamedOnce`, `CompletionIsFinished` |
| `torrent_assert` | 2 threads, 1 piece, one faulty peer | `PiecesLeftAssert`: **violated** |
| `torrent_stall` | 1 thread, 2 pieces, good peer, `LoopSpec` | `KeepsRequesting`: **violated** |
| `ring_queue` | 3 entries, capacities 2, 4, 8 | `PointersInside`, `IsFifo` |
| `piece_request` | all layouts of up to 4 files and 8 bytes, piece lengths 1-4, blocks of 2 | `InsideFiles`, `Contiguous`, `BeginIsAddress`, `CoversPiece`, `OverreadIsAtEnd`, `Returns` |
| `trackers` | UDP: 2 ids, well- and ill-sized answers; HTTP(S): 5 answers of 9 to 15 bytes, a buffer of 14, chunks of 10 | `ResponseIsAnswer`, `PeersReceived`, `InsideBuffer`, `WholeAnswer`, `NoInventedPeers`, `AnnounceReturns` |
| `udp_timeout` | 2 ids, well-sized answers | `ConnectAssert`: **violated** |
| `peer_wire` | 2 messages of 5 types of this program or blocks of another, 4 info hashes, blocks of 2 bytes, `FairSpec` | `AtMostTwoMissing`, `SameTorrent`, `InOrder`, `Arrives` |
| `peer_loop` | timeout 4, interval 2, a pass of 2, a punctual or any peer, 2 requests of it, `FairSpec` | `NoSpuriousTimeout`, `SilentIsDropped`, `KeepsAlive`, `Served`, `AsksInTheEnd` |
| `announce_loop` | 4 protocols, 2 addresses, `FairSpec` | `CompletedOnce`, `AnnouncedBefore`, `NoSocketLeft`, `CompletionArrives` |
| `parse_file` | 2380 documents, 14 other texts, 7 contents of the heap, 5 new lexers; 2 files, 5 inodes, 4 starts | `FinalIsWhole`, `OutlivesRestart`, `RoundTrip`, `HashedRange`, `HashedFromDToE` |

What they show: with peers that send what was asked for, the download
bookkeeping is right under every interleaving of two threads, connections
closing at any point. With a faulty peer it degrades in one direction only:
`pieces_left` may be too small, never too large, so files are still renamed at
most once, and whoever completes the torrent carries it through. Messages arrive
in order until one is cut off or malformed; a silent peer is dropped and a
punctual one is kept, to within a pass of the loop; announces end, with peers that
the tracker sent; a file with its final name is whole, across restarts.

The exceptions are in the properties, next to what they promise: an info hash is
compared up to its first zero byte (`SameTorrent`), a completion is announced in
one attempt and read as a start (`CompletionArrives`), a peer may be dropped for a send of ours that
hangs if the socket has no timeout (`NoSpuriousTimeout`), a string that begins with
a colon is not parsed and may move the end of what is hashed (`RoundTrip`,
`HashedRange`), the info hash of a truncated text is that of whatever bytes of the
heap go on with it (`HashedFromDToE`), an answer cut off or in several chunks may yield peers that were
not sent (`NoInventedPeers`), a second restart empties a file that was renamed back
(`OutlivesRestart`).

### What the violated runs show

* **`torrent_assert`**. One connection, whose peer is faulty, is enough. It
  completes piece 0: HAVE, `pieces_left = 0`. The peer sends a wrong block of that
  piece, unasked; the hash fails, and line 388 sets the piece back to
  NOT_REQUESTED without raising `pieces_left`. When the right block comes again, the
  piece is counted down from 0, the `size_t` wraps, and the assertion of line 310
  aborts the process. A late block of another connection does the same.
* **`torrent_stall`**. The piece requested first is done, the peer has the other
  one, and `send_requests()` never asks for it: line 534 subtracts the number
  of requests ever made from the number that may be outstanding.
* **`udp_timeout`**. `udp_recv_dgram()` (line 85) compares a `size_t` with 0; one
  lost connect answer fails the assertion of line 173 instead of reaching the
  retry loop, which therefore only ever retries `send()`.

### Bounds and why they are enough

* *Two threads, two pieces.* The shared state relates a thread to one piece and
  to one other thread working on it; a second piece makes a piece not the last
  one. A thread requests once in its life, so two threads can count a piece
  more often than there are pieces only if there is a single one: hence the one
  piece of `torrent_faulty`. The proofs cover every number for the safety
  properties.
* *`WORD = 4`.* Large enough for the counters' honest values, small enough that
  a counter that falls below 0 wraps and comes back within the run.
* *Blocks.* Two blocks make a partly written and a partly hashed piece
  possible, and a last piece of one block is shorter; the two violated runs need
  only one.
* *`max_peers = 1`, `SIZEOF_SIZE_T = 4`* in `torrent_good`: the second thread is not
  registered, and have events do arrive. In `torrent_faulty` all are registered and
  no event arrives, as on 64-bit builds.
* *`PieceRequest`.* Four files allow a piece that starts behind an empty file,
  ends in another and crosses two; piece lengths 1 and 3 are not whole blocks,
  so `left` wraps; 8 bytes give short last pieces.
* *`MaxCapacity = 8`.* Two doublings, wrapped or not, from every head position.
* *`MAX_RECV_BUFSIZE = 32`, `SIZE_MAX = 63`.* Like 2048, 32 leaves a whole number
  of 6-byte peers after the 20-byte header, so that a cut-off datagram is
  accepted; like 2^32-1 and 2^64-1, 63 is 3 modulo 6.
* *`PeerWire`.* A block of 2 bytes makes a whole `MSG_PIECE` 15 bytes, more than
  the two messages that can follow it: they are swallowed entirely or in part.
  `JunkLens` has a keep-alive, two valid lengths and an invalid one. The
  handshake is compared as one unit, so 2 bytes stand for 68. The four hashes are
  equal to ours `<<1, 0, 2>>` or differ before, at or behind its zero byte.
* *`PeerLoop`.* Ages are counted up to where no comparison tells them apart; the
  proofs cover every timeout.
* *`AnnounceLoop`.* Two addresses: one that fails before one that answers. Two
  sockets: one that leaked and one in use. `completions` is counted to 2.
* *`HttpTracker`.* With 2 peers an answer fits the buffer with room for a zero,
  with 3 it does not; it exceeds a chunk in both cases unless libcurl cuts it.
* *`DlFiles`.* Two files, so that one is complete and the other is not; four
  starts reach a second restart after completion, where data are lost.
* *`Bencode`.* Strings begin with each of the special characters; dictionaries
  nest twice below the key `info`, with another `info` inside. The texts that
  are no encodings break off, or have keys, numbers and sizes that are none.
  `LONG_MAX = 999` and `NUM_BUF = 5` are exceeded by one number each, and by digits
  in the heap; `MAX_ERRORS = 3` by texts whose end is in the heap. What is behind
  the text ends at once or goes on with an `e`, a `d`, a length and a colon, or
  bytes that are no token before the `e`; up to 6 bytes, of which a truncated text
  takes several into its info hash.

Deadlock is checked in every run: states in which the program has legitimately
stopped have an explicit stuttering disjunct (`Halted`, `Done`, `StaysDown`).

### Fairness

* `Fairness` (`Torrent`): weak fairness of what a thread does without its peer,
  because the scheduler runs every ready thread and no critical section blocks.
  Nothing is assumed of peers or of the network.
* `LoopFairness`, in `torrent_stall` only: the message loop reaches
  `send_requests()`, which it does after every batch of messages. The violation
  thus does not come from a thread that is never scheduled.
* `PieceRequest`, `UdpTracker`, `HttpTracker` and their composition in `Trackers`:
  weak fairness of the next step of a sequential function whose calls return.
  `AnnounceReturns` supposes of a UDP tracker that the connection does not expire
  again and again, since each reconnect starts counting attempts anew when it
  succeeds, and of an HTTP tracker that it closes the connection or fills the
  buffer.
* `PeerWire`: weak fairness of the receiver. Its loop never stops polling and its
  receives have a timeout; nothing is assumed of the sender.
* `PeerLoop`: weak fairness of a pass of the loop, if `send()` and `recv()` have a
  timeout. `ComesRound` in its properties says that they have one and that the peer
  does not keep `process_queued_messages()` busy for ever,
  which the code does not prevent; `AsksInTheEnd` also supposes that in the end
  there is always a piece to ask for, and that the peer's requests stop.
* `AnnounceLoop`: weak fairness of the loop for UDP trackers only, whose calls
  have timeouts; `http_announce()` may wait for ever for a tracker that neither
  answers nor closes.

## 4. The proofs

The proofs are checked by TLAPS and use only the named assumptions on the
constants (`SizesAssumption`, `ConnsAssumption`, `QueueAssumption`,
`GeometryAssumption`, `LoopAssumption`, `AnnounceAssumption`, `UdpAssumption`,
`HttpConstants`, `WireAssumption`, `FilesAssumption`, `TextsAssumption`).

| Theorem | States |
|---|---|
| `TorrentProofs!TypeCorrect` | `TypeOK`, wrapped counters included |
| `TorrentProofs!CountedAtMostOnce`, `CompletedOnce` | `NeverOvercounted`, `RenamedOnce`, for any peers |
| `TorrentProofs!HashStaysCurrent` | `HashIsCurrent`, if at most the thread's own peer is faulty |
| `TorrentProofs!AssertionHolds`, `AccountingIsExact`, `RenamedWhenIntact` | `PiecesLeftAssert`, `Accounting`, `RenamedMeansIntact`, if `Faulty = {}` |
| `TorrentProofs!NothingTakenBack`, `NothingClaimed` | `HaveIsForever`, `LocalHaveSound`, if `Faulty = {}` |
| `TorrentProofs!ImplementsDownload` | `Downloads`: `Torrent` implements `Download`, for any peers |
| `RingQueueProofs!PointersStayInside` | `PointersInside` |
| `RingQueueProofs!ImplementsFifo` | `RingQueue` implements `Fifo` |
| `PieceRequestProofs!TypeCorrect`, `StaysInsideFiles`, `TilesPiece`, `BlocksInPlace` | `TypeOK`, `InsideFiles`, `Contiguous`, `BeginIsAddress` |
| `PieceRequestProofs!PieceCovered`, `OverreadOnlyAtEnd` | `CoversPiece`, `OverreadIsAtEnd` |
| `PeerLoopProofs!TypeCorrect`, `DropsTheSilent`, `StaysAlive`, `PunctualIsKept` | `TypeOK`, `SilentIsDropped`, `KeepsAlive`, `NoSpuriousTimeout`, for all timeouts |
| `AnnounceLoopProofs!TypeCorrect`, `AnnouncedOnce`, `KnownFirst`, `SocketsClosed` | `TypeOK`, `CompletedOnce`, `AnnouncedBefore`, `NoSocketLeft` |
| `TrackersProofs!TypeCorrect` | the types of both clients |
| `TrackersProofs!AttemptsBounded`, `AnswersOnly`, `ReadsWhatCame` | UDP: `TriesBounded`, `ResponseIsAnswer`, `PeersReceived` |
| `TrackersProofs!WritesInside`, `AnswersReturned`, `PeersWereSent` | HTTP and HTTPS: `InsideBuffer`, `WholeAnswer`, `NoInventedPeers` |
| `PeerWireProofs!TypeCorrect`, `HashesAgree`, `NearlyThere` | `TypeOK`, `SameTorrent`, `AtMostTwoMissing` |
| `PeerWireProofs!DeliveredWasSent` | until one is broken, what is delivered is a prefix of what was sent |
| `PeerWireProofs!ImplementsChannel` | `InOrder`: `PeerWire` implements `MsgChannel` |
| `ParseFileProofs!TypeCorrect`, `FinalNamesWhole`, `DataOutliveRestart` | `TypeOK`, `FinalIsWhole`, `OutlivesRestart` |
| `ParseFileProofs!HashesDictionaries` | `HashedFromDToE`, for every text, heap and new lexer |

The arguments:

* `TypeInv` adds to `TypeOK` that a thread past its message loop has a request
  and that its loop index is in range; without it an announced event need not
  be a piece.
* `CompletionInv`: the critical section that finds `pieces_left = 0` elects one
  thread, since the counter only falls while the process runs and wrapping it
  stops the process. That thread alone is completing, and `final` is exactly
  what its loop has passed.
* `HashInv`: the blocks hashed so far are still right, because only a faulty
  peer's thread makes a block wrong, and a thread does not receive while it
  hashes.
* `GoodInv`: blocks no longer owed are right and each owed one is still counted
  in `blocks_left`, so `blocks_left = 0` implies that the piece is there, no hash
  check fails, and nothing is taken back.
* `HaveInv`: no piece that a thread holds in `local_have`, in its queue or past the
  critical section of `handle_piece_dl_completion()` is missing from the shared
  state; as nothing is taken back, it stays so.
* `DownloadInv`: while the process runs, the torrent is marked complete if
  `pieces_left` is 0 and only then, and a thread that renames files has set
  `TORRENT_STATE_SEEDING` (`SeedInv`). With the invariants above, each step is a
  `Write`, `Obtain`, `Lose`, `Seed` or `Rename` of `Download`, or changes nothing of it.
  With trusted peers `Download` never loses a piece, so that the run of `Downloads`
  checks `HaveIsForever` too.
* `RingQueueProofs!Inv`: `tail` is the slot of the last entry (`Shape`) until an
  overrun. Each concrete step is then a step of `Fifo` on `Contents`.
* `PieceRequestProofs!Inv`: `left` is the distance to the end of the piece,
  modulo `WORD` (`Cursor`); the filemems tile the torrent from the start of the
  piece to the cursor (`Tiles`); with an aligned piece length a whole number of
  blocks is left at each block boundary (`Alignment`).
* `PeerLoopProofs!ClockInv`: an age is at most its limit plus the time the pass has
  taken, since the top of the loop resets one and ends at the other.
  `PunctualInv`, for a socket with timeouts: when no message waits, the last one was
  received no earlier than the peer sent it, so the silence seen at the top is the
  peer's plus a pass.
* `AnnounceLoopProofs!OnceInv`: the event is counted in the step that sets
  `completed`, and a request is a start until then. `StartedInv`: there are no
  threads, hence no completion, before a tracker has answered an announce.
  `SocketInv`: one socket during the exchange and none outside it.
* `TrackersProofs!AnswerInv` (UDP): what is accepted is a timeout or a datagram of
  the tracker, and the sizes rule out all but the answer to this announce.
  `TriesInv`: an attempt is begun only after fewer than the maximum.
* `TrackersProofs!HttpInv`: `total_received` is the number of bytes received, or one
  less (wrapped, if there were none) after an error, which is the last event of
  the connection (`CountInv`). So `recv()` may be called with a wrapped count, and then
  writes nothing. The parser runs only at the end of the stream (`RecvInv`) or when
  curl has all of the answer (`CurlInv`).
* `PeerWireProofs!Inv`: the messages follow the handshake and one another in the
  stream (`SenderInv`). Until a bad one is reached the receiver is, between two
  messages, where the next one starts, and within one it has the right message,
  length and type (`FramingInv`). A bad message stays bad, so each step is a
  `Deliver` of the next message, a `Break` or a stutter of `MsgChannel`.
* `ParseFileProofs!Inv` (`DlFiles`): an inode has one name, and a mapped file has its own
  (`DirInv`); what was verified stays whole (`DataInv`); a file that was renamed back
  has its data under its final name until it is opened at the next start
  (`RestartInv`). They rest on `TrimIncomplete`: taking the suffix from a path that
  had none gives back the path it was added to.
* `ParseFileProofs!BencodeInv`: the lexer always goes on (a number ends where memory
  ends at the latest, since the set of places where it may end has a least
  element), a token for a d or an e has a position that was read and, in the text,
  is one (`Mark`; the heap may have changed since), and the parser never goes back
  (`Later`). So a call that has the key `info` has passed its d (`FrameInv`), and the
  current token, if it is an END, was read behind it (`Passed`).

### Only model-checked

Liveness (`CompletionIsFinished`, `Returns`, `AnnounceReturns`,
`KeepsRequesting`, `Arrives`, `Served`, `AsksInTheEnd`, `CompletionArrives`) is
beyond the prover. So is what a recursive definition computes for every input:
`RoundTrip` and `HashedRange` compare the parser with the recursive `EncodeItem`
of `MCParseFile` and stay with TLC. Every other invariant and action property of
the passing runs is a theorem.

## 5. Not modelled, and limits

* Thread cancellation. `peer_connection.c` prepares for it, but no
  `pthread_cancel()` is in the source and `main()` never leaves its loop. A
  connection of `Torrent` may end at any step (`Close`).
* The flags `remote.choked` and `remote.interested` of a connection and its counts of
  blocks: nothing but the log reads them.
* The hash table of `deps/`, a generic container.
* The URL parser, the reading of fields out of the parsed dictionary, the byte
  layout of bit fields, logging, the peer id and byte strings. They convert data
  and keep no state that another part depends on.
* `PeerWire` and `PeerLoop` are two views of one connection: `PeerLoop` takes
  messages as wholes with a few bytes missing, `PeerWire` takes time as the freedom
  to time out. In the rare case of `Peek` more than two bytes may be missing;
  `PeerLoop` then waits in the same way.
* `DlFiles`: the machine stays up, `rename()` succeeds, peers send right data
  (`Torrent` has the others), and no name contains `.incomplete`
  (`FilesAssumption`), where `strstr()` would find the wrong one.
* `HttpTracker`: the keys `complete` and `incomplete`, without which the code
  follows a null pointer, are always sent.
* `AnnounceLoop`: of what a UDP announce says, only the event. `left`, `downloaded`
  and `uploaded` are 64-bit fields and `port` a 16-bit one; all are filled by
  `htonl()`, so that a tracker reads other values than were meant.
* `Bencode`: the documents of `RoundTrip` have no empty string (it crashes the lexer,
  `OVERRUN`; one of the other texts has one). What else the errors behind the last
  one that fits, or the characters of a number that is too long, do to the stack
  of the process is not modelled. Keys are not terminated by a zero in memory; `strlen()` is taken to
  find their end, as it does unless a key fills its allocation.
* A thread identifier is never reused in `Torrent`. The code names message
  queues after `pthread_t` values, and entries of `peer_connections` outlive
  their threads, so a reused identifier would receive events meant for the old
  thread.
* Piece indices and block offsets outside the torrent are not sent by the
  peers of `Torrent`.
* `ResponseIsAnswer` supposes that connect answers are shorter than 20 bytes. The
  code does not compare the action, so a longer one delivered twice would pass.

## 6. Plan

All modules and proofs planned are there. What could be added:

1. `Torrent`: reused thread identifiers, and pieces and blocks outside the torrent.
2. `Bencode`: the hash table behind a dictionary, so that repeated keys matter.
