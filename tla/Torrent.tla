------------------------------ MODULE Torrent ------------------------------
(***************************************************************************)
(* The download core of btclient: the torrent state that every connection  *)
(* thread shares (metainfo_t.sh and the memory-mapped files), and what the *)
(* threads of peer_connection.c do to it.                                  *)
(*                                                                         *)
(* Every critical section of sh_lock contains no blocking call and is one  *)
(* action.  The files are written and hashed without any lock, so each     *)
(* access to a block is an action of its own.                              *)
(*                                                                         *)
(* Left to other modules: message framing, timeouts and keep-alives (here  *)
(* they are the choice to take Close), serving the peer's own requests,    *)
(* and the geometry of blocks inside files.                                *)
(***************************************************************************)
EXTENDS Integers, FiniteSets, Sequences

CONSTANTS
  NumPieces,     \* torrent->info.num_pieces
  NumBlocks,     \* blocks of PEER_REQUEST_SIZE in a piece
  LastNumBlocks, \* and in the last piece, which may be shorter
  NumFiles,      \* torrent->info.files_count
  Conns,         \* the connection threads main() may create
  NoConn,        \* not a thread
  Faulty,        \* threads whose peer may send any block, right or wrong
  max_peers,     \* capacity of peer_connections (main.c sets 50)
  WORD,          \* modulus of the unsigned counters (2^32 and 2^64 in C)
  SIZEOF_SIZE_T  \* 8 on LP64 builds, 4 on 32-bit ones

Pieces == 0 .. NumPieces - 1
Blocks == 0 .. NumBlocks - 1
Files  == 0 .. NumFiles - 1

\* The blocks of piece p that piece_request_create() finds.
NumBlocksOf(p) == IF p = NumPieces - 1 THEN LastNumBlocks ELSE NumBlocks

BlocksOf(p) == 0 .. NumBlocksOf(p) - 1

ASSUME SizesAssumption ==
  /\ NumPieces \in Nat \ {0}
  /\ NumBlocks \in Nat \ {0}
  /\ LastNumBlocks \in 1 .. NumBlocks
  /\ NumFiles \in Nat \ {0}
  /\ max_peers \in Nat
  /\ WORD \in Nat /\ WORD > NumPieces /\ WORD > NumBlocks
  /\ SIZEOF_SIZE_T \in {4, 8}

ASSUME ConnsAssumption ==
  /\ NoConn \notin Conns
  /\ Faulty \subseteq Conns
  /\ IsFiniteSet(Conns)

VARIABLES
  piece_states,      \* sh.piece_states
  pieces_left,       \* sh.pieces_left, a size_t
  completed,         \* sh.completed
  state,             \* sh.state
  peer_connections,  \* sh.peer_connections, the registered threads
  registering,       \* main(): thread created and not yet registered
  content,           \* blocks of a piece whose mapped bytes are the torrent's
  final,             \* files renamed from X.incomplete to X
  failed_assert,     \* the assertion that stopped the process, or "none"
  pc,                \* where each thread is
  choked,            \* conn_state_t.local.choked
  interested,        \* conn_state_t.local.interested
  peer_have,         \* conn_state_t.peer_have
  local_have,        \* conn_state_t.local_have
  request,           \* the piece of the one entry of local_requests
  blocks_left,       \* its blocks_left, a uint32_t
  owed,              \* blocks requested that the peer has not yet sent
  i,                 \* loop index of torrent_sha1_verify / torrent_complete
  have_queue         \* the thread's POSIX message queue of have events

sh   == <<piece_states, pieces_left, completed, state>>
main == <<peer_connections, registering>>
disk == <<content, final>>
conn == <<choked, interested, peer_have, local_have, request, blocks_left,
          owed, i, have_queue>>
vars == <<sh, main, disk, failed_assert, pc, conn>>

NoPiece == -1

PieceState == {"NOT_REQUESTED", "REQUESTED", "HAVE"}

\* The places where a thread can be preempted: waiting in the message loop,
\* hashing a piece, before each critical section, renaming files.
Places == {"unborn", "init", "loop", "verify", "invalid", "valid",
           "complete", "rename", "announce", "closed"}

MQ_MAXMSG == 10

\* attr.mq_msgsize: mq_send rejects anything longer with EMSGSIZE.
MQ_MSGSIZE == 4

TypeOK ==
  /\ piece_states \in [Pieces -> PieceState]
  /\ pieces_left \in 0 .. WORD - 1
  /\ completed \in BOOLEAN
  /\ state \in {"LEECHING", "SEEDING"}
  /\ peer_connections \subseteq Conns
  /\ registering \in Conns \cup {NoConn}
  /\ content \in [Pieces -> SUBSET Blocks]
  /\ \A p \in Pieces : content[p] \subseteq BlocksOf(p)
  /\ final \subseteq Files
  /\ failed_assert \in {"none", "pieces_left", "trim"}
  /\ pc \in [Conns -> Places]
  /\ choked \in [Conns -> BOOLEAN]
  /\ interested \in [Conns -> BOOLEAN]
  /\ peer_have \in [Conns -> SUBSET Pieces]
  /\ local_have \in [Conns -> SUBSET Pieces]
  /\ request \in [Conns -> Pieces \cup {NoPiece}]
  /\ blocks_left \in [Conns -> 0 .. WORD - 1]
  /\ owed \in [Conns -> SUBSET Blocks]
  /\ i \in [Conns -> Nat]
  /\ have_queue \in [Conns -> Seq(Pieces)]

-----------------------------------------------------------------------------
(* Initial state: parse_file().  A file that already exists is opened      *)
(* without O_TRUNC, so its bytes may be anything, right ones included.     *)

Init ==
  /\ piece_states = [p \in Pieces |-> "NOT_REQUESTED"]
  /\ pieces_left = NumPieces
  /\ completed = FALSE
  /\ state = "LEECHING"
  /\ peer_connections = {}
  /\ registering = NoConn
  /\ content \in [Pieces -> SUBSET Blocks]
  /\ \A p \in Pieces : content[p] \subseteq BlocksOf(p)
  /\ final = {}
  /\ failed_assert = "none"
  /\ pc = [c \in Conns |-> "unborn"]
  /\ choked = [c \in Conns |-> TRUE]
  /\ interested = [c \in Conns |-> FALSE]
  /\ peer_have = [c \in Conns |-> {}]
  /\ local_have = [c \in Conns |-> {}]
  /\ request = [c \in Conns |-> NoPiece]
  /\ blocks_left = [c \in Conns |-> 0]
  /\ owed = [c \in Conns |-> {}]
  /\ i = [c \in Conns |-> 0]
  /\ have_queue = [c \in Conns |-> <<>>]

\* The process is still running: no assertion has aborted it.
Running == failed_assert = "none"

At(c, place) == Running /\ pc[c] = place

Goto(c, place) == pc' = [pc EXCEPT ![c] = place]

\* Unsigned decrement: 0 wraps to the largest value.
Dec(n) == IF n = 0 THEN WORD - 1 ELSE n - 1

-----------------------------------------------------------------------------
(* main.c: create_peer_connection() starts the thread first and appends it *)
(* to peer_connections afterwards, under the lock.                         *)

CreateConn(c) ==
  /\ At(c, "unborn")
  /\ registering = NoConn
  /\ registering' = c
  /\ Goto(c, "init")
  /\ UNCHANGED <<sh, peer_connections, disk, failed_assert, conn>>

RegisterConn ==
  /\ Running
  /\ registering # NoConn
  /\ registering' = NoConn
  /\ peer_connections' = IF Cardinality(peer_connections) = max_peers
                         THEN peer_connections
                         ELSE peer_connections \cup {registering}
  /\ UNCHANGED <<sh, disk, failed_assert, pc, conn>>

-----------------------------------------------------------------------------
(* Opening and closing a connection.                                       *)

\* MUTANT: pieces under way are advertised too.
HavePieces_Requested == {p \in Pieces : piece_states[p] # "NOT_REQUESTED"}

\* make_bitfield()
HavePieces == {p \in Pieces : piece_states[p] = "HAVE"}

\* conn_state_init(): local_have is a snapshot taken under the lock; the
\* buffer of peer_have is malloc'ed and never cleared, so it may hold any bits.
Start(c, garbage) ==
  /\ At(c, "init")
  /\ Goto(c, "loop")
  /\ local_have' = [local_have EXCEPT ![c] = HavePieces]
  /\ peer_have' = [peer_have EXCEPT ![c] = garbage]
  /\ UNCHANGED <<sh, main, disk, failed_assert, choked, interested, request,
                 blocks_left, owed, i, have_queue>>

\* The state a thread leaves behind: its conn_state_t is freed, its queue
\* unlinked.  Its entry of peer_connections and the piece it had marked
\* REQUESTED stay as they are.
Discard(c) ==
  /\ Goto(c, "closed")
  /\ choked' = [choked EXCEPT ![c] = TRUE]
  /\ interested' = [interested EXCEPT ![c] = FALSE]
  /\ peer_have' = [peer_have EXCEPT ![c] = {}]
  /\ local_have' = [local_have EXCEPT ![c] = {}]
  /\ request' = [request EXCEPT ![c] = NoPiece]
  /\ blocks_left' = [blocks_left EXCEPT ![c] = 0]
  /\ owed' = [owed EXCEPT ![c] = {}]
  /\ i' = [i EXCEPT ![c] = 0]
  /\ have_queue' = [have_queue EXCEPT ![c] = <<>>]

\* A failed connect or handshake (fail_init), or a timeout, a failed receive or
\* a failed send in the message loop (abort_conn).
Close(c) ==
  /\ At(c, "init") \/ At(c, "loop")
  /\ Discard(c)
  /\ UNCHANGED <<sh, main, disk, failed_assert>>

-----------------------------------------------------------------------------
(* Messages that decide whether and what to request (process_msg).         *)

RecvChoke(c) ==
  /\ At(c, "loop")
  /\ choked' = [choked EXCEPT ![c] = TRUE]
  /\ UNCHANGED <<sh, main, disk, failed_assert, pc, interested, peer_have,
                 local_have, request, blocks_left, owed, i, have_queue>>

RecvUnchoke(c) ==
  /\ At(c, "loop")
  /\ choked' = [choked EXCEPT ![c] = FALSE]
  /\ UNCHANGED <<sh, main, disk, failed_assert, pc, interested, peer_have,
                 local_have, request, blocks_left, owed, i, have_queue>>

\* MSG_HAVE.  The condition is the code's: interest is shown in a piece whose
\* bit is set in local_have.  Sending MSG_INTERESTED may fail, which leaves
\* local.interested as it was.
RecvHave(c, p, sent) ==
  /\ At(c, "loop")
  /\ interested' = [interested EXCEPT
                      ![c] = @ \/ (p \in local_have[c] /\ sent)]
  /\ peer_have' = [peer_have EXCEPT ![c] = @ \cup {p}]
  /\ UNCHANGED <<sh, main, disk, failed_assert, pc, choked, local_have,
                 request, blocks_left, owed, i, have_queue>>

\* MSG_BITFIELD: the peer's pieces are compared with piece_states under the
\* lock.
RecvBitfield(c, pieces, sent) ==
  /\ At(c, "loop")
  /\ peer_have' = [peer_have EXCEPT ![c] = pieces]
  /\ interested' = [interested EXCEPT
                      ![c] = @ \/ (sent /\ ~(pieces \subseteq HavePieces))]
  /\ UNCHANGED <<sh, main, disk, failed_assert, pc, choked, local_have,
                 request, blocks_left, owed, i, have_queue>>

-----------------------------------------------------------------------------
(* Requesting a piece: send_requests().  PEER_NUM_OUTSTANDING_REQUESTS is  *)
(* 1 and nothing ever shortens local_requests, so a connection requests at *)
(* most one piece and request[c] is set once.                              *)

\* MUTANT: the scan for a piece under way takes pieces that are complete.
InState_AnyButNew(have, s) ==
  {p \in have : (piece_states[p] = "NOT_REQUESTED") = (s = "NOT_REQUESTED")}

InState(have, s) == {p \in have : piece_states[p] = s}

\* torrent_next_request(): the first piece of the peer nobody asked for, else
\* the last one that another request is still out for.
IsNextRequest(p, have) ==
  \/ /\ p \in InState(have, "NOT_REQUESTED")
     /\ \A q \in InState(have, "NOT_REQUESTED") : p =< q
  \/ /\ InState(have, "NOT_REQUESTED") = {}
     /\ p \in InState(have, "REQUESTED")
     /\ \A q \in InState(have, "REQUESTED") : q =< p

MayRequest(c) ==
  /\ At(c, "loop")
  /\ ~choked[c] /\ interested[c]
  /\ request[c] = NoPiece

SendRequests(c, p) ==
  /\ MayRequest(c)
  /\ p \in peer_have[c] /\ IsNextRequest(p, peer_have[c])
  /\ piece_states' = [piece_states EXCEPT ![p] = "REQUESTED"]
  /\ request' = [request EXCEPT ![c] = p]
  /\ blocks_left' = [blocks_left EXCEPT ![c] = NumBlocksOf(p)]
  /\ owed' = [owed EXCEPT ![c] = BlocksOf(p)]
  /\ UNCHANGED <<pieces_left, completed, state, main, disk, failed_assert, pc,
                 choked, interested, peer_have, local_have, i, have_queue>>

\* One of the MSG_REQUESTs cannot be sent: the connection is aborted, and the
\* piece stays marked REQUESTED.
SendRequestsFails(c, p) ==
  /\ MayRequest(c)
  /\ p \in peer_have[c] /\ IsNextRequest(p, peer_have[c])
  /\ piece_states' = [piece_states EXCEPT ![p] = "REQUESTED"]
  /\ Discard(c)
  /\ UNCHANGED <<pieces_left, completed, state, main, disk, failed_assert>>

\* torrent_next_request() finds nothing: MSG_NOT_INTERESTED is sent (if that
\* fails, nothing changes and the loop tries again).
LoseInterest(c) ==
  /\ MayRequest(c)
  /\ InState(peer_have[c], "NOT_REQUESTED") = {}
  /\ InState(peer_have[c], "REQUESTED") = {}
  /\ interested' = [interested EXCEPT ![c] = FALSE]
  /\ UNCHANGED <<sh, main, disk, failed_assert, pc, choked, peer_have,
                 local_have, request, blocks_left, owed, i, have_queue>>

-----------------------------------------------------------------------------
(* Receiving a block: peer_msg_recv_piece() writes it straight into the    *)
(* mapped file, requested or not and whoever else is writing or hashing    *)
(* that piece; process_piece_msg() then looks it up in the block requests. *)
(* That array was freed by piece_request_free() at the end of              *)
(* send_requests(), so whether the lookup finds the block is arbitrary.    *)

\* What the peer of c may send: a well-behaved one answers every request once,
\* with the right bytes.
Answers(c, p, b, good) ==
  c \in Faulty \/ (p = request[c] /\ b \in owed[c] /\ good)

\* The mapped bytes of block b of piece p are now right, or wrong.
WriteBlock(p, b, good) ==
  content' = [content EXCEPT ![p] = IF good THEN @ \cup {b} ELSE @ \ {b}]

\* blocks_left after a block of piece p arrived.
BlocksLeft(c, p, found) ==
  IF p = request[c] /\ found THEN Dec(blocks_left[c]) ELSE blocks_left[c]

RecvBlock(c, p, b, good, found) ==
  /\ At(c, "loop")
  /\ Answers(c, p, b, good)
  /\ WriteBlock(p, b, good)
  /\ owed' = [owed EXCEPT ![c] = IF p = request[c] THEN @ \ {b} ELSE @]
  /\ blocks_left' = [blocks_left EXCEPT ![c] = BlocksLeft(c, p, found)]
  /\ Goto(c, IF p = request[c] /\ blocks_left'[c] = 0 THEN "verify" ELSE "loop")
  /\ UNCHANGED <<sh, main, final, failed_assert, choked, interested,
                 peer_have, local_have, request, i, have_queue>>

\* The connection breaks inside a block: part of it has been written, which
\* may or may not change whether the block is right, and the thread aborts.
RecvBlockFails(c, p, b, good) ==
  /\ At(c, "loop")
  /\ Answers(c, p, b, good)
  /\ WriteBlock(p, b, good)
  /\ Discard(c)
  /\ UNCHANGED <<sh, main, final, failed_assert>>

-----------------------------------------------------------------------------
(* A piece whose blocks_left reached 0: hash it, then record the outcome.  *)

\* MUTANT: the loop over the blocks ends one too early.
LastBlock_OffByOne(p) == NumBlocksOf(p) - 2

\* Where the loops of torrent_sha1_verify() and torrent_complete() end.
LastBlock(p) == NumBlocksOf(p) - 1

\* MUTANT: the loop over the files ends one too early.
LastFile_OffByOne == NumFiles - 2

LastFile == NumFiles - 1

\* torrent_sha1_verify(): one block is read per step, without a lock.
VerifyBlock(c) ==
  /\ At(c, "verify")
  /\ IF i[c] \notin content[request[c]]
     THEN Goto(c, "invalid") /\ i' = [i EXCEPT ![c] = 0]
     ELSE IF i[c] = LastBlock(request[c])
     THEN Goto(c, "valid") /\ i' = [i EXCEPT ![c] = 0]
     ELSE i' = [i EXCEPT ![c] = @ + 1] /\ UNCHANGED pc
  /\ UNCHANGED <<sh, main, disk, failed_assert, choked, interested, peer_have,
                 local_have, request, blocks_left, owed, have_queue>>

\* MUTANT: the counter is put back whatever the state of the piece was.
PieceInvalid_Recount(c) ==
  /\ At(c, "invalid")
  /\ piece_states' = [piece_states EXCEPT ![request[c]] = "NOT_REQUESTED"]
  /\ pieces_left' = (pieces_left + 1) % WORD
  /\ Goto(c, "loop")
  /\ UNCHANGED <<completed, state, main, disk, failed_assert, conn>>

\* process_piece_msg(), hash mismatch: the piece is up for request again,
\* whatever its state was.
PieceInvalid(c) ==
  /\ At(c, "invalid")
  /\ piece_states' = [piece_states EXCEPT ![request[c]] = "NOT_REQUESTED"]
  /\ Goto(c, "loop")
  /\ UNCHANGED <<pieces_left, completed, state, main, disk, failed_assert,
                 conn>>

\* MUTANT: every valid piece is counted, the second download of one too.
IsNew_Always(p) == TRUE

\* The piece was not complete before.
IsNew(p) == piece_states[p] # "HAVE"

\* MUTANT: the torrent counts as complete one piece too early.
NoneLeft_OffByOne(left) == left =< 1

NoneLeft(left) == left = 0

\* handle_piece_dl_completion(), first critical section.
PieceValid(c) ==
  /\ At(c, "valid")
  /\ IF IsNew(request[c])
     THEN /\ piece_states' = [piece_states EXCEPT ![request[c]] = "HAVE"]
          /\ pieces_left' = Dec(pieces_left)
          /\ failed_assert' = IF pieces_left' < NumPieces
                              THEN "none" ELSE "pieces_left"
          /\ completed' = (completed \/ NoneLeft(pieces_left'))
          /\ Goto(c, IF NoneLeft(pieces_left') THEN "complete" ELSE "announce")
          /\ UNCHANGED state
     ELSE Goto(c, "announce") /\ UNCHANGED <<sh, failed_assert>>
  /\ UNCHANGED <<main, disk, conn>>

\* torrent_complete(), critical section.
TorrentComplete(c) ==
  /\ At(c, "complete")
  /\ completed' = TRUE
  /\ state' = "SEEDING"
  /\ Goto(c, "rename")
  /\ UNCHANGED <<piece_states, pieces_left, main, disk, failed_assert, conn>>

\* torrent_complete(), one dl_file_complete() per step.  The path of a file
\* that was renamed before has lost ".incomplete", and the assertion on trim
\* fails.
RenameFile(c) ==
  /\ At(c, "rename")
  /\ failed_assert' = IF i[c] \in final THEN "trim" ELSE "none"
  /\ final' = final \cup {i[c]}
  /\ IF i[c] = LastFile
     THEN Goto(c, "announce") /\ i' = [i EXCEPT ![c] = 0]
     ELSE i' = [i EXCEPT ![c] = @ + 1] /\ UNCHANGED pc
  /\ UNCHANGED <<sh, main, content, choked, interested, peer_have, local_have,
                 request, blocks_left, owed, have_queue>>

-----------------------------------------------------------------------------
(* Telling the connections about a new piece.                              *)

\* The threads notify_peers_have() opens a queue of: it skips those for which
\* pthread_equal(conn->thread, pthread_self()) is 0, i.e. all but the caller.
Notified(c) == peer_connections \cap {c}

\* MSG_HAVE to the thread's own peer, whose failure is ignored, then
\* notify_peers_have().  An event is a size_t; a full queue (EAGAIN) and a
\* message that is too long (EMSGSIZE) lose it.
Announce(c) ==
  /\ At(c, "announce")
  /\ Goto(c, "loop")
  /\ have_queue' = [d \in Conns |->
       IF /\ d \in Notified(c)
          /\ SIZEOF_SIZE_T =< MQ_MSGSIZE
          /\ Len(have_queue[d]) < MQ_MAXMSG
       THEN Append(have_queue[d], request[c])
       ELSE have_queue[d]]
  /\ UNCHANGED <<sh, main, disk, failed_assert, choked, interested, peer_have,
                 local_have, request, blocks_left, owed, i>>

\* service_have_events(): every event is recorded in local_have and passed on
\* to the peer; a send that fails ends the loop after n events.
ServiceHaveEvents(c, n) ==
  /\ At(c, "loop")
  /\ n \in 1 .. Len(have_queue[c])
  /\ local_have' = [local_have EXCEPT
                      ![c] = @ \cup {have_queue[c][k] : k \in 1 .. n}]
  /\ have_queue' = [have_queue EXCEPT
                      ![c] = SubSeq(@, n + 1, Len(@))]
  /\ UNCHANGED <<sh, main, disk, failed_assert, pc, choked, interested,
                 peer_have, request, blocks_left, owed, i>>

-----------------------------------------------------------------------------

\* What a thread does by itself once a piece is in: no peer is involved.
ThreadStep(c) ==
  \/ VerifyBlock(c)
  \/ PieceInvalid(c)
  \/ PieceValid(c)
  \/ TorrentComplete(c)
  \/ RenameFile(c)
  \/ Announce(c)
  \/ \E n \in 1 .. MQ_MAXMSG : ServiceHaveEvents(c, n)

\* send_requests(), called from the message loop.
RequestStep(c) ==
  \/ \E p \in Pieces : SendRequests(c, p)
  \/ \E p \in Pieces : SendRequestsFails(c, p)
  \/ LoseInterest(c)

\* What depends on the network or the peer.
PeerStep(c) ==
  \/ \E garbage \in SUBSET Pieces : Start(c, garbage)
  \/ Close(c)
  \/ RecvChoke(c)
  \/ RecvUnchoke(c)
  \/ \E p \in Pieces, sent \in BOOLEAN : RecvHave(c, p, sent)
  \/ \E pieces \in SUBSET Pieces, sent \in BOOLEAN :
       RecvBitfield(c, pieces, sent)
  \/ RequestStep(c)
  \/ \E p \in Pieces, good, found \in BOOLEAN :
       \E b \in BlocksOf(p) : RecvBlock(c, p, b, good, found)
  \/ \E p \in Pieces, good \in BOOLEAN :
       \E b \in BlocksOf(p) : RecvBlockFails(c, p, b, good)

\* Nothing is left to do: the process was aborted, or every thread is gone.
Halted ==
  /\ ~Running \/ \A c \in Conns : pc[c] = "closed"
  /\ registering = NoConn \/ ~Running
  /\ UNCHANGED vars

Next ==
  \/ RegisterConn
  \/ \E c \in Conns : CreateConn(c) \/ PeerStep(c) \/ ThreadStep(c)
  \/ Halted

\* The scheduler runs every thread that is ready; peers promise nothing.
Fairness == \A c \in Conns : WF_vars(ThreadStep(c))

\* Moreover the message loop gets as far as send_requests(): the peer does not
\* keep it busy for ever with messages and requests of its own.
LoopFairness == \A c \in Conns : WF_vars(RequestStep(c))

Spec == Init /\ [][Next]_vars

FairSpec == Spec /\ Fairness

LoopSpec == FairSpec /\ LoopFairness

-----------------------------------------------------------------------------
(* What holds whatever the peers send.                                     *)

Missing == {p \in Pieces : piece_states[p] # "HAVE"}

\* sh.pieces_left never exceeds the number of pieces that are not HAVE: a
\* piece whose second download fails its hash check stops being HAVE without
\* being counted again (process_piece_msg), so the counter may be too small,
\* never too large.
NeverOvercounted == Running => pieces_left =< Cardinality(Missing)

\* The pieces whose bytes in the mapped files are the torrent's.
Intact == {p \in Pieces : content[p] = BlocksOf(p)}

D == INSTANCE Download WITH
       Piece <- Pieces, Trusted <- (Faulty = {}), LastName <- NumFiles - 1,
       whole <- Intact, have <- Pieces \ Missing, complete <- completed,
       role <- state, renamed <- final

\* All threads together do what Download says of a torrent, whichever of them
\* fetch the same piece, finish at the same time or close: a piece counts once,
\* sh.completed is set by the thread that obtains the last one, and only then
\* are the files renamed, once and in order.  With well-behaved peers a piece
\* is obtained only when its bytes are in the files, and is never lost.
Downloads == D!Spec

\* However many threads finish pieces at once, and however often a piece is
\* lost and fetched again, torrent_complete() runs at most once: the assertion
\* of dl_file_complete() on the ".incomplete" suffix never fails.
RenamedOnce == failed_assert # "trim"

\* From the end of torrent_sha1_verify() to the critical section that marks
\* the piece HAVE, the mapped bytes are the hashed ones, provided that no peer
\* of another thread sends wrong blocks; the thread's own peer may.
HashIsCurrent ==
  \A c \in Conns :
    Faulty \subseteq {c} /\ At(c, "valid") => content[request[c]] = BlocksOf(request[c])

\* Once every piece is HAVE, every file is eventually renamed and the torrent
\* becomes a seed, although connections close in between and a late thread may
\* take a piece back, unless the assertion on pieces_left stops the process.
CompletionIsFinished ==
  (Missing = {}) ~>
    ((final = Files /\ completed /\ state = "SEEDING") \/ ~Running)

-----------------------------------------------------------------------------
(* What holds when all peers send what was asked for, and only that.       *)

\* The assertion of handle_piece_dl_completion() on pieces_left never fails.
PiecesLeftAssert == failed_assert # "pieces_left"

\* Two threads may fetch the same piece and complete it in any order; it is
\* counted once: pieces_left is the number of pieces that are not HAVE.
Accounting == pieces_left = Cardinality(Missing)

\* A piece that is HAVE stays HAVE: no request, no second download and no
\* hash check of it takes it back.
HaveIsForever ==
  [][\A p \in Pieces : piece_states[p] = "HAVE" => piece_states'[p] = "HAVE"]_vars

\* No file loses its ".incomplete" suffix before every block of every piece is
\* right, and what is right then stays right.
RenamedMeansIntact == final # {} => \A p \in Pieces : content[p] = BlocksOf(p)

\* A thread's local_have, a copy taken when it started and updated through its
\* message queue, never names a piece that is not complete.
LocalHaveSound ==
  \A c \in Conns : \A p \in local_have[c] : piece_states[p] = "HAVE"

\* A thread that is done with its piece, is interested and not choked, and
\* whose peer has a piece that is missing, does not stay idle for ever.
Idle(c) ==
  /\ At(c, "loop")
  /\ request[c] # NoPiece /\ owed[c] = {} /\ blocks_left[c] = 0
  /\ interested[c] /\ ~choked[c]
  /\ peer_have[c] \cap Missing # {}

KeepsRequesting == \A c \in Conns : Idle(c) ~> ~Idle(c)
=============================================================================
