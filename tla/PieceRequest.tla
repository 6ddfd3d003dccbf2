---------------------------- MODULE PieceRequest ----------------------------
(***************************************************************************)
(* piece_request.c: piece_request_create() cuts a piece into block         *)
(* requests and maps every block to the ranges of the mapped files that    *)
(* hold it.  The same ranges are written when a block arrives              *)
(* (peer_msg_recv_piece) and read when the piece is hashed                 *)
(* (torrent_sha1_verify).  One action is one iteration of a loop.          *)
(***************************************************************************)
EXTENDS Integers, Sequences

CONSTANTS
  PEER_REQUEST_SIZE,
  PieceLengths,      \* values of info.piece_length
  MaxFiles,          \* bound: number of files
  MaxBytes,          \* bound: bytes of the torrent
  WORD               \* modulus of size_t

ASSUME GeometryAssumption ==
  /\ PEER_REQUEST_SIZE \in Nat \ {0}
  /\ PieceLengths \subseteq Nat \ {0}
  /\ MaxFiles \in Nat /\ MaxBytes \in Nat /\ WORD \in Nat
  /\ \A len \in PieceLengths :
       WORD > MaxBytes + len /\ WORD > PEER_REQUEST_SIZE + len

VARIABLES
  piece_length,    \* info.piece_length
  files_count,     \* info.files_count
  starts,          \* file f holds the bytes starts[f] .. starts[f + 1] - 1
  terminated,      \* files[files_count] reads as NULL
  index,           \* argument of piece_request_create()
  phase,           \* where piece_request_create() is
  skip,            \* bytes skip_until_index() has yet to skip
  cur_file_index,
  offset,          \* in the current file
  left,            \* bytes of the piece not yet requested, a size_t
  curr_size,       \* bytes in the block under construction
  blocks,          \* finished blocks; their filemems start at mems[first]
  mems,            \* all filemems, in the order of creation
  oom              \* an allocation failed

torrent == <<piece_length, files_count, starts, terminated, index>>
cursor  == <<skip, cur_file_index, offset, left, curr_size>>
result  == <<blocks, mems, oom>>
vars    == <<torrent, phase, cursor, result>>

\* Subtraction of size_t.
Sub(m, n) == (m - n) % WORD

Size(f) == starts[f + 1] - starts[f]
Total   == starts[files_count]
Start   == piece_length * index

\* files[f] as the code reads it.  parse_file() allocates room for a NULL after
\* the last file in single-file mode only; in multi-file mode the read is one
\* past the end of the array.
IsFile(f)  == f < files_count

\* MUTANT: the test for NULL is missing.
NotNull_Always(f) == TRUE

NotNull(f) == IsFile(f) \/ ~terminated

\* A torrent whose files hold the piece: num_pieces agrees with the lengths.
Init ==
  /\ piece_length \in PieceLengths
  /\ files_count \in 1 .. MaxFiles
  /\ starts \in [0 .. files_count -> 0 .. MaxBytes]
  /\ starts[0] = 0
  /\ \A f, g \in 0 .. files_count : f =< g => starts[f] =< starts[g]
  /\ terminated \in BOOLEAN
  /\ files_count = 1 => terminated
  /\ index \in 0 .. MaxBytes
  /\ Start < Total
  /\ phase = "create"
  /\ skip = 0 /\ cur_file_index = 0 /\ offset = 0 /\ left = 0 /\ curr_size = 0
  /\ blocks = <<>> /\ mems = <<>> /\ oom = FALSE

-----------------------------------------------------------------------------
(* piece_request_create()                                                  *)

Create ==
  /\ phase = "create"
  /\ phase' = "skip"
  /\ left' = piece_length
  /\ skip' = Start
  /\ UNCHANGED <<torrent, cur_file_index, offset, curr_size, result>>

\* malloc fails: NULL is returned, except that a failure to allocate
\* block_requests goes on with a null pointer.
CreateFails ==
  /\ phase = "create"
  /\ phase' \in {"null", "crash"}
  /\ oom' = TRUE
  /\ UNCHANGED <<torrent, cursor, blocks, mems>>

-----------------------------------------------------------------------------
(* skip_until_index()                                                      *)

\* MUTANT: an empty file is not stepped over.
NextFile_NonEmpty(f) == IF Size(f) = 0 THEN f ELSE f + 1

NextFile(f) == f + 1

SkipFile ==
  /\ phase = "skip" /\ skip > 0
  /\ Size(cur_file_index) =< skip
  /\ skip' = skip - Size(cur_file_index)
  /\ cur_file_index' = NextFile(cur_file_index)
  /\ UNCHANGED <<torrent, phase, offset, left, curr_size, result>>

SkipInFile ==
  /\ phase = "skip" /\ skip > 0
  /\ Size(cur_file_index) > skip
  /\ offset' = skip
  /\ phase' = "block"
  /\ UNCHANGED <<torrent, skip, cur_file_index, left, curr_size, result>>

SkipDone ==
  /\ phase = "skip" /\ skip = 0
  /\ phase' = "block"
  /\ UNCHANGED <<torrent, cursor, result>>

-----------------------------------------------------------------------------
(* next_block_request()                                                    *)

\* MUTANT: the test of *left is missing.
NoneLeft_Never == FALSE

NoneLeft == left = 0

\* MUTANT: counted from the end of the piece.
Begin_FromEnd == left

Begin == Sub(piece_length, left)

\* The early return that ends the loop of piece_request_create().
LastBlock ==
  /\ phase = "block"
  /\ ~NotNull(cur_file_index) \/ NoneLeft
  /\ phase' = "done"
  /\ UNCHANGED <<torrent, cursor, result>>

NextBlock ==
  /\ phase = "block"
  /\ NotNull(cur_file_index) /\ ~NoneLeft
  /\ phase' = "fill"
  /\ curr_size' = 0
  /\ blocks' = Append(blocks, [begin |-> Begin,
                               first |-> Len(mems) + 1, len |-> 0])
  /\ UNCHANGED <<torrent, skip, cur_file_index, offset, left, mems, oom>>

\* malloc fails: the request ends here, and nobody can tell.
NextBlockFails ==
  /\ phase = "block"
  /\ NotNull(cur_file_index) /\ ~NoneLeft
  /\ phase' = "done"
  /\ oom' = TRUE
  /\ UNCHANGED <<torrent, cursor, blocks, mems>>

\* MUTANT: the offset in the next file is not reset.
NextOffset_Kept(fits, size) == IF fits THEN offset ELSE offset + size

\* The offset after a filemem: 0, in the next file, if the rest of the file
\* fits into the block.
NextOffset(fits, size) == IF fits THEN 0 ELSE offset + size

\* MUTANT: the offset is not subtracted from the size.
Rest_WholeFile(f) == Size(f)

\* What is left of a file after the offset.
Rest(f) == Size(f) - offset

\* One filemem: the rest of the file, or what the block has room for.
AddFileMem ==
  LET rest == Rest(cur_file_index)
      room == PEER_REQUEST_SIZE - curr_size
      fits == rest =< room
      size == IF fits THEN rest ELSE room
  IN  /\ phase = "fill"
      /\ IsFile(cur_file_index)
      /\ mems' = Append(mems, [file |-> cur_file_index, offset |-> offset,
                               size |-> size])
      /\ cur_file_index' = IF fits THEN cur_file_index + 1 ELSE cur_file_index
      /\ offset' = NextOffset(fits, size)
      /\ left' = Sub(left, size)
      /\ curr_size' = curr_size + size
      /\ phase' = IF curr_size' < PEER_REQUEST_SIZE /\ NotNull(cur_file_index')
                  THEN "fill" ELSE "block"
      /\ blocks' = [blocks EXCEPT ![Len(blocks)].len = curr_size']
      /\ UNCHANGED <<torrent, skip, oom>>

\* What lies after the array is taken for a file.
ReadPastFiles ==
  /\ phase = "fill"
  /\ ~IsFile(cur_file_index)
  /\ phase' = "crash"
  /\ UNCHANGED <<torrent, cursor, result>>

Done == phase \in {"done", "null", "crash"} /\ UNCHANGED vars

Step ==
  \/ Create \/ CreateFails
  \/ SkipFile \/ SkipInFile \/ SkipDone
  \/ LastBlock \/ NextBlock \/ NextBlockFails \/ AddFileMem \/ ReadPastFiles

Next == Step \/ Done

Spec == Init /\ [][Next]_vars

\* A sequential function: it runs until it returns.
FairSpec == Spec /\ WF_vars(Step)

-----------------------------------------------------------------------------

Phases == {"create", "skip", "block", "fill", "done", "null", "crash"}

TypeOK ==
  /\ piece_length \in PieceLengths
  /\ files_count \in Nat \ {0}
  /\ starts \in [0 .. files_count -> 0 .. MaxBytes]
  /\ terminated \in BOOLEAN
  /\ index \in Nat
  /\ phase \in Phases
  /\ skip \in Nat
  /\ cur_file_index \in 0 .. files_count
  /\ offset \in Nat
  /\ left \in 0 .. WORD - 1
  /\ curr_size \in 0 .. PEER_REQUEST_SIZE
  /\ blocks \in Seq([begin : Nat, first : Nat, len : Nat])
  /\ mems \in Seq([file : Nat, offset : Nat, size : Nat])
  /\ oom \in BOOLEAN

\* Where a filemem lies in the torrent.
Address(m) == starts[m.file] + m.offset

\* Every filemem is inside the mapping of its file, whatever the piece length:
\* neither a block that arrives nor the hash touches memory behind a file.
InsideFiles ==
  \A k \in 1 .. Len(mems) :
    /\ mems[k].file \in 0 .. files_count - 1
    /\ mems[k].offset + mems[k].size =< Size(mems[k].file)

\* The filemems follow each other in the torrent without gap or overlap, from
\* the first byte of the piece on, across file boundaries and empty files.
Contiguous ==
  /\ mems # <<>> => Address(mems[1]) = Start
  /\ \A k \in 1 .. Len(mems) - 1 :
       Address(mems[k + 1]) = Address(mems[k]) + mems[k].size

\* The bytes of the block that is looked up by begin (piece_request_block_at)
\* are at Start + begin: data of a MSG_PIECE goes where it belongs.
BeginIsAddress ==
  \A k \in 1 .. Len(blocks) :
    blocks[k].first =< Len(mems) =>
      Address(mems[blocks[k].first]) = Start + blocks[k].begin

\* The piece length is a whole number of blocks, as in practice.
Aligned == piece_length % PEER_REQUEST_SIZE = 0

PieceEnd == IF Start + piece_length < Total THEN Start + piece_length ELSE Total

\* For an aligned piece length the finished request ends where the piece ends,
\* the last piece with the torrent.  (Otherwise left wraps around below 0 and
\* the request goes on to the end of the torrent.)
CoversPiece ==
  Aligned /\ phase = "done" /\ ~oom =>
    /\ mems # <<>>
    /\ Address(mems[Len(mems)]) + mems[Len(mems)].size = PieceEnd

\* For an aligned piece length the array of files is read past its end only for
\* a last piece that the end of the torrent cuts short.
OverreadIsAtEnd ==
  Aligned /\ phase = "crash" /\ ~oom =>
    ~terminated /\ Start + piece_length > Total

\* The loops end, also when left has wrapped around.
Returns == <>(phase \in {"done", "null", "crash"})
=============================================================================
