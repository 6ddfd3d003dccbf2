------------------------- MODULE PieceRequestProofs -------------------------
(***************************************************************************)
(* piece_request_create() for every layout of files, every piece length    *)
(* and every size of blocks.                                               *)
(***************************************************************************)
EXTENDS PieceRequest, SequenceTheorems, TLAPS

Mem   == [file : Nat, offset : Nat, size : Nat]
Block == [begin : Nat, first : Nat, len : Nat]

\* The next byte of the torrent to be mapped, once the skipping is over.
Pos     == starts[cur_file_index] + offset
Working == phase \in {"block", "fill", "done"} \/ (phase = "crash" /\ ~oom)

Layout ==
  /\ starts[0] = 0
  /\ \A f, g \in 0 .. files_count : f =< g => starts[f] =< starts[g]
  /\ Start \in Nat /\ Start < Total

\* What the loop variables mean.  left has wrapped around if the request has
\* gone past the end of the piece.
Cursor ==
  /\ phase = "create" => cur_file_index = 0 /\ offset = 0
  /\ phase = "skip" =>
       offset = 0 /\ left = piece_length /\ starts[cur_file_index] + skip = Start
  /\ Working =>
       /\ offset = 0 \/ (/\ cur_file_index < files_count
                         /\ offset < Size(cur_file_index))
       /\ Start =< Pos
       /\ Pos - Start =< piece_length => left = piece_length - (Pos - Start)
       /\ Pos - Start > piece_length => left = piece_length - (Pos - Start) + WORD
  /\ phase = "fill" => /\ curr_size < PEER_REQUEST_SIZE /\ blocks # <<>>
                       /\ NotNull(cur_file_index)
  /\ phase \in {"create", "skip", "block", "fill"} => ~oom

\* Nothing is mapped before the first block.
Empty == ~Working => mems = <<>> /\ blocks = <<>>

\* The filemems tile the torrent from Start to Pos.
Tiles ==
  /\ InsideFiles
  /\ Contiguous
  /\ Working /\ mems = <<>> => Pos = Start
  /\ mems # <<>> => Address(mems[Len(mems)]) + mems[Len(mems)].size = Pos

\* A block whose first filemem is still to come begins at Pos.
Begins ==
  \A k \in 1 .. Len(blocks) :
    /\ blocks[k].first \in 1 .. Len(mems) + 1
    /\ blocks[k].first = Len(mems) + 1 => Pos = Start + blocks[k].begin

Whole(m) == \E k \in Nat : m = k * PEER_REQUEST_SIZE

\* With an aligned piece length, whole blocks are left at the beginning of
\* every block, unless the files are exhausted.
Alignment ==
  Aligned =>
    /\ phase = "skip" => Whole(left)
    /\ phase = "block" => \/ Whole(left)
                          \/ terminated /\ cur_file_index = files_count
    /\ phase = "fill" => /\ left >= PEER_REQUEST_SIZE - curr_size
                         /\ Whole(left - (PEER_REQUEST_SIZE - curr_size))
    /\ Working => Pos - Start =< piece_length
    /\ phase = "done" /\ ~oom => Pos = PieceEnd
    /\ phase = "crash" /\ ~oom => ~terminated /\ Start + piece_length > Total

Inv ==
  /\ TypeOK
  /\ Layout
  /\ Cursor
  /\ Empty
  /\ Tiles
  /\ Begins /\ BeginIsAddress
  /\ Alignment

-----------------------------------------------------------------------------
(* Arithmetic.                                                             *)

\* Subtraction of size_t wraps around once.
LEMMA SubIs ==
  ASSUME NEW m \in 0 .. WORD - 1, NEW k \in 0 .. WORD - 1
  PROVE  Sub(m, k) = IF k =< m THEN m - k ELSE m - k + WORD
BY GeometryAssumption DEF Sub

\* A length that leaves no remainder is a whole number of blocks.
LEMMA AlignedWhole ==
  ASSUME NEW m \in Nat, m % PEER_REQUEST_SIZE = 0
  PROVE  Whole(m)
<1>1. m \div PEER_REQUEST_SIZE \in Nat
  BY GeometryAssumption
<1>2. m = (m \div PEER_REQUEST_SIZE) * PEER_REQUEST_SIZE
  BY GeometryAssumption
<1> QED
  BY <1>1, <1>2 DEF Whole

\* One block less is still a whole number of blocks.
LEMMA WholeMinus ==
  ASSUME NEW m \in Nat, Whole(m), m # 0
  PROVE  m >= PEER_REQUEST_SIZE /\ Whole(m - PEER_REQUEST_SIZE)
<1>1. PICK k \in Nat : m = k * PEER_REQUEST_SIZE
  BY DEF Whole
<1>2. k # 0
  BY <1>1, GeometryAssumption
<1>3. k - 1 \in Nat /\ m - PEER_REQUEST_SIZE = (k - 1) * PEER_REQUEST_SIZE
  BY <1>1, <1>2, GeometryAssumption
<1>4. (k - 1) * PEER_REQUEST_SIZE >= 0
  BY <1>3, GeometryAssumption
<1> QED
  BY <1>3, <1>4, GeometryAssumption DEF Whole

-----------------------------------------------------------------------------
(* Inv is inductive.                                                       *)

\* Initially nothing is mapped.
LEMMA InvInit == Init => Inv
<1> SUFFICES ASSUME Init PROVE Inv
  OBVIOUS
<1> USE GeometryAssumption
<1>1. /\ phase = "create" /\ mems = <<>> /\ blocks = <<>> /\ oom = FALSE
      /\ skip = 0 /\ cur_file_index = 0 /\ offset = 0 /\ left = 0 /\ curr_size = 0
  BY DEF Init
<1>2. /\ piece_length \in PieceLengths /\ piece_length \in Nat \ {0}
      /\ files_count \in Nat \ {0}
      /\ starts \in [0 .. files_count -> 0 .. MaxBytes]
      /\ terminated \in BOOLEAN /\ index \in Nat /\ WORD > 0
  BY DEF Init
<1>3. TypeOK
  BY <1>1, <1>2 DEF TypeOK, Phases
<1>4. Start \in Nat
  BY <1>2 DEF Start
<1>5. Layout
  BY <1>4 DEF Init, Layout
<1>6. ~Working
  BY <1>1 DEF Working
<1>7. Cursor /\ Empty /\ Tiles /\ Begins /\ BeginIsAddress
  BY <1>1, <1>6 DEF Cursor, Empty, Tiles, InsideFiles, Contiguous, Begins,
                    BeginIsAddress
<1>8. Alignment
  BY <1>1, <1>6 DEF Alignment
<1> QED
  BY <1>3, <1>5, <1>7, <1>8 DEF Inv

\* A step that leaves the results and the position alone keeps what was said
\* about them.
LEMMA Kept ==
  ASSUME Inv, UNCHANGED <<torrent, blocks, mems>>,
         Working' => Pos' = (IF Working THEN Pos ELSE Start),
         Working => Working'
  PROVE  /\ Layout' /\ Tiles' /\ Begins' /\ BeginIsAddress'
         /\ Start' = Start /\ Total' = Total /\ piece_length' = piece_length
         /\ PieceEnd' = PieceEnd /\ (Aligned' <=> Aligned)
<1>1. /\ starts' = starts /\ files_count' = files_count
      /\ piece_length' = piece_length /\ index' = index
      /\ mems' = mems /\ blocks' = blocks
  BY DEF torrent
<1>2. /\ Start' = Start /\ Total' = Total /\ PieceEnd' = PieceEnd
      /\ (Aligned' <=> Aligned)
  BY <1>1 DEF Start, Total, PieceEnd, Aligned
<1>3. Layout'
  BY <1>1, <1>2 DEF Inv, Layout
<1>4. InsideFiles' /\ Contiguous' /\ BeginIsAddress'
  BY <1>1, <1>2 DEF Inv, Tiles, InsideFiles, Contiguous, BeginIsAddress,
                    Address, Size
<1>5. CASE Working
  BY <1>1, <1>2, <1>3, <1>4, <1>5
     DEF Inv, Tiles, Begins, Address
<1>6. CASE ~Working
  <2>1. mems = <<>> /\ blocks = <<>>
    BY <1>6 DEF Inv, Empty
  <2>2. Len(blocks) = 0
    BY <2>1
  <2>3. Begins'
    BY <1>1, <2>2 DEF Begins
  <2>4. Tiles'
    BY <1>1, <1>2, <1>4, <1>6, <2>1 DEF Tiles
  <2> QED
    BY <1>1, <1>2, <1>3, <1>4, <2>3, <2>4
<1> QED
  BY <1>5, <1>6

\* The position is never behind the end of the torrent.
LEMMA PosBound == Inv /\ Working => Pos \in Nat /\ Pos =< Total
<1> SUFFICES ASSUME Inv, Working PROVE Pos \in Nat /\ Pos =< Total
  OBVIOUS
<1>1. /\ cur_file_index \in 0 .. files_count /\ files_count \in Nat
      /\ \A f \in 0 .. files_count : starts[f] \in Nat
      /\ offset \in Nat
  BY GeometryAssumption DEF Inv, TypeOK
<1>2. \A f \in 0 .. files_count : starts[f] =< starts[files_count]
  BY <1>1 DEF Inv, Layout
<1>3. CASE offset = 0
  BY <1>1, <1>2, <1>3 DEF Pos, Total
<1>4. CASE cur_file_index < files_count /\ offset < Size(cur_file_index)
  <2>1. cur_file_index + 1 \in 0 .. files_count
    BY <1>1, <1>4
  <2> QED
    BY <1>1, <1>2, <1>4, <2>1 DEF Pos, Total, Size
<1> QED
  BY <1>3, <1>4 DEF Inv, Cursor

\* The steps before the first block.
LEMMA SkipSteps ==
  ASSUME Inv, \/ Create \/ CreateFails
              \/ SkipFile \/ SkipInFile \/ SkipDone
  PROVE  Inv'
<1> USE GeometryAssumption
<1>1. /\ TypeOK /\ Layout /\ Cursor /\ Empty /\ Alignment
      /\ piece_length \in Nat \ {0} /\ piece_length < WORD
      /\ Start \in Nat /\ Total = starts[files_count]
  BY DEF Inv, TypeOK, Layout, Total
<1>2. UNCHANGED <<torrent, blocks, mems>> /\ ~Working
  BY DEF Create, CreateFails, SkipFile, SkipInFile, SkipDone, result, Working
<1>3. /\ starts' = starts /\ files_count' = files_count /\ index' = index
      /\ piece_length' = piece_length /\ terminated' = terminated
      /\ mems' = mems /\ blocks' = blocks /\ mems = <<>> /\ blocks = <<>>
  BY <1>1, <1>2 DEF torrent, Empty
<1>4. ASSUME TypeOK', Cursor', Alignment', Working' => Pos' = Start
      PROVE  Inv'
  <2>1. Empty'
    BY <1>3 DEF Empty
  <2> QED
    BY <1>2, <1>4, <2>1, Kept DEF Inv
<1>5. CASE Create
  <2>1. /\ phase = "create" /\ phase' = "skip" /\ left' = piece_length
        /\ skip' = Start /\ oom' = oom /\ curr_size' = curr_size
        /\ cur_file_index' = 0 /\ offset' = 0 /\ cur_file_index = 0
    BY <1>1, <1>5 DEF Create, Cursor, result
  <2>2. TypeOK'
    BY <1>1, <1>3, <2>1 DEF TypeOK, Phases
  <2>3. ~Working' /\ Start' = Start
    BY <1>3, <2>1 DEF Working, Start
  <2>4. Cursor'
    BY <1>1, <1>3, <2>1, <2>3 DEF Cursor, Layout
  <2>5. ASSUME Aligned PROVE Whole(piece_length)
    BY <1>1, <2>5, AlignedWhole DEF Aligned
  <2>6. Alignment'
    BY <1>3, <2>1, <2>3, <2>5 DEF Alignment, Aligned, Whole
  <2> QED
    BY <1>4, <2>2, <2>3, <2>4, <2>6
<1>6. CASE CreateFails
  <2>1. phase' \in {"null", "crash"} /\ oom' = TRUE /\ UNCHANGED cursor
    BY <1>6 DEF CreateFails
  <2>2. TypeOK'
    BY <1>1, <1>3, <2>1 DEF TypeOK, Phases, cursor
  <2>3. ~Working'
    BY <2>1 DEF Working
  <2>4. Cursor' /\ Alignment'
    BY <2>1, <2>3 DEF Cursor, Alignment
  <2> QED
    BY <1>4, <2>2, <2>3, <2>4
<1>7. CASE SkipFile
  <2>1. /\ phase = "skip" /\ phase' = "skip" /\ skip > 0
        /\ Size(cur_file_index) =< skip
        /\ skip' = skip - Size(cur_file_index)
        /\ cur_file_index' = cur_file_index + 1
        /\ offset' = offset /\ left' = left /\ curr_size' = curr_size
        /\ oom' = oom
    BY <1>7 DEF SkipFile, NextFile, result
  <2>2. /\ offset = 0 /\ left = piece_length
        /\ starts[cur_file_index] + skip = Start
    BY <1>1, <2>1 DEF Cursor
  <2>3. cur_file_index # files_count
    BY <1>1, <2>1, <2>2 DEF TypeOK, Layout
  <2>4. /\ cur_file_index + 1 \in 0 .. files_count
        /\ starts[cur_file_index] \in Nat /\ starts[cur_file_index + 1] \in Nat
    BY <1>1, <2>3 DEF TypeOK
  <2>5. skip' \in Nat /\ starts[cur_file_index + 1] + skip' = Start
    <3>1. skip \in Nat
      BY <1>1 DEF TypeOK
    <3>2. Size(cur_file_index)
            = starts[cur_file_index + 1] - starts[cur_file_index]
      BY DEF Size
    <3> QED
      BY <1>1, <2>1, <2>2, <2>4, <3>1, <3>2
  <2>6. TypeOK'
    BY <1>1, <1>3, <2>1, <2>4, <2>5 DEF TypeOK
  <2>7. ~Working' /\ Start' = Start
    BY <1>3, <2>1 DEF Working, Start
  <2>8. Cursor'
    BY <1>1, <1>3, <2>1, <2>2, <2>5, <2>7 DEF Cursor
  <2>9. Alignment'
    BY <1>1, <1>3, <2>1, <2>7 DEF Alignment, Aligned, Whole
  <2> QED
    BY <1>4, <2>6, <2>7, <2>8, <2>9
<1>8. CASE SkipInFile \/ SkipDone
  <2>1. /\ phase = "skip" /\ phase' = "block"
        /\ left' = left /\ curr_size' = curr_size /\ oom' = oom
        /\ cur_file_index' = cur_file_index /\ skip' = skip
        /\ offset' = IF skip > 0 THEN skip ELSE offset
        /\ skip > 0 => Size(cur_file_index) > skip
        /\ skip \in Nat
    BY <1>1, <1>8 DEF SkipInFile, SkipDone, cursor, result, TypeOK
  <2>2. /\ offset = 0 /\ left = piece_length
        /\ starts[cur_file_index] + skip = Start
    BY <1>1, <2>1 DEF Cursor
  <2>3. offset' = skip
    BY <2>1, <2>2
  <2>4. cur_file_index # files_count \/ skip = 0
    BY <1>1, <2>1, <2>2 DEF TypeOK, Layout
  <2>5. TypeOK'
    BY <1>1, <1>3, <2>1, <2>3 DEF TypeOK, Phases
  <2>6. Pos' = Start /\ Start' = Start
    BY <1>3, <2>1, <2>2, <2>3 DEF Pos, Start
  <2>7. cur_file_index \in 0 .. files_count
    BY <1>1 DEF TypeOK
  <2>8. offset' = 0 \/ (/\ cur_file_index < files_count
                        /\ offset' < Size(cur_file_index))
    BY <1>1, <2>1, <2>3, <2>4, <2>7 DEF TypeOK
  <2>9. Size(cur_file_index)' = Size(cur_file_index)
    BY <1>3, <2>1 DEF Size
  <2>10. Cursor'
    BY <1>1, <1>3, <2>1, <2>2, <2>6, <2>8, <2>9 DEF Cursor
  <2>11. Alignment'
    BY <1>1, <1>3, <2>1, <2>6 DEF Alignment, Aligned, Whole
  <2> QED
    BY <1>4, <2>5, <2>6, <2>10, <2>11
<1> QED
  BY <1>5, <1>6, <1>7, <1>8

\* The steps between blocks, and the ends.
LEMMA BlockSteps ==
  ASSUME Inv, \/ LastBlock \/ NextBlockFails \/ ReadPastFiles
              \/ Done \/ UNCHANGED vars
  PROVE  Inv'
<1> USE GeometryAssumption
<1>1. /\ TypeOK /\ Layout /\ Cursor /\ Empty /\ Alignment
      /\ piece_length \in Nat \ {0}
      /\ Start \in Nat /\ Total = starts[files_count]
  BY DEF Inv, TypeOK, Layout, Total
<1>2. CASE Done \/ UNCHANGED vars
  <2>1. UNCHANGED vars
    BY <1>2 DEF Done
  <2>2. /\ starts' = starts /\ files_count' = files_count /\ index' = index
        /\ piece_length' = piece_length /\ terminated' = terminated
        /\ mems' = mems /\ blocks' = blocks /\ phase' = phase /\ oom' = oom
        /\ skip' = skip /\ cur_file_index' = cur_file_index
        /\ offset' = offset /\ left' = left /\ curr_size' = curr_size
    BY <2>1 DEF vars, torrent, cursor, result
  <2>3. (Working' <=> Working) /\ Pos' = Pos
    BY <2>2 DEF Working, Pos
  <2>4. TypeOK'
    BY <1>1, <2>2 DEF TypeOK
  <2>5. Start' = Start /\ Total' = Total
    BY <2>2 DEF Start, Total
  <2>6. Layout'
    BY <1>1, <2>2, <2>5 DEF Layout
  <2>7. Cursor'
    BY <1>1, <2>2, <2>3, <2>5 DEF Cursor, Size, NotNull, IsFile
  <2>8. Empty' /\ Tiles' /\ Begins' /\ BeginIsAddress'
    BY <1>1, <2>2, <2>3, <2>5 DEF Inv, Empty, Tiles, InsideFiles, Contiguous,
                                 Begins, BeginIsAddress, Address, Size
  <2>9. Alignment'
    BY <1>1, <2>2, <2>3, <2>5 DEF Alignment, Aligned, Whole, PieceEnd
  <2> QED
    BY <2>4, <2>6, <2>7, <2>8, <2>9 DEF Inv
<1>3. CASE LastBlock \/ NextBlockFails \/ ReadPastFiles
  <2>1. UNCHANGED <<torrent, cursor, blocks, mems>>
    BY <1>3 DEF LastBlock, NextBlockFails, ReadPastFiles, result
  <2>2. /\ phase \in {"block", "fill"} /\ phase' \in {"done", "crash"}
        /\ phase' = "crash" => oom' = oom /\ ReadPastFiles
        /\ oom' \in BOOLEAN
        /\ phase' = "done" /\ ~oom' => LastBlock
        /\ phase' = "crash" <=> ReadPastFiles
    BY <1>1, <1>3 DEF LastBlock, NextBlockFails, ReadPastFiles, result, TypeOK
  <2>3. /\ starts' = starts /\ files_count' = files_count /\ index' = index
        /\ piece_length' = piece_length /\ terminated' = terminated
        /\ mems' = mems /\ blocks' = blocks
        /\ skip' = skip /\ cur_file_index' = cur_file_index
        /\ offset' = offset /\ left' = left /\ curr_size' = curr_size
    BY <2>1 DEF torrent, cursor
  <2>4. Working
    BY <2>2 DEF Working
  <2>5. Pos' = Pos
    BY <2>3 DEF Pos
  <2>6. TypeOK'
    BY <1>1, <2>2, <2>3 DEF TypeOK, Phases
  <2>7. CASE Working'
    <3>1. /\ Layout' /\ Tiles' /\ Begins' /\ BeginIsAddress'
          /\ Start' = Start /\ PieceEnd' = PieceEnd /\ Total' = Total
          /\ (Aligned' <=> Aligned)
      BY <2>1, <2>4, <2>5, <2>7, Kept
    <3>2. Size(cur_file_index)' = Size(cur_file_index)
      BY <2>3 DEF Size
    <3>3. Cursor'
      BY <1>1, <2>2, <2>3, <2>4, <2>5, <3>1, <3>2 DEF Cursor
    <3>4. Empty'
      BY <2>7 DEF Empty
    <3>5. Pos - Start =< piece_length => left = piece_length - (Pos - Start)
      BY <1>1, <2>4 DEF Cursor
    <3>6. Pos \in Nat /\ Pos =< Total /\ Total \in Nat
      BY <1>1, <2>4, PosBound DEF TypeOK
    <3>7. left \in Nat /\ curr_size \in Nat
      BY <1>1 DEF TypeOK
    <3>8. ASSUME Aligned PROVE Pos - Start =< piece_length
      BY <1>1, <2>4, <3>8 DEF Alignment
    <3>9. ASSUME Aligned, phase' = "done", ~oom' PROVE Pos = PieceEnd
      <4>1. LastBlock
        BY <2>2, <3>9
      <4>2. CASE left = 0
        BY <1>1, <3>5, <3>6, <3>7, <3>8, <3>9, <4>2 DEF PieceEnd
      <4>3. CASE ~NotNull(cur_file_index)
        <5>1. cur_file_index = files_count /\ offset = 0
          BY <1>1, <2>4, <4>3 DEF NotNull, IsFile, TypeOK, Cursor
        <5>2. Pos = Total
          BY <1>1, <5>1 DEF Pos, TypeOK
        <5> QED
          BY <1>1, <3>6, <3>8, <3>9, <5>2 DEF PieceEnd
      <4> QED
        BY <4>1, <4>2, <4>3 DEF LastBlock, NoneLeft
    <3>10. ASSUME Aligned, phase' = "crash", ~oom'
           PROVE  ~terminated /\ Start + piece_length > Total
      <4>1. phase = "fill" /\ ~IsFile(cur_file_index)
        BY <2>2, <3>10 DEF ReadPastFiles
      <4>2. /\ NotNull(cur_file_index) /\ curr_size < PEER_REQUEST_SIZE
            /\ left >= PEER_REQUEST_SIZE - curr_size
        BY <1>1, <3>10, <4>1 DEF Cursor, Alignment
      <4>3. ~terminated
        BY <4>1, <4>2 DEF NotNull
      <4>4. cur_file_index = files_count /\ offset = 0
        BY <1>1, <2>4, <4>1 DEF IsFile, TypeOK, Cursor
      <4>5. Pos = Total
        BY <1>1, <4>4 DEF Pos, TypeOK
      <4>6. left > 0
        BY <3>7, <4>2
      <4>7. left = piece_length - (Pos - Start)
        BY <3>5, <3>8, <3>10
      <4> QED
        BY <1>1, <3>6, <4>3, <4>5, <4>6, <4>7
    <3>11. Alignment'
      BY <2>2, <2>3, <2>5, <3>1, <3>8, <3>9, <3>10 DEF Alignment
    <3> QED
      BY <2>6, <3>1, <3>3, <3>4, <3>11 DEF Inv
  <2>8. Working'
    BY <1>1, <2>2 DEF Working, Cursor
  <2> QED
    BY <2>7, <2>8
<1> QED
  BY <1>2, <1>3

\* A new block begins at Pos.
LEMMA NextBlockStep ==
  ASSUME Inv, NextBlock
  PROVE  Inv'
<1> USE GeometryAssumption
<1>1. /\ TypeOK /\ Layout /\ Cursor /\ Alignment /\ Tiles /\ Begins
      /\ BeginIsAddress
      /\ piece_length \in Nat \ {0} /\ piece_length < WORD
      /\ WORD > MaxBytes + piece_length /\ left \in 0 .. WORD - 1
      /\ Start \in Nat /\ Total \in 0 .. MaxBytes
      /\ blocks \in Seq(Block) /\ mems \in Seq(Mem)
  BY DEF Inv, TypeOK, Layout, Total, Block, Mem
<1>2. /\ phase = "block" /\ phase' = "fill" /\ curr_size' = 0
      /\ NotNull(cur_file_index) /\ left # 0
      /\ blocks' = Append(blocks, [begin |-> Begin, first |-> Len(mems) + 1,
                                   len |-> 0])
      /\ starts' = starts /\ files_count' = files_count /\ index' = index
      /\ piece_length' = piece_length /\ terminated' = terminated
      /\ mems' = mems /\ skip' = skip /\ cur_file_index' = cur_file_index
      /\ offset' = offset /\ left' = left /\ oom' = oom
  BY DEF NextBlock, NoneLeft, torrent
<1>3. Working /\ Working' /\ Pos' = Pos /\ Start' = Start /\ Total' = Total
  BY <1>2 DEF Working, Pos, Start, Total
<1>4. Pos \in Nat /\ Pos =< Total /\ Start =< Pos
  BY <1>1, <1>3, PosBound DEF Cursor
<1>5. Begin = Pos - Start
  <2>1. Begin = IF left =< piece_length THEN piece_length - left
                                        ELSE piece_length - left + WORD
    BY <1>1, SubIs DEF Begin
  <2>2. /\ Pos - Start =< piece_length => left = piece_length - (Pos - Start)
        /\ Pos - Start > piece_length => left = piece_length - (Pos - Start) + WORD
    BY <1>1, <1>3 DEF Cursor
  <2> QED
    BY <1>1, <1>4, <2>1, <2>2
<1>6. PICK new : new = [begin |-> Begin, first |-> Len(mems) + 1, len |-> 0]
  OBVIOUS
<1>7. new \in Block /\ new.first = Len(mems) + 1 /\ Pos = Start + new.begin
  BY <1>1, <1>4, <1>5, <1>6 DEF Block
<1>8. /\ blocks' \in Seq(Block)
      /\ Len(blocks') = Len(blocks) + 1
      /\ \A k \in 1 .. Len(blocks) : blocks'[k] = blocks[k]
      /\ blocks'[Len(blocks) + 1] = new
      /\ Len(blocks) \in Nat /\ Len(mems) \in Nat
  BY <1>1, <1>2, <1>6, <1>7, AppendProperties
<1>9. blocks' # <<>>
  BY <1>8
<1>10. TypeOK'
  BY <1>1, <1>2, <1>8 DEF TypeOK, Phases, Block
<1>11. Layout' /\ Empty' /\ Tiles'
  BY <1>1, <1>2, <1>3 DEF Layout, Empty, Tiles, InsideFiles, Contiguous, Address,
                          Size
<1>12. Cursor'
  BY <1>1, <1>2, <1>3, <1>9 DEF Cursor, Size, NotNull, IsFile
<1>13. ASSUME NEW k \in 1 .. Len(blocks')
       PROVE  /\ blocks'[k].first \in 1 .. Len(mems) + 1
              /\ blocks'[k].first = Len(mems) + 1 => Pos = Start + blocks'[k].begin
              /\ blocks'[k].first =< Len(mems) =>
                   Address(mems[blocks'[k].first]) = Start + blocks'[k].begin
  <2>1. k \in 1 .. Len(blocks) \/ k = Len(blocks) + 1
    BY <1>8, <1>13
  <2>2. CASE k \in 1 .. Len(blocks)
    BY <1>1, <1>8, <2>2 DEF Begins, BeginIsAddress
  <2>3. CASE k = Len(blocks) + 1
    BY <1>7, <1>8, <2>3
  <2> QED
    BY <2>1, <2>2, <2>3
<1>14. Begins' /\ BeginIsAddress'
  BY <1>2, <1>3, <1>13 DEF Begins, BeginIsAddress, Address
<1>15. ASSUME Aligned
       PROVE  left >= PEER_REQUEST_SIZE /\ Whole(left - PEER_REQUEST_SIZE)
  <2>1. Whole(left)
    BY <1>1, <1>2, <1>15 DEF Alignment, NotNull, IsFile, TypeOK
  <2> QED
    BY <1>1, <1>2, <2>1, WholeMinus
<1>16. Alignment'
  BY <1>1, <1>2, <1>3, <1>15 DEF Alignment, Aligned, Whole
<1> QED
  BY <1>10, <1>11, <1>12, <1>14, <1>16 DEF Inv

\* A filemem: the range between the old and the new position, in one file.
LEMMA AddFileMemStep ==
  ASSUME Inv, AddFileMem
  PROVE  Inv'
<1> USE GeometryAssumption
<1>1. /\ TypeOK /\ Layout /\ Cursor /\ Alignment /\ Tiles /\ Begins
      /\ BeginIsAddress
      /\ piece_length \in Nat \ {0} /\ piece_length < WORD
      /\ WORD > MaxBytes + piece_length /\ WORD > PEER_REQUEST_SIZE
      /\ left \in 0 .. WORD - 1
      /\ Start \in Nat /\ Total \in 0 .. MaxBytes
      /\ blocks \in Seq(Block) /\ mems \in Seq(Mem)
      /\ curr_size \in Nat /\ offset \in Nat
  BY DEF Inv, TypeOK, Layout, Total, Block, Mem
<1>2. /\ phase = "fill" /\ cur_file_index < files_count
      /\ cur_file_index \in 0 .. files_count - 1 /\ files_count \in Nat
      /\ cur_file_index + 1 \in 0 .. files_count
      /\ starts[cur_file_index] \in Nat /\ starts[cur_file_index + 1] \in Nat
      /\ starts[cur_file_index] =< starts[cur_file_index + 1]
      /\ Size(cur_file_index) = starts[cur_file_index + 1] - starts[cur_file_index]
      /\ curr_size < PEER_REQUEST_SIZE /\ blocks # <<>> /\ ~oom
  <2>1. phase = "fill" /\ cur_file_index < files_count
    BY DEF AddFileMem, IsFile
  <2>2. /\ cur_file_index \in 0 .. files_count - 1 /\ files_count \in Nat
        /\ cur_file_index + 1 \in 0 .. files_count
        /\ cur_file_index \in 0 .. files_count
    BY <1>1, <2>1 DEF TypeOK
  <2>3. /\ starts[cur_file_index] \in Nat /\ starts[cur_file_index + 1] \in Nat
        /\ starts[cur_file_index] =< starts[cur_file_index + 1]
    BY <1>1, <2>2 DEF TypeOK, Layout
  <2> QED
    BY <1>1, <2>1, <2>2, <2>3 DEF Cursor, Size
<1>3. Working /\ offset =< Size(cur_file_index)
  BY <1>1, <1>2 DEF Working, Cursor
<1>4. Pos \in Nat /\ Pos =< Total /\ Start =< Pos
  BY <1>1, <1>3, PosBound DEF Cursor
<1>5. PICK c \in Nat : c = cur_file_index
  BY <1>2
<1>6. PICK o \in Nat : o = offset
  BY <1>1
<1>7. PICK sz \in Nat :
        /\ sz = IF Size(c) - o =< PEER_REQUEST_SIZE - curr_size
                THEN Size(c) - o ELSE PEER_REQUEST_SIZE - curr_size
        /\ sz =< Size(c) - o /\ sz =< PEER_REQUEST_SIZE - curr_size
  BY <1>1, <1>2, <1>3, <1>5, <1>6
<1>8. /\ mems' = Append(mems, [file |-> c, offset |-> o, size |-> sz])
      /\ cur_file_index' = IF Size(c) - o =< PEER_REQUEST_SIZE - curr_size
                           THEN c + 1 ELSE c
      /\ offset' = IF Size(c) - o =< PEER_REQUEST_SIZE - curr_size
                   THEN 0 ELSE o + sz
      /\ left' = Sub(left, sz) /\ curr_size' = curr_size + sz
      /\ phase' = IF curr_size' < PEER_REQUEST_SIZE /\ NotNull(cur_file_index')
                  THEN "fill" ELSE "block"
      /\ blocks' = [blocks EXCEPT ![Len(blocks)].len = curr_size']
      /\ starts' = starts /\ files_count' = files_count /\ index' = index
      /\ piece_length' = piece_length /\ terminated' = terminated
      /\ skip' = skip /\ oom' = oom
  BY <1>5, <1>6, <1>7 DEF AddFileMem, Rest, NextOffset, torrent
<1>8a. /\ Size(c) = starts[c + 1] - starts[c] /\ Size(c) \in Nat
       /\ starts[c] \in Nat /\ starts[c + 1] \in Nat /\ o =< Size(c)
       /\ c \in 0 .. files_count - 1 /\ c + 1 \in 0 .. files_count
       /\ c \in 0 .. files_count
  BY <1>1, <1>2, <1>3, <1>5, <1>6
<1>8b. curr_size' = curr_size + sz /\ left' = Sub(left, sz)
  BY <1>8
<1>8c. curr_size' \in 0 .. PEER_REQUEST_SIZE
  BY <1>1, <1>2, <1>7, <1>8b
<1>8d. /\ starts' = starts /\ files_count' = files_count
       /\ piece_length' = piece_length
  BY <1>8
<1>9. /\ Pos' = Pos + sz /\ Start' = Start /\ Total' = Total
      /\ cur_file_index' \in 0 .. files_count /\ offset' \in Nat
      /\ offset' = 0 \/ (cur_file_index' = c /\ offset' < Size(c))
  <2>1. Start' = Start /\ Total' = Total
    BY <1>8 DEF Start, Total
  <2>2. CASE Size(c) - o =< PEER_REQUEST_SIZE - curr_size
    <3>1. cur_file_index' = c + 1 /\ offset' = 0 /\ sz = Size(c) - o
      BY <1>7, <1>8, <2>2
    <3>2. Pos' = starts[c + 1] /\ Pos = starts[c] + o
      BY <1>2, <1>5, <1>6, <1>8, <3>1 DEF Pos
    <3> QED
      BY <1>2, <1>5, <2>1, <3>1, <3>2
  <2>3. CASE ~(Size(c) - o =< PEER_REQUEST_SIZE - curr_size)
    <3>1. /\ cur_file_index' = c /\ offset' = o + sz
          /\ sz = PEER_REQUEST_SIZE - curr_size /\ sz < Size(c) - o
      <4>1. cur_file_index' = c /\ offset' = o + sz
        BY <1>8, <2>3
      <4>2. sz = PEER_REQUEST_SIZE - curr_size
        BY <1>7, <2>3
      <4> QED
        BY <1>1, <1>8a, <2>3, <4>1, <4>2
    <3>2. Pos' = starts[c] + (o + sz) /\ Pos = starts[c] + o
      BY <1>5, <1>6, <1>8d, <3>1 DEF Pos
    <3> QED
      BY <1>1, <1>8a, <2>1, <3>1, <3>2
  <2> QED
    BY <2>2, <2>3
<1>10. Working' /\ phase' \in {"fill", "block"}
  BY <1>8 DEF Working
<1>11. Size(cur_file_index)' = starts[cur_file_index' + 1] - starts[cur_file_index']
  BY <1>8 DEF Size
\* The blocks: their number, begins and first filemems stay.
<1>12. /\ blocks' \in Seq(Block) /\ Len(blocks') = Len(blocks) /\ blocks' # <<>>
       /\ \A k \in 1 .. Len(blocks) : /\ blocks'[k].begin = blocks[k].begin
                                      /\ blocks'[k].first = blocks[k].first
  <2>1. Len(blocks) \in Nat /\ Len(blocks) \in 1 .. Len(blocks)
    BY <1>1, <1>2
  <2>2. curr_size' \in Nat
    BY <1>8c
  <2>3. blocks' = [blocks EXCEPT ![Len(blocks)] =
                     [blocks[Len(blocks)] EXCEPT !.len = curr_size']]
    BY <1>8
  <2>4. blocks[Len(blocks)] \in Block
    BY <1>1, <2>1
  <2>5. [blocks[Len(blocks)] EXCEPT !.len = curr_size'] \in Block
    BY <2>2, <2>4 DEF Block
  <2>6. blocks' \in Seq(Block) /\ Len(blocks') = Len(blocks)
    BY <1>1, <2>1, <2>3, <2>5, ExceptSeq
  <2>7. blocks' # <<>>
    BY <2>1, <2>6
  <2>8. ASSUME NEW k \in 1 .. Len(blocks)
        PROVE  /\ blocks'[k].begin = blocks[k].begin
               /\ blocks'[k].first = blocks[k].first
    <3>1. blocks'[k] = IF k = Len(blocks)
                       THEN [blocks[Len(blocks)] EXCEPT !.len = curr_size']
                       ELSE blocks[k]
      BY <1>1, <2>1, <2>3, <2>5, <2>8, ExceptSeq
    <3> QED
      BY <2>4, <3>1 DEF Block
  <2> QED
    BY <2>6, <2>7, <2>8
\* The filemems: one more, at Pos.
<1>13. PICK new : new = [file |-> c, offset |-> o, size |-> sz]
  OBVIOUS
<1>14. /\ new \in Mem /\ new.file = c /\ new.offset = o /\ new.size = sz
       /\ Address(new) = Pos
  BY <1>5, <1>6, <1>13 DEF Mem, Address, Pos
<1>15. /\ mems' \in Seq(Mem) /\ Len(mems') = Len(mems) + 1
       /\ \A k \in 1 .. Len(mems) : mems'[k] = mems[k]
       /\ mems'[Len(mems) + 1] = new
       /\ Len(mems) \in Nat /\ mems' # <<>>
  <2>1. mems' = Append(mems, new)
    BY <1>8, <1>13
  <2>2. /\ mems' \in Seq(Mem) /\ Len(mems') = Len(mems) + 1
        /\ \A k \in 1 .. Len(mems) : mems'[k] = mems[k]
        /\ mems'[Len(mems) + 1] = new
    BY <1>1, <1>14, <2>1, AppendProperties
  <2> QED
    BY <1>1, <2>2
<1>17. left' \in 0 .. WORD - 1
       /\ left' = IF sz =< left THEN left - sz ELSE left - sz + WORD
  <2>1. sz \in 0 .. WORD - 1
    BY <1>1, <1>2, <1>7
  <2>2. Sub(left, sz) = IF sz =< left THEN left - sz ELSE left - sz + WORD
    BY <1>1, <2>1, SubIs
  <2> QED
    BY <1>1, <1>8b, <2>1, <2>2
<1>18. TypeOK'
  BY <1>1, <1>8, <1>9, <1>10, <1>12, <1>15, <1>17, <1>8c
     DEF TypeOK, Phases, Block, Mem
<1>19. Layout' /\ Empty'
  BY <1>1, <1>8, <1>9, <1>10 DEF Layout, Empty
<1>20. Pos + sz =< Total
  <2>1. \A f \in 0 .. files_count : starts[f] =< starts[files_count]
    BY <1>1 DEF Layout, TypeOK
  <2>2. starts[c + 1] =< Total
    BY <1>2, <1>5, <2>1 DEF Total
  <2> QED
    BY <1>1, <1>2, <1>5, <1>6, <1>7, <2>2 DEF Pos
<1>21. Cursor'
  <2>1. /\ Pos - Start =< piece_length => left = piece_length - (Pos - Start)
        /\ Pos - Start > piece_length => left = piece_length - (Pos - Start) + WORD
    BY <1>1, <1>3 DEF Cursor
  <2>2. /\ Pos' - Start' =< piece_length' =>
             left' = piece_length' - (Pos' - Start')
        /\ Pos' - Start' > piece_length' =>
             left' = piece_length' - (Pos' - Start') + WORD
        /\ Start' =< Pos'
    BY <1>1, <1>4, <1>8d, <1>9, <1>17, <1>20, <2>1
  <2>3. offset' = 0 \/ (/\ cur_file_index' < files_count'
                        /\ offset' < Size(cur_file_index)')
    BY <1>2, <1>5, <1>8, <1>9, <1>11
  <2>4. phase' = "fill" => /\ curr_size' < PEER_REQUEST_SIZE /\ blocks' # <<>>
                           /\ NotNull(cur_file_index)'
    BY <1>8, <1>12 DEF NotNull, IsFile
  <2>5. ~oom'
    BY <1>2, <1>8
  <2> QED
    BY <1>10, <2>2, <2>3, <2>4, <2>5 DEF Cursor
<1>22. Tiles'
  <2>1. ASSUME NEW k \in 1 .. Len(mems')
        PROVE  /\ mems'[k].file \in 0 .. files_count - 1
               /\ mems'[k].offset + mems'[k].size =< Size(mems'[k].file)
    <3>1. k \in 1 .. Len(mems) \/ k = Len(mems) + 1
      BY <1>15, <2>1
    <3>2. CASE k \in 1 .. Len(mems)
      BY <1>1, <1>15, <3>2 DEF Tiles, InsideFiles
    <3>3. CASE k = Len(mems) + 1
      <4>1. mems'[k] = new
        BY <1>15, <3>3
      <4>2. o + sz =< Size(c)
        BY <1>7, <1>8a
      <4> QED
        BY <1>14, <1>8a, <4>1, <4>2
    <3> QED
      BY <3>1, <3>2, <3>3
  <2>2. InsideFiles'
    BY <1>8d, <2>1 DEF InsideFiles, Size
  <2>3. Address(mems'[1]) = Start
    <3>1. CASE mems = <<>>
      <4>1. mems'[1] = new
        BY <1>15, <3>1
      <4> QED
        BY <1>1, <1>3, <1>14, <3>1, <4>1 DEF Tiles
    <3>2. CASE mems # <<>>
      <4>1. 1 \in 1 .. Len(mems)
        BY <1>1, <3>2
      <4> QED
        BY <1>1, <1>15, <3>2, <4>1 DEF Tiles, Contiguous
    <3> QED
      BY <3>1, <3>2
  <2>4. ASSUME NEW k \in 1 .. Len(mems') - 1
        PROVE  Address(mems'[k + 1]) = Address(mems'[k]) + mems'[k].size
    <3>1. k \in 1 .. Len(mems) /\ mems'[k] = mems[k]
      BY <1>15, <2>4
    <3>2. CASE k = Len(mems)
      <4>1. mems'[k + 1] = new /\ mems # <<>>
        BY <1>15, <3>1, <3>2
      <4> QED
        BY <1>1, <1>14, <3>1, <3>2, <4>1 DEF Tiles
    <3>3. CASE k # Len(mems)
      <4>1. k \in 1 .. Len(mems) - 1 /\ k + 1 \in 1 .. Len(mems)
        BY <1>15, <3>1, <3>3
      <4> QED
        BY <1>1, <1>15, <3>1, <4>1 DEF Tiles, Contiguous
    <3> QED
      BY <3>2, <3>3
  <2>5. Contiguous'
    BY <1>9, <1>8d, <2>3, <2>4 DEF Contiguous, Address
  <2>6. Address(mems'[Len(mems')]) + mems'[Len(mems')].size = Pos + sz
    BY <1>14, <1>15
  <2> QED
    BY <1>9, <1>15, <1>8d, <2>2, <2>5, <2>6 DEF Tiles, Address
<1>23. ASSUME NEW k \in 1 .. Len(blocks)
       PROVE  /\ blocks[k].first \in 1 .. Len(mems) + 1
              /\ Address(mems'[blocks[k].first]) = Start + blocks[k].begin
  <2>1. blocks[k].first \in 1 .. Len(mems) + 1
    BY <1>1, <1>23 DEF Begins
  <2>2. CASE blocks[k].first = Len(mems) + 1
    BY <1>1, <1>14, <1>15, <1>23, <2>2 DEF Begins
  <2>3. CASE blocks[k].first # Len(mems) + 1
    <3>1. blocks[k].first \in 1 .. Len(mems)
      BY <1>15, <2>1, <2>3
    <3>2. Address(mems[blocks[k].first]) = Start + blocks[k].begin
      BY <1>1, <1>15, <1>23, <3>1 DEF BeginIsAddress
    <3> QED
      BY <1>15, <2>1, <3>1, <3>2
  <2> QED
    BY <2>1, <2>2, <2>3
<1>24. Begins'
  <2>1. ASSUME NEW k \in 1 .. Len(blocks')
        PROVE  /\ blocks'[k].first \in 1 .. Len(mems') + 1
               /\ blocks'[k].first # Len(mems') + 1
    BY <1>12, <1>15, <1>23, <2>1
  <2> QED
    BY <2>1 DEF Begins
<1>25. BeginIsAddress'
  <2>1. ASSUME NEW k \in 1 .. Len(blocks')
        PROVE  Address(mems'[blocks'[k].first]) = Start + blocks'[k].begin
    BY <1>12, <1>23, <2>1
  <2> QED
    BY <1>9, <1>8d, <2>1 DEF BeginIsAddress, Address
<1>26. ASSUME Aligned
       PROVE  /\ left' >= PEER_REQUEST_SIZE - curr_size'
              /\ Whole(left' - (PEER_REQUEST_SIZE - curr_size'))
              /\ Pos' - Start =< piece_length
  <2>1. /\ left >= PEER_REQUEST_SIZE - curr_size
        /\ Whole(left - (PEER_REQUEST_SIZE - curr_size))
        /\ Pos - Start =< piece_length
    BY <1>1, <1>2, <1>3, <1>26 DEF Alignment
  <2>2. left = piece_length - (Pos - Start)
    BY <1>1, <1>3, <2>1 DEF Cursor
  <2>3. sz =< left
    BY <1>1, <1>7, <2>1
  <2>4. left' = left - sz
    BY <1>1, <1>17, <2>3
  <2>5. /\ left' - (PEER_REQUEST_SIZE - curr_size')
             = left - (PEER_REQUEST_SIZE - curr_size)
        /\ left' >= PEER_REQUEST_SIZE - curr_size'
    BY <1>1, <1>8b, <2>1, <2>4
  <2>6. Pos' - Start =< piece_length
    BY <1>1, <1>4, <1>9, <2>2, <2>3
  <2> QED
    BY <2>1, <2>5, <2>6
<1>27. ASSUME Aligned, phase' = "block"
       PROVE  Whole(left') \/ (terminated /\ cur_file_index' = files_count)
  <2>1. CASE curr_size' = PEER_REQUEST_SIZE
    <3>1. left' - (PEER_REQUEST_SIZE - curr_size') = left'
      BY <1>17, <1>8c, <2>1
    <3> QED
      BY <1>26, <1>27, <3>1
  <2>2. CASE curr_size' # PEER_REQUEST_SIZE
    <3>1. curr_size' < PEER_REQUEST_SIZE
      BY <1>8c, <2>2
    <3>2. ~NotNull(cur_file_index')
      BY <1>8, <1>27, <3>1
    <3> QED
      BY <1>2, <1>9, <3>2 DEF NotNull, IsFile
  <2> QED
    BY <2>1, <2>2
<1>28. Alignment'
  <2>1. (Aligned' <=> Aligned) /\ terminated' = terminated
    BY <1>8 DEF Aligned
  <2>2. ASSUME Aligned' PROVE Aligned
    BY <2>1, <2>2
  <2> QED
    BY <1>9, <1>10, <1>26, <1>27, <1>8d, <2>1, <2>2 DEF Alignment, Whole
<1> QED
  BY <1>18, <1>19, <1>21, <1>22, <1>24, <1>25, <1>28 DEF Inv

\* Every step preserves Inv.
LEMMA InvStep == Inv /\ [Next]_vars => Inv'
<1> SUFFICES ASSUME Inv, [Next]_vars PROVE Inv'
  OBVIOUS
<1>1. \/ Create \/ CreateFails \/ SkipFile \/ SkipInFile \/ SkipDone
      \/ LastBlock \/ NextBlock \/ NextBlockFails \/ AddFileMem \/ ReadPastFiles
      \/ Done \/ UNCHANGED vars
  BY DEF Next, Step
<1> QED
  BY <1>1, SkipSteps, BlockSteps, NextBlockStep, AddFileMemStep

LEMMA InvHolds == Spec => []Inv
  BY InvInit, InvStep, PTL DEF Spec

\* The state of piece_request_create() stays well formed, left wrapped around
\* included, for every layout of files, piece length and block size.
THEOREM TypeCorrect == Spec => []TypeOK
<1>1. Inv => TypeOK
  BY DEF Inv
<1> QED
  BY <1>1, InvHolds, PTL

\* For every layout of files, empty ones included, piece length and block size:
\* filemems stay inside the mapped files.
THEOREM StaysInsideFiles == Spec => []InsideFiles
<1>1. Inv => InsideFiles
  BY DEF Inv, Tiles
<1> QED
  BY <1>1, InvHolds, PTL

\* The filemems of a request tile the torrent from the start of the piece.
THEOREM TilesPiece == Spec => []Contiguous
<1>1. Inv => Contiguous
  BY DEF Inv, Tiles
<1> QED
  BY <1>1, InvHolds, PTL

\* piece_request_block_at() finds a block under the begin of its address.
THEOREM BlocksInPlace == Spec => []BeginIsAddress
<1>1. Inv => BeginIsAddress
  BY DEF Inv, Tiles
<1> QED
  BY <1>1, InvHolds, PTL

\* If the piece length is a whole number of blocks, a finished request ends
\* where the piece ends.
THEOREM PieceCovered == Spec => []CoversPiece
<1>1. ASSUME Inv, Aligned, phase = "done", ~oom
      PROVE  /\ mems # <<>>
             /\ Address(mems[Len(mems)]) + mems[Len(mems)].size = PieceEnd
  <2>1. Working /\ Pos = PieceEnd
    BY <1>1 DEF Inv, Alignment, Working
  <2>2. /\ piece_length \in Nat \ {0} /\ Start \in Nat /\ Total \in Nat
        /\ Start < Total
    BY <1>1, GeometryAssumption DEF Inv, TypeOK, Layout, Total
  <2>3. Pos # Start
    BY <2>1, <2>2 DEF PieceEnd
  <2> QED
    BY <1>1, <2>1, <2>3 DEF Inv, Tiles
<1>2. Inv => CoversPiece
  BY <1>1 DEF Inv, CoversPiece, Alignment
<1> QED
  BY <1>2, InvHolds, PTL

\* The array of files is read past its end only for a last piece that is cut
\* short.
THEOREM OverreadOnlyAtEnd == Spec => []OverreadIsAtEnd
<1>1. Inv => OverreadIsAtEnd
  BY DEF Inv, OverreadIsAtEnd, Alignment
<1> QED
  BY <1>1, InvHolds, PTL
=============================================================================
