--------------------------- MODULE TorrentProofs ---------------------------
(***************************************************************************)
(* Proofs about Torrent, for every number of pieces, blocks, files and     *)
(* connections.                                                            *)
(***************************************************************************)
EXTENDS Torrent, FiniteSetTheorems, TLAPS

-----------------------------------------------------------------------------
(* Type correctness.  TypeOK alone is not inductive: an announced event is *)
(* a piece only because a thread past its message loop has requested one.  *)

\* The places of a thread that is handling a piece it requested.
Handling == {"verify", "invalid", "valid", "complete", "rename", "announce"}

RequestInv ==
  \A c \in Conns :
    /\ pc[c] \in Handling => request[c] \in Pieces
    /\ pc[c] = "verify" => i[c] \in BlocksOf(request[c])
    /\ pc[c] = "rename" => i[c] \in Files
    /\ pc[c] \notin {"verify", "rename"} => i[c] = 0

TypeInv == TypeOK /\ RequestInv

\* A piece has at least one block, and at most NumBlocks.
LEMMA NumBlocksType ==
  ASSUME NEW p \in Pieces
  PROVE  /\ NumBlocksOf(p) \in Nat \ {0} /\ NumBlocksOf(p) < WORD
         /\ BlocksOf(p) \subseteq Blocks /\ 0 \in BlocksOf(p)
<1>1. NumBlocksOf(p) \in 1 .. NumBlocks
  BY SizesAssumption DEF NumBlocksOf
<1> QED
  BY <1>1, SizesAssumption DEF BlocksOf, Blocks

\* The constants and the initial state are well formed.
LEMMA TypeInit == Init => TypeInv
<1> SUFFICES ASSUME Init PROVE TypeInv
  OBVIOUS
<1>1. pieces_left \in 0 .. WORD - 1
  BY SizesAssumption DEF Init
<1>2. blocks_left \in [Conns -> 0 .. WORD - 1] /\ i \in [Conns -> Nat]
  BY SizesAssumption DEF Init
<1>3. have_queue \in [Conns -> Seq(Pieces)]
  BY DEF Init
<1>4. /\ choked \in [Conns -> BOOLEAN]
      /\ interested \in [Conns -> BOOLEAN]
      /\ completed \in BOOLEAN
  BY DEF Init
<1>5. RequestInv
  BY DEF Init, RequestInv, Handling
<1> QED
  BY <1>1, <1>2, <1>3, <1>4, <1>5
  DEF Init, TypeInv, TypeOK, Places, PieceState

\* Unsigned decrement stays in range.
LEMMA DecType ==
  ASSUME NEW n \in 0 .. WORD - 1
  PROVE  /\ Dec(n) \in 0 .. WORD - 1
         /\ n > 0 => Dec(n) = n - 1
  BY SizesAssumption DEF Dec

\* Closing a connection keeps its part of the state well formed.
LEMMA DiscardType ==
  ASSUME TypeInv, NEW c \in Conns, Discard(c)
  PROVE  /\ pc' \in [Conns -> Places]
         /\ choked' \in [Conns -> BOOLEAN]
         /\ interested' \in [Conns -> BOOLEAN]
         /\ peer_have' \in [Conns -> SUBSET Pieces]
         /\ local_have' \in [Conns -> SUBSET Pieces]
         /\ request' \in [Conns -> Pieces \cup {NoPiece}]
         /\ blocks_left' \in [Conns -> 0 .. WORD - 1]
         /\ owed' \in [Conns -> SUBSET Blocks]
         /\ i' \in [Conns -> Nat]
         /\ have_queue' \in [Conns -> Seq(Pieces)]
         /\ RequestInv'
  BY SizesAssumption
  DEF TypeInv, TypeOK, RequestInv, Discard, Goto, Places, Handling

\* The next index of a loop that is not at its end.
LEMMA NextIndex ==
  ASSUME NEW n \in Nat \ {0}, NEW k \in 0 .. n - 1, k # n - 1
  PROVE  k + 1 \in 0 .. n - 1
  OBVIOUS

\* Hashing moves a thread inside its loop over the blocks, or out of it.
LEMMA VerifyType ==
  ASSUME TypeInv, NEW c \in Conns, VerifyBlock(c)
  PROVE  TypeInv'
<1>1. /\ UNCHANGED <<piece_states, pieces_left, completed, state,
                     peer_connections, registering, content, final,
                     failed_assert, choked, interested, peer_have, local_have,
                     request, blocks_left, owed, have_queue>>
      /\ pc[c] = "verify"
  BY DEF VerifyBlock, At, sh, main, disk
<1>2. /\ i \in [Conns -> Nat] /\ pc \in [Conns -> Places]
      /\ i[c] \in BlocksOf(request[c]) /\ request[c] \in Pieces
  BY <1>1 DEF TypeInv, TypeOK, RequestInv, Handling
<1>3. CASE /\ pc' = [pc EXCEPT ![c] = "invalid"]
           /\ i' = [i EXCEPT ![c] = 0]
  BY <1>1, <1>2, <1>3 DEF TypeInv, TypeOK, RequestInv, Places, Handling
<1>4. CASE /\ pc' = [pc EXCEPT ![c] = "valid"]
           /\ i' = [i EXCEPT ![c] = 0]
  BY <1>1, <1>2, <1>4 DEF TypeInv, TypeOK, RequestInv, Places, Handling
<1>5. CASE /\ pc' = pc
           /\ i' = [i EXCEPT ![c] = i[c] + 1]
           /\ i[c] # LastBlock(request[c])
  <2>1. i[c] + 1 \in BlocksOf(request[c])
    BY <1>2, <1>5, NumBlocksType, NextIndex DEF LastBlock, BlocksOf
  <2> QED
    BY <1>1, <1>2, <1>5, <2>1 DEF TypeInv, TypeOK, RequestInv, Handling
<1> QED
  BY <1>3, <1>4, <1>5 DEF VerifyBlock, Goto

\* Renaming moves a thread inside its loop over the files, or out of it.
LEMMA RenameType ==
  ASSUME TypeInv, NEW c \in Conns, RenameFile(c)
  PROVE  TypeInv'
<1>1. /\ UNCHANGED <<piece_states, pieces_left, completed, state,
                     peer_connections, registering, content, choked,
                     interested, peer_have, local_have, request,
                     blocks_left, owed, have_queue>>
      /\ pc[c] = "rename"
      /\ final' = final \cup {i[c]}
      /\ failed_assert' \in {"none", "trim"}
  BY DEF RenameFile, At, sh, main
<1>2. /\ i \in [Conns -> Nat] /\ pc \in [Conns -> Places]
      /\ i[c] \in Files /\ request[c] \in Pieces
  BY <1>1 DEF TypeInv, TypeOK, RequestInv, Handling
<1>3. CASE /\ pc' = [pc EXCEPT ![c] = "announce"]
           /\ i' = [i EXCEPT ![c] = 0]
  BY <1>1, <1>2, <1>3 DEF TypeInv, TypeOK, RequestInv, Places, Handling
<1>4. CASE /\ pc' = pc
           /\ i' = [i EXCEPT ![c] = i[c] + 1]
           /\ i[c] # LastFile
  <2>1. i[c] + 1 \in Files
    BY <1>2, <1>4, SizesAssumption, NextIndex DEF LastFile, Files
  <2> QED
    BY <1>1, <1>2, <1>4, <2>1 DEF TypeInv, TypeOK, RequestInv, Handling
<1> QED
  BY <1>3, <1>4 DEF RenameFile, Goto

\* Every step keeps the state well formed.
LEMMA TypeStep == TypeInv /\ [Next]_vars => TypeInv'
<1> SUFFICES ASSUME TypeInv, [Next]_vars PROVE TypeInv'
  OBVIOUS
<1> USE DEF TypeInv, TypeOK, RequestInv, sh, main, disk, conn, At, Running, Goto
<1>1. CASE UNCHANGED vars
  BY <1>1 DEF vars
<1>2. CASE RegisterConn
  BY <1>2 DEF RegisterConn
<1>3. CASE Halted
  BY <1>3 DEF Halted, vars
<1>4. ASSUME NEW c \in Conns, CreateConn(c) PROVE TypeInv'
  BY <1>4 DEF CreateConn, Places, Handling
<1>5. ASSUME NEW c \in Conns, NEW garbage \in SUBSET Pieces, Start(c, garbage)
      PROVE TypeInv'
  BY <1>5 DEF Start, HavePieces, Places, Handling
<1>6. ASSUME NEW c \in Conns, Close(c) PROVE TypeInv'
  BY <1>6, DiscardType DEF Close
<1>7. ASSUME NEW c \in Conns, RecvChoke(c) \/ RecvUnchoke(c) PROVE TypeInv'
  BY <1>7 DEF RecvChoke, RecvUnchoke
<1>8. ASSUME NEW c \in Conns, NEW p \in Pieces, NEW sent \in BOOLEAN,
             RecvHave(c, p, sent)
      PROVE TypeInv'
  BY <1>8 DEF RecvHave
<1>9. ASSUME NEW c \in Conns, NEW pieces \in SUBSET Pieces,
             NEW sent \in BOOLEAN, RecvBitfield(c, pieces, sent)
      PROVE TypeInv'
  BY <1>9 DEF RecvBitfield
<1>10. ASSUME NEW c \in Conns, NEW p \in Pieces, SendRequests(c, p)
       PROVE TypeInv'
  <2>1. /\ blocks_left' \in [Conns -> 0 .. WORD - 1]
        /\ owed' \in [Conns -> SUBSET Blocks]
    BY <1>10, NumBlocksType, SizesAssumption DEF SendRequests
  <2>2. pc[c] = "loop" /\ RequestInv'
    BY <1>10 DEF SendRequests, MayRequest, Handling
  <2> QED
    BY <1>10, <2>1, <2>2 DEF SendRequests, PieceState
<1>11. ASSUME NEW c \in Conns, NEW p \in Pieces, SendRequestsFails(c, p)
       PROVE TypeInv'
  BY <1>11, DiscardType DEF SendRequestsFails, PieceState
<1>12. ASSUME NEW c \in Conns, LoseInterest(c) PROVE TypeInv'
  BY <1>12 DEF LoseInterest
<1>13. ASSUME NEW c \in Conns, NEW p \in Pieces, NEW b \in BlocksOf(p),
              NEW good \in BOOLEAN, NEW found \in BOOLEAN,
              RecvBlock(c, p, b, good, found)
       PROVE TypeInv'
  <2>1. BlocksLeft(c, p, found) \in 0 .. WORD - 1
    BY DecType DEF BlocksLeft
  <2>2. /\ content' \in [Pieces -> SUBSET Blocks]
        /\ owed' \in [Conns -> SUBSET Blocks]
        /\ blocks_left' \in [Conns -> 0 .. WORD - 1]
    BY <1>13, <2>1, NumBlocksType DEF RecvBlock, WriteBlock
  <2>3. pc' \in [Conns -> Places] /\ RequestInv'
    BY <1>13, NumBlocksType DEF RecvBlock, Places, Handling
  <2>4. \A q \in Pieces : content'[q] \subseteq BlocksOf(q)
    BY <1>13 DEF RecvBlock, WriteBlock
  <2> QED
    BY <1>13, <2>2, <2>3, <2>4 DEF RecvBlock
<1>14. ASSUME NEW c \in Conns, NEW p \in Pieces, NEW b \in BlocksOf(p),
              NEW good \in BOOLEAN, RecvBlockFails(c, p, b, good)
       PROVE TypeInv'
  <2>1. /\ content' \in [Pieces -> SUBSET Blocks]
        /\ \A q \in Pieces : content'[q] \subseteq BlocksOf(q)
    BY <1>14, NumBlocksType DEF RecvBlockFails, WriteBlock
  <2> QED
    BY <1>14, <2>1, DiscardType DEF RecvBlockFails
<1>15. ASSUME NEW c \in Conns, VerifyBlock(c) PROVE TypeInv'
  BY <1>15, VerifyType
<1>16. ASSUME NEW c \in Conns, PieceInvalid(c) PROVE TypeInv'
  BY <1>16 DEF PieceInvalid, Places, Handling, PieceState
<1>17. ASSUME NEW c \in Conns, PieceValid(c) PROVE TypeInv'
  <2>1. /\ piece_states' \in [Pieces -> PieceState]
        /\ pieces_left' \in 0 .. WORD - 1
    BY <1>17, DecType DEF PieceValid, PieceState
  <2>2. completed' \in BOOLEAN
    BY <1>17 DEF PieceValid, NoneLeft
  <2>3. pc' \in [Conns -> Places] /\ RequestInv'
    BY <1>17 DEF PieceValid, Places, Handling
  <2>4. failed_assert' \in {"none", "pieces_left", "trim"}
    BY <1>17 DEF PieceValid
  <2> QED
    BY <1>17, <2>1, <2>2, <2>3, <2>4 DEF PieceValid
<1>18. ASSUME NEW c \in Conns, TorrentComplete(c) PROVE TypeInv'
  BY <1>18, SizesAssumption DEF TorrentComplete, Places, Handling, Files
<1>19. ASSUME NEW c \in Conns, RenameFile(c) PROVE TypeInv'
  BY <1>19, RenameType
<1>20. ASSUME NEW c \in Conns, Announce(c) PROVE TypeInv'
  <2>1. pc' \in [Conns -> Places] /\ RequestInv'
    BY <1>20 DEF Announce, Places, Handling
  <2>2. have_queue' \in [Conns -> Seq(Pieces)]
    BY <1>20 DEF Announce, Handling
  <2> QED
    BY <1>20, <2>1, <2>2 DEF Announce
<1>21. ASSUME NEW c \in Conns, NEW n \in 1 .. MQ_MAXMSG,
              ServiceHaveEvents(c, n)
       PROVE TypeInv'
  BY <1>21 DEF ServiceHaveEvents
<1> HIDE DEF TypeInv, TypeOK, RequestInv
<1> QED
  BY <1>1, <1>2, <1>3, <1>4, <1>5, <1>6, <1>7, <1>8, <1>9, <1>10, <1>11,
     <1>12, <1>13, <1>14, <1>15, <1>16, <1>17, <1>18, <1>19, <1>20, <1>21
  DEF Next, PeerStep, RequestStep, ThreadStep

\* The state stays well formed, whatever the peers do and however the threads
\* of peer_connection.c interleave.
THEOREM TypeCorrect == Spec => []TypeOK
<1>1. TypeInv => TypeOK
  BY DEF TypeInv
<1> QED
  BY <1>1, TypeInit, TypeStep, PTL DEF Spec

-----------------------------------------------------------------------------
(* Counting pieces and completing the torrent, for any peers.  The test of *)
(* pieces_left against 0 elects one thread, because pieces_left only falls *)
(* while the process runs; that thread alone renames, in order.            *)

Completing(c) == pc[c] \in {"complete", "rename"}

CompletionInv ==
  /\ RenamedOnce
  /\ NeverOvercounted
  /\ Running =>
       /\ \A c \in Conns : Completing(c) => pieces_left = 0
       /\ \A c, d \in Conns : Completing(c) /\ Completing(d) => c = d
       /\ \A c \in Conns : pc[c] = "complete" => final = {}
       /\ \A c \in Conns : pc[c] = "rename" => final = 0 .. i[c] - 1
       /\ final # {} => pieces_left = 0

\* A set of pieces is finite and has a cardinality.
LEMMA MissingFinite ==
  /\ IsFiniteSet(Pieces) /\ Cardinality(Pieces) = NumPieces
  /\ IsFiniteSet(Missing) /\ Cardinality(Missing) \in Nat
<1>1. IsFiniteSet(Pieces) /\ Cardinality(Pieces) = NumPieces
  BY SizesAssumption, FS_Interval DEF Pieces
<1>2. Missing \subseteq Pieces
  BY DEF Missing
<1> QED
  BY <1>1, <1>2, FS_Subset, FS_CardinalityType

\* The steps that neither count a piece nor complete the torrent.
Quiet ==
  /\ Missing' = Missing
  /\ UNCHANGED <<pieces_left, final, failed_assert>>
  /\ \A c \in Conns : Completing(c)' => pc'[c] = pc[c] /\ i'[c] = i[c]

Counting(c) ==
  PieceInvalid(c) \/ PieceValid(c) \/ TorrentComplete(c) \/ RenameFile(c)

\* A request is made for a missing piece only, and it stays missing.
LEMMA RequestsAreMissing ==
  ASSUME TypeInv, NEW p \in Pieces, NEW have \in SUBSET Pieces,
         IsNextRequest(p, have),
         piece_states' = [piece_states EXCEPT ![p] = "REQUESTED"]
  PROVE  p \in Missing /\ Missing' = Missing
  BY DEF TypeInv, TypeOK, IsNextRequest, InState, Missing

\* Every other step is quiet.
LEMMA QuietSteps ==
  ASSUME TypeInv, [Next]_vars
  PROVE  Quiet \/ \E c \in Conns : Counting(c)
<1> USE DEF Quiet, Completing, sh, main, disk, conn, At, Running, Goto
<1>1. CASE UNCHANGED vars
  BY <1>1 DEF vars, Missing
<1>2. CASE RegisterConn
  BY <1>2 DEF RegisterConn, Missing
<1>3. CASE Halted
  BY <1>3 DEF Halted, vars, Missing
<1>4. ASSUME NEW c \in Conns, CreateConn(c) PROVE Quiet
  BY <1>4 DEF CreateConn, Missing, TypeInv, TypeOK
<1>5. ASSUME NEW c \in Conns, NEW garbage \in SUBSET Pieces, Start(c, garbage)
      PROVE Quiet
  BY <1>5 DEF Start, Missing, TypeInv, TypeOK
<1>6. ASSUME NEW c \in Conns, Close(c) PROVE Quiet
  BY <1>6 DEF Close, Discard, Missing, TypeInv, TypeOK
<1>7. ASSUME NEW c \in Conns,
             \/ RecvChoke(c)
             \/ RecvUnchoke(c)
             \/ LoseInterest(c)
             \/ \E p \in Pieces, sent \in BOOLEAN : RecvHave(c, p, sent)
             \/ \E pieces \in SUBSET Pieces, sent \in BOOLEAN :
                  RecvBitfield(c, pieces, sent)
             \/ \E n \in 1 .. MQ_MAXMSG : ServiceHaveEvents(c, n)
      PROVE Quiet
  BY <1>7 DEF RecvChoke, RecvUnchoke, LoseInterest, RecvHave, RecvBitfield,
              ServiceHaveEvents, Missing
<1>8. ASSUME NEW c \in Conns, NEW p \in Pieces, SendRequests(c, p)
      PROVE Quiet
  <2>1. Missing' = Missing
    BY <1>8, RequestsAreMissing DEF SendRequests, TypeInv, TypeOK
  <2> QED
    BY <1>8, <2>1 DEF SendRequests
<1>9. ASSUME NEW c \in Conns, NEW p \in Pieces, SendRequestsFails(c, p)
      PROVE Quiet
  <2>1. Missing' = Missing
    BY <1>9, RequestsAreMissing DEF SendRequestsFails, TypeInv, TypeOK
  <2> QED
    BY <1>9, <2>1 DEF SendRequestsFails, Discard, TypeInv, TypeOK
<1>10. ASSUME NEW c \in Conns, NEW p \in Pieces, NEW b \in BlocksOf(p),
              NEW good \in BOOLEAN, NEW found \in BOOLEAN,
              RecvBlock(c, p, b, good, found)
       PROVE Quiet
  BY <1>10 DEF RecvBlock, Missing, TypeInv, TypeOK
<1>11. ASSUME NEW c \in Conns, NEW p \in Pieces, NEW b \in BlocksOf(p),
              NEW good \in BOOLEAN, RecvBlockFails(c, p, b, good)
       PROVE Quiet
  BY <1>11 DEF RecvBlockFails, Discard, Missing, TypeInv, TypeOK
<1>12. ASSUME NEW c \in Conns, VerifyBlock(c) PROVE Quiet
  <2>1. /\ UNCHANGED <<piece_states, pieces_left, final, failed_assert>>
        /\ pc[c] = "verify"
        /\ \/ pc' = pc
           \/ pc' = [pc EXCEPT ![c] = "invalid"]
           \/ pc' = [pc EXCEPT ![c] = "valid"]
        /\ \A d \in Conns \ {c} : i'[d] = i[d]
    BY <1>12 DEF VerifyBlock, TypeInv, TypeOK
  <2> QED
    BY <2>1 DEF Missing, TypeInv, TypeOK
<1>13. ASSUME NEW c \in Conns, Announce(c) PROVE Quiet
  BY <1>13 DEF Announce, Missing, TypeInv, TypeOK
<1> HIDE DEF Quiet
<1> QED
  BY <1>1, <1>2, <1>3, <1>4, <1>5, <1>6, <1>7, <1>8, <1>9, <1>10, <1>11,
     <1>12, <1>13
  DEF Next, PeerStep, RequestStep, ThreadStep, Counting

\* What the two outcomes of a hash check do to the set of missing pieces.
LEMMA MissingStep ==
  ASSUME TypeInv, NEW p \in Pieces
  PROVE  /\ piece_states' = [piece_states EXCEPT ![p] = "NOT_REQUESTED"]
              => Missing' = Missing \cup {p}
         /\ piece_states' = [piece_states EXCEPT ![p] = "HAVE"]
              => Missing' = Missing \ {p}
  BY DEF TypeInv, TypeOK, Missing

\* A step that counts a new piece takes it out of the missing ones, and
\* decrements the counter unless that is 0 already.
LEMMA CountStep ==
  ASSUME TypeInv, NEW c \in Conns, PieceValid(c), IsNew(request[c])
  PROVE  /\ request[c] \in Missing
         /\ Missing' = Missing \ {request[c]}
         /\ Cardinality(Missing') = Cardinality(Missing) - 1
         /\ pieces_left' = Dec(pieces_left)
<1>1. request[c] \in Pieces
  BY DEF TypeInv, RequestInv, PieceValid, At, Handling
<1>2. request[c] \in Missing
  BY <1>1 DEF IsNew, Missing
<1>3. /\ piece_states' = [piece_states EXCEPT ![request[c]] = "HAVE"]
      /\ pieces_left' = Dec(pieces_left)
  BY DEF PieceValid
<1>4. Missing' = Missing \ {request[c]}
  BY <1>1, <1>3, MissingStep
<1> QED
  BY <1>2, <1>3, <1>4, MissingFinite, FS_RemoveElement

\* CompletionInv is inductive.
LEMMA CompletionStep ==
  ASSUME TypeInv, CompletionInv, [Next]_vars
  PROVE  CompletionInv'
<1> USE DEF CompletionInv, RenamedOnce, NeverOvercounted, Running, Completing
<1>1. CASE Quiet
  <2>1. Cardinality(Missing') = Cardinality(Missing)
    BY <1>1 DEF Quiet
  <2> QED
    BY <1>1, <2>1 DEF Quiet
<1>2. ASSUME NEW c \in Conns, PieceInvalid(c) PROVE CompletionInv'
  <2>1. /\ UNCHANGED <<pieces_left, final, failed_assert, i>>
        /\ pc' = [pc EXCEPT ![c] = "loop"]
        /\ piece_states' = [piece_states EXCEPT ![request[c]] = "NOT_REQUESTED"]
        /\ request[c] \in Pieces
    BY <1>2 DEF PieceInvalid, At, Goto, TypeInv, RequestInv, Handling, disk, conn
  <2>2. Missing' = Missing \cup {request[c]}
    BY <2>1, MissingStep
  <2>3. Cardinality(Missing) =< Cardinality(Missing')
    <3>1. Missing \subseteq Missing' /\ IsFiniteSet(Missing')
      BY <2>2, MissingFinite, FS_AddElement
    <3> QED
      BY <3>1, FS_Subset
  <2>4. Cardinality(Missing) \in Nat /\ Cardinality(Missing') \in Nat
    BY <2>2, MissingFinite, FS_AddElement, FS_CardinalityType
  <2>5. pieces_left \in Nat
    BY SizesAssumption DEF TypeInv, TypeOK
  <2>6. NeverOvercounted'
    BY <2>1, <2>3, <2>4, <2>5
  <2> QED
    BY <2>1, <2>6 DEF TypeInv, TypeOK
<1>3. ASSUME NEW c \in Conns, PieceValid(c), ~IsNew(request[c])
      PROVE CompletionInv'
  <2>1. /\ UNCHANGED <<piece_states, pieces_left, final, failed_assert, i>>
        /\ pc' = [pc EXCEPT ![c] = "announce"]
    BY <1>3 DEF PieceValid, At, Goto, disk, conn, sh
  <2> QED
    BY <2>1 DEF TypeInv, TypeOK, Missing
<1>4. ASSUME NEW c \in Conns, PieceValid(c), IsNew(request[c])
      PROVE CompletionInv'
  <2>1. /\ UNCHANGED <<final, i>>
        /\ failed_assert = "none"
        /\ failed_assert' = (IF pieces_left' < NumPieces
                             THEN "none" ELSE "pieces_left")
        /\ pc' = [pc EXCEPT ![c] = IF pieces_left' = 0
                                   THEN "complete" ELSE "announce"]
    BY <1>4 DEF PieceValid, At, Goto, disk, conn, NoneLeft
  <2>2. /\ Cardinality(Missing') = Cardinality(Missing) - 1
        /\ pieces_left' = Dec(pieces_left)
    BY <1>4, CountStep
  <2>3. pieces_left \in 0 .. WORD - 1 /\ Cardinality(Missing) \in Nat
    BY MissingFinite DEF TypeInv, TypeOK
  <2>4. CASE pieces_left = 0
    <3>1. pieces_left' = WORD - 1 /\ ~(pieces_left' < NumPieces)
      BY <2>2, <2>4, SizesAssumption DEF Dec
    <3> QED
      BY <2>1, <3>1
  <2>5. CASE pieces_left # 0
    <3>1. pieces_left' = pieces_left - 1
      BY <2>2, <2>5 DEF Dec
    <3>2. NeverOvercounted'
      BY <2>1, <2>2, <2>3, <3>1
    <3>3. final = {} /\ \A d \in Conns : ~Completing(d)
      BY <2>1, <2>5
    <3> QED
      BY <2>1, <3>2, <3>3 DEF TypeInv, TypeOK
  <2> QED
    BY <2>4, <2>5
<1>5. ASSUME NEW c \in Conns, TorrentComplete(c) PROVE CompletionInv'
  <2>1. /\ UNCHANGED <<piece_states, pieces_left, final, failed_assert, i>>
        /\ failed_assert = "none"
        /\ pc[c] = "complete" /\ i[c] = 0
        /\ pc' = [pc EXCEPT ![c] = "rename"]
    BY <1>5 DEF TorrentComplete, At, Goto, disk, conn, TypeInv, RequestInv
  <2>2. final = {} /\ 0 .. i[c] - 1 = {}
    BY <2>1
  <2> QED
    BY <2>1, <2>2 DEF TypeInv, TypeOK, Missing
<1>6. ASSUME NEW c \in Conns, RenameFile(c) PROVE CompletionInv'
  <2>1. /\ UNCHANGED <<piece_states, pieces_left>>
        /\ failed_assert = "none"
        /\ failed_assert' = (IF i[c] \in final THEN "trim" ELSE "none")
        /\ pc[c] = "rename"
        /\ final' = final \cup {i[c]}
    BY <1>6 DEF RenameFile, At, sh
  <2>2. \/ pc' = [pc EXCEPT ![c] = "announce"]
        \/ pc' = pc /\ i' = [i EXCEPT ![c] = i[c] + 1]
    BY <1>6 DEF RenameFile, Goto
  <2>3. i[c] \in Nat /\ final = 0 .. i[c] - 1 /\ pieces_left = 0
    BY <2>1 DEF TypeInv, TypeOK
  <2>4. i[c] \notin final /\ final' = 0 .. (i[c] + 1) - 1
    BY <2>1, <2>3
  <2>5. failed_assert' = "none"
    BY <2>1, <2>4
  <2>6. \A d \in Conns : Completing(d) => d = c
    BY <2>1
  <2> QED
    BY <2>1, <2>2, <2>3, <2>4, <2>5, <2>6 DEF TypeInv, TypeOK, Missing
<1> HIDE DEF CompletionInv
<1> QED
  BY <1>1, <1>2, <1>3, <1>4, <1>5, <1>6, QuietSteps DEF Counting

\* Initially nothing is complete.
LEMMA CompletionInit == Init => CompletionInv
<1> SUFFICES ASSUME Init PROVE CompletionInv
  OBVIOUS
<1>1. Missing = Pieces
  BY DEF Init, Missing
<1>2. NeverOvercounted
  BY <1>1, MissingFinite, SizesAssumption DEF Init, NeverOvercounted
<1> QED
  BY <1>2 DEF Init, CompletionInv, RenamedOnce, Completing

LEMMA CompletionHolds == Spec => []NeverOvercounted /\ []RenamedOnce
<1>1. Init => CompletionInv
  BY CompletionInit
<1>2. CompletionInv => NeverOvercounted /\ RenamedOnce
  BY DEF CompletionInv
<1>3. TypeInv /\ CompletionInv /\ [Next]_vars => CompletionInv'
  BY CompletionStep
<1> QED
  BY <1>1, <1>2, <1>3, TypeInit, TypeStep, PTL DEF Spec

\* However the threads interleave and whatever the peers send, pieces_left
\* never exceeds the number of missing pieces.
THEOREM CountedAtMostOnce == Spec => []NeverOvercounted
  BY CompletionHolds, PTL

\* However the threads interleave and whatever the peers send,
\* torrent_complete() renames no file twice: the assertion of
\* dl_file_complete() holds.
THEOREM CompletedOnce == Spec => []RenamedOnce
  BY CompletionHolds, PTL

-----------------------------------------------------------------------------
(* The hash is current: what a thread has hashed is not overwritten before *)
(* it marks the piece, unless another thread's peer is faulty.             *)

HashInv ==
  \A c \in Conns : Faulty \subseteq {c} =>
    /\ pc[c] = "verify" => 0 .. i[c] - 1 \subseteq content[request[c]]
    /\ pc[c] = "valid" => content[request[c]] = BlocksOf(request[c])

\* A step of thread c leaves the other threads' request and loop index alone,
\* and lets no other thread start or end a hash.
Local(c) ==
  /\ \A d \in Conns \ {c} : pc'[d] = pc[d] /\ request'[d] = request[d] /\ i'[d] = i[d]
  /\ \A d \in Conns \ {c} : owed'[d] = owed[d] /\ blocks_left'[d] = blocks_left[d]

\* What a step of thread c may do to the mapped files.
Writes(c) ==
  \/ content' = content
  \/ \E p \in Pieces, good \in BOOLEAN :
       \E b \in BlocksOf(p) : Answers(c, p, b, good) /\ WriteBlock(p, b, good)

StepOf(c) == CreateConn(c) \/ PeerStep(c) \/ ThreadStep(c)

\* The steps of thread c are local to it, and write blocks only from its
\* message loop.
LEMMA LocalSteps ==
  ASSUME TypeInv, NEW c \in Conns, StepOf(c)
  PROVE  /\ Local(c)
         /\ content' = content \/ (pc[c] = "loop" /\ Writes(c))
<1> USE DEF sh, main, disk, conn, At, Running, Goto
<1> DEFINE Good == /\ Local(c)
                   /\ content' = content \/ (pc[c] = "loop" /\ Writes(c))
<1>1. ASSUME \/ CreateConn(c)
             \/ \E garbage \in SUBSET Pieces : Start(c, garbage)
             \/ RecvChoke(c)
             \/ RecvUnchoke(c)
             \/ LoseInterest(c)
             \/ \E p \in Pieces, sent \in BOOLEAN : RecvHave(c, p, sent)
             \/ \E pieces \in SUBSET Pieces, sent \in BOOLEAN :
                  RecvBitfield(c, pieces, sent)
             \/ \E n \in 1 .. MQ_MAXMSG : ServiceHaveEvents(c, n)
             \/ \E p \in Pieces : SendRequests(c, p)
      PROVE Good
  BY <1>1 DEF CreateConn, Start, RecvChoke, RecvUnchoke, LoseInterest,
     RecvHave, RecvBitfield, ServiceHaveEvents, SendRequests, Local, TypeInv,
     TypeOK
<1>2. ASSUME Close(c) \/ \E p \in Pieces : SendRequestsFails(c, p)
      PROVE Good
  BY <1>2 DEF Close, SendRequestsFails, Discard, Local, TypeInv, TypeOK
<1>3. ASSUME NEW p \in Pieces, NEW b \in BlocksOf(p), NEW good \in BOOLEAN,
             NEW found \in BOOLEAN, RecvBlock(c, p, b, good, found)
      PROVE Good
  <2>1. pc[c] = "loop" /\ Writes(c)
    BY <1>3 DEF RecvBlock, Writes
  <2>2. Local(c)
    BY <1>3 DEF RecvBlock, Local, TypeInv, TypeOK
  <2> QED
    BY <2>1, <2>2
<1>4. ASSUME NEW p \in Pieces, NEW b \in BlocksOf(p), NEW good \in BOOLEAN,
             RecvBlockFails(c, p, b, good)
      PROVE Good
  <2>1. pc[c] = "loop" /\ Writes(c)
    BY <1>4 DEF RecvBlockFails, Writes
  <2>2. Local(c)
    BY <1>4 DEF RecvBlockFails, Discard, Local, TypeInv, TypeOK
  <2> QED
    BY <2>1, <2>2
<1>5. ASSUME VerifyBlock(c) PROVE Good
  BY <1>5 DEF VerifyBlock, Local, TypeInv, TypeOK
<1>6. ASSUME PieceInvalid(c) PROVE Good
  BY <1>6 DEF PieceInvalid, Local, TypeInv, TypeOK
<1>7. ASSUME PieceValid(c) PROVE Good
  BY <1>7 DEF PieceValid, Local, TypeInv, TypeOK
<1>8. ASSUME TorrentComplete(c) PROVE Good
  BY <1>8 DEF TorrentComplete, Local, TypeInv, TypeOK
<1>9. ASSUME RenameFile(c) PROVE Good
  BY <1>9 DEF RenameFile, Local, TypeInv, TypeOK
<1>10. ASSUME Announce(c) PROVE Good
  BY <1>10 DEF Announce, Local, TypeInv, TypeOK
<1> HIDE DEF Good
<1>11. Good
  BY <1>1, <1>2, <1>3, <1>4, <1>5, <1>6, <1>7, <1>8, <1>9, <1>10
  DEF StepOf, PeerStep, RequestStep, ThreadStep
<1> QED
  BY <1>11 DEF Good

\* The steps of no thread change none.
LEMMA OtherSteps ==
  ASSUME [Next]_vars
  PROVE  \/ UNCHANGED <<pc, request, i, owed, blocks_left, content,
                        piece_states, pieces_left, final, failed_assert>>
         \/ \E c \in Conns : StepOf(c)
  BY DEF Next, StepOf, Halted, RegisterConn, vars, sh, main, disk, conn

\* A thread is hashing after a step of its own because it has just received
\* the last block, or because the step is one of the hash.
LEMMA HashEntry ==
  ASSUME TypeInv, NEW c \in Conns, StepOf(c), pc'[c] \in {"verify", "valid"}
  PROVE  \/ VerifyBlock(c)
         \/ \E p \in Pieces, good, found \in BOOLEAN :
              \E b \in BlocksOf(p) : RecvBlock(c, p, b, good, found)
<1> USE DEF sh, main, disk, conn, At, Running, Goto, TypeInv, TypeOK
<1>1. ASSUME \/ CreateConn(c)
             \/ \E garbage \in SUBSET Pieces : Start(c, garbage)
             \/ Close(c)
             \/ \E p \in Pieces : SendRequestsFails(c, p)
             \/ \E p \in Pieces, good \in BOOLEAN :
                  \E b \in BlocksOf(p) : RecvBlockFails(c, p, b, good)
      PROVE FALSE
  BY <1>1 DEF CreateConn, Start, Close, SendRequestsFails, RecvBlockFails,
     Discard
<1>2. ASSUME \/ RecvChoke(c)
             \/ RecvUnchoke(c)
             \/ LoseInterest(c)
             \/ \E p \in Pieces, sent \in BOOLEAN : RecvHave(c, p, sent)
             \/ \E pieces \in SUBSET Pieces, sent \in BOOLEAN :
                  RecvBitfield(c, pieces, sent)
             \/ \E n \in 1 .. MQ_MAXMSG : ServiceHaveEvents(c, n)
             \/ \E p \in Pieces : SendRequests(c, p)
      PROVE FALSE
  BY <1>2 DEF RecvChoke, RecvUnchoke, LoseInterest, RecvHave, RecvBitfield,
     ServiceHaveEvents, SendRequests, MayRequest
<1>3. ASSUME \/ PieceInvalid(c)
             \/ PieceValid(c)
             \/ TorrentComplete(c)
             \/ Announce(c)
      PROVE FALSE
  BY <1>3 DEF PieceInvalid, PieceValid, TorrentComplete, Announce
<1>4. ASSUME RenameFile(c) PROVE FALSE
  BY <1>4 DEF RenameFile
<1> HIDE DEF TypeInv, At, Goto
<1> QED
  BY <1>1, <1>2, <1>3, <1>4 DEF StepOf, PeerStep, RequestStep, ThreadStep

\* Blocks that are right stay right if the peer that writes behaves well.
LEMMA ContentGrows ==
  ASSUME TypeInv, NEW c \in Conns, c \notin Faulty, Writes(c),
         NEW q \in Pieces
  PROVE  content[q] \subseteq content'[q]
<1>1. CASE content' = content
  BY <1>1
<1>2. ASSUME NEW p \in Pieces, NEW b \in BlocksOf(p), NEW good \in BOOLEAN,
             Answers(c, p, b, good), WriteBlock(p, b, good)
      PROVE  content[q] \subseteq content'[q]
  <2>1. good
    BY <1>2 DEF Answers
  <2> QED
    BY <1>2, <2>1 DEF WriteBlock, TypeInv, TypeOK
<1> QED
  BY <1>1, <1>2 DEF Writes

\* HashInv is inductive.
LEMMA HashStep ==
  ASSUME TypeInv, TypeInv', HashInv, [Next]_vars
  PROVE  HashInv'
<1> SUFFICES ASSUME NEW c \in Conns, Faulty \subseteq {c}
             PROVE  /\ pc'[c] = "verify" =>
                         0 .. i'[c] - 1 \subseteq content'[request'[c]]
                    /\ pc'[c] = "valid" => content'[request'[c]] = BlocksOf(request'[c])
  BY DEF HashInv
<1>1. /\ pc[c] = "verify" => 0 .. i[c] - 1 \subseteq content[request[c]]
      /\ pc[c] = "valid" => content[request[c]] = BlocksOf(request[c])
  BY DEF HashInv
<1>2. pc[c] \in {"verify", "valid"} => request[c] \in Pieces
  BY DEF TypeInv, RequestInv, Handling
<1>3. CASE UNCHANGED <<pc, request, i, owed, blocks_left, content,
                       piece_states, pieces_left, final, failed_assert>>
  BY <1>1, <1>3
<1>4. ASSUME NEW d \in Conns, StepOf(d), d # c
      PROVE  /\ pc'[c] = "verify" =>
                  0 .. i'[c] - 1 \subseteq content'[request'[c]]
             /\ pc'[c] = "valid" => content'[request'[c]] = BlocksOf(request'[c])
  <2>1. pc'[c] = pc[c] /\ request'[c] = request[c] /\ i'[c] = i[c]
    BY <1>4, LocalSteps DEF Local
  <2>2. content' = content \/ Writes(d)
    BY <1>4, LocalSteps
  <2>3. d \notin Faulty
    BY <1>4
  <2>4. \A q \in Pieces : content[q] \subseteq content'[q]
    BY <1>4, <2>2, <2>3, ContentGrows
  <2>5. \A q \in Pieces : content'[q] \subseteq BlocksOf(q)
    BY DEF TypeInv, TypeOK
  <2>6. CASE pc[c] = "verify"
    BY <1>1, <1>2, <2>1, <2>4, <2>6
  <2>7. CASE pc[c] = "valid"
    <3>1. /\ content[request[c]] = BlocksOf(request[c])
          /\ request[c] \in Pieces
      BY <1>1, <1>2, <2>7
    <3>2. content'[request[c]] = BlocksOf(request[c])
      BY <2>4, <2>5, <3>1
    <3> QED
      BY <2>1, <2>7, <3>2
  <2> QED
    BY <2>1, <2>6, <2>7
<1>5. ASSUME StepOf(c), pc'[c] \in {"verify", "valid"}
      PROVE  /\ pc'[c] = "verify" =>
                  0 .. i'[c] - 1 \subseteq content'[request'[c]]
             /\ pc'[c] = "valid" => content'[request'[c]] = BlocksOf(request'[c])
  <2>1. CASE VerifyBlock(c)
    <3>1. /\ pc[c] = "verify" /\ content' = content /\ request' = request
          /\ i[c] \in BlocksOf(request[c])
      BY <2>1 DEF VerifyBlock, At, disk, TypeInv, RequestInv
    <3>2. i[c] \in content[request[c]]
      BY <1>5, <2>1 DEF VerifyBlock, Goto, TypeInv, TypeOK
    <3>3. /\ content[request[c]] \subseteq BlocksOf(request[c])
          /\ i[c] \in Nat
      BY <1>2, <3>1 DEF TypeInv, TypeOK
    <3>4. 0 .. i[c] \subseteq content[request[c]]
      BY <1>1, <3>1, <3>2, <3>3
    <3>5. CASE i[c] = LastBlock(request[c])
      <4>1. pc'[c] = "valid"
        BY <2>1, <3>2, <3>5 DEF VerifyBlock, Goto, TypeInv, TypeOK
      <4>2. content[request[c]] = BlocksOf(request[c])
        BY <3>3, <3>4, <3>5 DEF LastBlock, BlocksOf
      <4> QED
        BY <3>1, <4>1, <4>2
    <3>6. CASE i[c] # LastBlock(request[c])
      <4>1. pc'[c] = "verify" /\ i'[c] = i[c] + 1
        BY <2>1, <3>1, <3>2, <3>6 DEF VerifyBlock, TypeInv, TypeOK
      <4> QED
        BY <3>1, <3>3, <3>4, <4>1
    <3> QED
      BY <3>5, <3>6
  <2>2. CASE \E p \in Pieces, good, found \in BOOLEAN :
               \E b \in BlocksOf(p) : RecvBlock(c, p, b, good, found)
    <3>1. pc[c] = "loop" /\ pc'[c] = "verify" /\ i' = i
      BY <1>5, <2>2 DEF RecvBlock, At, Goto, TypeInv, TypeOK
    <3>2. i'[c] = 0
      BY <3>1 DEF TypeInv, RequestInv
    <3> QED
      BY <3>1, <3>2
  <2> QED
    BY <1>5, <2>1, <2>2, HashEntry
<1> QED
  BY <1>3, <1>4, <1>5, OtherSteps

\* When a thread goes on to mark its piece HAVE, the mapped bytes still are
\* the ones that passed the hash check, as long as no other thread's peer is
\* faulty: blocks written meanwhile for the same piece are right ones.
THEOREM HashStaysCurrent == Spec => []HashIsCurrent
<1>1. Init => HashInv
  BY DEF Init, HashInv
<1>2. HashInv => HashIsCurrent
  BY DEF HashInv, HashIsCurrent, At
<1>3. TypeInv /\ TypeInv' /\ HashInv /\ [Next]_vars => HashInv'
  BY HashStep
<1> QED
  BY <1>1, <1>2, <1>3, TypeInit, TypeStep, PTL DEF Spec

-----------------------------------------------------------------------------
(* Well-behaved peers.  Blocks that a peer no longer owes are in the file, *)
(* and blocks_left never falls below what is owed (it may stay above: a    *)
(* block that the lookup in the freed array missed is not counted).  Hence *)
(* blocks_left = 0 means the piece is there, no hash check fails, no HAVE  *)
(* is taken back, and the counter is exact.                                *)

GoodInv ==
  /\ \A c \in Conns : request[c] \in Pieces =>
       /\ BlocksOf(request[c]) \ owed[c] \subseteq content[request[c]]
       /\ Cardinality(owed[c]) =< blocks_left[c]
  /\ \A c \in Conns : pc[c] \in {"verify", "valid"} =>
       content[request[c]] = BlocksOf(request[c])
  /\ \A c \in Conns : pc[c] # "invalid"
  /\ \A p \in Pieces \ Missing : content[p] = BlocksOf(p)
  /\ Accounting
  /\ failed_assert = "none"

\* A set of blocks is finite.
LEMMA BlocksFinite ==
  /\ \A p \in Pieces : Cardinality(BlocksOf(p)) = NumBlocksOf(p)
  /\ \A S \in SUBSET Blocks : IsFiniteSet(S) /\ Cardinality(S) \in Nat
<1>1. IsFiniteSet(Blocks)
  BY SizesAssumption, FS_Interval DEF Blocks
<1>2. \A p \in Pieces : Cardinality(BlocksOf(p)) = NumBlocksOf(p)
  BY NumBlocksType, FS_Interval DEF BlocksOf
<1> QED
  BY <1>1, <1>2, FS_Subset, FS_CardinalityType

\* Initially nothing is requested and everything is missing.
LEMMA GoodInit == Init => GoodInv
<1> SUFFICES ASSUME Init PROVE GoodInv
  OBVIOUS
<1>1. Missing = Pieces
  BY DEF Init, Missing
<1>2. Accounting
  BY <1>1, MissingFinite DEF Init, Accounting
<1>3. \A c \in Conns : request[c] \notin Pieces
  BY SizesAssumption DEF Init, NoPiece, Pieces
<1> QED
  BY <1>1, <1>2, <1>3 DEF Init, GoodInv

\* The first two conjuncts, for the thread that takes the step.
LEMMA GoodRequests ==
  ASSUME Faulty = {}, TypeInv, TypeInv', GoodInv, NEW c \in Conns, StepOf(c),
         request'[c] \in Pieces
  PROVE  /\ BlocksOf(request'[c]) \ owed'[c] \subseteq content'[request'[c]]
         /\ Cardinality(owed'[c]) =< blocks_left'[c]
<1> DEFINE Good == /\ BlocksOf(request'[c]) \ owed'[c] \subseteq content'[request'[c]]
                   /\ Cardinality(owed'[c]) =< blocks_left'[c]
<1>1. ASSUME UNCHANGED <<request[c], owed[c], blocks_left[c], content>>
      PROVE Good
  BY <1>1 DEF GoodInv
<1>2. ASSUME \/ CreateConn(c)
             \/ \E garbage \in SUBSET Pieces : Start(c, garbage)
             \/ RecvChoke(c)
             \/ RecvUnchoke(c)
             \/ LoseInterest(c)
             \/ \E p \in Pieces, sent \in BOOLEAN : RecvHave(c, p, sent)
             \/ \E pieces \in SUBSET Pieces, sent \in BOOLEAN :
                  RecvBitfield(c, pieces, sent)
             \/ ThreadStep(c)
      PROVE Good
  <2>1. UNCHANGED <<request, owed, blocks_left, content>>
    BY <1>2 DEF CreateConn, Start, RecvChoke, RecvUnchoke, LoseInterest,
       RecvHave, RecvBitfield, ThreadStep, VerifyBlock, PieceInvalid,
       PieceValid, TorrentComplete, RenameFile, Announce, ServiceHaveEvents,
       disk, conn
  <2> QED
    BY <1>1, <2>1
<1>3. ASSUME \/ Close(c)
             \/ \E p \in Pieces : SendRequestsFails(c, p)
             \/ \E p \in Pieces, good \in BOOLEAN :
                  \E b \in BlocksOf(p) : RecvBlockFails(c, p, b, good)
      PROVE Good
  <2>1. request'[c] = NoPiece
    BY <1>3 DEF Close, SendRequestsFails, RecvBlockFails, Discard, TypeInv,
       TypeOK
  <2> QED
    BY <2>1, SizesAssumption DEF NoPiece, Pieces
<1>4. ASSUME NEW p \in Pieces, SendRequests(c, p) PROVE Good
  <2>1. owed'[c] = BlocksOf(p) /\ blocks_left'[c] = NumBlocksOf(p) /\ request'[c] = p
    BY <1>4 DEF SendRequests, TypeInv, TypeOK
  <2> QED
    BY <2>1, BlocksFinite, NumBlocksType
<1>5. ASSUME NEW p \in Pieces, NEW b \in BlocksOf(p), NEW good \in BOOLEAN,
             NEW found \in BOOLEAN, RecvBlock(c, p, b, good, found)
      PROVE Good
  <2>1. p = request[c] /\ b \in owed[c] /\ good
    BY <1>5 DEF RecvBlock, Answers
  <2>2. /\ request' = request
        /\ content'[p] = content[p] \cup {b}
        /\ owed'[c] = owed[c] \ {b}
        /\ blocks_left'[c] = BlocksLeft(c, p, found)
    BY <1>5, <2>1 DEF RecvBlock, WriteBlock, TypeInv, TypeOK
  <2>3. /\ BlocksOf(p) \ owed[c] \subseteq content[p]
        /\ Cardinality(owed[c]) =< blocks_left[c]
    BY <2>1 DEF GoodInv
  <2>4. owed[c] \in SUBSET Blocks /\ owed[c] \ {b} \in SUBSET Blocks
    BY DEF TypeInv, TypeOK
  <2>5. /\ IsFiniteSet(owed[c])
        /\ Cardinality(owed[c]) \in Nat /\ Cardinality(owed[c] \ {b}) \in Nat
    BY <2>4, BlocksFinite
  <2>8. Cardinality(owed[c] \ {b}) = Cardinality(owed[c]) - 1
    BY <2>1, <2>5, FS_RemoveElement
  <2>6. blocks_left[c] \in 0 .. WORD - 1
    BY DEF TypeInv, TypeOK
  <2>7. Cardinality(owed'[c]) =< blocks_left'[c]
    BY <2>2, <2>3, <2>5, <2>6, <2>8 DEF BlocksLeft, Dec
  <2> QED
    BY <2>1, <2>2, <2>3, <2>7
<1> HIDE DEF Good
<1>6. Good
  BY <1>2, <1>3, <1>4, <1>5 DEF StepOf, PeerStep, RequestStep
<1> QED
  BY <1>6 DEF Good

\* A thread goes to hash its piece only when all of it is there, and no hash
\* check fails.
LEMMA GoodHashing ==
  ASSUME Faulty = {}, TypeInv, TypeInv', GoodInv, NEW c \in Conns, StepOf(c)
  PROVE  /\ pc'[c] \in {"verify", "valid"} => content'[request'[c]] = BlocksOf(request'[c])
         /\ pc'[c] # "invalid"
<1>1. ASSUME pc'[c] \in {"verify", "valid"}
      PROVE  content'[request'[c]] = BlocksOf(request'[c])
  <2>1. CASE VerifyBlock(c)
    <3>1. pc[c] = "verify" /\ content' = content /\ request' = request
      BY <2>1 DEF VerifyBlock, At, disk
    <3> QED
      BY <3>1 DEF GoodInv
  <2>2. ASSUME NEW p \in Pieces, NEW b \in BlocksOf(p), NEW good \in BOOLEAN,
               NEW found \in BOOLEAN, RecvBlock(c, p, b, good, found)
        PROVE  content'[request'[c]] = BlocksOf(request'[c])
    <3>1. p = request[c] /\ request'[c] = p
      BY <2>2 DEF RecvBlock, Answers
    <3>2. blocks_left'[c] = 0
      BY <1>1, <2>2 DEF RecvBlock, Goto, TypeInv, TypeOK
    <3>3. /\ BlocksOf(request'[c]) \ owed'[c] \subseteq content'[request'[c]]
          /\ Cardinality(owed'[c]) =< blocks_left'[c]
      BY <3>1, GoodRequests
    <3>4. owed'[c] \in SUBSET Blocks /\ content'[p] \subseteq BlocksOf(p)
      BY DEF TypeInv, TypeOK
    <3>5. IsFiniteSet(owed'[c]) /\ Cardinality(owed'[c]) \in Nat
      BY <3>4, BlocksFinite
    <3>6. Cardinality(owed'[c]) = 0
      BY <3>2, <3>3, <3>5
    <3>7. owed'[c] = {}
      BY <3>5, <3>6, FS_EmptySet
    <3> QED
      BY <3>1, <3>3, <3>4, <3>7
  <2> QED
    BY <1>1, <2>1, <2>2, HashEntry
<1>2. pc'[c] # "invalid"
  <2>1. CASE VerifyBlock(c)
    <3>1. /\ pc[c] = "verify" /\ i[c] \in BlocksOf(request[c])
      BY <2>1 DEF VerifyBlock, At, TypeInv, RequestInv
    <3>2. i[c] \in content[request[c]]
      BY <3>1 DEF GoodInv
    <3> QED
      BY <2>1, <3>1, <3>2 DEF VerifyBlock, Goto, TypeInv, TypeOK
  <2>2. CASE ~VerifyBlock(c)
    <3> USE DEF At, Running, Goto, TypeInv, TypeOK, GoodInv
    <3>1. ASSUME \/ CreateConn(c)
                 \/ \E garbage \in SUBSET Pieces : Start(c, garbage)
                 \/ Close(c)
                 \/ \E p \in Pieces : SendRequestsFails(c, p)
                 \/ \E p \in Pieces, good \in BOOLEAN :
                      \E b \in BlocksOf(p) : RecvBlockFails(c, p, b, good)
          PROVE pc'[c] # "invalid"
      BY <3>1 DEF CreateConn, Start, Close, SendRequestsFails,
         RecvBlockFails, Discard
    <3>2. ASSUME \/ RecvChoke(c)
                 \/ RecvUnchoke(c)
                 \/ LoseInterest(c)
                 \/ \E p \in Pieces, sent \in BOOLEAN : RecvHave(c, p, sent)
                 \/ \E pieces \in SUBSET Pieces, sent \in BOOLEAN :
                      RecvBitfield(c, pieces, sent)
                 \/ \E n \in 1 .. MQ_MAXMSG : ServiceHaveEvents(c, n)
                 \/ \E p \in Pieces : SendRequests(c, p)
          PROVE pc'[c] # "invalid"
      BY <3>2 DEF RecvChoke, RecvUnchoke, LoseInterest, RecvHave,
         RecvBitfield, ServiceHaveEvents, SendRequests
    <3>3. ASSUME NEW p \in Pieces, NEW b \in BlocksOf(p), NEW good \in BOOLEAN,
                 NEW found \in BOOLEAN, RecvBlock(c, p, b, good, found)
          PROVE pc'[c] # "invalid"
      BY <3>3 DEF RecvBlock
    <3>4. ASSUME PieceInvalid(c) \/ PieceValid(c) \/ TorrentComplete(c)
                 \/ Announce(c)
          PROVE pc'[c] # "invalid"
      BY <3>4 DEF PieceInvalid, PieceValid, TorrentComplete, Announce
    <3>5. ASSUME RenameFile(c) PROVE pc'[c] # "invalid"
      BY <3>5 DEF RenameFile
    <3> HIDE DEF At, Goto, TypeInv, GoodInv
    <3> QED
      BY <2>2, <3>1, <3>2, <3>3, <3>4, <3>5
      DEF StepOf, PeerStep, RequestStep, ThreadStep
  <2> QED
    BY <2>1, <2>2
<1> QED
  BY <1>1, <1>2

\* What a step does to the missing pieces and to the counter.
LEMMA GoodCounting ==
  ASSUME TypeInv, CompletionInv, CompletionInv', GoodInv, [Next]_vars
  PROVE  /\ Accounting'
         /\ failed_assert' = "none"
         /\ Missing' \subseteq Missing
         /\ \A p \in Missing \ Missing' : content[p] = BlocksOf(p) /\ content' = content
<1>1. pieces_left = Cardinality(Missing) /\ failed_assert = "none"
  BY DEF GoodInv, Accounting
<1>2. CASE Quiet
  BY <1>1, <1>2 DEF Quiet, Accounting
<1>3. ASSUME NEW c \in Conns, PieceInvalid(c) PROVE FALSE
  BY <1>3 DEF PieceInvalid, At, GoodInv
<1>4. ASSUME NEW c \in Conns, PieceValid(c), ~IsNew(request[c])
      PROVE  UNCHANGED <<piece_states, pieces_left, failed_assert>>
  BY <1>4 DEF PieceValid, sh
<1>5. ASSUME NEW c \in Conns, PieceValid(c), IsNew(request[c])
      PROVE  /\ Accounting'
             /\ failed_assert' = "none"
             /\ Missing' = Missing \ {request[c]}
             /\ content[request[c]] = BlocksOf(request[c]) /\ content' = content
  <2>1. /\ request[c] \in Missing
        /\ Missing' = Missing \ {request[c]}
        /\ Cardinality(Missing') = Cardinality(Missing) - 1
        /\ pieces_left' = Dec(pieces_left)
    BY <1>5, CountStep
  <2>2. Missing \subseteq Pieces
    BY DEF Missing
  <2>3. /\ Cardinality(Missing) \in Nat
        /\ Cardinality(Missing) =< NumPieces
        /\ Cardinality(Missing) # 0
    BY <2>1, <2>2, MissingFinite, FS_Subset, FS_EmptySet
  <2>4. pieces_left' = pieces_left - 1
    BY <1>1, <2>1, <2>3 DEF Dec
  <2>5. pieces_left' < NumPieces
    BY <1>1, <2>3, <2>4, SizesAssumption
  <2>6. failed_assert' = "none"
    BY <1>5, <2>5 DEF PieceValid
  <2>7. content[request[c]] = BlocksOf(request[c]) /\ content' = content
    BY <1>5 DEF PieceValid, At, disk, GoodInv
  <2> QED
    BY <1>1, <2>1, <2>4, <2>6, <2>7 DEF Accounting
<1>6. ASSUME NEW c \in Conns, TorrentComplete(c)
      PROVE  UNCHANGED <<piece_states, pieces_left, failed_assert>>
  BY <1>6 DEF TorrentComplete
<1>7. ASSUME NEW c \in Conns, RenameFile(c)
      PROVE  UNCHANGED <<piece_states, pieces_left, failed_assert>>
  BY <1>1, <1>7 DEF RenameFile, sh, CompletionInv, RenamedOnce
<1>8. ASSUME UNCHANGED <<piece_states, pieces_left, failed_assert>>
      PROVE  Accounting' /\ failed_assert' = "none" /\ Missing' = Missing
  BY <1>1, <1>8 DEF Accounting, Missing
<1> QED
  BY <1>2, <1>3, <1>4, <1>5, <1>6, <1>7, <1>8, QuietSteps DEF Counting

\* GoodInv is inductive.
LEMMA GoodStep ==
  ASSUME Faulty = {}, TypeInv, TypeInv', CompletionInv, CompletionInv',
         GoodInv, [Next]_vars
  PROVE  GoodInv'
<1>1. CASE UNCHANGED <<pc, request, i, owed, blocks_left, content,
                       piece_states, pieces_left, final, failed_assert>>
  BY <1>1 DEF GoodInv, Accounting, Missing
<1>2. ASSUME NEW c \in Conns, StepOf(c) PROVE GoodInv'
  <2>1. \A p \in Pieces : content[p] \subseteq content'[p]
    BY <1>2, LocalSteps, ContentGrows
  <2>2. \A p \in Pieces : content'[p] \subseteq BlocksOf(p)
    BY DEF TypeInv, TypeOK
  <2>3. \A d \in Conns \ {c} :
          /\ pc'[d] = pc[d] /\ request'[d] = request[d]
          /\ owed'[d] = owed[d] /\ blocks_left'[d] = blocks_left[d]
    BY <1>2, LocalSteps DEF Local
  <2>4. \A d \in Conns : pc[d] \in {"verify", "valid"} => request[d] \in Pieces
    BY DEF TypeInv, RequestInv, Handling
  <2>5. ASSUME NEW d \in Conns, request'[d] \in Pieces
        PROVE  /\ BlocksOf(request'[d]) \ owed'[d] \subseteq content'[request'[d]]
               /\ Cardinality(owed'[d]) =< blocks_left'[d]
    <3>1. CASE d = c
      BY <1>2, <2>5, <3>1, GoodRequests
    <3>2. CASE d # c
      BY <2>1, <2>3, <2>5, <3>2 DEF GoodInv
    <3> QED
      BY <3>1, <3>2
  <2>6. ASSUME NEW d \in Conns
        PROVE  /\ pc'[d] \in {"verify", "valid"}
                    => content'[request'[d]] = BlocksOf(request'[d])
               /\ pc'[d] # "invalid"
    <3>1. CASE d = c
      BY <1>2, <3>1, GoodHashing
    <3>2. CASE d # c
      <4>1. pc[d] # "invalid"
        BY DEF GoodInv
      <4>2. ASSUME pc[d] \in {"verify", "valid"}
            PROVE  content'[request[d]] = BlocksOf(request[d])
        <5>1. content[request[d]] = BlocksOf(request[d]) /\ request[d] \in Pieces
          BY <2>4, <4>2 DEF GoodInv
        <5> QED
          BY <2>1, <2>2, <5>1
      <4> QED
        BY <2>3, <3>2, <4>1, <4>2
    <3> QED
      BY <3>1, <3>2
  <2>7. ASSUME NEW p \in Pieces \ Missing' PROVE content'[p] = BlocksOf(p)
    <3>1. CASE p \in Missing
      BY <2>7, <3>1, GoodCounting
    <3>2. CASE p \notin Missing
      <4>1. content[p] = BlocksOf(p)
        BY <3>2 DEF GoodInv
      <4> QED
        BY <2>1, <2>2, <4>1
    <3> QED
      BY <3>1, <3>2
  <2>8. Accounting' /\ failed_assert' = "none"
    BY GoodCounting
  <2> QED
    BY <2>5, <2>6, <2>7, <2>8 DEF GoodInv
<1> QED
  BY <1>1, <1>2, OtherSteps

\* The inductive invariant of a swarm of well-behaved peers.
LEMMA WellBehavedInv ==
  ASSUME Faulty = {}
  PROVE  Spec => [](TypeInv /\ CompletionInv /\ GoodInv)
<1>1. Init => TypeInv /\ CompletionInv /\ GoodInv
  BY TypeInit, GoodInit, CompletionInit
<1>2. TypeInv /\ CompletionInv /\ GoodInv /\ [Next]_vars
        => (TypeInv /\ CompletionInv /\ GoodInv)'
  BY TypeStep, CompletionStep, GoodStep
<1> QED
  BY <1>1, <1>2, PTL DEF Spec

LEMMA WellBehavedHolds ==
  ASSUME Faulty = {}
  PROVE  Spec => []PiecesLeftAssert /\ []Accounting /\ []RenamedMeansIntact
<1>1. ASSUME TypeInv, CompletionInv, GoodInv, final # {},
             NEW p \in Pieces
      PROVE  content[p] = BlocksOf(p)
  <2>1. pieces_left = 0
    BY <1>1 DEF CompletionInv, GoodInv, Running
  <2>2. Missing = {}
    BY <1>1, <2>1, MissingFinite, FS_EmptySet DEF GoodInv, Accounting
  <2> QED
    BY <1>1, <2>2 DEF GoodInv
<1>2. TypeInv /\ CompletionInv /\ GoodInv
        => PiecesLeftAssert /\ Accounting /\ RenamedMeansIntact
  BY <1>1 DEF GoodInv, PiecesLeftAssert, RenamedMeansIntact
<1> QED
  BY <1>2, WellBehavedInv, PTL

\* With well-behaved peers the assertion on pieces_left holds, whichever threads
\* fetch a piece twice, close or finish at the same time.
THEOREM AssertionHolds ==
  ASSUME Faulty = {}
  PROVE  Spec => []PiecesLeftAssert
  BY WellBehavedHolds, PTL

\* With well-behaved peers pieces_left is exact.
THEOREM AccountingIsExact ==
  ASSUME Faulty = {}
  PROVE  Spec => []Accounting
  BY WellBehavedHolds, PTL

\* With well-behaved peers no file is renamed before all its bytes are right.
THEOREM RenamedWhenIntact ==
  ASSUME Faulty = {}
  PROVE  Spec => []RenamedMeansIntact
  BY WellBehavedHolds, PTL

\* With well-behaved peers a piece that is HAVE stays HAVE.
THEOREM NothingTakenBack ==
  ASSUME Faulty = {}
  PROVE  Spec => HaveIsForever
<1> DEFINE Inv == TypeInv /\ CompletionInv /\ GoodInv
           Keep == \A p \in Pieces :
                     piece_states[p] = "HAVE" => piece_states'[p] = "HAVE"
<1>1. Inv /\ Inv' /\ [Next]_vars => [Keep]_vars
  <2> SUFFICES ASSUME Inv, Inv', [Next]_vars PROVE Keep
    OBVIOUS
  <2>1. Missing' \subseteq Missing
    BY GoodCounting
  <2> QED
    BY <2>1 DEF Missing
<1>2. Spec => []Inv
  BY WellBehavedInv
<1>3. Spec => [][Next]_vars
  BY PTL DEF Spec
<1>4. Spec => [][Keep]_vars
  <2> HIDE DEF Inv, Keep
  <2> QED
    BY <1>1, <1>2, <1>3, PTL
<1> QED
  BY <1>4 DEF HaveIsForever

-----------------------------------------------------------------------------
(* local_have.  A thread's copy of the bit field is filled from the piece  *)
(* states and from events; an event is of a piece that was HAVE when it    *)
(* was announced, and with well-behaved peers it still is when it is read. *)

\* The places of a thread whose piece has passed the critical section of
\* handle_piece_dl_completion().
Recorded == {"complete", "rename", "announce"}

HaveInv ==
  \A c \in Conns :
    /\ \A p \in local_have[c] : p \notin Missing
    /\ \A k \in 1 .. Len(have_queue[c]) : have_queue[c][k] \notin Missing
    /\ pc[c] \in Recorded => request[c] \notin Missing

\* The steps that leave local_have and the queues alone and record no piece.
Deaf ==
  /\ UNCHANGED <<local_have, have_queue>>
  /\ \A c \in Conns :
       pc'[c] \in Recorded => pc[c] \in Recorded /\ request'[c] = request[c]

\* What a thread does with the pieces it has heard of.
Hears(c) ==
  \/ \E garbage \in SUBSET Pieces : Start(c, garbage)
  \/ Close(c)
  \/ \E p \in Pieces : SendRequestsFails(c, p)
  \/ \E p \in Pieces, good \in BOOLEAN : \E b \in BlocksOf(p) : RecvBlockFails(c, p, b, good)
  \/ PieceValid(c)
  \/ Announce(c)
  \/ \E n \in 1 .. MQ_MAXMSG : ServiceHaveEvents(c, n)

\* Every other step is deaf.
LEMMA DeafSteps ==
  ASSUME TypeInv, [Next]_vars
  PROVE  Deaf \/ \E c \in Conns : Hears(c)
<1> USE DEF Deaf, Recorded, sh, main, disk, conn, At, Running, Goto
<1>1. CASE UNCHANGED vars
  BY <1>1 DEF vars
<1>2. CASE RegisterConn
  BY <1>2 DEF RegisterConn
<1>3. CASE Halted
  BY <1>3 DEF Halted, vars
<1>4. ASSUME NEW c \in Conns, CreateConn(c) PROVE Deaf
  BY <1>4 DEF CreateConn, TypeInv, TypeOK
<1>5. ASSUME NEW c \in Conns,
             \/ RecvChoke(c)
             \/ RecvUnchoke(c)
             \/ LoseInterest(c)
             \/ \E p \in Pieces, sent \in BOOLEAN : RecvHave(c, p, sent)
             \/ \E pieces \in SUBSET Pieces, sent \in BOOLEAN :
                  RecvBitfield(c, pieces, sent)
      PROVE Deaf
  BY <1>5 DEF RecvChoke, RecvUnchoke, LoseInterest, RecvHave, RecvBitfield
<1>6. ASSUME NEW c \in Conns, NEW p \in Pieces, SendRequests(c, p) PROVE Deaf
  BY <1>6 DEF SendRequests, MayRequest, TypeInv, TypeOK
<1>7. ASSUME NEW c \in Conns, NEW p \in Pieces, NEW b \in BlocksOf(p),
             NEW good \in BOOLEAN, NEW found \in BOOLEAN,
             RecvBlock(c, p, b, good, found)
      PROVE Deaf
  BY <1>7 DEF RecvBlock, TypeInv, TypeOK
<1>8. ASSUME NEW c \in Conns, VerifyBlock(c) PROVE Deaf
  BY <1>8 DEF VerifyBlock, TypeInv, TypeOK
<1>9. ASSUME NEW c \in Conns, PieceInvalid(c) \/ TorrentComplete(c) PROVE Deaf
  BY <1>9 DEF PieceInvalid, TorrentComplete, TypeInv, TypeOK
<1>10. ASSUME NEW c \in Conns, RenameFile(c) PROVE Deaf
  BY <1>10 DEF RenameFile, TypeInv, TypeOK
<1> HIDE DEF Deaf
<1> QED
  BY <1>1, <1>2, <1>3, <1>4, <1>5, <1>6, <1>7, <1>8, <1>9, <1>10
  DEF Next, PeerStep, RequestStep, ThreadStep, Hears

\* HaveInv is inductive as long as nothing is taken back.
LEMMA HaveStep ==
  ASSUME TypeInv, TypeInv', HaveInv, Missing' \subseteq Missing, [Next]_vars
  PROVE  HaveInv'
<1> USE DEF HaveInv, Recorded, At, Goto
<1>1. CASE Deaf
  BY <1>1 DEF Deaf
<1>2. ASSUME NEW c \in Conns, NEW garbage \in SUBSET Pieces, Start(c, garbage)
      PROVE HaveInv'
  <2>1. \A p \in HavePieces : p \notin Missing
    BY DEF HavePieces, Missing
  <2> QED
    BY <1>2, <2>1 DEF Start, TypeInv, TypeOK
<1>3. ASSUME NEW c \in Conns, Discard(c) PROVE HaveInv'
  BY <1>3 DEF Discard, TypeInv, TypeOK
<1>4. ASSUME NEW c \in Conns, PieceValid(c) PROVE HaveInv'
  <2>1. request[c] \notin Missing'
    BY <1>4 DEF PieceValid, IsNew, Missing, TypeInv, TypeOK, sh
  <2>2. /\ UNCHANGED <<local_have, have_queue, request>>
        /\ \A d \in Conns \ {c} : pc'[d] = pc[d]
    BY <1>4 DEF PieceValid, conn, TypeInv, TypeOK
  <2> QED
    BY <2>1, <2>2
<1>5. ASSUME NEW c \in Conns, Announce(c) PROVE HaveInv'
  <2>1. request[c] \notin Missing /\ request[c] \in Pieces
    BY <1>5 DEF Announce, TypeInv, RequestInv, Handling
  <2>2. ASSUME NEW d \in Conns
        PROVE  /\ have_queue[d] \in Seq(Pieces)
               /\ \/ have_queue'[d] = have_queue[d]
                  \/ have_queue'[d] = Append(have_queue[d], request[c])
    BY <1>5 DEF Announce, TypeInv, TypeOK
  <2>3. ASSUME NEW d \in Conns, NEW k \in 1 .. Len(have_queue'[d])
        PROVE  have_queue'[d][k] \notin Missing
    <3>1. CASE have_queue'[d] = have_queue[d]
      BY <3>1
    <3>2. CASE have_queue'[d] = Append(have_queue[d], request[c])
      <4>1. /\ Len(have_queue'[d]) = Len(have_queue[d]) + 1
            /\ Len(have_queue[d]) \in Nat
        BY <2>1, <2>2, <3>2
      <4>2. CASE k = Len(have_queue[d]) + 1
        BY <2>1, <2>2, <3>2, <4>2
      <4>3. CASE k \in 1 .. Len(have_queue[d])
        BY <2>1, <2>2, <3>2, <4>3
      <4> QED
        BY <4>1, <4>2, <4>3
    <3> QED
      BY <2>2, <3>1, <3>2
  <2> QED
    BY <1>5, <2>3 DEF Announce, TypeInv, TypeOK
<1>6. ASSUME NEW c \in Conns, NEW n \in 1 .. MQ_MAXMSG, ServiceHaveEvents(c, n)
      PROVE HaveInv'
  <2>1. /\ n \in 1 .. Len(have_queue[c]) /\ have_queue[c] \in Seq(Pieces)
        /\ local_have'[c] = local_have[c] \cup {have_queue[c][k] : k \in 1 .. n}
        /\ have_queue'[c] = SubSeq(have_queue[c], n + 1, Len(have_queue[c]))
        /\ UNCHANGED <<pc, request>>
        /\ \A d \in Conns \ {c} : /\ have_queue'[d] = have_queue[d]
                                 /\ local_have'[d] = local_have[d]
    BY <1>6 DEF ServiceHaveEvents, TypeInv, TypeOK
  <2>2. \A p \in local_have'[c] : p \notin Missing
    BY <2>1
  <2>3. \A k \in 1 .. Len(have_queue'[c]) : have_queue'[c][k] \notin Missing
    BY <2>1
  <2> QED
    BY <2>1, <2>2, <2>3
<1> HIDE DEF HaveInv
<1> QED
  BY <1>1, <1>2, <1>3, <1>4, <1>5, <1>6, DeafSteps
  DEF Hears, Close, SendRequestsFails, RecvBlockFails

\* With well-behaved peers no thread's copy of the bit field claims a piece that
\* is not complete, however late the thread reads its events.
THEOREM NothingClaimed ==
  ASSUME Faulty = {}
  PROVE  Spec => []LocalHaveSound
<1> DEFINE Inv == TypeInv /\ CompletionInv /\ GoodInv
<1>1. Init => HaveInv
  BY DEF Init, HaveInv, Recorded
<1>2. Inv /\ Inv' /\ HaveInv /\ [Next]_vars => HaveInv'
  BY GoodCounting, HaveStep
<1>3. Inv /\ HaveInv => LocalHaveSound
  BY DEF HaveInv, LocalHaveSound, Missing, TypeInv, TypeOK
<1>4. Spec => []Inv
  BY WellBehavedInv
<1> QED
  <2> HIDE DEF Inv
  <2> QED
    BY <1>1, <1>2, <1>3, <1>4, PTL DEF Spec

-----------------------------------------------------------------------------
(* Download.  While the process runs, sh.completed is set exactly when     *)
(* pieces_left is 0; with well-behaved peers that is when nothing misses.  *)

SeedInv ==
  Running =>
    /\ completed <=> pieces_left = 0
    /\ \A c \in Conns : pc[c] = "rename" => state = "SEEDING"

DownloadInv ==
  TypeInv /\ CompletionInv /\ SeedInv /\ (Faulty = {} => GoodInv)

\* The steps that neither set sh.completed nor reach the files.
LEMMA SeedQuiet ==
  ASSUME TypeInv, [Next]_vars
  PROVE  \/ UNCHANGED <<completed, state>>
         \/ \E c \in Conns : PieceValid(c) \/ TorrentComplete(c)
<1> USE DEF sh, main, disk, conn
<1>1. CASE UNCHANGED vars
  BY <1>1 DEF vars
<1>2. CASE RegisterConn \/ Halted
  BY <1>2 DEF RegisterConn, Halted, vars
<1>3. ASSUME NEW c \in Conns, CreateConn(c) PROVE UNCHANGED <<completed, state>>
  BY <1>3 DEF CreateConn
<1>4. ASSUME NEW c \in Conns, PeerStep(c) PROVE UNCHANGED <<completed, state>>
  BY <1>4 DEF PeerStep, RequestStep, Start, Close, RecvChoke, RecvUnchoke,
     RecvHave, RecvBitfield, SendRequests, SendRequestsFails, LoseInterest,
     RecvBlock, RecvBlockFails
<1>5. ASSUME NEW c \in Conns, VerifyBlock(c) \/ PieceInvalid(c)
      PROVE  UNCHANGED <<completed, state>>
  BY <1>5 DEF VerifyBlock, PieceInvalid
<1>6. ASSUME NEW c \in Conns,
             \/ RenameFile(c)
             \/ Announce(c)
             \/ \E n \in 1 .. MQ_MAXMSG : ServiceHaveEvents(c, n)
      PROVE  UNCHANGED <<completed, state>>
  BY <1>6 DEF RenameFile, Announce, ServiceHaveEvents
<1> QED
  BY <1>1, <1>2, <1>3, <1>4, <1>5, <1>6 DEF Next, ThreadStep

\* SeedInv is inductive.
LEMMA SeedStep ==
  ASSUME TypeInv, CompletionInv, SeedInv, [Next]_vars
  PROVE  SeedInv'
<1> USE DEF SeedInv, Running
<1>1. ASSUME Quiet, UNCHANGED <<completed, state>> PROVE SeedInv'
  BY <1>1 DEF Quiet, Completing
<1>2. ASSUME NEW c \in Conns, PieceInvalid(c) PROVE SeedInv'
  BY <1>2 DEF PieceInvalid, At, Goto, TypeInv, TypeOK
<1>3. ASSUME NEW c \in Conns, PieceValid(c) PROVE SeedInv'
  <2>1. CASE ~IsNew(request[c])
    BY <1>3, <2>1 DEF PieceValid, At, Goto, TypeInv, TypeOK, sh
  <2>2. CASE IsNew(request[c])
    <3>1. /\ failed_assert = "none" /\ UNCHANGED state
          /\ pieces_left' = Dec(pieces_left)
          /\ failed_assert' = (IF pieces_left' < NumPieces THEN "none" ELSE "pieces_left")
          /\ completed' = (completed \/ pieces_left' = 0)
          /\ \A d \in Conns : pc'[d] = "rename" => pc[d] = "rename"
      BY <1>3, <2>2 DEF PieceValid, At, Goto, NoneLeft, TypeInv, TypeOK
    <3>2. pieces_left \in 0 .. WORD - 1
      BY DEF TypeInv, TypeOK
    <3>3. pieces_left = 0 => failed_assert' # "none"
      BY <3>1, SizesAssumption DEF Dec
    <3>4. completed' <=> completed \/ pieces_left' = 0
      BY <3>1
    <3> QED
      BY <3>1, <3>2, <3>3, <3>4
  <2> QED
    BY <2>1, <2>2
<1>4. ASSUME NEW c \in Conns, TorrentComplete(c) PROVE SeedInv'
  <2>1. pieces_left = 0 /\ pieces_left' = pieces_left
    BY <1>4 DEF TorrentComplete, At, CompletionInv, Completing
  <2> QED
    BY <1>4, <2>1 DEF TorrentComplete
<1>5. ASSUME NEW c \in Conns, RenameFile(c) PROVE SeedInv'
  <2>1. /\ UNCHANGED <<completed, state, pieces_left>> /\ failed_assert = "none"
        /\ pc[c] = "rename"
    BY <1>5 DEF RenameFile, At, sh
  <2> QED
    BY <2>1
<1> HIDE DEF SeedInv
<1> QED
  BY <1>1, <1>2, <1>3, <1>4, <1>5, QuietSteps, SeedQuiet DEF Counting

\* With well-behaved peers a piece that is in the files stays there.
LEMMA IntactGrows ==
  ASSUME TypeInv, TypeInv', Faulty = {}, [Next]_vars
  PROVE  Intact \subseteq Intact'
<1>1. \A q \in Pieces : content[q] \subseteq content'[q]
  BY LocalSteps, OtherSteps, ContentGrows
<1>2. \A q \in Pieces : content'[q] \subseteq BlocksOf(q)
  BY DEF TypeInv, TypeOK
<1> QED
  BY <1>1, <1>2 DEF Intact

\* A step that counts no piece and completes nothing is at most a write.
LEMMA QuietWrites ==
  ASSUME TypeInv, TypeInv', [Next]_vars, Quiet, UNCHANGED <<completed, state>>
  PROVE  D!Write
<1>1. Intact' \in SUBSET Pieces
  BY DEF Intact
<1>2. (Faulty = {}) => Intact \subseteq Intact'
  BY IntactGrows
<1> QED
  BY <1>1, <1>2 DEF Quiet, D!Write

\* A new piece is obtained.
LEMMA NewObtained ==
  ASSUME DownloadInv, DownloadInv', [Next]_vars,
         NEW c \in Conns, PieceValid(c), IsNew(request[c])
  PROVE  request[c] \in Pieces /\ D!Obtain(request[c])
<1> DEFINE p == request[c]
<1>1. /\ p \in Missing /\ Missing' = Missing \ {p}
      /\ pieces_left' = Dec(pieces_left)
  BY CountStep DEF DownloadInv
<1>2. /\ UNCHANGED <<state, content, final>>
      /\ completed' = (completed \/ pieces_left' = 0)
      /\ failed_assert' = (IF pieces_left' < NumPieces THEN "none" ELSE "pieces_left")
      /\ failed_assert = "none" /\ pc[c] = "valid"
  BY DEF PieceValid, At, Running, NoneLeft, disk
<1>3. /\ completed <=> pieces_left = 0
      /\ pieces_left \in 0 .. WORD - 1 /\ completed \in BOOLEAN
      /\ pieces_left =< Cardinality(Missing)
  BY <1>2 DEF DownloadInv, SeedInv, Running, TypeInv, TypeOK, CompletionInv,
     NeverOvercounted
<1>4. /\ p \in Pieces /\ p \notin Pieces \ Missing
      /\ (Pieces \ Missing)' = (Pieces \ Missing) \cup {p}
  BY <1>1 DEF Missing
<1>5. (Pieces \ Missing)' = Pieces <=> Missing' = {}
  BY DEF Missing
<1>6. Missing' = {} => completed'
  <2> SUFFICES ASSUME Missing' = {} PROVE completed'
    OBVIOUS
  <2>1. Missing = {p}
    BY <1>1
  <2>2. Cardinality(Missing) = 1
    BY <2>1, FS_Singleton
  <2>3. pieces_left \in {0, 1}
    BY <1>3, <2>2
  <2>4. pieces_left = 1 => pieces_left' = 0
    BY <1>1 DEF Dec
  <2> QED
    BY <1>2, <1>3, <2>3, <2>4
<1>7. ASSUME Faulty = {}
      PROVE  p \in Intact /\ (completed' <=> Missing' = {})
  <2>1. content[p] = BlocksOf(p)
    BY <1>2, <1>7 DEF DownloadInv, GoodInv
  <2>2. /\ failed_assert' = "none"
        /\ pieces_left' = Cardinality(Missing')
    BY <1>7 DEF DownloadInv, GoodInv, Accounting
  <2>3. completed' <=> pieces_left' = 0
    BY <2>2 DEF DownloadInv, SeedInv, Running
  <2>4. IsFiniteSet(Missing')
    BY <1>1, MissingFinite, FS_Subset
  <2> QED
    BY <1>4, <2>1, <2>2, <2>3, <2>4, FS_EmptySet DEF Intact
<1>8. completed' \in BOOLEAN /\ Intact' = Intact /\ (completed => completed')
  BY <1>2, <1>3 DEF Intact
<1> HIDE DEF p
<1>9. D!Obtain(p)
  BY <1>2, <1>4, <1>5, <1>6, <1>7, <1>8 DEF D!Obtain
<1> QED
  BY <1>4, <1>9 DEF p

\* Every step of a thread is a step of Download, or none.
LEMMA DownloadStep ==
  ASSUME DownloadInv, DownloadInv', [Next]_vars
  PROVE  [D!Next]_(D!vars)
<1> SUFFICES D!Next \/ UNCHANGED D!vars
  OBVIOUS
<1>1. ASSUME NEW c \in Conns, PieceInvalid(c) PROVE D!Next
  <2>1. /\ pc[c] = "invalid"
        /\ UNCHANGED <<content, completed, state, final>>
        /\ piece_states' = [piece_states EXCEPT ![request[c]] = "NOT_REQUESTED"]
    BY <1>1 DEF PieceInvalid, At, disk
  <2>2. request[c] \in Pieces
    BY <2>1 DEF DownloadInv, TypeInv, RequestInv, Handling
  <2>3. Faulty # {}
    BY <2>1 DEF DownloadInv, GoodInv
  <2>4. Missing' = Missing \cup {request[c]}
    BY <2>1, <2>2, MissingStep DEF DownloadInv
  <2>5. (Pieces \ Missing)' = (Pieces \ Missing) \ {request[c]} /\ Intact' = Intact
    BY <2>1, <2>4 DEF Intact
  <2>6. D!Lose(request[c])
    BY <2>1, <2>3, <2>5 DEF D!Lose
  <2> QED
    BY <2>2, <2>6 DEF D!Next
<1>2. ASSUME NEW c \in Conns, PieceValid(c), ~IsNew(request[c])
      PROVE  UNCHANGED D!vars
  <2>1. UNCHANGED <<piece_states, completed, state, content, final>>
    BY <1>2 DEF PieceValid, sh, disk
  <2> QED
    BY <2>1 DEF D!vars, Intact, Missing
<1>3. ASSUME NEW c \in Conns, PieceValid(c), IsNew(request[c])
      PROVE  D!Next
  BY <1>3, NewObtained DEF D!Next
<1>4. ASSUME NEW c \in Conns, TorrentComplete(c) PROVE D!Next
  <2>1. /\ UNCHANGED <<piece_states, content, final>>
        /\ completed' = TRUE /\ state' = "SEEDING"
        /\ failed_assert = "none" /\ pc[c] = "complete"
    BY <1>4 DEF TorrentComplete, At, Running, disk
  <2>2. completed = TRUE
    BY <2>1 DEF DownloadInv, SeedInv, CompletionInv, Completing, Running,
       TypeInv, TypeOK
  <2>3. D!Seed
    BY <2>1, <2>2 DEF D!Seed, Intact, Missing
  <2> QED
    BY <2>3 DEF D!Next
<1>5. ASSUME NEW c \in Conns, RenameFile(c) PROVE D!Next
  <2>1. /\ UNCHANGED <<piece_states, completed, state, content>>
        /\ final' = final \cup {i[c]}
        /\ failed_assert = "none" /\ pc[c] = "rename"
    BY <1>5 DEF RenameFile, At, Running, sh
  <2>2. /\ state = "SEEDING" /\ final = 0 .. i[c] - 1
        /\ i[c] \in 0 .. NumFiles - 1
    BY <2>1 DEF DownloadInv, SeedInv, CompletionInv, Running, TypeInv,
       RequestInv, Files
  <2>3. final' = 0 .. i[c]
    BY <2>1, <2>2
  <2>4. D!Rename(i[c])
    BY <2>1, <2>2, <2>3 DEF D!Rename, Intact, Missing
  <2> QED
    BY <2>2, <2>4 DEF D!Next
<1>6. ASSUME Quiet, UNCHANGED <<completed, state>> PROVE D!Next
  BY <1>6, QuietWrites DEF DownloadInv, D!Next
<1> QED
  BY <1>1, <1>2, <1>3, <1>4, <1>5, <1>6, QuietSteps, SeedQuiet
  DEF Counting, DownloadInv

\* The threads of peer_connection.c together implement Download, for any peers
\* and any interleaving: each piece counts once, the thread that obtains the
\* last one completes the torrent, and only then are the files renamed, in order.
\* With well-behaved peers what is obtained is in the files and stays there.
THEOREM ImplementsDownload == Spec => Downloads
<1>1. Init => DownloadInv
  <2>1. Init => SeedInv
    BY SizesAssumption DEF Init, SeedInv
  <2> QED
    BY <2>1, TypeInit, CompletionInit, GoodInit DEF DownloadInv
<1>2. DownloadInv /\ [Next]_vars => DownloadInv'
  BY TypeStep, CompletionStep, SeedStep, GoodStep DEF DownloadInv
<1>3. Init => D!Init
  <2> SUFFICES ASSUME Init PROVE D!Init
    OBVIOUS
  <2>1. Pieces \ Missing = {} /\ Intact \in SUBSET Pieces
    BY DEF Init, Missing, Intact
  <2> QED
    BY <2>1 DEF Init, D!Init
<1>4. DownloadInv /\ DownloadInv' /\ [Next]_vars => [D!Next]_(D!vars)
  BY DownloadStep
<1> QED
  BY <1>1, <1>2, <1>3, <1>4, PTL DEF Spec, Downloads, D!Spec
=============================================================================
