--------------------------- MODULE MCPieceRequest ---------------------------
(***************************************************************************)
(* An instance of PieceRequest for TLC: blocks of 2 bytes, pieces of 1 to  *)
(* 4 bytes, every layout of up to 4 files of up to 8 bytes in all.         *)
(***************************************************************************)
EXTENDS PieceRequest

OneToFour == 1 .. 4
=============================================================================
