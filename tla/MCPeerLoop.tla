----------------------------- MODULE MCPeerLoop -----------------------------
(***************************************************************************)
(* An instance of PeerLoop for TLC.  4 and 2 seconds stand for the 120 and *)
(* 60 of the code.                                                         *)
(***************************************************************************)
EXTENDS PeerLoop

CONSTANTS r1, r2
Requests == {r1, r2}
=============================================================================
