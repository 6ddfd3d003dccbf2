---------------------------- MODULE MCRingQueue ----------------------------
(***************************************************************************)
(* An instance of RingQueue for TLC.                                       *)
(***************************************************************************)
EXTENDS RingQueue, TLC

CONSTANTS a, b, c

ThreeEntries == {a, b, c}

=============================================================================
