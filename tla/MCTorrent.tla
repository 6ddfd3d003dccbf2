----------------------------- MODULE MCTorrent -----------------------------
(***************************************************************************)
(* Instances of Torrent for TLC.                                           *)
(***************************************************************************)
EXTENDS Torrent, TLC

CONSTANTS c1, c2

OneConn  == {c1}
TwoConns == {c1, c2}
NoneFaulty == {}
OneFaulty  == {c1}

\* Threads are interchangeable as long as all their peers behave alike.
Symmetry == Permutations(Conns)
=============================================================================
