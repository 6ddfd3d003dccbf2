------------------------------ MODULE Download ------------------------------
(***************************************************************************)
(* What the connection threads of a torrent promise together, without any  *)
(* thread: pieces are obtained one by one, the last one completes the      *)
(* torrent, and then the files get their final names, each once and in     *)
(* order.  If all peers can be trusted, a piece is obtained once, when its *)
(* bytes are in the files, and both stay so; otherwise pieces may be lost, *)
(* and the torrent may be complete too early, never too late.              *)
(***************************************************************************)
EXTENDS Integers

CONSTANTS
  Piece,     \* the pieces of the torrent
  Trusted,   \* all peers send what was asked for
  LastName   \* files 0 .. LastName have to be renamed

VARIABLES
  whole,     \* pieces whose bytes are in the files
  have,      \* pieces that are obtained
  complete,  \* the torrent is complete
  role,      \* LEECHING or SEEDING
  renamed    \* files that have their final names

Init ==
  /\ whole \in SUBSET Piece
  /\ have = {}
  /\ complete = FALSE
  /\ role = "LEECHING"
  /\ renamed = {}

Write ==
  /\ whole' \in SUBSET Piece
  /\ Trusted => whole \subseteq whole'
  /\ UNCHANGED <<have, complete, role, renamed>>

Obtain(p) ==
  /\ p \notin have
  /\ Trusted => p \in whole
  /\ have' = have \cup {p}
  /\ complete' \in BOOLEAN
  /\ complete \/ have' = Piece => complete'
  /\ Trusted => (complete' <=> have' = Piece)
  /\ UNCHANGED <<whole, role, renamed>>

Lose(p) ==
  /\ ~Trusted
  /\ have' = have \ {p}
  /\ UNCHANGED <<whole, complete, role, renamed>>

Seed ==
  /\ complete
  /\ role' = "SEEDING"
  /\ UNCHANGED <<whole, have, complete, renamed>>

Rename(f) ==
  /\ role = "SEEDING"
  /\ renamed = 0 .. f - 1
  /\ renamed' = 0 .. f
  /\ UNCHANGED <<whole, have, complete, role>>

Next ==
  \/ Write
  \/ \E p \in Piece : Obtain(p) \/ Lose(p)
  \/ Seed
  \/ \E f \in 0 .. LastName : Rename(f)

vars == <<whole, have, complete, role, renamed>>

Spec == Init /\ [][Next]_vars
=============================================================================
