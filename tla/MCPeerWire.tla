----------------------------- MODULE MCPeerWire -----------------------------
(***************************************************************************)
(* An instance of PeerWire for TLC.  A handshake of 2 bytes stands for 68, *)
(* a block of 2 bytes for 16384, an info hash of 3 bytes for 20.           *)
(***************************************************************************)
EXTENDS PeerWire

Sent == {"BITFIELD", "UNCHOKE", "HAVE", "PIECE", "KEEPALIVE"}

\* Other programs send blocks, also shorter ones than were asked for.
Blocks == {[type |-> "PIECE", len |-> 11], [type |-> "PIECE", len |-> 10]}

\* Lengths that are valid for some type, and one that is for none.
Lens == {0, 1, 11, 3}

\* Hashes that differ before, at and behind the zero byte.
OurHash  == <<1, 0, 2>>
HashesOf == {<<1, 0, 2>>, <<2, 0, 2>>, <<1, 3, 2>>, <<1, 0, 3>>}
=============================================================================
