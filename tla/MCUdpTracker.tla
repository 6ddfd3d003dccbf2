---------------------------- MODULE MCUdpTracker ----------------------------
(***************************************************************************)
(* Instances of UdpTracker for TLC.  The buffer of 32 bytes stands for the *)
(* 2048 of the code: both leave room for a whole number of peers.          *)
(***************************************************************************)
EXTENDS UdpTracker

TwoIds == {0, 1}

\* As they should be; an announce answer may be longer than the buffer.
WellFormedConnect  == {16}
WellFormedAnnounce == {20, 26, 38}
WellFormedError    == {8, 26}

\* Besides: a connect answer that is too short, an announce answer with half a
\* peer.
AnyConnect  == WellFormedConnect \cup {12}
AnyAnnounce == WellFormedAnnounce \cup {12, 23}
=============================================================================
