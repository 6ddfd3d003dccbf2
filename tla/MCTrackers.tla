----------------------------- MODULE MCTrackers -----------------------------
(***************************************************************************)
(* An instance of Trackers for TLC.  Of the HTTP client, a buffer of 14    *)
(* bytes stands for 2048, a chunk of 10 for 4096, peers of 2 bytes for 6.  *)
(***************************************************************************)
EXTENDS Trackers, MCUdpTracker

Both == {"HTTP", "HTTPS"}

Answer(ok, failure, k) ==
  [ok |-> ok, failure |-> failure, status |-> 1, head |-> 3, ikey |-> 4,
   ints |-> 6, pkey |-> 7, plist |-> 8, peers |-> k, size |-> 9 + 2 * k]

\* With 2 peers an answer fits, with 3 it does not.
SomeReplies ==
  {Answer(TRUE, FALSE, k) : k \in {0, 2, 3}}
    \cup {Answer(TRUE, TRUE, 0), Answer(FALSE, FALSE, 0)}
=============================================================================
