----------------------------- MODULE HttpTracker -----------------------------
(***************************************************************************)
(* tracker_http.c and tracker_https.c: one announce to an HTTP tracker, by *)
(* a socket of our own, or to an HTTPS tracker, by libcurl.                *)
(*                                                                         *)
(* An answer is a number of bytes; its parts end at the positions that its *)
(* fields give.  What the parser makes of an answer depends on how many of *)
(* its bytes are in the zeroed buffer.  (The lexer looks at the bytes, not *)
(* at their number: Content-Length is read and never used.)                *)
(***************************************************************************)
EXTENDS Integers

CONSTANTS
  Protocols,   \* "HTTP", "HTTPS"
  Replies,     \* the tracker's possible answers, see Answer
  BUF,         \* sizeof(buf): 2048
  CHUNK,       \* sizeof(curl_response_t.data): 4096
  PEER,        \* bytes of a peer: 6
  WORD         \* size_t counts modulo WORD

\* ok: the status is 200; failure: the dictionary is a failure reason.
\* Positions: status, head (the empty line), ikey (the key "interval"), ints
\* (its value), pkey (the key "peers"), plist (the length of the list), size.
Answer ==
  [ok : BOOLEAN, failure : BOOLEAN, status : Nat, head : Nat, ikey : Nat,
   ints : Nat, pkey : Nat, plist : Nat, peers : Nat, size : Nat]

\* What the constants are to be.
HttpAssumption ==
  /\ Protocols \subseteq {"HTTP", "HTTPS"}
  /\ BUF \in Nat \ {0} /\ CHUNK \in Nat \ {0} /\ PEER \in Nat \ {0}
  /\ WORD \in Nat /\ WORD > 2 * BUF
  /\ Replies \subseteq Answer
  /\ \A a \in Replies :
       /\ 0 < a.status /\ a.status =< a.head /\ a.head =< a.ikey
       /\ a.ikey =< a.ints /\ a.ints =< a.pkey /\ a.pkey =< a.plist
       /\ a.size = a.plist + PEER * a.peers + 1

VARIABLES
  pc,             \* recv, curl, received, parse, returned, aborted, crashed
  protocol,
  answer,         \* what the tracker sends
  stream,         \* the connection: open, closed by the tracker, reset
  limit,          \* bytes of the answer that get through
  got,            \* bytes received
  total_received, \* the size_t
  top,            \* the end of what was written to the buffer
  chunks,         \* calls of write_callback(): 0, 1, 2 or more
  res,            \* what is returned
  num_peers       \* res->num_peers

conn == <<protocol, answer, stream, limit>>
vars == <<pc, conn, got, total_received, top, chunks, res, num_peers>>

Ended == {"returned", "aborted", "crashed"}

\* NULL; a response; one with an interval that was not sent; one with only a
\* failure reason; one made of bytes that are not the answer.
Results == {"null", "response", "no_interval", "failure", "garbage"}

TypeOK ==
  /\ pc \in {"recv", "curl", "received", "parse"} \cup Ended
  /\ protocol \in Protocols
  /\ answer \in Replies
  /\ stream \in {"open", "closed", "reset"}
  /\ limit \in 0 .. answer.size
  /\ got \in 0 .. limit
  /\ total_received \in 0 .. WORD - 1
  /\ top \in Nat
  /\ chunks \in 0 .. 2
  /\ res \in Results
  /\ num_peers \in Nat

\* libcurl reads the headers by itself.
Init ==
  /\ protocol \in Protocols
  /\ answer \in Replies
  /\ pc = IF protocol = "HTTP" THEN "recv" ELSE "curl"
  /\ stream = "open"
  /\ limit = answer.size
  /\ got = IF protocol = "HTTP" THEN 0 ELSE answer.head
  /\ total_received = 0
  /\ top = 0
  /\ chunks = 0
  /\ res = "null"
  /\ num_peers = 0

-----------------------------------------------------------------------------
(* The tracker (external): it closes the connection after its answer or    *)
(* before, or the connection is reset.                                     *)

TrackerCloses ==
  /\ stream = "open"
  /\ stream' = "closed"
  /\ limit' \in got .. answer.size
  /\ UNCHANGED <<pc, protocol, answer, got, total_received, top, chunks, res,
                 num_peers>>

Reset ==
  /\ stream = "open"
  /\ stream' = "reset"
  /\ limit' = got
  /\ UNCHANGED <<pc, protocol, answer, got, total_received, top, chunks, res,
                 num_peers>>

-----------------------------------------------------------------------------
(* http_announce(): the loop around recv().                                *)

\* MUTANT: a byte is added for the terminating zero.
Room_Extra == (BUF + 1 - total_received) % WORD

\* MUTANT: the end of the buffer is not used.
Room_Less == IF total_received + 4 >= BUF THEN 0 ELSE BUF - 4 - total_received

\* sizeof(buf) - total_received
Room == (BUF - total_received) % WORD

Plus(a, b) == (a + b) % WORD

\* MUTANT: the loop ends with the first bytes.
AfterRecv_Once == "received"

\* while (n > 0)
AfterRecv == "recv"

RecvBytes(k) ==
  /\ pc = "recv"
  /\ k =< limit - got
  /\ k =< Room
  /\ got' = got + k
  /\ total_received' = Plus(total_received, k)
  /\ top' = total_received + k
  /\ pc' = AfterRecv
  /\ UNCHANGED <<conn, chunks, res, num_peers>>

\* recv() returns -1, which a size_t holds as WORD - 1: no error is found and
\* the loop goes on.  The next recv() finds the end of the stream.
RecvError ==
  /\ pc = "recv"
  /\ stream = "reset"
  /\ total_received' = Plus(total_received, WORD - 1)
  /\ stream' = "closed"
  /\ UNCHANGED <<pc, protocol, answer, limit, got, top, chunks, res, num_peers>>

\* recv() returns 0: at the end of the stream, and when there is no room.
AtEnd == Room = 0 \/ (stream = "closed" /\ got = limit)

RecvEnd ==
  /\ pc = "recv"
  /\ AtEnd
  /\ pc' = "received"
  /\ UNCHANGED <<conn, got, total_received, top, chunks, res, num_peers>>

\* assert(total_received < 2048)
Received ==
  /\ pc = "received"
  /\ pc' = IF total_received < BUF THEN "parse" ELSE "aborted"
  /\ UNCHANGED <<conn, got, total_received, top, chunks, res, num_peers>>

-----------------------------------------------------------------------------
(* https_announce(): the calls of write_callback().                        *)

\* assert(res->size <= 4096)
Fits(k) == k =< CHUNK

\* Each chunk is written to the start of the buffer, over the one before.
WriteCallback(k) ==
  /\ pc = "curl"
  /\ k =< limit - got
  /\ IF Fits(k)
     THEN got' = got + k /\ top' = k /\ UNCHANGED pc
     ELSE pc' = "aborted" /\ UNCHANGED <<got, top>>
  /\ chunks' = IF chunks < 2 THEN chunks + 1 ELSE chunks
  /\ UNCHANGED <<conn, total_received, res, num_peers>>

\* CURLE_OK: all of the body has come.
CurlOk ==
  /\ pc = "curl"
  /\ got = answer.size
  /\ pc' = "parse"
  /\ UNCHANGED <<conn, got, total_received, top, chunks, res, num_peers>>

CurlFails ==
  /\ pc = "curl"
  /\ pc' = "returned"
  /\ UNCHANGED <<conn, got, total_received, top, chunks, res, num_peers>>

-----------------------------------------------------------------------------
(* parse_tracker_response() and parse_content().                           *)

\* The buffer holds the answer from its start.
InBuffer == protocol = "HTTP" \/ chunks = 1

Return(r, n) ==
  /\ pc' = "returned"
  /\ res' = r
  /\ num_peers' = n
  /\ UNCHANGED <<conn, got, total_received, top, chunks>>

\* A null pointer is followed: strtok_r() finds no line, or the dictionary
\* lacks a key.
Crash ==
  /\ pc' = "crashed"
  /\ UNCHANGED <<conn, got, total_received, top, chunks, res, num_peers>>

StatusOk == got >= answer.status /\ answer.ok

\* libcurl takes any status for an answer.
ParseStatus ==
  /\ pc = "parse"
  /\ protocol = "HTTP"
  /\ ~StatusOk
  /\ Return("null", 0)

\* The dictionary can be read.
Parsable ==
  /\ pc = "parse"
  /\ protocol = "HTTP" => StatusOk
  /\ InBuffer
  /\ answer.ok

\* The headers, or the keys up to "interval", are not all there.
ParseTruncated ==
  /\ Parsable
  /\ got < answer.ikey
  /\ Crash

\* Only the failure reason is set; interval, num_peers and peers are not.
ParseFailure ==
  /\ Parsable
  /\ got >= answer.ikey
  /\ answer.failure
  /\ \E n \in 0 .. 1 : Return("failure", n)

\* "interval" has no value, or a part of one, which is taken for 0.
ParseNoInterval ==
  /\ Parsable
  /\ ~answer.failure
  /\ got \in answer.ikey .. answer.ints - 1
  /\ Return("no_interval", 0)

\* "Tracker returned no peers"
ParseNoPeers ==
  /\ Parsable
  /\ ~answer.failure
  /\ got \in answer.ints .. answer.pkey - 1
  /\ Return("response", 0)

\* "peers" has no value: its length is whatever is in memory, and may fail the
\* assertion that it is a multiple of 6.
ParseBadPeers ==
  /\ Parsable
  /\ ~answer.failure
  /\ got \in answer.pkey .. answer.plist - 1
  /\ \/ Crash
     \/ pc' = "aborted"
        /\ UNCHANGED <<conn, got, total_received, top, chunks, res, num_peers>>
     \/ Return("garbage", 1)

\* All the peers that the length of the list stands for, with zeros for those
\* that have not come.
ParsePeers ==
  /\ Parsable
  /\ ~answer.failure
  /\ got >= answer.plist
  /\ answer.peers > 0
  /\ Return("response", answer.peers)

\* The lexer copies an empty string until i = n - 1, which is the largest size_t.
ParseEmptyList ==
  /\ Parsable
  /\ ~answer.failure
  /\ got >= answer.plist
  /\ answer.peers = 0
  /\ Crash

\* The last chunk of an answer, or an error page of an HTTPS tracker, is no
\* dictionary; what parse_item() returns was never set.
ParseGarbage ==
  /\ pc = "parse"
  /\ protocol = "HTTPS"
  /\ ~InBuffer \/ ~answer.ok
  /\ Crash \/ Return("garbage", 1)

-----------------------------------------------------------------------------

Parse ==
  \/ ParseStatus \/ ParseTruncated \/ ParseFailure \/ ParseNoInterval
  \/ ParseNoPeers \/ ParseBadPeers \/ ParsePeers
  \/ ParseEmptyList \/ ParseGarbage

Step ==
  \/ \E k \in 1 .. limit - got : RecvBytes(k) \/ WriteCallback(k)
  \/ RecvError \/ RecvEnd \/ Received
  \/ CurlOk \/ CurlFails
  \/ Parse

Done == pc \in Ended /\ UNCHANGED vars

Next == Step \/ TrackerCloses \/ Reset \/ Done

Spec == Init /\ [][Next]_vars

\* A sequential function; recv() returns when there is something to return.
FairSpec == Spec /\ WF_vars(Step)

-----------------------------------------------------------------------------

Broken == limit < answer.size

PeersReceived ==
  IF got < answer.plist THEN 0
  ELSE LET whole == (got - answer.plist) \div PEER
       IN  IF whole < answer.peers THEN whole ELSE answer.peers

\* recv() and write_callback() write inside their buffers, although an error
\* turns total_received back, from 0 to the largest size_t.
InsideBuffer == top =< (IF protocol = "HTTP" THEN BUF ELSE CHUNK)

\* A whole answer of status 200, with peers, that leaves room for a terminating zero is
\* returned with all its peers, however it is cut into segments; over HTTPS if
\* it comes in one chunk.
WholeAnswer ==
  /\ pc \in Ended
  /\ ~Broken /\ answer.ok /\ ~answer.failure /\ answer.peers > 0
  /\ IF protocol = "HTTP" THEN answer.size < BUF
     ELSE chunks = 1 /\ answer.size - answer.head =< CHUNK
  => /\ pc = "returned"
     /\ \/ res = "response" /\ num_peers = answer.peers
           /\ PeersReceived = answer.peers
        \/ res = "null" /\ protocol = "HTTPS"

\* main connects to peers that were not sent only if the connection broke off
\* in the middle of the answer, if the tracker reported a failure, or if an
\* HTTPS answer came in several chunks or was an error page.
NoInventedPeers ==
  pc = "returned" /\ num_peers > PeersReceived =>
    \/ Broken
    \/ answer.failure
    \/ protocol = "HTTPS" /\ (chunks = 2 \/ ~answer.ok)

\* http_announce() returns, or the process ends, once the tracker has closed
\* the connection or filled the buffer.
Returns == (protocol = "HTTP" /\ (stream # "open" \/ Room = 0)) ~> (pc \in Ended)
=============================================================================
