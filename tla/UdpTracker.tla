----------------------------- MODULE UdpTracker -----------------------------
(***************************************************************************)
(* tracker_udp.c: udp_announce(), one announce to a UDP tracker over a     *)
(* network that loses, delays, duplicates and reorders datagrams.  Sending *)
(* may fail; recv() returns the datagram or -1 after a timeout, which is   *)
(* stored in a size_t and therefore never recognised as an error.          *)
(*                                                                         *)
(* The tracker is external: it answers a request with the right kind of    *)
(* datagram or with an error, of any of the given sizes.                   *)
(***************************************************************************)
EXTENDS Integers, FiniteSets

CONSTANTS
  TxIds,              \* transaction ids, 0 (a zeroed buffer) among them
  ConnectSizes,       \* sizes of connect answers
  AnnounceSizes,      \* sizes of announce answers
  ErrorSizes,         \* sizes of error answers
  MAX_RECV_BUFSIZE,
  SIZE_MAX            \* what -1 becomes in a size_t

CONNECT_RES == 16     \* sizeof(udp_connect_res_t)
HEADER      == 20     \* sizeof(udp_announce_res_header_t)
MAX_TRIES   == 8

ASSUME UdpAssumption ==
  /\ 0 \in TxIds
  /\ ConnectSizes \cup AnnounceSizes \cup ErrorSizes \subseteq Nat
  /\ MAX_RECV_BUFSIZE \in Nat /\ MAX_RECV_BUFSIZE >= HEADER
  /\ SIZE_MAX \in Nat /\ SIZE_MAX > MAX_RECV_BUFSIZE
  /\ SIZE_MAX % 6 = 3    \* true of 2^32 - 1 and of 2^64 - 1

VARIABLES
  pc,              \* where udp_announce() is
  n,               \* attempts
  transaction_id,
  expired,         \* CONNECTION_EXPIRED(request_time)
  net,             \* datagrams on their way from the tracker
  dgram_size,
  res,             \* the last datagram, or zeros if there was none
  num_peers,       \* of the response
  failed_assert    \* the assertion that stopped the process, or "none"

vars == <<pc, n, transaction_id, expired, net, dgram_size, res, num_peers,
          failed_assert>>

Actions == {"CONNECT", "ANNOUNCE", "ERROR"}

Datagram == [action : Actions, size : Nat, tid : TxIds]

\* A buffer of zeros: action 0 is CONNECT.
Zeros == [action |-> "CONNECT", size |-> 0, tid |-> 0]

Returned == {"response", "null", "aborted"}

TypeOK ==
  /\ pc \in {"connect", "connect_recv", "connected", "announce",
             "announce_recv", "answered"} \cup Returned
  /\ n \in Nat
  /\ transaction_id \in TxIds
  /\ expired \in BOOLEAN
  /\ net \subseteq Datagram
  /\ dgram_size \in 0 .. SIZE_MAX
  /\ res \in Datagram
  /\ num_peers \in Nat
  /\ failed_assert \in {"none", "dgram_size", "peer_buf_len"}

Init ==
  /\ pc = "connect"
  /\ n = 0
  /\ transaction_id \in TxIds
  /\ expired = FALSE
  /\ net = {}
  /\ dgram_size = 0
  /\ res = Zeros
  /\ num_peers = 0
  /\ failed_assert = "none"

-----------------------------------------------------------------------------
(* The network and the tracker (external).                                 *)

\* The tracker's answers to a request of this kind.
Answers(action, sizes, tid) ==
  [action : {action}, size : sizes, tid : {tid}]
    \cup [action : {"ERROR"}, size : ErrorSizes, tid : {tid}]

\* The request is sent; it is lost, or one answer is on its way.
Sent(action, sizes) ==
  \/ UNCHANGED net
  \/ \E d \in Answers(action, sizes, transaction_id) : net' = net \cup {d}

\* recv() of at most max bytes: a datagram (which may come once more), cut off
\* at max, or a timeout, which leaves the buffer as it is.
Receive(max) ==
  \/ \E d \in net :
       /\ res' = d
       /\ dgram_size' = IF d.size < max THEN d.size ELSE max
       /\ net' \in {net, net \ {d}}
  \/ dgram_size' = SIZE_MAX /\ UNCHANGED <<res, net>>

-----------------------------------------------------------------------------
(* Connecting: udp_tryconnect() and its loop.                              *)

\* timeout(n++)
Try(k) == k + 1

TooMany(k) == k = MAX_TRIES

ConnectSend ==
  /\ pc = "connect"
  /\ n' = Try(n)
  /\ Sent("CONNECT", ConnectSizes)
  /\ pc' = "connect_recv"
  /\ UNCHANGED <<transaction_id, expired, dgram_size, res, num_peers,
                 failed_assert>>

\* send() fails: with EAGAIN it is tried again, at most 8 times in all.
ConnectSendFails(again) ==
  /\ pc = "connect"
  /\ n' = Try(n)
  /\ pc' = IF TooMany(n') \/ ~again THEN "null" ELSE "connect"
  /\ UNCHANGED <<transaction_id, expired, net, dgram_size, res, num_peers,
                 failed_assert>>

\* The loop ends: n and request_time start anew, and the size is asserted.
ConnectRecv ==
  /\ pc = "connect_recv"
  /\ Receive(CONNECT_RES)
  /\ n' = 0
  /\ expired' = FALSE
  /\ IF dgram_size' = CONNECT_RES
     THEN pc' = "connected" /\ UNCHANGED failed_assert
     ELSE pc' = "aborted" /\ failed_assert' = "dgram_size"
  /\ UNCHANGED <<transaction_id, num_peers>>

\* The checks of the connect answer; the announce buffer is zeroed.
Connected ==
  /\ pc = "connected"
  /\ pc' = IF res.tid = transaction_id /\ res.action = "CONNECT"
           THEN "announce" ELSE "null"
  /\ res' = Zeros
  /\ UNCHANGED <<n, transaction_id, expired, net, dgram_size, num_peers,
                 failed_assert>>

-----------------------------------------------------------------------------
(* Announcing: udp_tryannounce() and its loop.                             *)

\* More than 30 seconds have passed since the connect answer.
Expire ==
  /\ pc = "announce"
  /\ ~expired
  /\ expired' = TRUE
  /\ UNCHANGED <<pc, n, transaction_id, net, dgram_size, res, num_peers,
                 failed_assert>>

AnnounceSend ==
  /\ pc = "announce"
  /\ n' = Try(n)
  /\ Sent("ANNOUNCE", AnnounceSizes)
  /\ pc' = "announce_recv"
  /\ UNCHANGED <<transaction_id, expired, dgram_size, res, num_peers,
                 failed_assert>>

\* MUTANT: reconnect whether the connection has expired or not.
Reconnects_Always == TRUE

Reconnects == expired

\* send() fails: as above, and an expired connection is opened again, which
\* goes on counting.
AnnounceSendFails(again) ==
  /\ pc = "announce"
  /\ n' = Try(n)
  /\ pc' = IF TooMany(n') \/ ~again THEN "null"
           ELSE IF Reconnects THEN "connect" ELSE "announce"
  /\ UNCHANGED <<transaction_id, expired, net, dgram_size, res, num_peers,
                 failed_assert>>

AnnounceRecv ==
  /\ pc = "announce_recv"
  /\ Receive(MAX_RECV_BUFSIZE)
  /\ pc' = "answered"
  /\ UNCHANGED <<n, transaction_id, expired, num_peers, failed_assert>>

\* MUTANT: error answers are not recognised.
Accepted_Errors == dgram_size >= HEADER /\ res.tid = transaction_id

\* The checks of the announce answer.
Accepted ==
  /\ dgram_size >= HEADER
  /\ res.action # "ERROR"
  /\ res.tid = transaction_id

\* MUTANT: the peers are taken to start at the error message.
PeerBufLen_ErrHeader == dgram_size - 8

PeerBufLen == dgram_size - HEADER

Answered ==
  /\ pc = "answered"
  /\ IF ~Accepted
     THEN pc' = "null" /\ UNCHANGED <<num_peers, failed_assert>>
     ELSE IF PeerBufLen % 6 = 0
     THEN pc' = "response" /\ num_peers' = PeerBufLen \div 6
          /\ UNCHANGED failed_assert
     ELSE pc' = "aborted" /\ failed_assert' = "peer_buf_len"
          /\ UNCHANGED num_peers
  /\ UNCHANGED <<n, transaction_id, expired, net, dgram_size, res>>

Done == pc \in Returned /\ UNCHANGED vars

Step ==
  \/ ConnectSend \/ \E again \in BOOLEAN : ConnectSendFails(again)
  \/ ConnectRecv \/ Connected
  \/ AnnounceSend \/ \E again \in BOOLEAN : AnnounceSendFails(again)
  \/ AnnounceRecv \/ Answered

Next == Step \/ Expire \/ Done

Spec == Init /\ [][Next]_vars

\* A sequential function whose calls return: send() does not block for ever,
\* recv() has a timeout.
FairSpec == Spec /\ WF_vars(Step)

-----------------------------------------------------------------------------

\* udp_announce() returns a response only for a datagram of the tracker that
\* answers this announce.  A timeout is never mistaken for one, although it
\* passes as a datagram of SIZE_MAX bytes of zeros: its transaction id is
\* wrong, or the assertion on the length of the peer list fails.  Nor is a
\* connect answer that comes twice: the action is not compared, but connect
\* answers are shorter than the header of an announce answer.
ResponseIsAnswer ==
  pc = "response" /\ (\A s \in ConnectSizes : s < HEADER) =>
    /\ res.action = "ANNOUNCE"
    /\ res.tid = transaction_id
    /\ dgram_size # SIZE_MAX

\* parse_peers() reads no more than was received, and all of it, although the
\* datagram may have been cut off.
PeersReceived ==
  pc = "response" =>
    /\ HEADER + 6 * num_peers =< MAX_RECV_BUFSIZE
    /\ HEADER + 6 * num_peers = dgram_size

\* Whatever is retried, reconnected and retried again, no more than 8 attempts
\* are counted: the shift in timeout() stays below 30 * 2^8.
TriesBounded == n =< MAX_TRIES

\* The function returns, unless the connection expires time and again.
Returns == <>[](~expired) => <>(pc \in Returned)

\* The assertion on the size of the connect answer.
ConnectAssert == failed_assert # "dgram_size"
=============================================================================
