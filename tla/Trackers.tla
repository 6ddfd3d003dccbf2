------------------------------ MODULE Trackers ------------------------------
(***************************************************************************)
(* tracker_announce(): one announce over the protocol of the URL, by       *)
(* UdpTracker or by HttpTracker.  The variables of the client that is not  *)
(* used do not change.                                                     *)
(***************************************************************************)
EXTENDS UdpTracker

CONSTANTS Protocols, Replies, BUF, CHUNK, PEER, WORD   \* see HttpTracker

VARIABLES protocol, answer, stream, limit, got, total_received, top, chunks,
          http_pc, http_res, http_peers

Http == INSTANCE HttpTracker WITH
  pc <- http_pc, res <- http_res, num_peers <- http_peers

ASSUME HttpConstants == Http!HttpAssumption

http == <<protocol, answer, stream, limit, got, total_received, top, chunks,
          http_pc, http_res, http_peers>>

\* A client that is not used.
NoUdp == Init /\ transaction_id = 0

NoHttp ==
  /\ protocol = "UDP"
  /\ answer = "none"
  /\ stream = "closed"
  /\ http_pc = "unused" /\ http_res = "null"
  /\ limit = 0 /\ got = 0 /\ total_received = 0 /\ top = 0 /\ chunks = 0
  /\ http_peers = 0

AnnounceInit == (Init /\ NoHttp) \/ (Http!Init /\ NoUdp)

UdpStep == protocol = "UDP" /\ Step /\ UNCHANGED http

HttpStep == protocol # "UDP" /\ Http!Step /\ UNCHANGED vars

AnnounceNext ==
  \/ protocol = "UDP" /\ Next /\ UNCHANGED http
  \/ protocol # "UDP" /\ Http!Next /\ UNCHANGED vars

\* Both are sequential functions, see FairSpec of either.
AnnounceSpec ==
  /\ AnnounceInit
  /\ [][AnnounceNext]_<<vars, http>>
  /\ WF_<<vars, http>>(UdpStep)
  /\ WF_<<vars, http>>(HttpStep)

-----------------------------------------------------------------------------

\* http_announce() and https_announce() write inside their buffers, see
\* InsideBuffer of HttpTracker.
InsideBuffer == protocol = "UDP" \/ Http!InsideBuffer

\* A whole answer is returned with all its peers, see WholeAnswer of
\* HttpTracker.
WholeAnswer == protocol = "UDP" \/ Http!WholeAnswer

\* Peers that were not sent are returned in the named cases only, see
\* NoInventedPeers of HttpTracker.
NoInventedPeers == protocol = "UDP" \/ Http!NoInventedPeers

\* An announce comes to an end, see Returns of UdpTracker and of HttpTracker.
AnnounceReturns == (protocol = "UDP" => Returns) /\ Http!Returns
=============================================================================
