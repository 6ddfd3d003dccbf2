------------------------------ MODULE PeerLoop ------------------------------
(***************************************************************************)
(* peer_connection.c: the loop of peer_connection(), its clocks, and the   *)
(* peer's requests.  The torrent's state is in Torrent, the bytes of the   *)
(* messages are in PeerWire.                                               *)
(*                                                                         *)
(* Time passes in ticks of one second.  The two times that the loop keeps  *)
(* are modelled by their ages, now - last_msg_time and so on.  A pass of   *)
(* the loop takes at most PASS seconds, unless the socket has no timeout.  *)
(***************************************************************************)
EXTENDS Integers, Sequences, Functions

CONSTANTS
  PEER_TIMEOUT_SEC,         \* 120
  PEER_KEEPALIVE_INTERVAL,  \* 60
  PASS,       \* seconds a pass of the loop takes at most
  PERIOD,     \* a punctual peer sends a message every PERIOD seconds
  Req,        \* the peer's requests
  MaxInbox    \* bound: so many messages are waiting to be received

ASSUME LoopAssumption ==
  /\ PEER_TIMEOUT_SEC \in Nat
  /\ PEER_KEEPALIVE_INTERVAL \in Nat
  /\ PASS \in Nat
  /\ PERIOD \in Nat
  /\ MaxInbox \in Nat

VARIABLES
  pc,             \* top, drain, recv, serve, ask, ended
  why,            \* why the connection ended
  timeo,          \* recv() and send() have a timeout
  punctual,       \* the peer is punctual
  since_msg,      \* age of last_msg_time
  since_sent,     \* age of last_sent_request_time, -1 before the first request
  since_peer,     \* seconds since the peer sent a message
  left,           \* seconds that this pass may still take
  inbox,          \* messages that peer_msg_buff_nonempty() finds
  part,           \* the last of them lacks a byte or two
  choked,         \* local.choked
  interested,     \* local.interested
  local_requests, \* has a piece been asked for
  peer_requests   \* the queue of the peer's requests

local == <<choked, interested, local_requests>>
net   == <<inbox, part, since_peer>>
fixed == <<timeo, punctual>>
vars  == <<pc, why, fixed, since_msg, since_sent, left, net, local,
           peer_requests>>

\* MSG_INTERESTED and MSG_NOT_INTERESTED only set fields that nothing reads,
\* MSG_PIECE is in Torrent, MSG_HAVE and MSG_BITFIELD may show interest.
Msg == {"KEEPALIVE", "CHOKE", "UNCHOKE", "BITFIELD"} \cup Req

TypeOK ==
  /\ pc \in {"top", "drain", "recv", "serve", "ask", "ended"}
  /\ why \in {"none", "timeout", "send", "recv"}
  /\ timeo \in BOOLEAN
  /\ punctual \in BOOLEAN
  /\ since_msg \in Nat
  /\ since_sent \in Nat \cup {-1}
  /\ since_peer \in Nat
  /\ left \in 0 .. PASS
  /\ inbox \in Seq(Msg)
  /\ part \in BOOLEAN /\ (part => inbox # <<>>)
  /\ choked \in BOOLEAN /\ interested \in BOOLEAN
  /\ local_requests \in BOOLEAN
  /\ peer_requests \in Seq(Req)

\* After peer_connect(), the handshake, the bit field and unchoke().  select()
\* leaves in its timeout what remains of the 5 seconds, and that becomes the
\* timeout of the socket; 0 means none.
Init ==
  /\ pc = "top"
  /\ why = "none"
  /\ timeo \in BOOLEAN
  /\ punctual \in BOOLEAN
  /\ since_msg = 0
  /\ since_sent = -1
  /\ since_peer = 0
  /\ left = PASS
  /\ inbox = <<>>
  /\ part = FALSE
  /\ choked = TRUE
  /\ interested = FALSE
  /\ local_requests = FALSE
  /\ peer_requests = <<>>

-----------------------------------------------------------------------------
(* Time, and the peer (external).                                          *)

Connected == pc # "ended"

\* Ages are not told apart once they are larger than any the loop compares.
Older(a) ==
  IF a >= 0 /\ a =< PEER_TIMEOUT_SEC + PEER_KEEPALIVE_INTERVAL + PASS
  THEN a + 1 ELSE a

\* Receives and sends, of which every part of a pass has some, may take any time
\* if the socket has no timeout.
Tick ==
  /\ Connected
  /\ \/ left > 0 /\ left' = left - 1
     \/ left = 0 /\ ~timeo /\ UNCHANGED left
  /\ punctual => since_peer < PERIOD
  /\ since_msg' = Older(since_msg)
  /\ since_sent' = Older(since_sent)
  /\ since_peer' = IF punctual THEN since_peer + 1 ELSE 0
  /\ UNCHANGED <<pc, why, fixed, inbox, part, local, peer_requests>>

\* A message arrives, or all of it but a byte or two.  A request is not made
\* again before it was answered.
PeerSends(m, p) ==
  /\ Connected
  /\ ~part
  /\ Len(inbox) < MaxInbox
  /\ m \in Req => m \notin Range(inbox) \cup Range(peer_requests)
  /\ inbox' = Append(inbox, m)
  /\ part' = p
  /\ since_peer' = IF p THEN since_peer ELSE 0
  /\ UNCHANGED <<pc, why, fixed, since_msg, since_sent, left, local,
                 peer_requests>>

PeerSendsRest ==
  /\ Connected
  /\ part
  /\ part' = FALSE
  /\ since_peer' = 0
  /\ UNCHANGED <<pc, why, fixed, since_msg, since_sent, left, inbox, local,
                 peer_requests>>

\* The peer closes the connection: a receive that waits for more finds out.
PeerCloses ==
  /\ pc = "recv"
  /\ part
  /\ pc' = "ended"
  /\ why' = "recv"
  /\ UNCHANGED <<fixed, since_msg, since_sent, left, net, local, peer_requests>>

-----------------------------------------------------------------------------
(* A pass of the loop.                                                     *)

End(reason) ==
  /\ pc' = "ended"
  /\ why' = reason

\* MUTANT: a peer that was asked for nothing may be silent.
TimedOut_Asked == since_sent >= 0 /\ since_msg > PEER_TIMEOUT_SEC

TimedOut == since_msg > PEER_TIMEOUT_SEC

\* MUTANT: a keep-alive every two minutes.
KeepAliveDue_Double ==
  since_sent >= 0 /\ since_sent > 2 * PEER_KEEPALIVE_INTERVAL

KeepAliveDue == since_sent >= 0 /\ since_sent > PEER_KEEPALIVE_INTERVAL

\* The two clocks; then service_have_events(), which changes nothing here.
Top ==
  /\ pc = "top"
  /\ ~TimedOut
  /\ left' = PASS
  /\ since_sent' = IF KeepAliveDue THEN 0 ELSE since_sent
  /\ pc' = "drain"
  /\ UNCHANGED <<why, fixed, since_msg, net, local, peer_requests>>

TopTimeout ==
  /\ pc = "top"
  /\ TimedOut
  /\ End("timeout")
  /\ UNCHANGED <<fixed, since_msg, since_sent, left, net, local, peer_requests>>

TopSendFails ==
  /\ pc = "top"
  /\ ~TimedOut
  /\ KeepAliveDue
  /\ End("send")
  /\ UNCHANGED <<fixed, since_msg, since_sent, left, net, local, peer_requests>>

\* process_msg().  Showing interest may fail, which goes unnoticed.
Process(m) ==
  /\ choked' = CASE m = "CHOKE" -> TRUE [] m = "UNCHOKE" -> FALSE
                 [] OTHER -> choked
  /\ interested' \in IF m = "BITFIELD" THEN {interested, TRUE} ELSE {interested}
  /\ peer_requests' =
       IF m \in Req THEN Append(peer_requests, m) ELSE peer_requests
  /\ UNCHANGED local_requests

\* MUTANT: only messages with a type count as a sign of life.
SignOfLife_Typed(m) == IF m = "KEEPALIVE" THEN since_msg ELSE 0

\* *last = time(NULL)
SignOfLife(m) == 0

WaitRest == Len(inbox) = 1 /\ part

\* process_queued_messages(): one message, whole.
Drain ==
  /\ pc \in {"drain", "recv"}
  /\ inbox # <<>>
  /\ ~WaitRest
  /\ since_msg' = SignOfLife(Head(inbox))
  /\ Process(Head(inbox))
  /\ inbox' = Tail(inbox)
  /\ pc' = "drain"
  /\ UNCHANGED <<why, fixed, since_sent, left, part, since_peer>>

\* peer_msg_recv() has begun to receive a message that has not come whole.
DrainWait ==
  /\ pc = "drain"
  /\ inbox # <<>>
  /\ WaitRest
  /\ pc' = "recv"
  /\ UNCHANGED <<why, fixed, since_msg, since_sent, left, net, local,
                 peer_requests>>

\* The message is not valid, or its rest does not come in time.
DrainFails ==
  /\ \/ pc = "drain" /\ inbox # <<>> /\ ~WaitRest
     \/ pc = "recv" /\ timeo
  /\ End("recv")
  /\ UNCHANGED <<fixed, since_msg, since_sent, left, net, local, peer_requests>>

\* MUTANT: the last request is left in the queue.
Serves_Two == Len(peer_requests) > 1

\* state->peer_requests->size > 0
Serves == Len(peer_requests) > 0

DrainEnds ==
  /\ pc = "drain"
  /\ inbox = <<>>
  /\ pc' = IF Serves THEN "serve" ELSE "ask"
  /\ UNCHANGED <<why, fixed, since_msg, since_sent, left, net, local,
                 peer_requests>>

\* service_peer_requests(): one request.  If its answer cannot be sent, the
\* others wait for the next pass.
Serve ==
  /\ pc = "serve"
  /\ peer_requests # <<>>
  /\ peer_requests' = Tail(peer_requests)
  /\ pc' \in {IF peer_requests' = <<>> THEN "top" ELSE "serve", "top"}
  /\ UNCHANGED <<why, fixed, since_msg, since_sent, left, net, local>>

MaySend == ~choked /\ interested

\* MUTANT: asks only when the peer has choked this end.
Asks_Choked == choked /\ interested /\ ~local_requests

Asks == MaySend /\ ~local_requests

\* send_requests() finds a piece to ask for.
Ask ==
  /\ pc = "ask"
  /\ Asks
  /\ local_requests' = TRUE
  /\ since_sent' = 0
  /\ pc' = "top"
  /\ UNCHANGED <<why, fixed, since_msg, left, net, choked, interested,
                 peer_requests>>

\* There is none; that may not be sent, which goes unnoticed.
AskNothing ==
  /\ pc = "ask"
  /\ Asks
  /\ interested' \in BOOLEAN
  /\ pc' = "top"
  /\ UNCHANGED <<why, fixed, since_msg, since_sent, left, net, choked,
                 local_requests, peer_requests>>

AskFails ==
  /\ pc = "ask"
  /\ Asks
  /\ End("send")
  /\ local_requests' = TRUE
  /\ since_sent' = 0
  /\ UNCHANGED <<fixed, since_msg, left, net, choked, interested, peer_requests>>

AskSkipped ==
  /\ pc = "ask"
  /\ ~Asks
  /\ pc' = "top"
  /\ UNCHANGED <<why, fixed, since_msg, since_sent, left, net, local,
                 peer_requests>>

-----------------------------------------------------------------------------

Pass ==
  \/ Top \/ TopTimeout \/ TopSendFails
  \/ Drain \/ DrainWait \/ DrainFails \/ DrainEnds
  \/ Serve
  \/ Ask \/ AskNothing \/ AskFails \/ AskSkipped

Peer ==
  \/ \E m \in Msg, p \in BOOLEAN : PeerSends(m, p)
  \/ PeerSendsRest \/ PeerCloses

Done == ~Connected /\ UNCHANGED vars

Next == Tick \/ Peer \/ Pass \/ Done

Spec == Init /\ [][Next]_vars

\* The thread runs, and its calls of send() and recv() return if they have a
\* timeout.
FairSpec == Spec /\ WF_vars(timeo /\ Pass)

-----------------------------------------------------------------------------

\* A peer that is never silent for longer than PERIOD is not dropped as silent,
\* although the clock is looked at before the messages that have come: a pass
\* may be added to the time it is silent for.  (Without a timeout of the socket
\* a send that waits for long is taken for silence of the peer.)
NoSpuriousTimeout ==
  punctual /\ timeo /\ PERIOD + PASS =< PEER_TIMEOUT_SEC => why # "timeout"

\* A silent peer is dropped within a pass after the timeout, if the socket has a
\* timeout.  If not, a peer that stops in the middle of a message holds the
\* thread for ever.
SilentIsDropped ==
  Connected /\ timeo => since_msg =< PEER_TIMEOUT_SEC + PASS

\* Once something has been asked for, the peer hears a request or a keep-alive
\* every minute and a pass.  Before that it hears none.
KeepsAlive ==
  Connected /\ timeo => since_sent =< PEER_KEEPALIVE_INTERVAL + PASS

\* The loop comes round: its calls return, and the peer does not keep it in
\* process_queued_messages() for ever.
ComesRound == timeo /\ []<>(pc \in {"top", "ended"})

\* Every request of the peer leaves the queue, whatever cannot be sent.
Served ==
  ComesRound =>
    \A r \in Req : (r \in Range(peer_requests))
                     ~> (r \notin Range(peer_requests) \/ ~Connected)

\* This end asks for a piece if it may and wants to, unless it finds none again
\* and again, or the peer's own requests keep coming: they are always served
\* first.
AsksInTheEnd ==
  /\ ComesRound
  /\ <>[](peer_requests = <<>>)
  /\ <>[][~AskNothing]_vars
  => (MaySend /\ ~local_requests ~> (local_requests \/ ~MaySend \/ ~Connected))
=============================================================================
