--------------------------- MODULE PeerLoopProofs ---------------------------
(***************************************************************************)
(* The clocks of peer_connection(), for every timeout, interval and period.*)
(* The bounds that the properties state hold at the end of a pass; the     *)
(* invariants say how much of the pass they have used up so far: PASS -    *)
(* left seconds.                                                           *)
(***************************************************************************)
EXTENDS PeerLoop, TLAPS

\* The steps of the loop, its peer and the clock.
LEMMA StepCases ==
  ASSUME [Next]_vars
  PROVE  \/ Tick \/ Top \/ TopTimeout \/ TopSendFails
         \/ Drain \/ DrainWait \/ DrainFails \/ DrainEnds \/ Serve
         \/ Ask \/ AskNothing \/ AskFails \/ AskSkipped
         \/ (\E m \in Msg, p \in BOOLEAN : PeerSends(m, p))
         \/ PeerSendsRest \/ PeerCloses
         \/ UNCHANGED vars
  BY DEF Next, Peer, Pass, Done

LEMMA TypeInit == Init => TypeOK
<1> SUFFICES ASSUME Init PROVE TypeOK
  OBVIOUS
<1>1. /\ left \in 0 .. PASS /\ since_msg \in Nat /\ since_peer \in Nat
      /\ since_sent \in Nat \cup {-1}
  BY LoopAssumption DEF Init
<1>2. inbox \in Seq(Msg) /\ peer_requests \in Seq(Req)
  <2>1. <<>> \in Seq(Msg) /\ <<>> \in Seq(Req)
    OBVIOUS
  <2> QED
    BY <2>1, Zenon DEF Init
<1>3. /\ timeo \in BOOLEAN /\ part \in BOOLEAN /\ choked \in BOOLEAN
      /\ interested \in BOOLEAN /\ local_requests \in BOOLEAN
      /\ punctual \in BOOLEAN
  BY Zenon DEF Init
<1>4. pc = "top" /\ why = "none" /\ ~part
  BY DEF Init
<1> QED
  BY <1>1, <1>2, <1>3, <1>4 DEF TypeOK

LEMMA TypeStep ==
  ASSUME TypeOK, [Next]_vars
  PROVE  TypeOK'
<1> USE LoopAssumption DEF TypeOK, local, net, fixed, Msg
<1>1. ASSUME Tick PROVE TypeOK'
  BY <1>1 DEF Tick, Older, Connected
<1>2. ASSUME Top PROVE TypeOK'
  BY <1>2 DEF Top, KeepAliveDue, TimedOut
<1>3. ASSUME TopTimeout PROVE TypeOK'
  BY <1>3 DEF TopTimeout, End, TimedOut
<1>4. ASSUME TopSendFails PROVE TypeOK'
  BY <1>4 DEF TopSendFails, End, TimedOut
<1>5. ASSUME Drain PROVE TypeOK'
  <2>1. inbox' \in Seq(Msg) /\ Head(inbox) \in Msg
    BY <1>5 DEF Drain
  <2>2. peer_requests' \in Seq(Req)
    BY <1>5 DEF Drain, Process
  <2>3. ASSUME part PROVE inbox' # <<>>
    <3>1. Len(inbox) # 1 /\ inbox # <<>> /\ inbox' = Tail(inbox)
      BY <1>5, <2>3 DEF Drain, WaitRest
    <3>2. Len(inbox) \in Nat /\ Len(inbox) # 0 /\ Len(Tail(inbox)) = Len(inbox) - 1
      BY <3>1
    <3>3. Len(inbox') > 0
      BY <3>1, <3>2
    <3> QED
      BY <3>3
  <2>4. choked' \in BOOLEAN
    BY <1>5 DEF Drain, Process
  <2>5. interested' \in BOOLEAN
    BY <1>5 DEF Drain, Process
  <2>6. /\ pc' = "drain" /\ since_msg' = 0 /\ local_requests' = local_requests
        /\ UNCHANGED <<why, timeo, punctual, since_sent, left, part, since_peer>>
    BY <1>5 DEF Drain, Process, SignOfLife
  <2> QED
    BY <2>1, <2>2, <2>3, <2>4, <2>5, <2>6
<1>6. ASSUME DrainWait PROVE TypeOK'
  BY <1>6 DEF DrainWait
<1>7. ASSUME DrainFails PROVE TypeOK'
  BY <1>7 DEF DrainFails, End
<1>8. ASSUME DrainEnds PROVE TypeOK'
  BY <1>8 DEF DrainEnds
<1>9. ASSUME Serve PROVE TypeOK'
  BY <1>9 DEF Serve
<1>10. ASSUME Ask PROVE TypeOK'
  BY <1>10 DEF Ask
<1>11. ASSUME AskNothing PROVE TypeOK'
  BY <1>11 DEF AskNothing
<1>12. ASSUME AskFails PROVE TypeOK'
  BY <1>12 DEF AskFails, End
<1>13. ASSUME AskSkipped PROVE TypeOK'
  BY <1>13 DEF AskSkipped
<1>14. ASSUME PeerSendsRest PROVE TypeOK'
  BY <1>14 DEF PeerSendsRest
<1>15. ASSUME PeerCloses PROVE TypeOK'
  BY <1>15 DEF PeerCloses, End
<1>16. ASSUME NEW m \in Msg, NEW p \in BOOLEAN, PeerSends(m, p) PROVE TypeOK'
  BY <1>16 DEF PeerSends, Connected
<1>17. ASSUME UNCHANGED vars PROVE TypeOK'
  BY <1>17 DEF vars
<1> QED
  BY StepCases, <1>1, <1>2, <1>3, <1>4, <1>5, <1>6, <1>7, <1>8, <1>9, <1>10, <1>11, <1>12, <1>13, <1>14, <1>15, <1>16, <1>17

\* The state of a connection stays well formed, whatever the peer sends and
\* whatever cannot be sent.
THEOREM TypeCorrect == Spec => []TypeOK
  BY TypeInit, TypeStep, PTL DEF Spec

-----------------------------------------------------------------------------
(* Silence and keep-alives.                                                *)

\* The ages are at most what they may be at the top, and the time since.
ClockInv ==
  Connected /\ timeo =>
    /\ since_msg =< PEER_TIMEOUT_SEC + (PASS - left)
    /\ since_sent =< PEER_KEEPALIVE_INTERVAL + (PASS - left)

LEMMA ClockStep ==
  ASSUME TypeOK, ClockInv, [Next]_vars
  PROVE  ClockInv'
<1> USE LoopAssumption DEF TypeOK, ClockInv, Connected, local, net, fixed
<1>1. ASSUME Tick PROVE ClockInv'
  <2>1. since_msg' =< since_msg + 1 /\ since_sent' =< since_sent + 1
    BY <1>1 DEF Tick, Older
  <2>2. since_msg' \in Nat /\ since_sent' \in Nat \cup {-1}
    BY <1>1 DEF Tick, Older
  <2>3. timeo => left' = left - 1
    BY <1>1 DEF Tick
  <2>4. pc' = pc /\ timeo' = timeo
    BY <1>1 DEF Tick
  <2> QED
    BY <2>1, <2>2, <2>3, <2>4
<1>2. ASSUME Top PROVE ClockInv'
  BY <1>2 DEF Top, KeepAliveDue, TimedOut
<1>3. ASSUME TopTimeout PROVE ClockInv'
  BY <1>3 DEF TopTimeout, End, TimedOut
<1>4. ASSUME TopSendFails PROVE ClockInv'
  BY <1>4 DEF TopSendFails, End, TimedOut
<1>5. ASSUME Drain PROVE ClockInv'
  BY <1>5 DEF Drain, Process, SignOfLife, WaitRest
<1>6. ASSUME DrainWait PROVE ClockInv'
  BY <1>6 DEF DrainWait
<1>7. ASSUME DrainFails PROVE ClockInv'
  BY <1>7 DEF DrainFails, End
<1>8. ASSUME DrainEnds PROVE ClockInv'
  BY <1>8 DEF DrainEnds
<1>9. ASSUME Serve PROVE ClockInv'
  BY <1>9 DEF Serve
<1>10. ASSUME Ask PROVE ClockInv'
  BY <1>10 DEF Ask
<1>11. ASSUME AskNothing PROVE ClockInv'
  BY <1>11 DEF AskNothing
<1>12. ASSUME AskFails PROVE ClockInv'
  BY <1>12 DEF AskFails, End
<1>13. ASSUME AskSkipped PROVE ClockInv'
  BY <1>13 DEF AskSkipped
<1>14. ASSUME PeerSendsRest PROVE ClockInv'
  BY <1>14 DEF PeerSendsRest
<1>15. ASSUME PeerCloses PROVE ClockInv'
  BY <1>15 DEF PeerCloses, End
<1>16. ASSUME NEW m \in Msg, NEW p \in BOOLEAN, PeerSends(m, p) PROVE ClockInv'
  BY <1>16 DEF PeerSends, Connected
<1>17. ASSUME UNCHANGED vars PROVE ClockInv'
  BY <1>17 DEF vars
<1> QED
  BY StepCases, <1>1, <1>2, <1>3, <1>4, <1>5, <1>6, <1>7, <1>8, <1>9, <1>10, <1>11, <1>12, <1>13, <1>14, <1>15, <1>16, <1>17

LEMMA ClockHolds == Spec => [](TypeOK /\ ClockInv)
<1>1. Init => ClockInv
  BY LoopAssumption DEF Init, ClockInv
<1> QED
  BY <1>1, TypeInit, TypeStep, ClockStep, PTL DEF Spec

\* A silent peer is dropped within a pass after PEER_TIMEOUT_SEC, if select()
\* left a timeout for the socket.
THEOREM DropsTheSilent == Spec => []SilentIsDropped
<1>1. TypeOK /\ ClockInv => SilentIsDropped
  BY LoopAssumption DEF TypeOK, ClockInv, SilentIsDropped
<1> QED
  BY <1>1, ClockHolds, PTL

\* Once something was asked for, the peer hears from this end within a pass
\* after PEER_KEEPALIVE_INTERVAL.
THEOREM StaysAlive == Spec => []KeepsAlive
<1>1. TypeOK /\ ClockInv => KeepsAlive
  BY LoopAssumption DEF TypeOK, ClockInv, KeepsAlive
<1> QED
  BY <1>1, ClockHolds, PTL

-----------------------------------------------------------------------------
(* Punctual peers.                                                         *)

\* The last message came when the peer sent its last, if none is waiting; so
\* when the messages have been received the peer was silent for PERIOD at most.
PunctualInv ==
  punctual /\ timeo /\ PERIOD + PASS =< PEER_TIMEOUT_SEC =>
    /\ why # "timeout"
    /\ since_peer =< PERIOD
    /\ inbox = <<>> => since_msg =< since_peer
    /\ pc \in {"serve", "ask", "top"} => since_msg =< PERIOD + (PASS - left)

LEMMA PunctualStep ==
  ASSUME TypeOK, PunctualInv, [Next]_vars
  PROVE  PunctualInv'
<1> USE LoopAssumption DEF TypeOK, PunctualInv, local, net, fixed
<1>1. ASSUME Tick PROVE PunctualInv'
  BY <1>1 DEF Tick, Older, Connected
<1>2. ASSUME Top PROVE PunctualInv'
  BY <1>2 DEF Top, KeepAliveDue, TimedOut
<1>3. ASSUME TopTimeout PROVE PunctualInv'
  BY <1>3 DEF TopTimeout, End, TimedOut
<1>4. ASSUME TopSendFails PROVE PunctualInv'
  BY <1>4 DEF TopSendFails, End, TimedOut
<1>5. ASSUME Drain PROVE PunctualInv'
  BY <1>5 DEF Drain, Process, SignOfLife, WaitRest
<1>6. ASSUME DrainWait PROVE PunctualInv'
  BY <1>6 DEF DrainWait
<1>7. ASSUME DrainFails PROVE PunctualInv'
  BY <1>7 DEF DrainFails, End
<1>8. ASSUME DrainEnds PROVE PunctualInv'
  BY <1>8 DEF DrainEnds
<1>9. ASSUME Serve PROVE PunctualInv'
  BY <1>9 DEF Serve
<1>10. ASSUME Ask PROVE PunctualInv'
  BY <1>10 DEF Ask
<1>11. ASSUME AskNothing PROVE PunctualInv'
  BY <1>11 DEF AskNothing
<1>12. ASSUME AskFails PROVE PunctualInv'
  BY <1>12 DEF AskFails, End
<1>13. ASSUME AskSkipped PROVE PunctualInv'
  BY <1>13 DEF AskSkipped
<1>14. ASSUME PeerSendsRest PROVE PunctualInv'
  BY <1>14 DEF PeerSendsRest
<1>15. ASSUME PeerCloses PROVE PunctualInv'
  BY <1>15 DEF PeerCloses, End
<1>16. ASSUME NEW m \in Msg, NEW p \in BOOLEAN, PeerSends(m, p) PROVE PunctualInv'
  BY <1>16 DEF PeerSends, Connected
<1>17. ASSUME UNCHANGED vars PROVE PunctualInv'
  BY <1>17 DEF vars
<1> QED
  BY StepCases, <1>1, <1>2, <1>3, <1>4, <1>5, <1>6, <1>7, <1>8, <1>9, <1>10, <1>11, <1>12, <1>13, <1>14, <1>15, <1>16, <1>17

\* A peer that is never silent for longer than PERIOD is not dropped, if the
\* socket has its timeouts, although the clock is looked at before the messages
\* that have come.
THEOREM PunctualIsKept == Spec => []NoSpuriousTimeout
<1>1. Init => PunctualInv
  BY LoopAssumption DEF Init, PunctualInv
<1>2. PunctualInv => NoSpuriousTimeout
  BY DEF PunctualInv, NoSpuriousTimeout
<1> QED
  BY <1>1, <1>2, TypeInit, TypeStep, PunctualStep, PTL DEF Spec
=============================================================================
