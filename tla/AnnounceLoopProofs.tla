------------------------- MODULE AnnounceLoopProofs -------------------------
(***************************************************************************)
(* The announces of main(), for every number of addresses and whatever     *)
(* fails.                                                                  *)
(***************************************************************************)
EXTENDS AnnounceLoop, TLAPS

\* Sockets to the tracker: one while it is talked to, none before and after.
\* https_announce() has none, and an unknown protocol leaves them open.
SocketInv ==
  protocol # "UNKNOWN" =>
    /\ pc \in {"resolve", "connect"} => protocol # "HTTPS"
    /\ pc # "crashed" =>
         sockets = IF pc = "exchange" /\ protocol # "HTTPS" THEN 1 ELSE 0

\* The completion is counted when completed is set, and sh.completed stays set.
OnceInv ==
  /\ completed => sh_completed
  /\ completions =< 1
  /\ completions = 1 => completed
  /\ pc = "read" => event = "STARTED"

\* There are no threads, hence no completion and no request that tells of one,
\* before a tracker has answered a request, and that said EVENT_STARTED.
StartedInv ==
  protocol = "UDP" =>
    /\ pc \notin {"build", "crashed"} => event \in {"STARTED", "COMPLETED"}
    /\ pc = "handle" => res # "failure"
    /\ \/ threads \/ sh_completed \/ event = "COMPLETED"
       \/ "COMPLETED" \in announced
       \/ pc = "handle" /\ res = "peers"
       => EventCode("STARTED") \in received

LEMMA StepCases ==
  ASSUME [Next]_vars
  PROVE  \/ TorrentCompletes \/ TrackerUpDown \/ Build \/ BuildFails \/ Read
         \/ Resolve \/ ResolveFails \/ Connect \/ ConnectFails \/ NoAddress
         \/ Exchange \/ ExchangeFails \/ ExchangeAborts \/ ExchangeUnknown
         \/ Handle \/ HandleFailure \/ Sleep
         \/ UNCHANGED vars
  BY DEF Next, Loop

LEMMA SocketStep ==
  ASSUME SocketInv, [Next]_vars
  PROVE  SocketInv'
<1> USE AnnounceAssumption DEF SocketInv, main, tracker
<1>1. ASSUME TorrentCompletes PROVE SocketInv'
  BY <1>1 DEF TorrentCompletes
<1>2. ASSUME TrackerUpDown PROVE SocketInv'
  BY <1>2 DEF TrackerUpDown
<1>3. ASSUME Build PROVE SocketInv'
  BY <1>3 DEF Build, DefaultEvent
<1>4. ASSUME BuildFails PROVE SocketInv'
  BY <1>4 DEF BuildFails
<1>5. ASSUME Read PROVE SocketInv'
  BY <1>5 DEF Read, NewlyComplete, Remembered
<1>6. ASSUME Resolve PROVE SocketInv'
  BY <1>6 DEF Resolve
<1>7. ASSUME ResolveFails PROVE SocketInv'
  BY <1>7 DEF ResolveFails, Fail
<1>8. ASSUME Connect PROVE SocketInv'
  BY <1>8 DEF Connect
<1>9. ASSUME ConnectFails PROVE SocketInv'
  BY <1>9 DEF ConnectFails, AfterConnectFails
<1>10. ASSUME NoAddress PROVE SocketInv'
  BY <1>10 DEF NoAddress, Fail
<1>11. ASSUME Exchange PROVE SocketInv'
  BY <1>11 DEF Exchange, Closed, Sent, EventCode
<1>12. ASSUME ExchangeFails PROVE SocketInv'
  BY <1>12 DEF ExchangeFails, Closed, Sent, EventCode, Fail
<1>13. ASSUME ExchangeAborts PROVE SocketInv'
  BY <1>13 DEF ExchangeAborts
<1>14. ASSUME ExchangeUnknown PROVE SocketInv'
  BY <1>14 DEF ExchangeUnknown, Fail
<1>15. ASSUME Handle PROVE SocketInv'
  BY <1>15 DEF Handle, HasPeers
<1>16. ASSUME HandleFailure PROVE SocketInv'
  BY <1>16 DEF HandleFailure
<1>17. ASSUME Sleep PROVE SocketInv'
  BY <1>17 DEF Sleep
<1>18. ASSUME UNCHANGED vars PROVE SocketInv'
  BY <1>18 DEF vars
<1> QED
  BY StepCases, <1>1, <1>2, <1>3, <1>4, <1>5, <1>6, <1>7, <1>8, <1>9,
     <1>10, <1>11, <1>12, <1>13, <1>14, <1>15, <1>16, <1>17, <1>18

LEMMA TypeStep ==
  ASSUME TypeOK, SocketInv, [Next]_vars
  PROVE  TypeOK'
<1> USE AnnounceAssumption DEF TypeOK, SocketInv, Events, Results, main, tracker
<1>1. ASSUME TorrentCompletes PROVE TypeOK'
  BY <1>1 DEF TorrentCompletes
<1>2. ASSUME TrackerUpDown PROVE TypeOK'
  BY <1>2 DEF TrackerUpDown
<1>3. ASSUME Build PROVE TypeOK'
  BY <1>3 DEF Build, DefaultEvent
<1>4. ASSUME BuildFails PROVE TypeOK'
  BY <1>4 DEF BuildFails
<1>5. ASSUME Read PROVE TypeOK'
  BY <1>5 DEF Read, NewlyComplete, Remembered
<1>6. ASSUME Resolve PROVE TypeOK'
  BY <1>6 DEF Resolve
<1>7. ASSUME ResolveFails PROVE TypeOK'
  BY <1>7 DEF ResolveFails, Fail
<1>8. ASSUME Connect PROVE TypeOK'
  BY <1>8 DEF Connect
<1>9. ASSUME ConnectFails PROVE TypeOK'
  BY <1>9 DEF ConnectFails, AfterConnectFails
<1>10. ASSUME NoAddress PROVE TypeOK'
  BY <1>10 DEF NoAddress, Fail
<1>11. ASSUME Exchange PROVE TypeOK'
  BY <1>11 DEF Exchange, Closed, Sent, EventCode
<1>12. ASSUME ExchangeFails PROVE TypeOK'
  BY <1>12 DEF ExchangeFails, Closed, Sent, EventCode, Fail
<1>13. ASSUME ExchangeAborts PROVE TypeOK'
  BY <1>13 DEF ExchangeAborts
<1>14. ASSUME ExchangeUnknown PROVE TypeOK'
  BY <1>14 DEF ExchangeUnknown, Fail
<1>15. ASSUME Handle PROVE TypeOK'
  BY <1>15 DEF Handle, HasPeers
<1>16. ASSUME HandleFailure PROVE TypeOK'
  BY <1>16 DEF HandleFailure
<1>17. ASSUME Sleep PROVE TypeOK'
  BY <1>17 DEF Sleep
<1>18. ASSUME UNCHANGED vars PROVE TypeOK'
  BY <1>18 DEF vars
<1> QED
  BY StepCases, <1>1, <1>2, <1>3, <1>4, <1>5, <1>6, <1>7, <1>8, <1>9,
     <1>10, <1>11, <1>12, <1>13, <1>14, <1>15, <1>16, <1>17, <1>18

LEMMA OnceStep ==
  ASSUME TypeOK, OnceInv, [Next]_vars
  PROVE  OnceInv'
<1> USE AnnounceAssumption DEF TypeOK, OnceInv, Events, main, tracker
<1>1. ASSUME TorrentCompletes PROVE OnceInv'
  BY <1>1 DEF TorrentCompletes
<1>2. ASSUME TrackerUpDown PROVE OnceInv'
  BY <1>2 DEF TrackerUpDown
<1>3. ASSUME Build PROVE OnceInv'
  BY <1>3 DEF Build, DefaultEvent
<1>4. ASSUME BuildFails PROVE OnceInv'
  BY <1>4 DEF BuildFails
<1>5. ASSUME Read PROVE OnceInv'
  BY <1>5 DEF Read, NewlyComplete, Remembered
<1>6. ASSUME Resolve PROVE OnceInv'
  BY <1>6 DEF Resolve
<1>7. ASSUME ResolveFails PROVE OnceInv'
  BY <1>7 DEF ResolveFails, Fail
<1>8. ASSUME Connect PROVE OnceInv'
  BY <1>8 DEF Connect
<1>9. ASSUME ConnectFails PROVE OnceInv'
  BY <1>9 DEF ConnectFails, AfterConnectFails
<1>10. ASSUME NoAddress PROVE OnceInv'
  BY <1>10 DEF NoAddress, Fail
<1>11. ASSUME Exchange PROVE OnceInv'
  BY <1>11 DEF Exchange, Closed, Sent, EventCode
<1>12. ASSUME ExchangeFails PROVE OnceInv'
  BY <1>12 DEF ExchangeFails, Closed, Sent, EventCode, Fail
<1>13. ASSUME ExchangeAborts PROVE OnceInv'
  BY <1>13 DEF ExchangeAborts
<1>14. ASSUME ExchangeUnknown PROVE OnceInv'
  BY <1>14 DEF ExchangeUnknown, Fail
<1>15. ASSUME Handle PROVE OnceInv'
  BY <1>15 DEF Handle, HasPeers
<1>16. ASSUME HandleFailure PROVE OnceInv'
  BY <1>16 DEF HandleFailure
<1>17. ASSUME Sleep PROVE OnceInv'
  BY <1>17 DEF Sleep
<1>18. ASSUME UNCHANGED vars PROVE OnceInv'
  BY <1>18 DEF vars
<1> QED
  BY StepCases, <1>1, <1>2, <1>3, <1>4, <1>5, <1>6, <1>7, <1>8, <1>9,
     <1>10, <1>11, <1>12, <1>13, <1>14, <1>15, <1>16, <1>17, <1>18

LEMMA StartedStep ==
  ASSUME TypeOK, OnceInv, StartedInv, [Next]_vars
  PROVE  StartedInv'
<1> USE AnnounceAssumption DEF TypeOK, OnceInv, StartedInv, Events, Results, main, tracker
<1>1. ASSUME TorrentCompletes PROVE StartedInv'
  BY <1>1 DEF TorrentCompletes
<1>2. ASSUME TrackerUpDown PROVE StartedInv'
  BY <1>2 DEF TrackerUpDown
<1>3. ASSUME Build PROVE StartedInv'
  BY <1>3 DEF Build, DefaultEvent
<1>4. ASSUME BuildFails PROVE StartedInv'
  BY <1>4 DEF BuildFails
<1>5. ASSUME Read PROVE StartedInv'
  BY <1>5 DEF Read, NewlyComplete, Remembered
<1>6. ASSUME Resolve PROVE StartedInv'
  BY <1>6 DEF Resolve
<1>7. ASSUME ResolveFails PROVE StartedInv'
  BY <1>7 DEF ResolveFails, Fail
<1>8. ASSUME Connect PROVE StartedInv'
  BY <1>8 DEF Connect
<1>9. ASSUME ConnectFails PROVE StartedInv'
  BY <1>9 DEF ConnectFails, AfterConnectFails
<1>10. ASSUME NoAddress PROVE StartedInv'
  BY <1>10 DEF NoAddress, Fail
<1>11. ASSUME Exchange PROVE StartedInv'
  BY <1>11 DEF Exchange, Closed, Sent, EventCode
<1>12. ASSUME ExchangeFails PROVE StartedInv'
  BY <1>12 DEF ExchangeFails, Closed, Sent, EventCode, Fail
<1>13. ASSUME ExchangeAborts PROVE StartedInv'
  BY <1>13 DEF ExchangeAborts
<1>14. ASSUME ExchangeUnknown PROVE StartedInv'
  BY <1>14 DEF ExchangeUnknown, Fail
<1>15. ASSUME Handle PROVE StartedInv'
  BY <1>15 DEF Handle, HasPeers
<1>16. ASSUME HandleFailure PROVE StartedInv'
  BY <1>16 DEF HandleFailure
<1>17. ASSUME Sleep PROVE StartedInv'
  BY <1>17 DEF Sleep
<1>18. ASSUME UNCHANGED vars PROVE StartedInv'
  BY <1>18 DEF vars
<1> QED
  BY StepCases, <1>1, <1>2, <1>3, <1>4, <1>5, <1>6, <1>7, <1>8, <1>9,
     <1>10, <1>11, <1>12, <1>13, <1>14, <1>15, <1>16, <1>17, <1>18

LEMMA InvHolds == Spec => [](TypeOK /\ SocketInv /\ OnceInv /\ StartedInv)
<1>1. Init => TypeOK
  <2> SUFFICES ASSUME Init PROVE TypeOK
    OBVIOUS
  <2>1. /\ started \in BOOLEAN /\ completed \in BOOLEAN /\ sh_completed \in BOOLEAN
        /\ threads \in BOOLEAN /\ up \in BOOLEAN
    BY Zenon DEF Init
  <2>2. /\ addrs \in Nat /\ sockets \in Nat /\ completions \in Nat
        /\ announced = {} /\ received = {} /\ protocol \in Protocols
        /\ pc = "build" /\ event = "STARTED" /\ res = "null"
    BY DEF Init
  <2> QED
    BY <2>1, <2>2 DEF TypeOK, Results, Events
<1>2. Init => SocketInv /\ OnceInv
  BY DEF Init, SocketInv, OnceInv
<1>3. Init => StartedInv
  BY DEF Init, StartedInv
<1> QED
  BY <1>1, <1>2, <1>3, TypeStep, SocketStep, OnceStep, StartedStep, PTL DEF Spec

\* The state of main() and tracker_announce() stays well formed; no socket is
\* closed that was not open.
THEOREM TypeCorrect == Spec => []TypeOK
  BY InvHolds, PTL

\* The completion is announced at most once.
THEOREM AnnouncedOnce == Spec => []CompletedOnce
<1>1. OnceInv => CompletedOnce
  BY DEF OnceInv, CompletedOnce
<1> QED
  BY <1>1, InvHolds, PTL

\* A UDP tracker has received an announce before it is sent the completion, one
\* that told it of no event.
THEOREM KnownFirst == Spec => []AnnouncedBefore
<1>1. Meaning(EventCode("STARTED")) = "none"
  BY DEF Meaning, EventCode
<1>2. StartedInv => AnnouncedBefore
  BY <1>1 DEF StartedInv, AnnouncedBefore, Heard
<1> QED
  BY <1>2, InvHolds, PTL

\* While main() sleeps no socket to a tracker of a known protocol is open.
THEOREM SocketsClosed == Spec => []NoSocketLeft
<1>1. SocketInv => NoSocketLeft
  BY DEF SocketInv, NoSocketLeft
<1> QED
  BY <1>1, InvHolds, PTL
=============================================================================
