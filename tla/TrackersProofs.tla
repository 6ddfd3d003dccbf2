--------------------------- MODULE TrackersProofs ---------------------------
(***************************************************************************)
(* One announce, for every size of the tracker's answers, of the buffers   *)
(* and of size_t: udp_announce(), then http_announce() and                 *)
(* https_announce().                                                       *)
(***************************************************************************)
EXTENDS Trackers, TLAPS

\* To the variables of udp_announce(), an announce over another protocol is a
\* call that has yet to begin.
LEMMA UdpPart ==
  /\ AnnounceInit => Init
  /\ [AnnounceNext]_<<vars, http>> => [Next]_vars
  BY DEF AnnounceInit, NoUdp, AnnounceNext

LEMMA StepCases ==
  ASSUME [Next]_vars
  PROVE  \/ ConnectSend \/ (\E again \in BOOLEAN : ConnectSendFails(again))
         \/ ConnectRecv \/ Connected \/ Expire
         \/ AnnounceSend \/ (\E again \in BOOLEAN : AnnounceSendFails(again))
         \/ AnnounceRecv \/ Answered
         \/ UNCHANGED vars
  BY DEF Next, Step, Done

-----------------------------------------------------------------------------
(* Attempts.                                                               *)

\* Another attempt is begun only after fewer than MAX_TRIES.
TriesInv ==
  /\ n \in Nat
  /\ n =< MAX_TRIES
  /\ pc \in {"connect", "connected", "announce"} => n < MAX_TRIES

LEMMA TriesStep ==
  ASSUME TriesInv, [Next]_vars
  PROVE  TriesInv'
<1> USE DEF TriesInv, MAX_TRIES, Try, TooMany
<1>1. ASSUME ConnectSend PROVE TriesInv'
  BY <1>1 DEF ConnectSend
<1>2. ASSUME NEW again \in BOOLEAN, ConnectSendFails(again) PROVE TriesInv'
  BY <1>2 DEF ConnectSendFails
<1>3. ASSUME ConnectRecv PROVE TriesInv'
  BY <1>3 DEF ConnectRecv
<1>4. ASSUME Connected PROVE TriesInv'
  BY <1>4 DEF Connected
<1>5. ASSUME Expire PROVE TriesInv'
  BY <1>5 DEF Expire
<1>6. ASSUME AnnounceSend PROVE TriesInv'
  BY <1>6 DEF AnnounceSend
<1>7. ASSUME NEW again \in BOOLEAN, AnnounceSendFails(again) PROVE TriesInv'
  BY <1>7 DEF AnnounceSendFails
<1>8. ASSUME AnnounceRecv PROVE TriesInv'
  BY <1>8 DEF AnnounceRecv
<1>9. ASSUME Answered PROVE TriesInv'
  BY <1>9 DEF Answered
<1>10. ASSUME UNCHANGED vars PROVE TriesInv'
  BY <1>10 DEF vars
<1> QED
  BY StepCases, <1>1, <1>2, <1>3, <1>4, <1>5, <1>6, <1>7, <1>8, <1>9, <1>10

\* At most 8 attempts are counted, whatever is retried, reconnected and retried
\* again: the shift in timeout() stays in range.
THEOREM AttemptsBounded == AnnounceSpec => []TriesBounded
<1>1. Init => TriesInv
  BY DEF Init, TriesInv, MAX_TRIES
<1>2. TriesInv => TriesBounded
  BY DEF TriesInv, TriesBounded
<1> QED
  BY <1>1, <1>2, UdpPart, TriesStep, PTL DEF AnnounceSpec

-----------------------------------------------------------------------------
(* Answers.                                                                *)

\* What is known of a datagram on its way.
FromTracker(d) ==
  /\ d.action \in Actions /\ d.size \in Nat
  /\ d.action = "CONNECT" => d.size \in ConnectSizes

\* What was received when the announce answer is looked at: nothing, in a
\* buffer of zeros, or at most a buffer of a datagram.
Heard ==
  \/ dgram_size = SIZE_MAX
  \/ /\ dgram_size \in 0 .. MAX_RECV_BUFSIZE
     /\ FromTracker(res)
     /\ dgram_size =< res.size

AnswerInv ==
  /\ \A d \in net : FromTracker(d)
  /\ pc = "answered" => Heard
  /\ pc = "response" =>
       /\ Heard /\ Accepted
       /\ dgram_size # SIZE_MAX
       /\ dgram_size = HEADER + 6 * num_peers

\* A timeout does not pass for a list of peers.
LEMMA TimeoutHasNoPeers == (SIZE_MAX - HEADER) % 6 # 0
  BY UdpAssumption DEF HEADER

LEMMA SentFromTracker ==
  ASSUME NEW action \in {"CONNECT", "ANNOUNCE"}, NEW sizes,
         action = "CONNECT" => sizes = ConnectSizes,
         sizes \subseteq Nat,
         \A d \in net : FromTracker(d), Sent(action, sizes)
  PROVE  \A d \in net' : FromTracker(d)
<1>1. \A d \in Answers(action, sizes, transaction_id) : FromTracker(d)
  BY UdpAssumption DEF Answers, FromTracker, Actions
<1> QED
  BY <1>1 DEF Sent

LEMMA AnswerStep ==
  ASSUME AnswerInv, [Next]_vars
  PROVE  AnswerInv'
<1> USE UdpAssumption DEF AnswerInv
<1>1. ASSUME ConnectSend PROVE AnswerInv'
  <2>1. \A d \in net' : FromTracker(d)
    BY <1>1, SentFromTracker DEF ConnectSend
  <2> QED
    BY <1>1, <2>1 DEF ConnectSend
<1>2. ASSUME NEW again \in BOOLEAN, ConnectSendFails(again) PROVE AnswerInv'
  BY <1>2 DEF ConnectSendFails
<1>3. ASSUME ConnectRecv PROVE AnswerInv'
  <2>1. \A d \in net' : FromTracker(d)
    BY <1>3 DEF ConnectRecv, Receive
  <2> QED
    BY <1>3, <2>1 DEF ConnectRecv
<1>4. ASSUME Connected PROVE AnswerInv'
  BY <1>4 DEF Connected
<1>5. ASSUME Expire PROVE AnswerInv'
  BY <1>5 DEF Expire
<1>6. ASSUME AnnounceSend PROVE AnswerInv'
  <2>1. \A d \in net' : FromTracker(d)
    BY <1>6, SentFromTracker DEF AnnounceSend
  <2> QED
    BY <1>6, <2>1 DEF AnnounceSend
<1>7. ASSUME NEW again \in BOOLEAN, AnnounceSendFails(again) PROVE AnswerInv'
  BY <1>7 DEF AnnounceSendFails
<1>8. ASSUME AnnounceRecv PROVE AnswerInv'
  <2>1. \A d \in net' : FromTracker(d)
    BY <1>8 DEF AnnounceRecv, Receive
  <2>2. Heard'
    <3>1. CASE dgram_size' = SIZE_MAX
      BY <3>1 DEF Heard
    <3>2. ASSUME NEW d \in net, res' = d,
                 dgram_size' = IF d.size < MAX_RECV_BUFSIZE
                               THEN d.size ELSE MAX_RECV_BUFSIZE
          PROVE  Heard'
      <4>1. FromTracker(d) /\ d.size \in Nat
        BY DEF FromTracker
      <4>2. dgram_size' \in 0 .. MAX_RECV_BUFSIZE /\ dgram_size' =< d.size
        BY <3>2, <4>1
      <4> QED
        BY <3>2, <4>1, <4>2 DEF Heard, FromTracker
    <3> QED
      BY <1>8, <3>1, <3>2 DEF AnnounceRecv, Receive
  <2> QED
    BY <1>8, <2>1, <2>2 DEF AnnounceRecv
<1>9. ASSUME Answered PROVE AnswerInv'
  <2>1. /\ Heard /\ net' = net /\ res' = res /\ dgram_size' = dgram_size
        /\ transaction_id' = transaction_id /\ pc' # "answered"
    BY <1>9 DEF Answered
  <2>2. Heard' /\ (Accepted' <=> Accepted)
    BY <2>1 DEF Heard, Accepted, FromTracker
  <2>3. ASSUME pc' = "response"
        PROVE  Accepted /\ PeerBufLen % 6 = 0 /\ num_peers' = PeerBufLen \div 6
    BY <1>9, <2>3 DEF Answered
  <2>4. ASSUME pc' = "response"
        PROVE  dgram_size # SIZE_MAX /\ dgram_size = HEADER + 6 * num_peers'
    <3>1. dgram_size # SIZE_MAX
      BY <2>3, <2>4, TimeoutHasNoPeers DEF PeerBufLen
    <3>2. dgram_size \in Nat /\ dgram_size >= HEADER
      BY <2>1, <2>3, <2>4, <3>1 DEF Heard, Accepted
    <3> QED
      BY <2>3, <2>4, <3>1, <3>2 DEF PeerBufLen, HEADER
  <2> QED
    BY <2>1, <2>2, <2>3, <2>4
<1>10. ASSUME UNCHANGED vars PROVE AnswerInv'
  BY <1>10 DEF vars, Heard, Accepted, FromTracker
<1> QED
  BY StepCases, <1>1, <1>2, <1>3, <1>4, <1>5, <1>6, <1>7, <1>8, <1>9, <1>10

LEMMA AnswerHolds == AnnounceSpec => []AnswerInv
<1>1. Init => AnswerInv
  BY DEF Init, AnswerInv
<1> QED
  BY <1>1, UdpPart, AnswerStep, PTL DEF AnnounceSpec

\* A response stands for a datagram of the tracker that answers this announce:
\* neither a timeout nor a connect answer that came twice passes for one.
THEOREM AnswersOnly == AnnounceSpec => []ResponseIsAnswer
<1>1. AnswerInv => ResponseIsAnswer
  BY UdpAssumption DEF AnswerInv, ResponseIsAnswer, Heard, Accepted, FromTracker, Actions, HEADER
<1> QED
  BY <1>1, AnswerHolds, PTL

\* parse_peers() reads what was received, all of it and no more.
THEOREM ReadsWhatCame == AnnounceSpec => []PeersReceived
<1>1. AnswerInv => PeersReceived
  BY UdpAssumption DEF AnswerInv, PeersReceived, Heard, HEADER
<1> QED
  BY <1>1, AnswerHolds, PTL

-----------------------------------------------------------------------------
(* Types.                                                                  *)

UdpInv == TypeOK /\ AnswerInv

LEMMA ReceiveTypes ==
  ASSUME TypeOK, NEW max \in Nat, max < SIZE_MAX, Receive(max)
  PROVE  res' \in Datagram /\ dgram_size' \in 0 .. SIZE_MAX /\ net' \subseteq Datagram
<1> USE UdpAssumption
<1>1. ASSUME NEW d \in net, res' = d, net' \in {net, net \ {d}},
             dgram_size' = IF d.size < max THEN d.size ELSE max
      PROVE  res' \in Datagram /\ dgram_size' \in 0 .. SIZE_MAX
             /\ net' \subseteq Datagram
  <2>1. d \in Datagram /\ d.size \in Nat
    BY DEF TypeOK, Datagram
  <2>2. dgram_size' \in 0 .. SIZE_MAX
    BY <1>1, <2>1
  <2> QED
    BY <1>1, <2>1, <2>2 DEF TypeOK
<1>2. CASE dgram_size' = SIZE_MAX /\ UNCHANGED <<res, net>>
  BY <1>2 DEF TypeOK
<1> QED
  BY <1>1, <1>2 DEF Receive

LEMMA SentTypes ==
  ASSUME TypeOK, NEW action \in Actions, NEW sizes, sizes \subseteq Nat,
         Sent(action, sizes)
  PROVE  net' \subseteq Datagram
<1>1. Answers(action, sizes, transaction_id) \subseteq Datagram
  BY UdpAssumption DEF Answers, Datagram, Actions, TypeOK
<1> QED
  BY <1>1 DEF Sent, TypeOK

LEMMA UdpTypes ==
  ASSUME UdpInv, [Next]_vars
  PROVE  TypeOK'
<1> USE DEF UdpInv
<1>1. ASSUME ConnectSend PROVE TypeOK'
  <2>1. net' \subseteq Datagram
    BY <1>1, SentTypes, UdpAssumption DEF ConnectSend, Actions
  <2> QED
    BY <1>1, <2>1 DEF ConnectSend, Try, TypeOK
<1>2. ASSUME NEW again \in BOOLEAN, ConnectSendFails(again) PROVE TypeOK'
  BY <1>2 DEF ConnectSendFails, Try, TypeOK, Returned
<1>3. ASSUME ConnectRecv PROVE TypeOK'
  <2>1. res' \in Datagram /\ dgram_size' \in 0 .. SIZE_MAX /\ net' \subseteq Datagram
    BY <1>3, ReceiveTypes, UdpAssumption DEF ConnectRecv, CONNECT_RES, HEADER
  <2>2. expired' \in BOOLEAN
    BY <1>3, Zenon DEF ConnectRecv
  <2> QED
    BY <1>3, <2>1, <2>2 DEF ConnectRecv, TypeOK, Returned
<1>4. ASSUME Connected PROVE TypeOK'
  <2>1. Zeros \in Datagram
    BY UdpAssumption DEF Zeros, Datagram, Actions
  <2> QED
    BY <1>4, <2>1 DEF Connected, TypeOK, Returned
<1>5. ASSUME Expire PROVE TypeOK'
  <2>1. expired' \in BOOLEAN
    BY <1>5, Zenon DEF Expire
  <2> QED
    BY <1>5, <2>1 DEF Expire, TypeOK
<1>6. ASSUME AnnounceSend PROVE TypeOK'
  <2>1. net' \subseteq Datagram
    BY <1>6, SentTypes, UdpAssumption DEF AnnounceSend, Actions
  <2> QED
    BY <1>6, <2>1 DEF AnnounceSend, Try, TypeOK
<1>7. ASSUME NEW again \in BOOLEAN, AnnounceSendFails(again) PROVE TypeOK'
  BY <1>7 DEF AnnounceSendFails, Try, TypeOK, Returned
<1>8. ASSUME AnnounceRecv PROVE TypeOK'
  <2>1. res' \in Datagram /\ dgram_size' \in 0 .. SIZE_MAX /\ net' \subseteq Datagram
    BY <1>8, ReceiveTypes, UdpAssumption DEF AnnounceRecv
  <2> QED
    BY <1>8, <2>1 DEF AnnounceRecv, TypeOK
<1>9. ASSUME Answered PROVE TypeOK'
  <2>1. Accepted => PeerBufLen \in Nat
    BY UdpAssumption DEF Accepted, PeerBufLen, HEADER, TypeOK
  <2>2. num_peers' \in Nat
    BY <1>9, <2>1 DEF Answered, TypeOK
  <2> QED
    BY <1>9, <2>2 DEF Answered, TypeOK, Returned
<1>10. ASSUME UNCHANGED vars PROVE TypeOK'
  BY <1>10 DEF vars, TypeOK
<1> QED
  BY StepCases, <1>1, <1>2, <1>3, <1>4, <1>5, <1>6, <1>7, <1>8, <1>9, <1>10

-----------------------------------------------------------------------------
(* HTTP and HTTPS: the inductive invariant.                                *)

\* When the tracker has not closed the connection, nothing of the answer is lost
\* yet; after a reset nothing more gets through.  The result is set at the end.
ConnInv ==
  /\ stream = "open" => limit = answer.size
  /\ stream = "reset" => limit = got
  /\ http_pc \notin Http!Ended => http_res = "null" /\ http_peers = 0

\* The count is that of the bytes received, or one less after an error, which is
\* the last that happens on the connection.
CountInv ==
  /\ got =< BUF
  /\ \/ total_received = got
     \/ /\ stream = "closed" /\ limit = got
        /\ total_received = IF got = 0 THEN WORD - 1 ELSE got - 1

\* http_announce() parses what it has at the end of the stream only.
RecvInv ==
  /\ http_pc # "curl"
  /\ http_pc = "parse" => stream = "closed" /\ got = limit
  /\ http_pc = "received" =>
       total_received = BUF \/ (stream = "closed" /\ got = limit)

\* https_announce() parses when all of the answer has come.
CurlInv ==
  /\ http_pc \notin {"recv", "received"}
  /\ chunks = 0 => got = answer.head
  /\ http_pc = "parse" => got = answer.size

HttpInv ==
  /\ Http!TypeOK
  /\ ConnInv
  /\ protocol = "HTTP" => CountInv /\ RecvInv
  /\ protocol = "HTTPS" => CurlInv
  /\ Http!InsideBuffer /\ Http!WholeAnswer /\ Http!NoInventedPeers

Inv == protocol = "UDP" \/ HttpInv

-----------------------------------------------------------------------------
(* Arithmetic.                                                             *)

LEMMA ModSmall ==
  ASSUME NEW w \in Nat, NEW x \in 0 .. w - 1
  PROVE  x % w = x /\ (x + w) % w = x
  OBVIOUS

LEMMA DivList ==
  ASSUME NEW p \in Nat \ {0}, NEW q \in Nat
  PROVE  (p * q + 1) \div p >= q
  OBVIOUS

LEMMA DivNat ==
  ASSUME NEW p \in Nat \ {0}, NEW x \in Nat
  PROVE  x \div p \in Nat
  OBVIOUS

LEMMA ReplyFacts ==
  ASSUME NEW a \in Replies
  PROVE  /\ a.status \in Nat /\ a.head \in Nat /\ a.ikey \in Nat /\ a.ints \in Nat
         /\ a.pkey \in Nat /\ a.plist \in Nat /\ a.peers \in Nat /\ a.size \in Nat
         /\ 0 < a.status /\ a.status =< a.head /\ a.head =< a.ikey
         /\ a.ikey =< a.ints /\ a.ints =< a.pkey /\ a.pkey =< a.plist
         /\ a.plist < a.size
         /\ (a.size - a.plist) \div PEER >= a.peers
<1>1. /\ a.status \in Nat /\ a.head \in Nat /\ a.ikey \in Nat /\ a.ints \in Nat
      /\ a.pkey \in Nat /\ a.plist \in Nat /\ a.peers \in Nat /\ a.size \in Nat
  BY HttpConstants DEF Http!HttpAssumption, Http!Answer
<1>2. /\ 0 < a.status /\ a.status =< a.head /\ a.head =< a.ikey
      /\ a.ikey =< a.ints /\ a.ints =< a.pkey /\ a.pkey =< a.plist
      /\ a.size = a.plist + PEER * a.peers + 1
      /\ PEER \in Nat \ {0}
  BY HttpConstants DEF Http!HttpAssumption
<1>3. PEER * a.peers \in Nat
  BY <1>1, <1>2
<1>4. a.size - a.plist = PEER * a.peers + 1
  BY <1>1, <1>2, <1>3
<1>5. (PEER * a.peers + 1) \div PEER >= a.peers
  BY <1>1, <1>2, DivList
<1> QED
  BY <1>1, <1>2, <1>3, <1>4, <1>5

\* The peers received are a number, and all of them when all of the answer is.
LEMMA PeersReceivedFacts ==
  ASSUME answer \in Replies, got \in Nat
  PROVE  /\ Http!PeersReceived \in Nat
         /\ got = answer.size => Http!PeersReceived = answer.peers
<1>1. CASE got < answer.plist
  BY <1>1, ReplyFacts DEF Http!PeersReceived
<1>2. CASE ~(got < answer.plist)
  <2>1. (got - answer.plist) \div PEER \in Nat
    BY <1>2, ReplyFacts, HttpConstants, DivNat DEF Http!HttpAssumption
  <2> QED
    BY <1>2, <2>1, ReplyFacts DEF Http!PeersReceived
<1> QED
  BY <1>1, <1>2

LEMMA HttpInit == Http!Init => HttpInv
<1> SUFFICES ASSUME Http!Init PROVE HttpInv
  OBVIOUS
<1>1. /\ protocol \in Protocols /\ answer \in Replies /\ protocol \in {"HTTP", "HTTPS"}
      /\ http_pc = IF protocol = "HTTP" THEN "recv" ELSE "curl"
      /\ got = IF protocol = "HTTP" THEN 0 ELSE answer.head
      /\ stream = "open" /\ limit = answer.size /\ total_received = 0 /\ top = 0
      /\ chunks = 0 /\ http_res = "null" /\ http_peers = 0
  BY HttpConstants DEF Http!Init, Http!HttpAssumption
<1>2. /\ BUF \in Nat /\ CHUNK \in Nat /\ WORD \in Nat /\ WORD > 0
  BY HttpConstants DEF Http!HttpAssumption
<1>3. Http!TypeOK
  BY <1>1, <1>2, ReplyFacts DEF Http!TypeOK, Http!Results
<1>4. ConnInv /\ (protocol = "HTTP" => CountInv /\ RecvInv) /\ (protocol = "HTTPS" => CurlInv)
  BY <1>1, <1>2 DEF ConnInv, CountInv, RecvInv, CurlInv
<1>5. Http!InsideBuffer /\ Http!WholeAnswer /\ Http!NoInventedPeers
  BY <1>1, <1>2 DEF Http!InsideBuffer, Http!WholeAnswer, Http!NoInventedPeers, Http!Ended
<1> QED
  BY <1>3, <1>4, <1>5 DEF HttpInv

-----------------------------------------------------------------------------
(* The connection and what is received of the answer.                      *)

LEMMA HttpFacts ==
  ASSUME HttpInv
  PROVE  /\ protocol \in Protocols /\ protocol \in {"HTTP", "HTTPS"}
         /\ answer \in Replies /\ answer.size \in Nat /\ answer.head \in Nat
         /\ answer.head < answer.size /\ 0 < answer.size
         /\ limit \in Nat /\ limit =< answer.size /\ got \in Nat /\ got =< limit
         /\ total_received \in Nat /\ total_received < WORD /\ top \in Nat
         /\ BUF \in Nat /\ BUF > 0 /\ CHUNK \in Nat /\ WORD \in Nat /\ WORD > 2 * BUF
<1>1. /\ protocol \in Protocols /\ answer \in Replies /\ limit \in 0 .. answer.size
      /\ got \in 0 .. limit /\ total_received \in 0 .. WORD - 1 /\ top \in Nat
  BY DEF HttpInv, Http!TypeOK
<1>2. /\ Protocols \subseteq {"HTTP", "HTTPS"}
      /\ BUF \in Nat /\ BUF > 0 /\ CHUNK \in Nat /\ WORD \in Nat /\ WORD > 2 * BUF
  BY HttpConstants DEF Http!HttpAssumption
<1> QED
  BY <1>1, <1>2, ReplyFacts

\* The tracker closes the connection, or it is reset: what was returned before
\* is judged by the answer as it came.
LEMMA ConnStep ==
  ASSUME HttpInv, Http!TrackerCloses \/ Http!Reset
  PROVE  HttpInv'
<1>1. /\ stream = "open" /\ stream' \in {"closed", "reset"}
      /\ limit' \in got .. answer.size /\ (stream' = "reset" => limit' = got)
      /\ UNCHANGED <<http_pc, protocol, answer, got, total_received, top, chunks,
                     http_res, http_peers>>
  BY HttpFacts DEF Http!TrackerCloses, Http!Reset
<1>2. limit = answer.size /\ ~Http!Broken
  BY <1>1, HttpFacts DEF HttpInv, ConnInv, Http!Broken
<1>3. Http!TypeOK'
  BY <1>1, HttpFacts DEF HttpInv, Http!TypeOK
<1>4. ConnInv' /\ (protocol = "HTTP" => CountInv' /\ RecvInv')
      /\ (protocol = "HTTPS" => CurlInv')
  BY <1>1 DEF HttpInv, ConnInv, Http!Ended, CountInv, RecvInv, CurlInv
<1>5. Http!InsideBuffer' /\ Http!PeersReceived' = Http!PeersReceived
  BY <1>1 DEF HttpInv, Http!InsideBuffer, Http!PeersReceived
<1>6. Http!WholeAnswer'
  BY <1>1, <1>2, <1>5 DEF HttpInv, Http!WholeAnswer, Http!Ended
<1>7. Http!NoInventedPeers'
  BY <1>1, <1>2, <1>5 DEF HttpInv, Http!NoInventedPeers
<1> QED
  BY <1>1, <1>3, <1>4, <1>5, <1>6, <1>7 DEF HttpInv

LEMMA RecvBytesStep ==
  ASSUME HttpInv, NEW j \in 1 .. limit - got, Http!RecvBytes(j)
  PROVE  HttpInv'
<1>1. /\ http_pc = "recv" /\ http_pc' = "recv" /\ j =< limit - got /\ j =< Http!Room
      /\ got' = got + j /\ total_received' = Http!Plus(total_received, j)
      /\ top' = total_received + j
      /\ UNCHANGED <<protocol, answer, stream, limit, chunks, http_res, http_peers>>
  BY DEF Http!RecvBytes, Http!AfterRecv, Http!conn
<1>2. protocol = "HTTP"
  BY <1>1, HttpFacts DEF HttpInv, CurlInv
<1>3. j \in Nat /\ j > 0 /\ got < limit
  BY <1>1, HttpFacts
<1>4. total_received = got /\ got =< BUF
  BY <1>2, <1>3, HttpFacts DEF HttpInv, CountInv
<1>5. Http!Room = BUF - got
  <2>1. BUF - got \in 0 .. WORD - 1
    BY <1>4, HttpFacts
  <2> QED
    BY <1>4, <2>1, ModSmall, HttpFacts DEF Http!Room
<1>6. got + j =< BUF /\ got + j =< limit
  BY <1>1, <1>3, <1>5, HttpFacts
<1>7. total_received' = got + j /\ top' = got + j
  <2>1. got + j \in 0 .. WORD - 1
    BY <1>3, <1>6, HttpFacts
  <2> QED
    BY <1>1, <1>4, <2>1, ModSmall, HttpFacts DEF Http!Plus
<1>8. Http!TypeOK'
  BY <1>1, <1>3, <1>6, <1>7, HttpFacts DEF HttpInv, Http!TypeOK
<1>9. ConnInv'
  BY <1>1, <1>3, HttpFacts DEF HttpInv, ConnInv, Http!Ended
<1>10. CountInv' /\ RecvInv'
  BY <1>1, <1>6, <1>7 DEF CountInv, RecvInv
<1>11. Http!InsideBuffer' /\ Http!WholeAnswer' /\ Http!NoInventedPeers'
  BY <1>1, <1>2, <1>6, <1>7
  DEF Http!InsideBuffer, Http!WholeAnswer, Http!NoInventedPeers, Http!Ended
<1> QED
  BY <1>1, <1>2, <1>8, <1>9, <1>10, <1>11 DEF HttpInv

\* -1 is added to the count, and nothing is received after it.
LEMMA RecvErrorStep ==
  ASSUME HttpInv, Http!RecvError
  PROVE  HttpInv'
<1>1. /\ http_pc = "recv" /\ stream = "reset" /\ stream' = "closed"
      /\ total_received' = Http!Plus(total_received, WORD - 1)
      /\ UNCHANGED <<http_pc, protocol, answer, limit, got, top, chunks, http_res,
                     http_peers>>
  BY DEF Http!RecvError
<1>2. protocol = "HTTP" /\ limit = got
  BY <1>1, HttpFacts DEF HttpInv, CurlInv, ConnInv
<1>3. total_received = got /\ got =< BUF
  BY <1>1, <1>2 DEF HttpInv, CountInv
<1>4. total_received' = IF got = 0 THEN WORD - 1 ELSE got - 1
  <2>1. CASE got = 0
    <3>1. WORD - 1 \in 0 .. WORD - 1 /\ got + (WORD - 1) = WORD - 1
      BY <2>1, HttpFacts
    <3> QED
      BY <1>1, <1>3, <2>1, <3>1, ModSmall, HttpFacts DEF Http!Plus
  <2>2. CASE got # 0
    <3>1. got - 1 \in 0 .. WORD - 1 /\ got + (WORD - 1) = (got - 1) + WORD
      BY <1>3, <2>2, HttpFacts
    <3> QED
      BY <1>1, <1>3, <2>2, <3>1, ModSmall, HttpFacts DEF Http!Plus
  <2> QED
    BY <2>1, <2>2
<1>5. total_received' \in 0 .. WORD - 1
  BY <1>3, <1>4, HttpFacts
<1>6. Http!TypeOK'
  BY <1>1, <1>5 DEF HttpInv, Http!TypeOK
<1>7. ConnInv' /\ CountInv' /\ RecvInv'
  BY <1>1, <1>2, <1>3, <1>4 DEF HttpInv, ConnInv, Http!Ended, CountInv, RecvInv
<1>8. Http!InsideBuffer' /\ Http!WholeAnswer' /\ Http!NoInventedPeers'
  BY <1>1 DEF HttpInv, Http!InsideBuffer, Http!WholeAnswer, Http!NoInventedPeers,
              Http!Ended
<1> QED
  BY <1>1, <1>2, <1>6, <1>7, <1>8 DEF HttpInv

\* The buffer is full, or the stream has ended.
LEMMA RecvEndStep ==
  ASSUME HttpInv, Http!RecvEnd
  PROVE  HttpInv'
<1>1. /\ http_pc = "recv" /\ Http!AtEnd /\ http_pc' = "received"
      /\ UNCHANGED <<protocol, answer, stream, limit, got, total_received, top,
                     chunks, http_res, http_peers>>
  BY DEF Http!RecvEnd, Http!conn
<1>2. protocol = "HTTP"
  BY <1>1, HttpFacts DEF HttpInv, CurlInv
<1>3. total_received = BUF \/ (stream = "closed" /\ got = limit)
  <2>1. CASE total_received = got /\ Http!Room = 0
    <3>1. got =< BUF /\ BUF - got \in 0 .. WORD - 1
      BY <1>2, HttpFacts DEF HttpInv, CountInv
    <3>2. Http!Room = BUF - got
      BY <2>1, <3>1, ModSmall, HttpFacts DEF Http!Room
    <3> QED
      BY <2>1, <3>2, HttpFacts
  <2>2. CASE ~(total_received = got /\ Http!Room = 0)
    BY <1>1, <1>2, <2>2 DEF Http!AtEnd, HttpInv, CountInv
  <2> QED
    BY <2>1, <2>2
<1>4. Http!TypeOK'
  BY <1>1 DEF HttpInv, Http!TypeOK
<1>5. ConnInv' /\ CountInv' /\ RecvInv'
  BY <1>1, <1>2, <1>3 DEF HttpInv, ConnInv, Http!Ended, CountInv, RecvInv
<1>6. Http!InsideBuffer' /\ Http!WholeAnswer' /\ Http!NoInventedPeers'
  BY <1>1 DEF HttpInv, Http!InsideBuffer, Http!WholeAnswer, Http!NoInventedPeers,
              Http!Ended
<1> QED
  BY <1>1, <1>2, <1>4, <1>5, <1>6 DEF HttpInv

\* The assertion on the count fails only for an answer that does not fit, or
\* when there was an error before the first byte.
LEMMA ReceivedStep ==
  ASSUME HttpInv, Http!Received
  PROVE  HttpInv'
<1>1. /\ http_pc = "received"
      /\ http_pc' = IF total_received < BUF THEN "parse" ELSE "aborted"
      /\ UNCHANGED <<protocol, answer, stream, limit, got, total_received, top,
                     chunks, http_res, http_peers>>
  BY DEF Http!Received, Http!conn
<1>2. protocol = "HTTP"
  BY <1>1, HttpFacts DEF HttpInv, CurlInv
<1>3. Http!TypeOK'
  BY <1>1 DEF HttpInv, Http!TypeOK, Http!Ended
<1>4. ConnInv' /\ CountInv' /\ RecvInv'
  BY <1>1, <1>2, HttpFacts DEF HttpInv, ConnInv, Http!Ended, CountInv, RecvInv
<1>5. Http!WholeAnswer'
  <2> SUFFICES ASSUME http_pc' = "aborted", ~Http!Broken, answer.size < BUF
               PROVE  FALSE
    BY <1>1, <1>2 DEF Http!WholeAnswer, Http!Broken, Http!Ended
  <2>1. total_received >= BUF /\ limit = answer.size
    BY <1>1, HttpFacts DEF Http!Broken
  <2> QED
    BY <1>2, <2>1, HttpFacts DEF HttpInv, CountInv
<1>6. Http!InsideBuffer' /\ Http!NoInventedPeers'
  BY <1>1 DEF HttpInv, Http!InsideBuffer, Http!NoInventedPeers
<1> QED
  BY <1>1, <1>2, <1>3, <1>4, <1>5, <1>6 DEF HttpInv

\* A first chunk that fails the assertion is longer than the buffer.
LEMMA WriteCallbackStep ==
  ASSUME HttpInv, NEW j \in 1 .. limit - got, Http!WriteCallback(j)
  PROVE  HttpInv'
<1>1. /\ http_pc = "curl" /\ j =< limit - got
      /\ chunks' = IF chunks < 2 THEN chunks + 1 ELSE chunks
      /\ UNCHANGED <<protocol, answer, stream, limit, total_received, http_res,
                     http_peers>>
  BY DEF Http!WriteCallback, Http!conn
<1>2. protocol = "HTTPS" /\ protocol # "HTTP"
  BY <1>1, HttpFacts DEF HttpInv, RecvInv
<1>3. j \in Nat /\ j > 0 /\ got < limit /\ chunks \in 0 .. 2 /\ chunks' \in 1 .. 2
      /\ (chunks' = 1 => chunks = 0)
  BY <1>1, HttpFacts DEF HttpInv, Http!TypeOK
<1>4. CASE j =< CHUNK
  <2>1. got' = got + j /\ top' = j /\ http_pc' = http_pc
    BY <1>4 DEF Http!WriteCallback, Http!Fits
  <2>2. Http!TypeOK'
    BY <1>1, <1>3, <2>1, HttpFacts DEF HttpInv, Http!TypeOK
  <2>3. ConnInv' /\ CurlInv'
    BY <1>1, <1>3, <2>1, HttpFacts DEF HttpInv, ConnInv, Http!Ended, CurlInv
  <2>4. Http!InsideBuffer' /\ Http!WholeAnswer' /\ Http!NoInventedPeers'
    BY <1>1, <1>2, <1>4, <2>1
    DEF Http!InsideBuffer, Http!WholeAnswer, Http!NoInventedPeers, Http!Ended
  <2> QED
    BY <1>1, <1>2, <2>2, <2>3, <2>4 DEF HttpInv
<1>5. CASE ~(j =< CHUNK)
  <2>1. got' = got /\ top' = top /\ http_pc' = "aborted"
    BY <1>5 DEF Http!WriteCallback, Http!Fits
  <2>2. Http!TypeOK'
    BY <1>1, <1>3, <2>1, HttpFacts DEF HttpInv, Http!TypeOK, Http!Ended
  <2>3. ConnInv' /\ CurlInv'
    BY <1>1, <1>3, <2>1, HttpFacts DEF HttpInv, ConnInv, Http!Ended, CurlInv
  <2>4. ~(chunks' = 1 /\ answer.size - answer.head =< CHUNK)
    BY <1>1, <1>2, <1>3, <1>5, HttpFacts DEF HttpInv, CurlInv
  <2>5. Http!InsideBuffer' /\ Http!WholeAnswer' /\ Http!NoInventedPeers'
    BY <1>1, <1>2, <2>1, <2>4
    DEF HttpInv, Http!InsideBuffer, Http!WholeAnswer, Http!NoInventedPeers, Http!Ended
  <2> QED
    BY <1>1, <1>2, <2>2, <2>3, <2>5 DEF HttpInv
<1> QED
  BY <1>4, <1>5

LEMMA CurlStep ==
  ASSUME HttpInv, Http!CurlOk \/ Http!CurlFails
  PROVE  HttpInv'
<1>1. /\ http_pc = "curl" /\ http_pc' \in {"parse", "returned"}
      /\ (http_pc' = "parse" => got = answer.size)
      /\ UNCHANGED <<protocol, answer, stream, limit, got, total_received, top,
                     chunks, http_res, http_peers>>
  BY DEF Http!CurlOk, Http!CurlFails, Http!conn
<1>2. protocol = "HTTPS" /\ protocol # "HTTP"
  BY <1>1, HttpFacts DEF HttpInv, RecvInv
<1>3. http_res = "null" /\ http_peers = 0
  BY <1>1 DEF HttpInv, ConnInv, Http!Ended
<1>4. Http!TypeOK'
  BY <1>1 DEF HttpInv, Http!TypeOK, Http!Ended
<1>5. ConnInv' /\ CurlInv'
  BY <1>1, <1>2 DEF HttpInv, ConnInv, Http!Ended, CurlInv
<1>6. Http!InsideBuffer' /\ Http!WholeAnswer'
  BY <1>1, <1>2, <1>3 DEF HttpInv, Http!InsideBuffer, Http!WholeAnswer, Http!Ended
<1>7. Http!NoInventedPeers'
  <2>1. Http!PeersReceived' \in Nat
    BY <1>1, PeersReceivedFacts, HttpFacts DEF Http!PeersReceived
  <2> QED
    BY <1>1, <1>3, <2>1 DEF Http!NoInventedPeers
<1> QED
  BY <1>1, <1>2, <1>4, <1>5, <1>6, <1>7 DEF HttpInv

-----------------------------------------------------------------------------
(* The parser.                                                             *)

\* Unless the connection broke off, the parser has all of the answer.
LEMMA ParseStep ==
  ASSUME HttpInv, Http!Parse
  PROVE  HttpInv'
<1>1. /\ http_pc = "parse" /\ http_pc' \in Http!Ended
      /\ UNCHANGED <<protocol, answer, stream, limit, got, total_received, top, chunks>>
  BY DEF Http!Parse, Http!ParseStatus, Http!ParseTruncated, Http!ParseFailure,
         Http!ParseNoInterval, Http!ParseNoPeers, Http!ParseBadPeers, Http!ParsePeers,
         Http!ParseEmptyList, Http!ParseGarbage, Http!Parsable, Http!Return,
         Http!Crash, Http!Ended, Http!conn
<1>2. ~Http!Broken => got = answer.size
  BY <1>1, HttpFacts DEF HttpInv, RecvInv, CurlInv, Http!Broken
<1>3. protocol = "HTTPS" => chunks \in {1, 2}
  BY <1>1, HttpFacts DEF HttpInv, CurlInv, Http!TypeOK
<1>4. /\ http_res' \in Http!Results /\ http_peers' \in Nat
  BY <1>1, ReplyFacts, HttpFacts
  DEF Http!Parse, Http!ParseStatus, Http!ParseTruncated, Http!ParseFailure,
      Http!ParseNoInterval, Http!ParseNoPeers, Http!ParseBadPeers, Http!ParsePeers,
      Http!ParseEmptyList, Http!ParseGarbage, Http!Return, Http!Crash,
      Http!Results, HttpInv, Http!TypeOK
<1>5. Http!TypeOK'
  BY <1>1, <1>4 DEF HttpInv, Http!TypeOK
<1>6. ConnInv' /\ (protocol = "HTTP" => CountInv' /\ RecvInv')
      /\ (protocol = "HTTPS" => CurlInv') /\ Http!InsideBuffer'
  BY <1>1 DEF HttpInv, ConnInv, CountInv, RecvInv, CurlInv, Http!InsideBuffer, Http!Ended
<1>7. /\ Http!PeersReceived' = Http!PeersReceived /\ (Http!Broken' <=> Http!Broken)
      /\ Http!PeersReceived \in Nat
      /\ ~Http!Broken => Http!PeersReceived = answer.peers
  BY <1>1, <1>2, HttpFacts, PeersReceivedFacts DEF Http!PeersReceived, Http!Broken
<1>8. Http!WholeAnswer'
  <2> SUFFICES ASSUME ~Http!Broken, answer.ok, ~answer.failure, answer.peers > 0,
                      protocol = "HTTPS" => chunks = 1
               PROVE  http_pc' = "returned" /\ http_res' = "response"
                      /\ http_peers' = answer.peers
    BY <1>1, <1>7, HttpFacts DEF Http!WholeAnswer
  <2>1. got = answer.size /\ Http!StatusOk /\ Http!InBuffer
    BY <1>2, ReplyFacts, HttpFacts DEF Http!StatusOk, Http!InBuffer
  <2>2. Http!ParsePeers
    BY <1>1, <2>1, ReplyFacts, HttpFacts
    DEF Http!Parse, Http!ParseStatus, Http!ParseTruncated, Http!ParseFailure,
        Http!ParseNoInterval, Http!ParseNoPeers, Http!ParseBadPeers,
        Http!ParseEmptyList, Http!ParseGarbage
  <2> QED
    BY <2>2 DEF Http!ParsePeers, Http!Return
<1>9. Http!NoInventedPeers'
  <2> SUFFICES ASSUME http_pc' = "returned", http_peers' > Http!PeersReceived,
                      ~Http!Broken, ~answer.failure,
                      ~(protocol = "HTTPS" /\ (chunks = 2 \/ ~answer.ok))
               PROVE  FALSE
    BY <1>1, <1>7 DEF Http!NoInventedPeers
  <2>1. got = answer.size /\ Http!PeersReceived = answer.peers
    BY <1>2, <1>7
  <2>2. http_peers' # 0 /\ http_peers' # answer.peers
    BY <1>7, <2>1, ReplyFacts, HttpFacts
  <2>3. ~Http!ParseGarbage
    BY <1>3 DEF Http!ParseGarbage, Http!InBuffer
  <2>4. ~Http!ParseBadPeers
    BY <2>1, ReplyFacts, HttpFacts DEF Http!ParseBadPeers
  <2> QED
    BY <2>2, <2>3, <2>4
    DEF Http!Parse, Http!ParseStatus, Http!ParseTruncated, Http!ParseFailure,
        Http!ParseNoInterval, Http!ParseNoPeers, Http!ParsePeers,
        Http!ParseEmptyList, Http!Return, Http!Crash
<1> QED
  BY <1>1, <1>5, <1>6, <1>8, <1>9 DEF HttpInv

LEMMA HttpUnchanged ==
  ASSUME HttpInv, UNCHANGED http
  PROVE  HttpInv'
<1>1. Http!TypeOK' /\ ConnInv' /\ Http!InsideBuffer'
  BY DEF http, HttpInv, Http!TypeOK, ConnInv, Http!Ended, Http!InsideBuffer
<1>2. (protocol = "HTTP" => CountInv' /\ RecvInv') /\ (protocol = "HTTPS" => CurlInv')
  BY DEF http, HttpInv, CountInv, RecvInv, CurlInv
<1>3. Http!WholeAnswer' /\ Http!NoInventedPeers'
  BY DEF http, HttpInv, Http!WholeAnswer, Http!NoInventedPeers, Http!Broken,
         Http!PeersReceived, Http!Ended
<1> QED
  BY <1>1, <1>2, <1>3 DEF HttpInv, http

LEMMA HttpStepKeeps ==
  ASSUME HttpInv, Http!Next
  PROVE  HttpInv'
<1>1. ASSUME NEW j \in 1 .. limit - got, Http!RecvBytes(j) \/ Http!WriteCallback(j)
      PROVE  HttpInv'
  BY <1>1, RecvBytesStep, WriteCallbackStep
<1>2. CASE Http!RecvError \/ Http!RecvEnd \/ Http!Received
  BY <1>2, RecvErrorStep, RecvEndStep, ReceivedStep
<1>3. CASE Http!CurlOk \/ Http!CurlFails
  BY <1>3, CurlStep
<1>4. CASE Http!Parse
  BY <1>4, ParseStep
<1>5. CASE Http!TrackerCloses \/ Http!Reset
  BY <1>5, ConnStep
<1>6. CASE Http!Done
  <2>1. UNCHANGED http
    BY <1>6 DEF Http!Done, Http!vars, Http!conn, http
  <2> QED
    BY <2>1, HttpUnchanged
<1> QED
  BY <1>1, <1>2, <1>3, <1>4, <1>5, <1>6 DEF Http!Next, Http!Step

LEMMA InvHolds == AnnounceSpec => []Inv
<1>1. AnnounceInit => Inv
  BY HttpInit DEF AnnounceInit, NoHttp, Inv
<1>2. Inv /\ [AnnounceNext]_<<vars, http>> => Inv'
  <2> SUFFICES ASSUME Inv, [AnnounceNext]_<<vars, http>> PROVE Inv'
    OBVIOUS
  <2>1. CASE protocol # "UDP" /\ Http!Next
    BY <2>1, HttpStepKeeps DEF Inv
  <2>2. CASE UNCHANGED http
    BY <2>2, HttpUnchanged DEF Inv, http
  <2> QED
    BY <2>1, <2>2 DEF AnnounceNext
<1> QED
  BY <1>1, <1>2, PTL DEF AnnounceSpec

\* Whatever the protocol, the state of the client stays well formed: sizes are
\* in the range of size_t, and the number of peers is never negative.
THEOREM TypeCorrect ==
  AnnounceSpec => [](TypeOK /\ (protocol = "UDP" \/ Http!TypeOK))
<1>1. Init => UdpInv
  <2> SUFFICES ASSUME Init PROVE UdpInv
    OBVIOUS
  <2>1. expired \in BOOLEAN
    BY Zenon DEF Init
  <2>2. Zeros \in Datagram
    BY UdpAssumption DEF Zeros, Datagram, Actions
  <2> QED
    BY <2>1, <2>2, UdpAssumption DEF Init, UdpInv, TypeOK, AnswerInv, HEADER
<1>2. UdpInv /\ [Next]_vars => UdpInv'
  BY UdpTypes, AnswerStep DEF UdpInv
<1>3. UdpInv /\ Inv => TypeOK /\ (protocol = "UDP" \/ Http!TypeOK)
  BY DEF UdpInv, Inv, HttpInv
<1> QED
  BY <1>1, <1>2, <1>3, UdpPart, InvHolds, PTL DEF AnnounceSpec

\* No byte of an answer is written outside the buffer of http_announce() or of
\* https_announce(), although an error turns the count of bytes to the largest
\* size_t: for every size of the buffers and of the answer.
THEOREM WritesInside == AnnounceSpec => []InsideBuffer
<1>1. Inv => InsideBuffer
  BY DEF Inv, HttpInv, InsideBuffer
<1> QED
  BY <1>1, InvHolds, PTL

\* However recv() cuts up an answer that fits, all its peers are returned.
THEOREM AnswersReturned == AnnounceSpec => []WholeAnswer
<1>1. Inv => WholeAnswer
  BY DEF Inv, HttpInv, WholeAnswer
<1> QED
  BY <1>1, InvHolds, PTL

\* Peers that the tracker did not send are returned in the named cases only.
THEOREM PeersWereSent == AnnounceSpec => []NoInventedPeers
<1>1. Inv => NoInventedPeers
  BY DEF Inv, HttpInv, NoInventedPeers
<1> QED
  BY <1>1, InvHolds, PTL
=============================================================================
