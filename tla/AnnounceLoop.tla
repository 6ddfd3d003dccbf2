---------------------------- MODULE AnnounceLoop ----------------------------
(***************************************************************************)
(* main.c and tracker_announce.c: the loop that announces this client to   *)
(* its tracker, and what it makes of the answers.  How a request gets to   *)
(* the tracker and back is in UdpTracker and HttpTracker; here it either   *)
(* does or does not.  The threads that the answers start complete the      *)
(* torrent at some time (Torrent).                                         *)
(***************************************************************************)
EXTENDS Integers, Sequences

CONSTANTS
  Protocols,    \* that announce URLs may have
  MaxAddrs,     \* bound: addresses that getaddrinfo() finds
  MaxSockets    \* bound: sockets that are left open

ASSUME AnnounceAssumption ==
  /\ Protocols \subseteq {"HTTP", "HTTPS", "UDP", "UNKNOWN"}
  /\ MaxAddrs \in Nat
  /\ MaxSockets \in Nat

VARIABLES
  pc,             \* build, read, resolve, connect, exchange, handle, sleep, crashed
  protocol,       \* of the announce URL
  started,        \* main's flags
  completed,
  sh_completed,   \* metainfo_t.sh.completed
  threads,        \* there are peer connections
  event,          \* of the request
  addrs,          \* addresses that have not been tried
  sockets,        \* sockets to the tracker that are open
  res,            \* what tracker_announce() returned
  up,             \* the tracker can be reached
  announced,      \* the events of the requests so far
  completions,    \* how many of them were EVENT_COMPLETED
  received        \* the numbers of events that a UDP tracker has received

main    == <<protocol, started, completed, event, announced, completions>>
tracker == <<up, received>>
vars    == <<pc, main, sh_completed, threads, addrs, sockets, res, tracker>>

Events == {"STARTED", "STOPPED", "COMPLETED"}

\* tracker_event_t counts from 0.
EventCode(e) ==
  CASE e = "STARTED" -> 0 [] e = "STOPPED" -> 1 [] e = "COMPLETED" -> 2

\* What a number says to a UDP tracker (BEP 15).
Meaning(n) ==
  CASE n = 0 -> "none" [] n = 1 -> "completed" [] n = 2 -> "started" [] n = 3 -> "stopped"

\* NULL; a response with peers or without; a response of which only the failure
\* reason was set.
Results == {"null", "peers", "nopeers", "failure"}

TypeOK ==
  /\ pc \in {"build", "read", "resolve", "connect", "exchange", "handle",
             "sleep", "crashed"}
  /\ protocol \in Protocols
  /\ started \in BOOLEAN /\ completed \in BOOLEAN
  /\ sh_completed \in BOOLEAN /\ threads \in BOOLEAN
  /\ event \in Events
  /\ addrs \in Nat
  /\ sockets \in Nat
  /\ res \in Results
  /\ up \in BOOLEAN
  /\ announced \subseteq Events
  /\ completions \in Nat
  /\ received \subseteq {EventCode(e) : e \in Events}

Init ==
  /\ pc = "build"
  /\ protocol \in Protocols
  /\ started = FALSE
  /\ completed = FALSE
  /\ sh_completed = FALSE
  /\ threads = FALSE
  /\ event = "STARTED"
  /\ addrs = 0
  /\ sockets = 0
  /\ res = "null"
  /\ up \in BOOLEAN
  /\ announced = {}
  /\ completions = 0
  /\ received = {}

-----------------------------------------------------------------------------
(* The other threads and the tracker.                                      *)

\* handle_piece_dl_completion(), in a peer connection.
TorrentCompletes ==
  /\ threads
  /\ ~sh_completed
  /\ sh_completed' = TRUE
  /\ UNCHANGED <<pc, main, threads, addrs, sockets, res, tracker>>

TrackerUpDown ==
  /\ up' = ~up
  /\ UNCHANGED <<pc, main, sh_completed, threads, addrs, sockets, res, received>>

-----------------------------------------------------------------------------
(* The loop.                                                               *)

\* build_tracker_announce_request() zeroes the request, and 0 is EVENT_STARTED.
DefaultEvent == "STARTED"

Build ==
  /\ pc = "build"
  /\ event' = IF started THEN DefaultEvent ELSE "STARTED"
  /\ started' = TRUE
  /\ pc' = "read"
  /\ UNCHANGED <<protocol, completed, announced, completions, sh_completed, threads,
                 addrs, sockets, res, tracker>>

\* There is no memory for the request, which is not looked at before its use.
BuildFails ==
  /\ pc = "build"
  /\ pc' = "crashed"
  /\ UNCHANGED <<main, sh_completed, threads, addrs, sockets, res, tracker>>

\* MUTANT: every request after completion says so.
NewlyComplete_Again == sh_completed

NewlyComplete == ~completed /\ sh_completed

\* MUTANT: sh.completed is read a second time, and may be set by then.
Remembered_Reread == {sh_completed, threads}

\* read_completed
Remembered == {sh_completed}

\* sh.completed is read once, without the lock; completed is set before the
\* event has been announced.
Read ==
  /\ pc = "read"
  /\ event' = IF NewlyComplete THEN "COMPLETED" ELSE event
  /\ completed' \in Remembered
  /\ announced' = announced \cup {event'}
  /\ completions' =
       IF event' = "COMPLETED" /\ completions < 2
       THEN completions + 1 ELSE completions
  /\ pc' = IF protocol = "HTTPS" THEN "exchange" ELSE "resolve"
  /\ UNCHANGED <<protocol, started, sh_completed, threads, addrs, sockets, res,
                 tracker>>

Fail ==
  /\ res' = "null"
  /\ pc' = "handle"

\* getaddrinfo()
Resolve ==
  /\ pc = "resolve"
  /\ addrs' \in 1 .. MaxAddrs
  /\ pc' = "connect"
  /\ UNCHANGED <<main, sh_completed, threads, sockets, res, tracker>>

ResolveFails ==
  /\ pc = "resolve"
  /\ ~up
  /\ Fail
  /\ UNCHANGED <<main, sh_completed, threads, addrs, sockets, tracker>>

Connect ==
  /\ pc = "connect"
  /\ addrs > 0
  /\ sockets < MaxSockets
  /\ sockets' = sockets + 1
  /\ pc' = "exchange"
  /\ UNCHANGED <<main, sh_completed, threads, addrs, res, tracker>>

\* MUTANT: the socket of an address that cannot be connected to stays open.
AfterConnectFails_Leak == IF sockets < MaxSockets THEN sockets + 1 ELSE sockets

AfterConnectFails == sockets

\* socket() fails, or connect() does and the socket is closed: the next one.
ConnectFails ==
  /\ pc = "connect"
  /\ ~up
  /\ addrs > 0
  /\ addrs' = addrs - 1
  /\ sockets' = AfterConnectFails
  /\ UNCHANGED <<pc, main, sh_completed, threads, res, tracker>>

NoAddress ==
  /\ pc = "connect"
  /\ addrs = 0
  /\ Fail
  /\ UNCHANGED <<main, sh_completed, threads, addrs, sockets, tracker>>

\* shutdown() and close(); https_announce() has no socket of its own.
Closed == IF protocol = "HTTPS" THEN sockets ELSE sockets - 1

\* fill_announce_request() sends the event as it is numbered here.  Requests to
\* HTTP trackers carry none.
Sent == IF protocol = "UDP" THEN {EventCode(event)} ELSE {}

\* The tracker answers.  Only HTTP trackers can report a failure.
Exchange ==
  /\ pc = "exchange"
  /\ protocol # "UNKNOWN"
  /\ received' = received \cup Sent
  /\ res' \in {"peers", "nopeers"}
              \cup (IF protocol = "UDP" THEN {} ELSE {"failure"})
  /\ sockets' = Closed
  /\ pc' = "handle"
  /\ UNCHANGED <<main, sh_completed, threads, addrs, up>>

\* It does not, whether the request got through to it or not.
ExchangeFails ==
  /\ pc = "exchange"
  /\ protocol # "UNKNOWN"
  /\ ~up
  /\ received' \in {received, received \cup Sent}
  /\ sockets' = Closed
  /\ Fail
  /\ UNCHANGED <<main, sh_completed, threads, addrs, up>>

\* An assertion on the answer fails, in udp_announce() or http_announce(), or
\* the answer makes the parser fail.
ExchangeAborts ==
  /\ pc = "exchange"
  /\ protocol # "UNKNOWN"
  /\ ~up
  /\ pc' = "crashed"
  /\ UNCHANGED <<main, sh_completed, threads, addrs, sockets, res, tracker>>

\* "Unknown protocol for tracker": the socket stays open.
ExchangeUnknown ==
  /\ pc = "exchange"
  /\ protocol = "UNKNOWN"
  /\ Fail
  /\ UNCHANGED <<main, sh_completed, threads, addrs, sockets, tracker>>

\* MUTANT: an announce that failed leaves peers of whatever is in memory.
HasPeers_Unchecked == res \in {"peers", "null"}

\* if (res), and num_peers is not 0
HasPeers == res = "peers"

\* create_peer_connection() for every peer.
Handle ==
  /\ pc = "handle"
  /\ res # "failure"
  /\ threads' = (threads \/ HasPeers)
  /\ pc' = "sleep"
  /\ UNCHANGED <<main, sh_completed, addrs, sockets, res, tracker>>

\* num_peers and peers were never set: none, or whatever is in memory.
HandleFailure ==
  /\ pc = "handle"
  /\ res = "failure"
  /\ pc' \in {"sleep", "crashed"}
  /\ threads' \in {threads, TRUE}
  /\ UNCHANGED <<main, sh_completed, addrs, sockets, res, tracker>>

\* After the interval, of the answer or of 15 seconds.
Sleep ==
  /\ pc = "sleep"
  /\ pc' = "build"
  /\ UNCHANGED <<main, sh_completed, threads, addrs, sockets, res, tracker>>

-----------------------------------------------------------------------------

Loop ==
  \/ Build \/ Read
  \/ Resolve \/ ResolveFails \/ Connect \/ ConnectFails \/ NoAddress
  \/ Exchange \/ ExchangeFails \/ ExchangeAborts \/ ExchangeUnknown
  \/ Handle \/ HandleFailure \/ Sleep

Next == Loop \/ BuildFails \/ TorrentCompletes \/ TrackerUpDown

Spec == Init /\ [][Next]_vars

\* main() runs and its calls return if they have a timeout.  Those to a UDP
\* tracker do; http_announce() may wait for ever.
FairSpec == Spec /\ WF_vars(protocol = "UDP" /\ Loop)

-----------------------------------------------------------------------------

\* The completion of the torrent is announced at most once, however often main
\* finds it complete.
CompletedOnce == completions =< 1

\* What a UDP tracker has been told.
Heard == {Meaning(n) : n \in received}

\* A UDP tracker that is sent the completion has received an announce before,
\* and so knows the client, although the first announces may fail: the torrent
\* cannot be complete before a tracker has answered.  That announce was meant to
\* tell of the start, and told of no event.
AnnouncedBefore ==
  protocol = "UDP" /\ "COMPLETED" \in announced => "none" \in Heard

\* No socket to the tracker is open while main sleeps, whichever addresses
\* failed, unless the protocol of the URL is unknown.
NoSocketLeft == pc = "sleep" /\ protocol # "UNKNOWN" => sockets = 0

\* The tracker can be reached while the completion is announced.
ReachedThen ==
  [](event = "COMPLETED" /\ pc \in {"resolve", "connect", "exchange"} => up)

\* A UDP tracker that can be reached then receives the announce of the
\* completion, whatever failed before, and is told of a start by it: the number
\* of EVENT_COMPLETED means that.  (If it cannot be reached it never does: main()
\* tries again in 15 seconds, with EVENT_STARTED.)
CompletionArrives ==
  ReachedThen =>
    (protocol = "UDP" /\ sh_completed ~> ("started" \in Heard \/ pc = "crashed"))
=============================================================================
