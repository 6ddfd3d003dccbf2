CONSTANTS
  Protocols = {"HTTP", "HTTPS", "UDP", "UNKNOWN"}
  MaxAddrs = 2
  MaxSockets = 2
SPECIFICATION FairSpec
INVARIANTS CompletedOnce AnnouncedBefore NoSocketLeft
PROPERTIES CompletionArrives
