CONSTANTS
  PEER_TIMEOUT_SEC = 4
  PEER_KEEPALIVE_INTERVAL = 2
  PASS = 2
  PERIOD = 2
  r1 = r1
  r2 = r2
  Req <- Requests
  MaxInbox = 2
SPECIFICATION FairSpec
INVARIANTS NoSpuriousTimeout SilentIsDropped KeepsAlive
PROPERTIES Served AsksInTheEnd
