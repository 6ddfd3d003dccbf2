CONSTANTS
  TxIds <- TwoIds
  ConnectSizes <- AnyConnect
  AnnounceSizes <- AnyAnnounce
  ErrorSizes <- WellFormedError
  MAX_RECV_BUFSIZE = 32
  SIZE_MAX = 63
  Protocols <- Both
  Replies <- SomeReplies
  BUF = 14
  CHUNK = 10
  PEER = 2
  WORD = 64
SPECIFICATION AnnounceSpec
INVARIANTS ResponseIsAnswer PeersReceived InsideBuffer  NoInventedPeers
PROPERTIES AnnounceReturns
