CONSTANTS
  TxIds <- TwoIds
  ConnectSizes <- WellFormedConnect
  AnnounceSizes <- WellFormedAnnounce
  ErrorSizes <- WellFormedError
  MAX_RECV_BUFSIZE = 32
  SIZE_MAX = 63
SPECIFICATION Spec
INVARIANTS ConnectAssert
