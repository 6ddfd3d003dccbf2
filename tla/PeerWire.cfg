CONSTANTS
  OwnTypes <- Sent
  Foreign <- Blocks
  BITFIELD_BYTES = 1
  BLOCK = 2
  HANDSHAKE = 2
  JunkLens <- Lens
  info_hash <- OurHash
  Hashes <- HashesOf
  MaxMsgs = 2
SPECIFICATION FairSpec
INVARIANTS AtMostTwoMissing SameTorrent
PROPERTIES InOrder Arrives
