CONSTANTS
  c1 = c1
  c2 = c2
  NoConn = NoConn
  Conns <- TwoConns
  Faulty <- OneFaulty
  NumPieces = 1
  NumBlocks = 1
  LastNumBlocks = 1
  NumFiles = 1
  max_peers = 2
  WORD = 4
  SIZEOF_SIZE_T = 8
SPECIFICATION Spec
INVARIANTS PiecesLeftAssert
