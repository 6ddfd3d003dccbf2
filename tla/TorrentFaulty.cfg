CONSTANTS
  c1 = c1
  c2 = c2
  NoConn = NoConn
  Conns <- TwoConns
  Faulty <- OneFaulty
  NumPieces = 1
  NumBlocks = 2
  LastNumBlocks = 2
  NumFiles = 2
  max_peers = 2
  WORD = 4
  SIZEOF_SIZE_T = 8
SPECIFICATION FairSpec
INVARIANTS HashIsCurrent NeverOvercounted RenamedOnce
PROPERTIES CompletionIsFinished
