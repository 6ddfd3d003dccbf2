CONSTANTS
  c1 = c1
  c2 = c2
  NoConn = NoConn
  Conns <- TwoConns
  Faulty <- NoneFaulty
  NumPieces = 2
  NumBlocks = 2
  LastNumBlocks = 1
  NumFiles = 2
  max_peers = 1
  WORD = 4
  SIZEOF_SIZE_T = 4
SPECIFICATION Spec
SYMMETRY Symmetry
INVARIANTS Accounting RenamedMeansIntact LocalHaveSound
PROPERTIES Downloads
