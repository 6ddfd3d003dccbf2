CONSTANTS
  PEER_REQUEST_SIZE = 2
  PieceLengths <- OneToFour
  MaxFiles = 4
  MaxBytes = 8
  WORD = 64
SPECIFICATION FairSpec
INVARIANTS InsideFiles Contiguous BeginIsAddress CoversPiece OverreadIsAtEnd
PROPERTIES Returns
