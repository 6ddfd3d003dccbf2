CONSTANTS
  Files <- TwoFiles
  SUFFIX = ".incomplete"
  Inodes <- FiveInodes
  MaxStarts = 4
  Char <- Chars
  Docs <- SomeDocs
  Encode <- EncodeItem
  Others <- SomeOthers
  Behind <- SomeBehind
  Garbage <- SomeGarbage
  LONG_MAX = 999
  NUM_BUF = 5
  MAX_ERRORS = 3
SPECIFICATION ParseSpec
INVARIANTS FinalIsWhole OutlivesRestart RoundTrip HashedRange HashedFromDToE
