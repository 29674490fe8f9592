SPECIFICATION PartSpec
CONSTANTS
  Consumer = {c1, c2}
  Patient = c1
  MaxBulk = 3
  MaxTail = 7
  SingleTail = 5
  MaxOver = 1
  Block = {b1, b2, b3}
  BLOCK_SIZE = 2
  INDEX_SIZE = 2
  MAX_SUBQUEUE_SIZE = 6
  MaxEntries = 4
  Null = Null
SYMMETRY Symmetry
INVARIANTS ClaimsSound BlocksInPlace DestroyReturnsAll
PROPERTY ImplementsBase
CHECK_DEADLOCK FALSE
