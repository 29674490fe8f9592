SPECIFICATION PartSpec
CONSTANTS
  Consumer = {c1, c2}
  Patient = c1
  MaxBulk = 3
  MaxTail = 7
  SingleTail = 5
  SingleBlocks = 3
  AfterUndone = TRUE
  MaxOver = 1
  Block = {b1, b2, b3, b4}
  BLOCK_SIZE = 2
  INDEX_SIZE = 2
  MAX_SUBQUEUE_SIZE = 6
  MayFail = TRUE
  MayThrow = FALSE
  Null = Null
SYMMETRY Symmetry
INVARIANT LookupHits
CHECK_DEADLOCK FALSE
