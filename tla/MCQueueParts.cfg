SPECIFICATION FairSpec
CONSTANTS
  t1 = t1
  t2 = t2
  Thread <- Threads
  RECYCLE = FALSE
  HashOf <- HashOfThread
  SmallHashOf <- SmallHashOfThread
  InitialOffset <- OffsetOfThread
  Patient = t1
  PoolSize = 2
  Heap = {d1}
  Null = Null
  HASH_SIZE = 4
  MaxTables = 3
  MaxFails = 1
  MaxExits = 2
  Empty = Empty
  Reusable = Reusable
  NoThread = NoThread
  QUOTA = 1
  MaxProducers = 2
  MaxTail = 1
  MaxBulk = 2
  MaxOver = 1
  MaxElements = 2
  MaxOvercommit = 2
INVARIANTS BlocksSafe ProducersSafe NothingOverlooked
PROPERTIES CallsEnd EveryElementTaken
