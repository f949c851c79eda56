CONSTANTS
  Chunk = {c1, c2, c3}
  Worker = {w1, w2}
  Retries = 2
  Attempts = 2
  Faults = 1
  Expiries = 1
  None = None
  Reader = {r1, r2, r3}
  Size = 3
  MaxConns = 5
  MaxReads = 5
SPECIFICATION CopiesSpec
INVARIANTS
  EachChunkOnce
  ThreadsKeepOrder
PROPERTIES
  NothingTakenAfterFailure
  ImplementsDiskCopy
  CopiesEnd
CHECK_DEADLOCK FALSE
