CONSTANTS
  REQ_MOD = 4
  OWNER_MOD = 2
  GAP = 1
  SQ_ENTRIES = 2
  SQ_MOD = 4
  NULL = NULL
  CQ_SIZE = 2
  CQ_MOD = 4
  STREAMS = 1
  PINGS = TRUE
  BATCH = 2
  FIRST_SEND_ID = 3
  SEND_LEN = 2
  RING_POOL_SIZE = 2
  BUF_SIZE = 1
  TAIL_MOD = 4
  BLOCKS = {b1, b2}
  MAX_WRITES = 3
  MAX_RECVS = 1
SPECIFICATION FairSpec
INVARIANTS
  TypeOK
  MemoryAlive
  CleanOps
  PendingExact
  ExpectedPanics
  BatchFresh
  LoopInv
PROPERTIES
  InOrder
  SendMemorySpec
  EachHandled
CHECK_DEADLOCK FALSE
