CONSTANTS
  REQ_MOD = 4
  OWNER_MOD = 2
  GAP = 1
  SQ_ENTRIES = 2
  SQ_MOD = 4
  NULL = NULL
  CQ_SIZE = 5
  CQ_MOD = 10
  STREAMS = 1
  PINGS = TRUE
  BATCH = 2
  FIRST_SEND_ID = 3
  SEND_LEN = 1
  RING_POOL_SIZE = 2
  BUF_SIZE = 1
  TAIL_MOD = 4
  BLOCKS = {b1}
  MAX_WRITES = 2
  MAX_RECVS = 4
SPECIFICATION Spec
INVARIANTS
  RecvAlive
  AliveInv
CHECK_DEADLOCK FALSE
