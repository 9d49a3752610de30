CONSTANTS
  REQ_MOD = 4
  OWNER_MOD = 2
  GAP = 1
  SQ_ENTRIES = 4
  SQ_MOD = 8
  NULL = NULL
  CQ_SIZE = 2
  CQ_MOD = 4
  STREAMS = 2
  PINGS = FALSE
  BATCH = 2
  FIRST_SEND_ID = 0
  SEND_LEN = 1
  RING_POOL_SIZE = 2
  BUF_SIZE = 1
  TAIL_MOD = 4
  BLOCKS = {b1}
  MAX_WRITES = 0
  MAX_RECVS = 4
SPECIFICATION Spec
INVARIANTS
  RecvAlive
CHECK_DEADLOCK FALSE
