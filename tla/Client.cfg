CONSTANTS
  REQ_MOD = 4
  OWNER_MOD = 2
  GAP = 1
  SQ_ENTRIES = 4
  SQ_MOD = 8
  NULL = NULL
  CQ_SIZE = 2
  CQ_MOD = 4
  STREAMS = 2
  PINGS = TRUE
  BATCH = 2
  FIRST_SEND_ID = 3
  SEND_LEN = 1
  BLOCKS = {b1}
  MAX_WRITES = 1
  MAX_RECVS = 3
  RING_POOL_SIZE = 2
  BUF_SIZE = 1
  TAIL_MOD = 4
  READ_LEN = 1
  stream = 1
SPECIFICATION ClientSpec
INVARIANTS
  ClientInv
  LookupsSucceed
PROPERTIES
  EachPath
CHECK_DEADLOCK FALSE
