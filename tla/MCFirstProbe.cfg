CONSTANTS
  RING_POOL_SIZE = 2
  BUF_SIZE = 3
  TAIL_MOD = 4
  HEADER_LEN = 2
  FRAMES <- MCFrames
  REC_LEN = 5
  REC_PLAIN = 4
  BATCH = 2
  MAX_BYTES = 20
SPECIFICATION Spec
INVARIANTS
  TypeOK
  OneOwner
  TextsDelivered
  ProbeInv
PROPERTIES
  StreamSpec
CHECK_DEADLOCK FALSE
