CONSTANTS
  RING_POOL_SIZE = 4
  BUF_SIZE = 2
  TAIL_MOD = 8
SPECIFICATION Spec
INVARIANTS
  TypeOK
  PublishedWhole
  MemoryInv
PROPERTIES
  ActsAsBufRing
CHECK_DEADLOCK FALSE
