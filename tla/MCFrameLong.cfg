CONSTANTS
  RING_POOL_SIZE = 2
  BUF_SIZE = 2
  TAIL_MOD = 4
  READ_LEN = 2
  MAX_BYTES = 8
  FRAME_LENS <- LongFrames
  SLICES <- WholeSlices
SPECIFICATION FairFrameSpec
INVARIANTS
  NoBacklog
PROPERTIES
  TakenBufferReturned
CHECK_DEADLOCK FALSE
