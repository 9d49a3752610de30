CONSTANTS
  RING_POOL_SIZE = 2
  BUF_SIZE = 2
  TAIL_MOD = 4
  READ_LEN = 2
  MAX_BYTES = 8
  FRAME_LENS <- ShortFrames
  SLICES <- AllSlices
SPECIFICATION FairFrameSpec
PROPERTIES
  TakenBufferReturned
CHECK_DEADLOCK FALSE
