CONSTANTS
  RING_POOL_SIZE = 4
  BUF_SIZE = 2
  TAIL_MOD = 8
  READ_LEN = 2
  MAX_BYTES = 10
SPECIFICATION FairSpec
INVARIANTS
  TypeOK
  SlotIdentity
  NoInternalPanic
  OneOwner
  NoReallocate
  IInv
PROPERTIES
  HeldBytesStable
  StreamSpec
  HandlerReturns
  EachBufferQueued
\* the program stops at a panic, and idles once the peer has sent everything
CHECK_DEADLOCK FALSE
