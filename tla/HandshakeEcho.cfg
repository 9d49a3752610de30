CONSTANTS
  SUBSCRIBES = {FALSE, TRUE}
  EAGER = FALSE
  REQ_LEN = 2
  RESP_LEN = 3
  FRAME_LEN = 3
  CHUNK = 2
  MAX_ASKS = 6
  MAX_BYTES = 18
SPECIFICATION Spec
INVARIANTS
  TypeOK
  InSequence
\* the program waits for the server, which may stay silent
CHECK_DEADLOCK FALSE
