CONSTANTS
  SUBSCRIBES = {TRUE}
  EAGER = TRUE
  REQ_LEN = 2
  RESP_LEN = 2
  FRAME_LEN = 2
  CHUNK = 3
  MAX_ASKS = 3
  MAX_BYTES = 6
SPECIFICATION Spec
INVARIANTS
  InSequence
\* the program waits for the server, which may stay silent
CHECK_DEADLOCK FALSE
