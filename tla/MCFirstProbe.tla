---------------------------- MODULE MCFirstProbe ----------------------------
EXTENDS FirstProbeInv

\* A text, a ping, a text in two frames, an empty text and the close
MCFrames ==
  <<[opcode |-> "Text", fin |-> TRUE, len |-> 1],
    [opcode |-> "Ping", fin |-> TRUE, len |-> 0],
    [opcode |-> "Text", fin |-> FALSE, len |-> 1],
    [opcode |-> "Text", fin |-> TRUE, len |-> 2],
    [opcode |-> "Text", fin |-> TRUE, len |-> 0],
    [opcode |-> "ConnectionClose", fin |-> TRUE, len |-> 0]>>
=============================================================================
