-------------------------- MODULE WebsocketHandler --------------------------
(***************************************************************************)
(* WebsocketHandler, the frame handler of the first probe                  *)
(* (src/src/examples/io_uring_probe.rs), as the record                     *)
(*                                                                         *)
(*     [frame_decoder |-> a decoder, str_acc |-> sequence of bytes]        *)
(*                                                                         *)
(* It is fed the plaintext of a connection in pieces cut anywhere and      *)
(* gives back the text messages that end in a piece.  The decoder itself   *)
(* is external (websocket_sans_io); it is told apart only by the frame it  *)
(* has come to, so the frames are the parameter FRAMES.                    *)
(***************************************************************************)
EXTENDS Integers, Sequences

CONSTANTS
  HEADER_LEN,  \* bytes of a frame's header
  FRAMES       \* the peer's frames: [opcode |-> the message's, fin, len]

Opcodes == {"Text", "Binary", "Ping", "ConnectionClose"}

ASSUME FramesAssumption ==
  /\ HEADER_LEN \in Nat \ {0}
  /\ FRAMES \in Seq([opcode : Opcodes, fin : BOOLEAN, len : Nat])

Decoder == [frame : Nat \ {0}, part : {"header", "payload"}, left : Nat]
Handler == [frame_decoder : Decoder, str_acc : Seq(Nat)]

NewHandler ==
  [frame_decoder |-> [frame |-> 1, part |-> "header", left |-> HEADER_LEN],
   str_acc |-> <<>>]

\* WebsocketFrameDecoder::add_data: how many bytes of data it takes, and the
\* event it reports of them; a frame's last event comes without a byte.
DecoderAddData(d, data) ==
  LET n == IF d.left <= Len(data) THEN d.left ELSE Len(data)
      moved == [d EXCEPT !.left = @ - n]
  IN IF d.frame > Len(FRAMES)
     THEN [decoder |-> d, consumed_bytes |-> 0, event |-> "none"]
     ELSE CASE d.part = "header" /\ n < d.left ->
                 [decoder |-> moved, consumed_bytes |-> n, event |-> "none"]
            [] d.part = "header" /\ n = d.left ->
                 [decoder |-> [frame |-> d.frame, part |-> "payload", left |-> FRAMES[d.frame].len],
                  consumed_bytes |-> n, event |-> "Start"]
            [] d.part = "payload" /\ d.left = 0 ->
                 [decoder |-> [frame |-> d.frame + 1, part |-> "header", left |-> HEADER_LEN],
                  consumed_bytes |-> 0, event |-> "End"]
            [] OTHER ->
                 [decoder |-> moved, consumed_bytes |-> n,
                  event |-> IF n = 0 THEN "none" ELSE "PayloadChunk"]

\* The text under way, after event with the bytes chunk in frame
Accumulated(str_acc, frame, event, chunk) ==
  IF frame.opcode # "Text" THEN str_acc
  ELSE CASE event = "Start" -> <<>>
         [] event = "PayloadChunk" -> str_acc \o chunk
         [] OTHER -> str_acc

\* Faulty variant: the loop ends with the slice, before a last event without
\* a byte is asked for.
ExhaustedSlice(ret, data) == data = <<>>

\* The loop ends when the decoder has neither taken a byte nor told an event.
Exhausted(ret, data) == ret.event = "none" /\ ret.consumed_bytes = 0

\* One round of the loop of add_data: data is what is left of its slice, strs
\* the messages so far, and the end of a close frame closes the connection.
Round(st) ==
  LET d == st.handler.frame_decoder
      ret == DecoderAddData(d, st.data)
      frame == FRAMES[d.frame]
      chunk == SubSeq(st.data, 1, ret.consumed_bytes)
      str_acc == Accumulated(st.handler.str_acc, frame, ret.event, chunk)
  IN IF st.closed \/ Exhausted(ret, st.data) THEN st
     ELSE [handler |-> [frame_decoder |-> ret.decoder, str_acc |-> str_acc],
           data    |-> SubSeq(st.data, ret.consumed_bytes + 1, Len(st.data)),
           strs    |-> IF ret.event = "End" /\ frame.fin /\ frame.opcode = "Text"
                       THEN Append(st.strs, str_acc) ELSE st.strs,
           closed  |-> ret.event = "End" /\ frame.opcode = "ConnectionClose"]

\* WebsocketHandler::add_data.  Every round takes a byte or ends a frame, so
\* this many exhaust the slice.
add_data(handler, data) ==
  LET rounds[k \in 0 .. Len(data) + Len(FRAMES)] ==
        IF k = 0 THEN [handler |-> handler, data |-> data, strs |-> <<>>, closed |-> FALSE]
        ELSE Round(rounds[k - 1])
  IN rounds[Len(data) + Len(FRAMES)]

-----------------------------------------------------------------------------
\* Where frame f starts among the bytes of the plaintext
FrameStart[f \in 1 .. Len(FRAMES) + 1] ==
  IF f = 1 THEN 0 ELSE FrameStart[f - 1] + HEADER_LEN + FRAMES[f - 1].len

\* The bytes of the plaintext from first on, len of them
Bytes(first, len) == [j \in 1 .. len |-> first + j - 1]
Payload(f) == Bytes(FrameStart[f] + HEADER_LEN, FRAMES[f].len)
=============================================================================
