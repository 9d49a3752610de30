----------------------------- MODULE FrameLoop -----------------------------
(***************************************************************************)
(* The receive path driven by the frame decoder, as the event loop drives  *)
(* it: read_message_frame is called once for every completion, it reads    *)
(* the stream only while it lacks bytes for the frame at hand, and it      *)
(* returns at the first complete frame.  The decoder itself is external (a *)
(* fork of tungstenite); the loop shows how it is used.  Over a plain      *)
(* connection (ping_pong) it reads in chunks longer than a buffer; over    *)
(* TLS (io_uring_probe_v2) a record's header and body at a time.  Whether  *)
(* and when sends complete is left open (OnSend).                          *)
(***************************************************************************)
EXTENDS RecvPath

CONSTANTS
  FRAME_LENS,  \* lengths the peer's frames may have, in bytes
  SLICES       \* lengths of the slices the decoder passes to read

ASSUME FrameAssumption ==
  /\ FRAME_LENS \subseteq Nat \ {0} /\ FRAME_LENS # {}
  /\ SLICES \subseteq 1 .. READ_LEN /\ SLICES # {}

VARIABLES
  inbuf,      \* bytes the decoder has read and not yet made into frames
  frame_len,  \* length of the frame those bytes begin
  failed      \* history: the loop has ignored an error other than WouldBlock

frameVars == <<inbuf, frame_len, failed>>

FrameInit ==
  /\ Init
  /\ inbuf = 0
  /\ frame_len \in FRAME_LENS
  /\ failed = FALSE

\* Bytes are missing: the decoder reads the stream.
FrameRead(buf_len) ==
  /\ inbuf < frame_len
  /\ Read(buf_len)
  /\ inbuf' = inbuf + given' - given
  /\ UNCHANGED <<frame_len, failed>>

\* Faulty variant: WouldBlock is reported with buffers still queued.
WouldBlockEarly ==
  /\ inbuf < frame_len
  /\ CqAdvance
  /\ UNCHANGED frameVars

\* Bytes are missing and nothing is queued: TcpStream::read reports
\* WouldBlock, which the loop ignores.
WouldBlock ==
  /\ inbuf < frame_len
  /\ buf_vec = <<>>
  /\ CqAdvance
  /\ UNCHANGED frameVars

\* read_message_frame ends in some other I/O error, of the TLS session say,
\* whatever is read or queued: the loop goes on as after WouldBlock.
IoError ==
  /\ CqAdvance
  /\ failed' = TRUE
  /\ UNCHANGED <<inbuf, frame_len>>

\* The frame is complete: it is returned, and the loop moves on.
FrameDone ==
  /\ inbuf >= frame_len
  /\ CqAdvance
  /\ inbuf' = inbuf - frame_len
  /\ frame_len' \in FRAME_LENS
  /\ UNCHANGED failed

FrameKernel == Kernel /\ UNCHANGED frameVars

FrameHandler ==
  \/ OnCompletion /\ UNCHANGED frameVars
  \/ \E n \in SLICES : FrameRead(n)
  \/ WouldBlock
  \/ IoError
  \/ FrameDone
  \/ DecoderError /\ UNCHANGED frameVars

FrameTake ==
  \/ OnSend /\ UNCHANGED frameVars
  \/ FromRawEvent /\ UNCHANGED frameVars

FrameNext == FrameKernel \/ FrameTake \/ FrameHandler

FrameSpec == FrameInit /\ [][FrameNext]_<<vars, frameVars>>

\* As in RecvPath, only the loop's own steps are owed.
FairFrameSpec ==
  /\ FrameSpec
  /\ WF_<<vars, frameVars>>(FrameHandler)
  /\ SF_<<vars, frameVars>>(FromRawEvent /\ UNCHANGED frameVars)

-----------------------------------------------------------------------------
\* As long as neither frames nor slices are shorter than a buffer, a
\* completion brings at most one frame's end, and one frame per completion is
\* enough: between handlers nothing readable is left on the stream, until a
\* read has failed (ping_pong.rs:173).
NoBacklog ==
  (\A n \in FRAME_LENS \cup SLICES : n >= BUF_SIZE) =>
    (phase = "reap" => (buf_vec = <<>> /\ inbuf < frame_len) \/ failed)

\* "caller is responsible to return kernel buffer ownership to kernel once
\* this is taken" (cqe.rs:65): the k-th buffer taken goes back to the kernel,
\* unless the program panics or a read fails.
TakenBufferReturned ==
  \A k \in 1 .. MAX_BYTES :
    returned + Len(buf_vec) >= k ~> (returned >= k \/ panic # "none" \/ failed)
=============================================================================
