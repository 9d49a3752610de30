-------------------------- MODULE FrameLoopProofs --------------------------
(***************************************************************************)
(* Proofs about FrameLoop, for every set of frame and slice lengths: it    *)
(* drives the receive path as RecvPath allows, so what RecvPathProofs says *)
(* holds of it; and one frame for each completion is enough when frames    *)
(* and slices are as long as buffers, until a read fails.                  *)
(***************************************************************************)
EXTENDS FrameLoop, RecvPathProofs

frameAll == <<vars, frameVars>>

\* Between handlers nothing is queued; within one, at most the buffer that
\* its completion brought, and only while the decoder lacks bytes.
OneBuffer ==
  IF phase \in {"read", "sent"}
  THEN buf_vec # <<>> => Len(buf_vec) = 1 /\ inbuf < frame_len
  ELSE buf_vec = <<>> /\ inbuf < frame_len

LongEnough == \A n \in FRAME_LENS \cup SLICES : n >= BUF_SIZE

\* Less than a buffer's bytes are read beyond the frame at hand.
LittleAhead == inbuf < frame_len + BUF_SIZE

FrameInv ==
  /\ inbuf \in Nat
  /\ frame_len \in FRAME_LENS
  /\ LittleAhead
  /\ LongEnough /\ ~failed => OneBuffer

LEMMA FrameLens == frame_len \in FRAME_LENS => frame_len \in Nat \ {0}
BY FrameAssumption

\* Every step of the frame loop is a step of RecvPath.
LEMMA FrameStepIsStep == [FrameNext]_frameAll => [Next]_vars
<1> SUFFICES ASSUME [FrameNext]_frameAll PROVE [Next]_vars
  OBVIOUS
<1>1. CASE FrameKernel
  BY <1>1 DEF FrameKernel, Next
<1>2. CASE FromRawEvent \/ OnSend
  BY <1>2 DEF Next, Loop
<1>3. CASE OnCompletion
  BY <1>3 DEF Next, Loop, Handler
<1>4. CASE \E n \in SLICES : FrameRead(n)
  <2>1. PICK n \in SLICES : FrameRead(n)
    BY <1>4
  <2>2. n \in 1 .. READ_LEN
    BY FrameAssumption
  <2> QED BY <2>1, <2>2 DEF FrameRead, Next, Loop, Handler
<1>5. CASE WouldBlock
  BY <1>5 DEF WouldBlock, Next, Loop, Handler
<1>6. CASE FrameDone
  BY <1>6 DEF FrameDone, Next, Loop, Handler
<1>7. CASE DecoderError
  BY <1>7 DEF Next, Loop, Handler
<1>8. CASE IoError
  BY <1>8 DEF IoError, Next, Loop, Handler
<1>9. CASE UNCHANGED frameAll
  BY <1>9 DEF frameAll
<1> QED BY <1>1, <1>2, <1>3, <1>4, <1>5, <1>6, <1>7, <1>8, <1>9
  DEF FrameNext, FrameTake, FrameHandler

-----------------------------------------------------------------------------
LEMMA FrameInitInv == FrameInit => FrameInv
BY FrameLens, Sizes DEF FrameInit, Init, FrameInv, LittleAhead, OneBuffer

LEMMA FrameKernelInv == FrameInv /\ FrameKernel => FrameInv'
<1> SUFFICES ASSUME FrameInv, FrameKernel PROVE FrameInv'
  OBVIOUS
<1>1. UNCHANGED <<phase, buf_vec, inbuf, frame_len, failed>>
  BY DEF FrameKernel, Kernel, KernelRecv, KernelEnd, frameVars
<1> QED BY <1>1 DEF FrameInv, LittleAhead, OneBuffer, LongEnough

LEMMA FromRawEventFrame ==
  FrameInv /\ FromRawEvent /\ UNCHANGED frameVars => FrameInv'
<1> SUFFICES ASSUME FrameInv, FromRawEvent, UNCHANGED frameVars PROVE FrameInv'
  OBVIOUS
<1>1. phase = "reap" /\ phase' \in {"reap", "completed"}
  BY DEF FromRawEvent
<1>2. UNCHANGED <<buf_vec, inbuf, frame_len, failed>>
  BY DEF FromRawEvent, frameVars
<1> QED BY <1>1, <1>2 DEF FrameInv, LittleAhead, OneBuffer, LongEnough

LEMMA OnSendFrame ==
  FrameInv /\ OnSend /\ UNCHANGED frameVars => FrameInv'
BY DEF OnSend, frameVars, FrameInv, LittleAhead, OneBuffer, LongEnough

LEMMA OnCompletionFrame ==
  TypeOK /\ FrameInv /\ OnCompletion /\ UNCHANGED frameVars => FrameInv'
<1> SUFFICES ASSUME TypeOK, FrameInv, OnCompletion, UNCHANGED frameVars
             PROVE  FrameInv'
  OBVIOUS
<1>1. UNCHANGED <<inbuf, frame_len, failed>>
  BY DEF frameVars
<1>2. phase = "completed"
  BY DEF OnCompletion
<1>3. CASE UNCHANGED <<phase, buf_vec>>
  BY <1>1, <1>3 DEF FrameInv, LittleAhead, OneBuffer, LongEnough
<1>4. CASE phase' = "read" /\ buf_vec' = Append(buf_vec, [buf |-> completion.kernel_buf, claimed |-> 0])
  <2>1. buf_vec = <<>> => Len(buf_vec') = 1
    BY <1>4
  <2> QED BY <1>1, <1>2, <1>4, <2>1 DEF FrameInv, LittleAhead, OneBuffer, LongEnough
<1> QED BY <1>3, <1>4 DEF OnCompletion

\* A read hands over at least one byte and at most a buffer; a slice as long
\* as a buffer empties the one it reads.
LEMMA FrameReadFrame ==
  ASSUME IInv, FrameInv, NEW n \in SLICES, FrameRead(n)
  PROVE  FrameInv'
<1> DEFINE v == Head(buf_vec)
           bytes == Min2(n, Remaining(v))
<1>1. n \in Nat \ {0} /\ n \in 1 .. READ_LEN
  BY FrameAssumption, ReadAssumption
<1>2. Running /\ phase \in {"read", "sent"} /\ buf_vec # <<>> /\ buf_vec \in Seq(Reader)
  BY DEF FrameRead, Read, IInv, TypeOK
<1>3. v = buf_vec[1] /\ 1 \in 1 .. Len(buf_vec)
  BY <1>2
<1>4. v.buf.data_len \in 1 .. BUF_SIZE /\ v.claimed \in 0 .. BUF_SIZE - 1
  <2>1. v \in Reader
    BY <1>2, <1>3
  <2>2. v.buf \in KernelBuffer /\ v.claimed \in 0 .. BUF_SIZE - 1
    BY <2>1 DEF Reader
  <2> QED BY <2>2 DEF KernelBuffer
<1>5. v.claimed < v.buf.data_len
  BY <1>3 DEF IInv, ReadersInv
<1>6. Remaining(v) \in 1 .. BUF_SIZE
  BY <1>4, <1>5, Sizes DEF Remaining
<1>7. bytes \in 1 .. BUF_SIZE /\ v.claimed + bytes <= v.buf.data_len
  BY <1>1, <1>4, <1>6, Sizes DEF Min2, Remaining
<1>8. ReadFailure(v, bytes) = "none"
  BY <1>6, <1>7, <1>4 DEF ReadFailure
<1>9. given' = given + bytes /\ given \in Nat /\ UNCHANGED phase
  BY <1>8 DEF FrameRead, Read, IInv, TypeOK
<1>10. inbuf \in Nat /\ inbuf < frame_len /\ UNCHANGED <<frame_len, failed>>
       /\ inbuf' = inbuf + bytes
  BY <1>9, <1>7 DEF FrameRead, FrameInv
<1>11. inbuf' \in Nat /\ inbuf' < frame_len' + BUF_SIZE
  BY <1>7, <1>10, FrameLens, Sizes DEF FrameInv
<1>12. LongEnough => buf_vec' = Tail(buf_vec)
  <2> SUFFICES ASSUME LongEnough PROVE buf_vec' = Tail(buf_vec)
    OBVIOUS
  <2>1. n >= BUF_SIZE
    BY DEF LongEnough
  <2>2. bytes = Remaining(v)
    BY <2>1, <1>1, <1>6, Sizes DEF Min2
  <2> QED BY <2>2, <1>8 DEF FrameRead, Read
<1>13. LongEnough /\ ~failed => buf_vec' = <<>>
  <2>1. LongEnough /\ ~failed => Len(buf_vec) = 1
    BY <1>2 DEF FrameInv, OneBuffer
  <2> QED BY <2>1, <1>2, <1>12
<1>14. (LongEnough /\ ~failed => OneBuffer)'
  BY <1>2, <1>9, <1>10, <1>13 DEF OneBuffer, LongEnough
<1> QED BY <1>10, <1>11, <1>14 DEF FrameInv, LittleAhead

LEMMA WouldBlockFrame == FrameInv /\ WouldBlock => FrameInv'
BY DEF FrameInv, WouldBlock, CqAdvance, frameVars, LittleAhead, OneBuffer, LongEnough

LEMMA IoErrorFrame == FrameInv /\ IoError => FrameInv'
BY DEF FrameInv, IoError, LittleAhead

LEMMA FrameDoneFrame ==
  ASSUME FrameInv, FrameDone
  PROVE  FrameInv'
<1>1. phase \in {"read", "sent"} /\ phase' = "reap" /\ buf_vec' = buf_vec
  BY DEF FrameDone, CqAdvance
<1>2. frame_len \in Nat \ {0} /\ frame_len' \in Nat \ {0} /\ frame_len' \in FRAME_LENS
  BY FrameLens, FrameAssumption DEF FrameInv, FrameDone
<1>3. inbuf' \in Nat /\ inbuf' < BUF_SIZE
  BY <1>2, Sizes DEF FrameInv, LittleAhead, FrameDone
<1>4. LongEnough /\ ~failed => buf_vec = <<>>
  BY <1>1, <1>2 DEF FrameInv, OneBuffer, FrameDone
<1>5. LongEnough => inbuf' < frame_len'
  BY <1>2, <1>3, Sizes DEF LongEnough
<1>6. (LongEnough /\ ~failed => OneBuffer)'
  BY <1>1, <1>4, <1>5 DEF OneBuffer, LongEnough, FrameDone
<1>7. inbuf' < frame_len' + BUF_SIZE
  <2>1. \A a, b, c \in Nat : a < c => a < b + c
    OBVIOUS
  <2>2. frame_len' \in Nat /\ inbuf' \in Nat /\ BUF_SIZE \in Nat
    BY <1>2, <1>3, Sizes
  <2> QED BY <2>1, <2>2, <1>3
<1> QED BY <1>2, <1>3, <1>6, <1>7 DEF FrameInv, LittleAhead

LEMMA FrameStepInv ==
  IInv /\ FrameInv /\ [FrameNext]_frameAll => FrameInv'
<1> SUFFICES ASSUME IInv, FrameInv, [FrameNext]_frameAll PROVE FrameInv'
  OBVIOUS
<1>1. CASE FrameKernel
  BY <1>1, FrameKernelInv
<1>2. CASE FrameTake
  BY <1>2, FromRawEventFrame, OnSendFrame DEF FrameTake
<1>3. CASE OnCompletion /\ UNCHANGED frameVars
  BY <1>3, OnCompletionFrame DEF IInv
<1>4. CASE \E n \in SLICES : FrameRead(n)
  BY <1>4, FrameReadFrame
<1>5. CASE WouldBlock
  BY <1>5, WouldBlockFrame
<1>6. CASE FrameDone
  BY <1>6, FrameDoneFrame
<1>7. CASE DecoderError /\ UNCHANGED frameVars
  BY <1>7 DEF DecoderError, frameVars, FrameInv, LittleAhead, OneBuffer, LongEnough
<1>8. CASE IoError
  BY <1>8, IoErrorFrame
<1>9. CASE UNCHANGED frameAll
  BY <1>9 DEF frameAll, vars, frameVars, FrameInv, LittleAhead, OneBuffer, LongEnough
<1> QED BY <1>1, <1>2, <1>3, <1>4, <1>5, <1>6, <1>7, <1>8, <1>9
  DEF FrameNext, FrameTake, FrameHandler

-----------------------------------------------------------------------------
\* However the decoder reads, the loop is one of the ways RecvPath allows to
\* drive the receive path (ping_pong.rs:160-189).
THEOREM DrivesRecvPath == FrameSpec => Spec
<1>1. FrameInit => Init
  BY DEF FrameInit
<1> QED BY <1>1, FrameStepIsStep, PTL DEF FrameSpec, Spec, frameAll

LEMMA FrameInvariant == FrameSpec => [](IInv /\ FrameInv)
<1>1. FrameSpec => []IInv
  BY DrivesRecvPath, Inductive, PTL
<1> QED BY <1>1, FrameInitInv, FrameStepInv, PTL DEF FrameSpec, frameAll

\* One frame for each completion is enough when no frame and no slice is
\* shorter than a buffer, until a read fails (ping_pong.rs:173).
THEOREM OneFrameSuffices == FrameSpec => []NoBacklog
<1>1. FrameInv => NoBacklog
  BY DEF FrameInv, LongEnough, OneBuffer, NoBacklog
<1> QED BY <1>1, FrameInvariant, PTL
=============================================================================
