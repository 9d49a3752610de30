---------------------------- MODULE RecvPathInv ----------------------------
(***************************************************************************)
(* The inductive invariant of RecvPath.  It numbers the buffers in the     *)
(* order the kernel fills them: number c uses slot c % RING_POOL_SIZE, and *)
(* the numbers returned .. received - 1 are those the program has yet to   *)
(* give back, first the queued ones, then the attached one, then those     *)
(* announced in the completion queue.                                      *)
(***************************************************************************)
EXTENDS RecvPath

\* The number of the buffer announced by the head of cq
First == returned + Len(buf_vec) - (IF phase = "read" THEN 1 ELSE 0)

\* Completions in cq that announce a buffer
Buffers == IF armed THEN Len(cq) ELSE Len(cq) - 1

\* Buffer number c, as get_read_buf hands it out
BufferAt(c) ==
  [addr     |-> SlotIndex(c),
   data_len |-> mem[SlotIndex(c)].len,
   bid      |-> SlotIndex(c),
   buf_len  |-> BUF_SIZE]

\* The heads and tails are the unbounded counters, wrapped, and at most the
\* whole pool is out.
RingInv ==
  /\ returned + Len(buf_vec) <= received
  /\ received <= returned + RING_POOL_SIZE
  /\ khead = received % TAIL_MOD
  /\ br.tail = (returned + RING_POOL_SIZE) % TAIL_MOD
  /\ SlotIdentity

\* Completions announce buffers in their numbers' order, and the one that
\* ends the receive comes last and is never released.
QueueInv ==
  /\ received = First + Buffers
  /\ ~armed => cq # <<>> /\ ~cq[Len(cq)].buffer /\ cq[Len(cq)].res \in EndResults
  /\ phase \in {"completed", "read"} => cq # <<>>
  /\ phase = "read" => cq[1].buffer
  /\ \A j \in 1 .. Len(cq) :
       IF cq[j].buffer
       THEN /\ cq[j].bid = SlotIndex(First + j - 1)
            /\ (phase = "read" => j > 1) => cq[j].res = mem[cq[j].bid].len
       ELSE j = Len(cq) /\ ~armed

CompletionInv ==
  completion =
    IF phase = "completed"
    THEN [res |-> cq[1].res,
          kernel_buf |-> IF cq[1].buffer THEN BufferAt(First) ELSE NoBuffer]
    ELSE NoCompletion

\* Only the front reader is partly read, and no reader is fully read.
ReadersInv ==
  \A i \in 1 .. Len(buf_vec) :
    /\ buf_vec[i].buf = BufferAt(returned + i - 1)
    /\ buf_vec[i].claimed < buf_vec[i].buf.data_len
    /\ i > 1 => buf_vec[i].claimed = 0

\* The bytes not yet given are, in order, those of the buffers not returned.
ContentInv ==
  /\ \A c \in returned .. received - 1 :
       LET held == mem[SlotIndex(c)] IN
         /\ held.len >= 1
         /\ held.start + held.len <= got
         /\ held.start + held.len =
              IF c + 1 < received THEN mem[SlotIndex(c + 1)].start ELSE got
  /\ given =
       IF returned = received THEN got
       ELSE mem[SlotIndex(returned)].start
              + (IF buf_vec = <<>> THEN 0 ELSE buf_vec[1].claimed)

IInv ==
  /\ TypeOK
  /\ NoInternalPanic
  /\ RingInv
  /\ QueueInv
  /\ CompletionInv
  /\ ReadersInv
  /\ ContentInv
=============================================================================
