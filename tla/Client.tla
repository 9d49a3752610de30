------------------------------- MODULE Client -------------------------------
(***************************************************************************)
(* The event loop with everything it drives: EventLoop's loop, submission  *)
(* ring, completion ring and sends, with, per stream, RecvPath's buffer    *)
(* group, buffers and queue.  An action is an action of EventLoop with     *)
(* what it does to the receive path; the read of the stream is added.      *)
(* All streams share one completion ring, and a completion is told from    *)
(* the others by its tag alone.                                            *)
(***************************************************************************)
EXTENDS EventLoop

CONSTANTS
  READ_LEN,  \* longest slice the decoder passes to read
  stream     \* the stream from which the client is seen, any of them

ASSUME ClientAssumption == READ_LEN \in Nat \ {0} /\ stream \in Owners

VARIABLES
  br,          \* per group: the buffer ring
  khead,       \* per group: the kernel's u16 head of it
  mem,         \* per group: what each buffer holds
  kernel_buf,  \* kernel_buf of the Completion in hand, and its group
  buf_vec,     \* per stream: its KernelBufferVecReader
  got, given, last, received, returned  \* per stream: as in RecvPath

groupVars == <<br, khead, mem, got, received>>
readVars == <<kernel_buf, buf_vec, given, last, returned>>
clientVars == <<vars, groupVars, readVars>>

NoKernelBuf == [group |-> 0, buf |-> [bid |-> -1]]

-----------------------------------------------------------------------------
ClientInit ==
  /\ Init
  /\ br = [i \in Owners |-> new_buffer_group]
  /\ khead = [i \in Owners |-> 0]
  /\ mem = [i \in Owners |-> [a \in Slots |-> [start |-> 0, len |-> 0]]]
  /\ kernel_buf = NoKernelBuf
  /\ buf_vec = [i \in Owners |-> <<>>]
  /\ got = [i \in Owners |-> 0] /\ given = got
  /\ last = [i \in Owners |-> [first |-> 0, len |-> 0]]
  /\ received = got /\ returned = got

(***************************************************************************)
(* The kernel (external).                                                  *)
(***************************************************************************)

\* Bytes go to the buffer at the head of the group that the receive names.
RecvInto(op, n) ==
  LET group == op.buf_group
      i == owner_of(op.user_data)
      slot == br[group].bufs[SlotIndex(khead[group])]
  IN /\ khead[group] # br[group].tail
     /\ n <= slot.len
     /\ KernelRecv(op, n, slot.bid)
     /\ mem' = [mem EXCEPT ![group][slot.addr] = [start |-> got[i], len |-> n]]
     /\ khead' = [khead EXCEPT ![group] = (@ + 1) % TAIL_MOD]
     /\ got' = [got EXCEPT ![i] = @ + n]
     /\ received' = [received EXCEPT ![i] = @ + 1]
     /\ UNCHANGED <<br, readVars>>

EndOf(op, res) ==
  /\ res = ENOBUFS <=> khead[op.buf_group] = br[op.buf_group].tail
  /\ KernelEnd(op, res)
  /\ UNCHANGED <<groupVars, readVars>>

(***************************************************************************)
(* The loop.                                                               *)
(***************************************************************************)

\* Faulty variant: every buffer is looked for in the first group.
FirstGroup(tag) == 0

\* from_raw_event takes the owner's number for the group's (cqe.rs:43).
GroupOf(tag) == owner_of(tag)

\* The assertion that the lookup of cqe's buffer fails
LookupFailure(cqe) ==
  IF ~cqe.buffer THEN "none"
  ELSE IF cqe.res = 0 THEN "zero data"
  ELSE IF get_read_buf_panics(br[GroupOf(cqe.user_data)], cqe.bid, cqe.res) THEN "wrong slot"
  ELSE "none"

TakeBuffer ==
  /\ phase = "handle"
  /\ LET cqe == cq.cqes[Head(cqe_buf)]
         group == GroupOf(cqe.user_data)
     IN /\ FromRawEvent(LookupFailure(cqe))
        /\ kernel_buf' =
             IF panic' = "none" /\ cqe.buffer
             THEN [group |-> group, buf |-> get_read_buf(br[group], cqe.bid, cqe.res)]
             ELSE kernel_buf
  /\ UNCHANGED <<groupVars, buf_vec, given, last, returned>>

\* Faulty variant: the buffer is queued on the first stream.
QueueOnFirst ==
  /\ OnCompletion
  /\ IF panic' = "none" /\ event_of(completion.user_data) = MultishortRecv
     THEN /\ buf_vec' = [buf_vec EXCEPT ![0] =
                           Append(@, [group |-> kernel_buf.group, buf |-> kernel_buf.buf,
                                      claimed |-> 0])]
          /\ kernel_buf' = NoKernelBuf
     ELSE UNCHANGED <<buf_vec, kernel_buf>>
  /\ UNCHANGED <<groupVars, given, last, returned>>

\* The owner's on_completion: a received buffer moves to the stream's queue.
QueueBuffer ==
  /\ OnCompletion
  /\ IF panic' = "none" /\ event_of(completion.user_data) = MultishortRecv
     THEN /\ buf_vec' = [buf_vec EXCEPT ![owner_of(completion.user_data)] =
                           Append(@, [group |-> kernel_buf.group, buf |-> kernel_buf.buf,
                                      claimed |-> 0])]
          /\ kernel_buf' = NoKernelBuf
     ELSE UNCHANGED <<buf_vec, kernel_buf>>
  /\ UNCHANGED <<groupVars, given, last, returned>>

\* One Read::read by the decoder of the stream that owns the completion,
\* whether that was of a receive or of a send
Read(buf_len) ==
  LET i == owner_of(completion.user_data) IN
  /\ Running /\ phase = "read" /\ buf_vec[i] # <<>>
  /\ LET v == Head(buf_vec[i])
         remaining == v.buf.data_len - v.claimed
         bytes == Min2(buf_len, remaining)
     IN /\ last' = [last EXCEPT ![i] =
                      [first |-> mem[v.group][v.buf.addr].start + v.claimed, len |-> bytes]]
        /\ given' = [given EXCEPT ![i] = @ + bytes]
        /\ IF bytes = remaining
           THEN /\ buf_vec' = [buf_vec EXCEPT ![i] = Tail(@)]
                /\ br' = [br EXCEPT ![v.group] = buf_ring_add_advance(@, v.buf)]
                /\ returned' = [returned EXCEPT ![i] = @ + 1]
           ELSE /\ buf_vec' = [buf_vec EXCEPT ![i][1].claimed = @ + bytes]
                /\ UNCHANGED <<br, returned>>
  /\ UNCHANGED <<vars, khead, mem, got, received, kernel_buf>>

-----------------------------------------------------------------------------
\* Everything that leaves the receive path alone
Elsewhere == (Outgoing \/ Between \/ CqAdvance \/ ProtocolError) /\ UNCHANGED <<groupVars, readVars>>

ClientNext ==
  \/ \E op \in recvs, n \in 1 .. BUF_SIZE : RecvInto(op, n)
  \/ \E op \in recvs, res \in {EOF, ECONNRESET, ENOBUFS} : EndOf(op, res)
  \/ TakeBuffer \/ QueueBuffer
  \/ \E n \in 1 .. READ_LEN : Read(n)
  \/ Elsewhere

ClientSpec == ClientInit /\ [][ClientNext]_clientVars

-----------------------------------------------------------------------------
(***************************************************************************)
(* The client seen from one stream.                                        *)
(***************************************************************************)

\* Of the completions in queue those with the tag d, as RecvPath has them
Selected(queue, d) ==
  LET sel[k \in 0 .. Len(queue)] ==
        IF k = 0 THEN <<>>
        ELSE IF queue[k].user_data # d THEN sel[k - 1]
        ELSE Append(sel[k - 1],
               [res |-> queue[k].res, buffer |-> queue[k].buffer, bid |-> queue[k].bid])
  IN sel[Len(queue)]

\* The tag of the completion that the loop has come to, in a handler
TagInHand ==
  IF phase = "handle" THEN cq.cqes[Head(cqe_buf)].user_data ELSE completion.user_data

PathPhase ==
  IF phase \in {"completed", "read"} /\ completion.user_data = RecvTag(stream) THEN phase
  ELSE IF phase = "read" /\ owner_of(completion.user_data) = stream THEN "sent"
  ELSE "reap"

PathCompletion ==
  IF PathPhase = "completed"
  THEN [res |-> cq.cqes[completion.ptr].res, kernel_buf |-> kernel_buf.buf]
  ELSE [res |-> 0, kernel_buf |-> NoKernelBuf.buf]

PathPanic ==
  IF panic = "protocol" /\ phase = "read" /\ owner_of(TagInHand) = stream THEN "bad frame"
  ELSE IF panic \in {"cqe error", "zero data", "wrong slot", "res 0", "no buffer"}
          /\ TagInHand = RecvTag(stream) THEN panic
  ELSE "none"

Path == INSTANCE RecvPath WITH
  MAX_BYTES <- MAX_RECVS * BUF_SIZE,
  br <- br[stream], khead <- khead[stream], mem <- mem[stream],
  armed <- stream \in open,
  cq <- Selected(Contents(cq), RecvTag(stream)),
  phase <- PathPhase, completion <- PathCompletion, panic <- PathPanic,
  buf_vec <- [k \in DOMAIN buf_vec[stream] |->
                [buf |-> buf_vec[stream][k].buf, claimed |-> buf_vec[stream][k].claimed]],
  got <- got[stream], given <- given[stream], last <- last[stream],
  received <- received[stream], returned <- returned[stream]

-----------------------------------------------------------------------------
(***************************************************************************)
(* Properties.                                                             *)
(***************************************************************************)
Reader(i) ==
  {r \in [group : {i}, buf : KernelBuffer, claimed : Nat] : r.claimed < r.buf.data_len}

ClientTypes ==
  /\ br \in [Owners -> Ring] /\ khead \in [Owners -> Tails]
  /\ mem \in [Owners -> [Slots -> [start : Nat, len : 0 .. BUF_SIZE]]]
  /\ kernel_buf \in [group : Owners, buf : KernelBuffer] \cup {NoKernelBuf}
  /\ buf_vec = [i \in Owners |-> buf_vec[i]]
  /\ got \in [Owners -> Nat] /\ given \in [Owners -> Nat]
  /\ last \in [Owners -> [first : Nat, len : 0 .. BUF_SIZE]]
  /\ received \in [Owners -> Nat] /\ returned \in [Owners -> Nat]

\* A buffer on its way to a stream is of the stream's own group, whichever
\* stream that is.
GroupsInv ==
  /\ \A i \in Owners : buf_vec[i] \in Seq(Reader(i))
  /\ IF phase = "completed" /\ Contents(cq)[1].buffer
     THEN kernel_buf \in [group : {owner_of(completion.user_data)}, buf : KernelBuffer]
     ELSE kernel_buf = NoKernelBuf

\* Only a receive's completion brings a buffer, and each at most one's bytes.
Brings(cqe) ==
  cqe.buffer => cqe.res \in 1 .. BUF_SIZE /\ \E i \in Owners : cqe.user_data = RecvTag(i)
EntriesInv == \A k \in DOMAIN Contents(cq) : Brings(Contents(cq)[k])
GotInv == \A i \in Owners : got[i] <= arrivals * BUF_SIZE

\* The decoder that reads is that of one of the streams.
HandInv == phase = "read" => owner_of(completion.user_data) \in Owners

\* A lookup that fails would be of a buffer of one of the streams.
LookupInv == panic \in LookupFailures => \E i \in Owners : TagInHand = RecvTag(i)

\* A stream's receive is armed once, before anything can end it.
OpenInv ==
  /\ \A op \in recvs : op.fd \in open
  /\ phase = "arm" \/ (\E op \in PreparedOps(sq) : op.opcode = "RECV") =>
       recvs = {} /\ open = Owners

\* The inductive invariant, with LoopInv: which group a buffer on its way is of
\* (cqe.rs:43), which completions bring one, and whose receives can still do so.
ClientInv ==
  ClientTypes /\ GroupsInv /\ EntriesInv /\ GotInv /\ HandInv /\ LookupInv /\ OpenInv

\* The stream's receive path is what RecvPath says it is, and what is proved
\* of RecvPath holds of it: no completion, no buffer and no drop of another
\* stream reaches it (cqe.rs:43, ping_pong.rs:167).
EachPath == Path!Spec

\* No lookup of one of the stream's buffers fails: the slot of the buffer's number
\* in the group of the owner's number describes that buffer (cqe.rs:43,
\* buf_ring.rs:111).
LookupsSucceed == panic \in LookupFailures => TagInHand # RecvTag(stream)
=============================================================================
