---------------------------- MODULE EventLoopInv ----------------------------
(***************************************************************************)
(* The inductive invariant of EventLoop.  An operation is a function of    *)
(* its tag, through pending_sent and heap, and the tag of a send is in     *)
(* exactly one place: among the prepared entries, in the kernel, or in a   *)
(* completion not handled yet.                                             *)
(***************************************************************************)
EXTENDS EventLoop

\* Sends the program waits for, and what each pins
Pending == UNION {DOMAIN pending_sent[i] : i \in Owners}
BlockOf(d) == pending_sent[owner_of(d)][d]

\* The operations as the program means them
SendOf(d) ==
  [opcode |-> "SEND", fd |-> owner_of(d), addr |-> BlockOf(d), len |-> SEND_LEN,
   flags |-> {}, ioprio |-> {}, msg_flags |-> {"MSG_WAITALL"}, buf_group |-> 0,
   user_data |-> d, data |-> heap[BlockOf(d)]]
RecvOf(i) ==
  [opcode |-> "RECV", fd |-> i, addr |-> NULL, len |-> 0,
   flags |-> {"BUFFER_SELECT"}, ioprio |-> {"MULTISHOT"}, msg_flags |-> {}, buf_group |-> i,
   user_data |-> from_parts(MultishortRecv, i, RECV_ID(i)), data |-> 0]

IsSend(op) == op.user_data \in Pending /\ op = SendOf(op.user_data)
IsRecv(op) == op.fd \in Owners /\ op = RecvOf(op.fd)

\* The batch is there while it is handled, and inner loops end at 0.
PhaseInv ==
  /\ cqe_buf # <<>> <=> phase \in {"handle", "completed", "read"}
  /\ phase \notin {"arm", "ping"} => at = 0

\* What is known of the batch while it is handled
CqInv ==
  /\ Ready(cq) <= CQ_SIZE
  /\ BatchFresh
  /\ phase = "completed" => Contents(cq)[1].res >= 0

\* This much is inductive by itself: the kernel only adds to the completions
\* that the batch points at.
BatchInv == TypeOK /\ PhaseInv /\ CqInv

\* The submission ring holds what one iteration prepares, and before the
\* first submission also the receives; until these are prepared the rest of
\* the ring is as the kernel made it.
SqInv ==
  /\ phase = "arm" =>
       /\ sq = [sqes |-> [k \in SqIndices |-> IF k < at THEN RecvOf(k) ELSE ZeroSqe],
                sqe_tail |-> at, khead |-> 0]
       /\ PreparedCount(sq) <= at
  /\ phase = "top" => PreparedCount(sq) <= STREAMS
  /\ phase = "ping" => PreparedCount(sq) <= STREAMS + at
  /\ phase = "submit" => PreparedCount(sq) <= 2 * STREAMS
  /\ phase \notin {"arm", "top", "ping", "submit"} => PreparedCount(sq) = 0

\* Tags in use belong to their stream and pin a block each; a block that
\* holds a write is pinned.
PendingInv ==
  /\ \A i \in Owners : \A d \in DOMAIN pending_sent[i] :
       d \in Tag /\ owner_of(d) = i /\ event_of(d) = Send
  /\ \A d, e \in Pending : BlockOf(d) = BlockOf(e) => d = e
  /\ \A b \in BLOCKS : heap[b] # 0 <=> \E d \in Pending : BlockOf(d) = b

HeapInv ==
  /\ \A b \in BLOCKS : heap[b] <= writes
  /\ \A b, c \in BLOCKS : heap[b] = heap[c] /\ heap[b] # 0 => b = c

\* No more ids were given out than writes made, so none comes round.
SendId(n) == (FIRST_SEND_ID + n) % REQ_MOD
IdInv ==
  \E count \in [Owners -> 0 .. writes] : \A i \in Owners :
    /\ send_id[i] = SendId(count[i])
    /\ \A d \in DOMAIN pending_sent[i] :
         \E n \in 0 .. count[i] - 1 : d = from_parts(Send, i, SendId(n))

OpsInv ==
  /\ \A op \in PreparedOps(sq) : IsSend(op) \/ IsRecv(op)
  /\ \A op \in sends : IsSend(op)
  /\ \A op \in recvs : IsRecv(op)

\* A completion is of a send still waited for, or of a stream's receive.
Expected(cqe) ==
  \/ cqe.user_data \in Pending
  \/ /\ \E i \in Owners : cqe.user_data = from_parts(MultishortRecv, i, RECV_ID(i))
     /\ cqe.res > 0 => cqe.buffer
CompletionsInv == \A k \in DOMAIN Unforgotten : Expected(Unforgotten[k])

\* Where the tag of a send can be: in one place, once
TagsOf(ops) == {op.user_data : op \in {o \in ops : o.opcode = "SEND"}}
IsDone(queue, k) == event_of(queue[k].user_data) = Send
DoneTags(queue) == {queue[k].user_data : k \in {j \in DOMAIN queue : IsDone(queue, j)}}
DoneOnce(queue) ==
  \A j, k \in DOMAIN queue :
    queue[j].user_data = queue[k].user_data /\ IsDone(queue, j) => j = k

StageInv ==
  /\ Pending = TagsOf(PreparedOps(sq)) \cup TagsOf(sends) \cup DoneTags(Unforgotten)
  /\ TagsOf(PreparedOps(sq)) \cap TagsOf(sends) = {}
  /\ TagsOf(PreparedOps(sq)) \cap DoneTags(Unforgotten) = {}
  /\ TagsOf(sends) \cap DoneTags(Unforgotten) = {}
  /\ DoneOnce(Unforgotten)

\* With room in the completion ring for all that can be outstanding, no receive
\* ends for want of it: one completion for each buffer and one for the end of
\* each stream's receive, one for each send, that is for each block, and the one
\* in hand.
EnoughRoom == IsFiniteSet(BLOCKS) /\ STREAMS * (RING_POOL_SIZE + 1) + Cardinality(BLOCKS) < CQ_SIZE

\* A stream's receive is prepared or in the kernel.
Receiving(i) == RecvOf(i) \in PreparedOps(sq) \cup recvs

AliveInv ==
  /\ cq.overflow = <<>>
  /\ \A i \in Owners :
       /\ Cardinality(Unhandled(RecvOf(i))) <= RING_POOL_SIZE + 1
       /\ Receiving(i) \/ phase = "arm" => Cardinality(Unhandled(RecvOf(i))) <= RING_POOL_SIZE
       /\ RecvOf(i) \in PreparedOps(sq) => recvs = {}
       /\ phase # "arm" => Receiving(i) \/ Ended(i)
  /\ phase = "arm" => recvs = {}

LoopInv ==
  /\ BatchInv
  /\ ExpectedPanics
  /\ SqInv
  /\ PendingInv
  /\ HeapInv
  /\ IdInv
  /\ OpsInv
  /\ CompletionsInv
  /\ StageInv
=============================================================================
