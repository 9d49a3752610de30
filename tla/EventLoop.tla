------------------------------ MODULE EventLoop ------------------------------
(***************************************************************************)
(* The event loop (src/src/ping_pong.rs; src/src/io_uring_probe_v2.rs is   *)
(* the same loop without pings and without a time limit): it arms one      *)
(* multishot receive per stream, pings the streams, submits, collects a    *)
(* batch of completions, gives each to the stream that owns it and         *)
(* releases it.  With it the sending side of TcpStream (src/src/net.rs):   *)
(* the submission ring, the memory a send reads while the kernel has it,   *)
(* and the table that keeps that memory alive.                             *)
(*                                                                         *)
(* What becomes of a received buffer is RecvPath's subject and left out.   *)
(* Streams are plain, nonblocking connections after their handshake.  The  *)
(* kernel runs at any moment; a stream's file descriptor and its buffer    *)
(* group have the stream's number.                                         *)
(***************************************************************************)
EXTENDS UserData, SubmissionRing, CompletionRing, BufRing, FiniteSets

CONSTANTS
  STREAMS,        \* number of streams: 1 in ping_pong, 5 in io_uring_probe_v2
  PINGS,          \* does the loop ping and give up waiting: TRUE in ping_pong
  BATCH,          \* most completions taken at once: 10
  FIRST_SEND_ID,  \* first send id of a stream: 1000
  SEND_LEN,       \* bytes of a ping's frame
  BLOCKS,         \* blocks of heap memory
  MAX_WRITES,     \* bound: writes, of all streams together
  MAX_RECVS       \* bound: arrivals, of all streams together

(***************************************************************************)
(* The first submission takes the receive and the first ping of every      *)
(* stream.  A send id comes round only after 2^32 writes.                  *)
(***************************************************************************)
ASSUME LoopAssumption ==
  /\ STREAMS \in Nat \ {0} /\ STREAMS <= OWNER_MOD
  /\ 2 * STREAMS <= SQ_ENTRIES
  /\ PINGS \in BOOLEAN
  /\ BATCH \in Nat \ {0} /\ SEND_LEN \in Nat \ {0}
  /\ FIRST_SEND_ID \in 0 .. REQ_MOD - 1
  /\ NULL \notin BLOCKS
  /\ MAX_WRITES \in Nat /\ MAX_RECVS \in Nat
  /\ MAX_WRITES <= REQ_MOD

VARIABLES
  sq,            \* the submission ring
  cq,            \* the completion ring
  phase,         \* where the loop is
  at,            \* the stream its inner loop has come to
  pinged,        \* last_send is Some
  cqe_buf,       \* entries of the batch still to be handled
  completion,    \* the Completion in hand: its entry and its tag
  send_id,       \* per stream: the next send id
  pending_sent,  \* per stream: from a send's UserData to its memory
  heap,          \* what each block holds: the number of a write; 0 when free
  sends,         \* send operations the kernel works on
  recvs,         \* multishot receives the kernel works on
  open,          \* streams whose receive has not come to its end
  panic,         \* the assertion or panic! that stopped the program, or "none"
  taken,         \* history: the completion handled last
  handled,       \* history: completions handled
  writes, arrivals  \* history: counts, for the bounds

netVars == <<send_id, pending_sent, heap, writes>>
kernelVars == <<sends, recvs, open, arrivals>>
loopVars == <<phase, at, pinged, cqe_buf, completion>>
vars == <<sq, cq, loopVars, netVars, kernelVars, panic, taken, handled>>

Owners == 0 .. STREAMS - 1

RECV_ID(i) == (1200 + i) % REQ_MOD
RecvTag(i) == from_parts(MultishortRecv, i, RECV_ID(i))

EOF == 0
ECONNRESET == -104
ENOBUFS == -105
EPIPE == -32

Unset == [user_data |-> 0, res |-> 0, buffer |-> FALSE, bid |-> 0, more |-> FALSE]
NoCompletion == [ptr |-> 0, user_data |-> 0]

Phases == {"arm", "top", "ping", "submit", "peek", "wait", "handle", "completed", "read"}

Running == panic = "none"

-----------------------------------------------------------------------------
Init ==
  /\ sq = EmptySq
  /\ cq = EmptyCq(Unset)
  /\ phase = "arm" /\ at = 0 /\ pinged = FALSE
  /\ cqe_buf = <<>> /\ completion = NoCompletion
  /\ send_id = [i \in Owners |-> FIRST_SEND_ID]
  /\ pending_sent = [i \in Owners |-> <<>>]
  /\ heap = [b \in BLOCKS |-> 0]
  /\ sends = {} /\ recvs = {} /\ open = Owners
  /\ panic = "none"
  /\ taken = Unset /\ handled = 0
  /\ writes = 0 /\ arrivals = 0

\* An inner loop over the streams moves on; after the last one, to phase next.
Advance(next) ==
  IF at + 1 < STREAMS THEN at' = at + 1 /\ UNCHANGED phase
  ELSE at' = 0 /\ phase' = next

(***************************************************************************)
(* The loop.                                                               *)
(***************************************************************************)

\* The multishot receive of stream at is prepared.
Arm ==
  /\ Running /\ phase = "arm"
  /\ IF SqFull(sq)
     THEN panic' = "sq overflow" /\ UNCHANGED <<sq, at, phase>>
     ELSE /\ LET sqe == io_uring_sqe_set_data(NextSqe(sq),
                          from_parts(MultishortRecv, at, RECV_ID(at)))
             IN sq' = PutSqe(sq, multishot_recv(sqe, at, {}, at))
          /\ Advance("top")
          /\ UNCHANGED panic
  /\ UNCHANGED <<cq, pinged, cqe_buf, completion, netVars, kernelVars, taken, handled>>

\* The first iteration pings, later ones when 10 ms have passed.
Top ==
  /\ Running /\ phase = "top"
  /\ \/ PINGS /\ phase' = "ping"
     \/ (PINGS => pinged) /\ phase' = "submit"
  /\ UNCHANGED <<sq, cq, at, pinged, cqe_buf, completion, netVars, kernelVars, panic, taken, handled>>

\* The table with key inserted, and the heap with the value it replaces dropped
Insert(table, key, block) ==
  [k \in DOMAIN table \cup {key} |-> IF k = key THEN block ELSE table[k]]
Drop(h, table, key) ==
  [b \in BLOCKS |-> IF key \in DOMAIN table /\ b = table[key] THEN 0 ELSE h[b]]

\* Faulty variants: every send has the same id; the id leaves its field.
NextIdStuck(id) == id
NextIdUnwrapped(id) == id + 1

\* TcpStream::next_send_id
NextId(id) == (id + 1) % REQ_MOD

\* TcpStream::write of a ping on stream at: the bytes are copied, a send of
\* the copy is prepared and the copy is kept in pending_sent.
Write(block) ==
  LET key == from_parts(Send, at, send_id[at]) IN
  /\ Running /\ phase = "ping"
  /\ writes < MAX_WRITES /\ heap[block] = 0
  /\ IF SqFull(sq)
     THEN panic' = "sq overflow" /\ UNCHANGED <<sq, at, phase, pinged, netVars>>
     ELSE /\ writes' = writes + 1
          /\ LET sqe == prep_send(sq, at, block, SEND_LEN, {"MSG_WAITALL"})
             IN sq' = PutSqe(sq, [io_uring_sqe_set_data(sqe, key) EXCEPT !.data = writes'])
          /\ send_id' = [send_id EXCEPT ![at] = NextId(@)]
          /\ pending_sent' = [pending_sent EXCEPT ![at] = Insert(@, key, block)]
          /\ heap' = [Drop(heap, pending_sent[at], key) EXCEPT ![block] = writes']
          /\ Advance("submit")
          /\ pinged' = TRUE
          /\ UNCHANGED panic
  /\ UNCHANGED <<cq, cqe_buf, completion, kernelVars, taken, handled>>

\* The stream's handler cannot write any more.
SkipWrite ==
  /\ Running /\ phase = "ping"
  /\ Advance("submit")
  /\ pinged' = TRUE
  /\ UNCHANGED <<sq, cq, cqe_buf, completion, netVars, kernelVars, panic, taken, handled>>

\* io_uring_submit: the kernel consumes every prepared entry, or fails.
Submit ==
  /\ Running /\ phase = "submit"
  /\ sends' = sends \cup {op \in PreparedOps(sq) : op.opcode = "SEND"}
  /\ recvs' = recvs \cup {op \in PreparedOps(sq) : op.opcode = "RECV"}
  /\ sq' = Consumed(sq)
  /\ phase' = "peek"
  /\ UNCHANGED <<cq, at, pinged, cqe_buf, completion, netVars, open, arrivals, panic, taken, handled>>

SyscallFails ==
  /\ Running /\ phase \in {"submit", "wait"}
  /\ panic' = "syscall"
  /\ UNCHANGED <<sq, cq, loopVars, netVars, kernelVars, taken, handled>>

\* io_uring_peek_batch_cqe; an empty batch makes the loop wait.
Peek ==
  /\ Running /\ phase = "peek"
  /\ cqe_buf' = io_uring_peek_batch_cqe(cq, BATCH)
  /\ phase' = IF cqe_buf' = <<>> THEN "wait" ELSE "handle"
  /\ UNCHANGED <<sq, cq, at, pinged, completion, netVars, kernelVars, panic, taken, handled>>

\* Faulty variant: an entry is released also when the time limit passes.
WaitReleasing ==
  /\ Running /\ phase = "wait"
  /\ \/ /\ Ready(cq) > 0
        /\ cqe_buf' = io_uring_peek_batch_cqe(cq, 1)
        /\ phase' = "handle"
        /\ UNCHANGED cq
     \/ /\ PINGS
        /\ cq' = IF Ready(cq) > 0 THEN io_uring_cq_advance(cq, 1) ELSE cq
        /\ phase' = "top"
        /\ UNCHANGED cqe_buf
  /\ UNCHANGED <<sq, at, pinged, completion, netVars, kernelVars, panic, taken, handled>>

\* io_uring_wait_cqes: one completion is taken, or the time limit passes
\* (-62) and the loop starts over.
Wait ==
  /\ Running /\ phase = "wait"
  /\ \/ /\ Ready(cq) > 0
        /\ cqe_buf' = io_uring_peek_batch_cqe(cq, 1)
        /\ phase' = "handle"
     \/ /\ PINGS
        /\ phase' = "top"
        /\ UNCHANGED cqe_buf
  /\ UNCHANGED <<sq, cq, at, pinged, completion, netVars, kernelVars, panic, taken, handled>>

\* The assertions of get_read_buf
LookupFailures == {"zero data", "wrong slot"}

\* Completion::from_raw_event for the next entry of the batch.  lookup is the
\* assertion that finding the entry's buffer fails, or "none".
FromRawEvent(lookup) ==
  /\ Running /\ phase = "handle"
  /\ LET ptr == Head(cqe_buf)
         cqe == cq.cqes[ptr]
     IN /\ panic' = IF cqe.res < 0 THEN "cqe error" ELSE lookup
        /\ IF panic' = "none"
           THEN /\ completion' = [ptr |-> ptr, user_data |-> cqe.user_data]
                /\ phase' = "completed"
           ELSE UNCHANGED <<completion, phase>>
  /\ UNCHANGED <<sq, cq, at, pinged, cqe_buf, netVars, kernelVars, taken, handled>>

\* The buffers are not in this module: whether the lookup of one fails is left
\* open.
RawEvent ==
  \E lookup \in {"none"} \cup LookupFailures :
    /\ FromRawEvent(lookup)
    /\ lookup # "none" => cq.cqes[Head(cqe_buf)].buffer

\* The first panic! or assertion that handing over the completion of cqe
\* runs into: in the lookup of the owner, in on_completion
CompletionFailure(data, cqe) ==
  LET owner == owner_of(data) IN
  IF owner \notin Owners THEN "no stream"
  ELSE IF event_of(data) \notin Events THEN "unknown event"
  ELSE IF event_of(data) = Send
       THEN IF cqe.res = 0 THEN "res 0"
            ELSE IF data \notin DOMAIN pending_sent[owner] THEN "unknown send"
            ELSE IF cqe.res # SEND_LEN THEN "short send"
            ELSE "none"
  ELSE IF req_of(data) # RECV_ID(owner) THEN "wrong recv"
  ELSE IF cqe.res = 0 THEN "res 0"
  ELSE IF ~cqe.buffer THEN "no buffer"
  ELSE "none"

\* Faulty variant: the entry is looked up and stays.
GetOnly(table, h, data) == <<table, h>>

\* HashMap::remove, and the removed value dropped
Remove(table, h, data) ==
  <<[k \in DOMAIN table \ {data} |-> table[k]], Drop(h, table, data)>>

\* TcpStream::on_completion of the stream that owns the completion: a
\* finished send is forgotten, a received buffer queued.  The entry itself is
\* read through the completion's pointer.  A panic ends the program: that a
\* short send is forgotten before the assertion on its length is not told apart.
OnCompletion ==
  /\ Running /\ phase = "completed"
  /\ LET data == completion.user_data
         cqe == cq.cqes[completion.ptr]
     IN /\ panic' = CompletionFailure(data, cqe)
        /\ IF panic' # "none" THEN UNCHANGED <<phase, pending_sent, heap, taken, handled>>
           ELSE /\ IF event_of(data) = Send
                   THEN LET after == Remove(pending_sent[owner_of(data)], heap, data) IN
                          /\ pending_sent' = [pending_sent EXCEPT ![owner_of(data)] = after[1]]
                          /\ heap' = after[2]
                   ELSE UNCHANGED <<pending_sent, heap>>
                /\ taken' = cqe /\ handled' = handled + 1
                /\ phase' = "read"
  /\ UNCHANGED <<sq, cq, at, pinged, cqe_buf, completion, send_id, writes, kernelVars>>

\* The decoder has read the stream, and the loop releases the entry.
CqAdvance ==
  /\ Running /\ phase = "read"
  /\ cq' = io_uring_cq_advance(cq, 1)
  /\ cqe_buf' = Tail(cqe_buf)
  /\ completion' = NoCompletion
  /\ phase' = IF cqe_buf' = <<>> THEN "top" ELSE "handle"
  /\ UNCHANGED <<sq, at, pinged, netVars, kernelVars, panic, taken, handled>>

\* tungstenite refuses a ping, or refuses a frame after on_completion.
ProtocolError ==
  /\ Running /\ phase \in {"ping", "read"}
  /\ panic' = "protocol"
  /\ UNCHANGED <<sq, cq, loopVars, netVars, kernelVars, taken, handled>>

(***************************************************************************)
(* The kernel (external).                                                  *)
(***************************************************************************)
Cqe(op, res) ==
  [user_data |-> op.user_data, res |-> res, buffer |-> FALSE, bid |-> 0, more |-> FALSE]

\* A send ends, in any order: whole, cut short, or with an error.
KernelSend(op, res) ==
  /\ Running
  /\ sends' = sends \ {op}
  /\ cq' = Post(cq, Cqe(op, res))
  /\ UNCHANGED <<sq, loopVars, netVars, recvs, open, arrivals, panic, taken, handled>>

\* Completions not handled yet; the last one is released only after its
\* stream has read.
Unforgotten == IF phase = "read" THEN Tail(Contents(cq)) ELSE Contents(cq)

\* Those of op's stream, each with a buffer
Unhandled(op) ==
  {k \in DOMAIN Unforgotten : Unforgotten[k].user_data = op.user_data}

\* n bytes arrive and go to buffer bid.  A multishot receive goes on, unless
\* the completion ring is full: then this completion is its last.
KernelRecv(op, n, bid) ==
  /\ Running /\ arrivals < MAX_RECVS
  /\ Cardinality(Unhandled(op)) < RING_POOL_SIZE
  /\ LET more == op.ioprio = {"MULTISHOT"} /\ HasRoom(cq) IN
       /\ cq' = Post(cq, [Cqe(op, n) EXCEPT !.buffer = TRUE, !.bid = bid, !.more = more])
       /\ recvs' = IF more THEN recvs ELSE recvs \ {op}
  /\ arrivals' = arrivals + 1
  /\ UNCHANGED <<sq, loopVars, netVars, sends, open, panic, taken, handled>>

\* The receive ends for good: the connection has ended or failed, or, the
\* connection alive, no buffer is left (some may be queued unread).
KernelEnd(op, res) ==
  /\ Running
  /\ recvs' = recvs \ {op}
  /\ open' = open \ {owner_of(op.user_data)}
  /\ cq' = Post(cq, Cqe(op, res))
  /\ UNCHANGED <<sq, loopVars, netVars, sends, arrivals, panic, taken, handled>>

\* A system call of the loop moves overflowed completions into the ring.
KernelFlush ==
  /\ Running /\ CanFlush(cq)
  /\ cq' = Flush(cq)
  /\ UNCHANGED <<sq, loopVars, netVars, kernelVars, panic, taken, handled>>

-----------------------------------------------------------------------------
Outgoing ==
  \/ \E op \in sends, res \in {EPIPE} \cup 0 .. SEND_LEN : KernelSend(op, res)
  \/ KernelFlush

Incoming ==
  \/ \E op \in recvs, n \in 1 .. BUF_SIZE, bid \in Slots : KernelRecv(op, n, bid)
  \/ \E op \in recvs, res \in {EOF, ECONNRESET, ENOBUFS} : KernelEnd(op, res)

Kernel == Outgoing \/ Incoming

\* What the loop does between two completions
Between ==
  \/ Arm \/ Top \/ (\E b \in BLOCKS : Write(b)) \/ SkipWrite
  \/ Submit \/ SyscallFails \/ Peek \/ Wait

Loop == Between \/ RawEvent \/ OnCompletion \/ CqAdvance \/ ProtocolError

Next == Kernel \/ Loop

Spec == Init /\ [][Next]_vars

\* The thread never stops, and the kernel moves overflowed completions into
\* the ring; the peer and the network owe nothing.
FairSpec == Spec /\ WF_vars(Loop) /\ WF_vars(KernelFlush)

-----------------------------------------------------------------------------
(***************************************************************************)
(* Properties.                                                             *)
(***************************************************************************)

\* Operations prepared and not consumed, or consumed and not completed
Ops == PreparedOps(sq) \cup sends \cup recvs

Tag == 0 .. 2 * EVENT_UNIT - 1
Sqe ==
  [opcode : {"NOP", "SEND", "RECV"}, fd : Owners, addr : BLOCKS \cup {NULL},
   len : {0, SEND_LEN}, flags : SUBSET {"BUFFER_SELECT"}, ioprio : SUBSET {"MULTISHOT"},
   msg_flags : SUBSET {"MSG_WAITALL"}, buf_group : Owners, user_data : Tag,
   data : 0 .. MAX_WRITES]
CqEntry ==
  [user_data : Tag, res : {EOF, ECONNRESET, ENOBUFS, EPIPE} \cup 0 .. SEND_LEN \cup 1 .. BUF_SIZE,
   buffer : BOOLEAN, bid : Slots, more : BOOLEAN]

TypeOK ==
  /\ sq \in [sqes : [SqIndices -> Sqe], sqe_tail : 0 .. SQ_MOD - 1, khead : 0 .. SQ_MOD - 1]
  /\ cq \in [cqes : [CqSlots -> CqEntry], khead : 0 .. CQ_MOD - 1, ktail : 0 .. CQ_MOD - 1,
             overflow : Seq(CqEntry)]
  /\ phase \in Phases /\ at \in Owners /\ pinged \in BOOLEAN
  /\ cqe_buf \in Seq(CqSlots) /\ completion \in [ptr : CqSlots, user_data : Tag]
  /\ send_id \in [Owners -> 0 .. REQ_MOD - 1]
  /\ pending_sent = [i \in Owners |-> pending_sent[i]]
  /\ \A i \in Owners : pending_sent[i] \in [DOMAIN pending_sent[i] -> BLOCKS]
  /\ heap \in [BLOCKS -> 0 .. MAX_WRITES]
  /\ sends \subseteq Sqe /\ recvs \subseteq Sqe /\ open \subseteq Owners
  /\ taken \in CqEntry /\ handled \in Nat
  /\ writes \in 0 .. MAX_WRITES /\ arrivals \in 0 .. MAX_RECVS

\* The memory that an operation points at still holds what it is to send:
\* the kernel reads it at any time until the completion (net.rs:176, 193).
MemoryAlive == \A op \in Ops : op.opcode = "SEND" => heap[op.addr] = op.data

\* An operation carries its own arguments and nothing that an earlier use of
\* its ring entry left behind (ring.rs:79, op.rs:60, 71).
CleanSend(op) ==
  /\ op.flags = {} /\ op.ioprio = {} /\ op.len = SEND_LEN
  /\ event_of(op.user_data) = Send /\ owner_of(op.user_data) = op.fd
CleanRecv(op) ==
  /\ op.addr = NULL /\ op.len = 0 /\ op.msg_flags = {} /\ op.buf_group = op.fd
  /\ op.user_data = from_parts(MultishortRecv, op.fd, RECV_ID(op.fd))
CleanOps ==
  \A op \in Ops : (op.opcode = "SEND" /\ CleanSend(op)) \/ (op.opcode = "RECV" /\ CleanRecv(op))

\* Sends the program waits for are exactly those prepared, in the kernel or
\* completed, and each pins a block of its own: none is forgotten early or
\* kept for good (net.rs:65, 193).
SendTags(i) ==
  {d \in {op.user_data : op \in {o \in Ops : o.opcode = "SEND"}}
           \cup {Unforgotten[k].user_data : k \in DOMAIN Unforgotten} :
     event_of(d) = Send /\ owner_of(d) = i}
PendingExact ==
  /\ \A i \in Owners : DOMAIN pending_sent[i] = SendTags(i)
  /\ {b \in BLOCKS : heap[b] # 0}
       = UNION {{pending_sent[i][d] : d \in DOMAIN pending_sent[i]} : i \in Owners}

\* Of all the panics, only those for a failed, short or ended operation, for a
\* failed system call and for the protocol are reachable: the submission ring never
\* overflows and no completion is one the program does not expect
\* (ring.rs:38, net.rs:65, 77, ping_pong.rs:167).  Whether the lookup of a
\* buffer fails is left open here: Client shows that it does not.
ExpectedPanics ==
  panic \in {"none", "cqe error", "res 0", "short send", "syscall", "protocol"} \cup LookupFailures

\* The batch's pointers stay good while its first entries are released one
\* by one and the kernel posts more: the k-th left is the k-th oldest
\* completion (ping_pong.rs:161, 188).
BatchFresh ==
  /\ Len(cqe_buf) <= Ready(cq)
  /\ \A k \in DOMAIN cqe_buf : cqe_buf[k] = (cq.khead + k - 1) % CQ_SIZE
  /\ phase \in {"completed", "read"} =>
       completion = [ptr |-> cqe_buf[1], user_data |-> Contents(cq)[1].user_data]

\* The completion that tells of the end of stream i's receive is on its way:
\* handling it stops the program (cqe.rs:15, net.rs:77).
Ended(i) ==
  \E k \in DOMAIN Unforgotten : Unforgotten[k].user_data = RecvTag(i) /\ Unforgotten[k].res <= 0

\* "read is polled by multishot recv" (net.rs:130): once armed, the receive of
\* a stream never ends unnoticed, by the connection's end or for want of a
\* buffer or of a completion entry; it is prepared, in the kernel, or announced
\* to have ended.
RecvAlive ==
  phase # "arm" =>
    \A i \in Owners : (\E op \in Ops : op.opcode = "RECV" /\ op.fd = i) \/ Ended(i)

\* Completions are handled once, as posted, in the order posted, although
\* the entry stays in the ring while its stream reads.
Fifo == INSTANCE CompletionFifo WITH queue <- Unforgotten
InOrder == Fifo!Spec

\* A write's memory is kept from the write on, until its completion is
\* handled and no longer, whatever order sends complete in.
Memory == INSTANCE SendMemory WITH
  kept <- {heap[b] : b \in BLOCKS} \ {0},
  inflight <- {op.data : op \in {o \in Ops : o.opcode = "SEND"}}
SendMemorySpec == Memory!Spec

\* The k-th completion posted, into the ring or to the overflow list, is
\* handled, unless the program panics: none stays behind in the ring or in the
\* list (ping_pong.rs:134, 161, 188).
EachHandled ==
  \A k \in 1 .. MAX_WRITES + MAX_RECVS + STREAMS :
    handled + Len(Unforgotten) >= k ~> (handled >= k \/ ~Running)
=============================================================================
