--------------------------- MODULE CompletionRing ---------------------------
(***************************************************************************)
(* The completion ring, which the kernel fills at ktail and the program    *)
(* releases at khead, and the kernel's list of completions that found no   *)
(* room (IORING_FEAT_NODROP).  The ring is the kernel's and liburing's;    *)
(* the program reaches it through pointers to its entries and through      *)
(* io_uring_cq_advance (src/src/ping_pong.rs).                             *)
(***************************************************************************)
EXTENDS Integers, Sequences

CONSTANTS
  CQ_SIZE,  \* entries of the completion ring: twice the requested 1024
  CQ_MOD    \* its head and tail are u32: 2^32

ASSUME CqAssumption ==
  /\ CQ_SIZE \in Nat \ {0}
  /\ CQ_MOD \in Nat
  /\ \E laps \in 2 .. CQ_MOD : CQ_MOD = laps * CQ_SIZE

CqSlots == 0 .. CQ_SIZE - 1

EmptyCq(unset) == [cqes |-> [k \in CqSlots |-> unset], khead |-> 0, ktail |-> 0, overflow |-> <<>>]

Ready(cq) == (cq.ktail - cq.khead) % CQ_MOD

HasRoom(cq) == Ready(cq) < CQ_SIZE /\ cq.overflow = <<>>

\* What the ring and the overflow list hold, the oldest first
Contents(cq) ==
  [k \in 1 .. Ready(cq) |-> cq.cqes[(cq.khead + k - 1) % CQ_SIZE]] \o cq.overflow

Put(cq, cqe) ==
  [cq EXCEPT !.cqes[cq.ktail % CQ_SIZE] = cqe, !.ktail = (@ + 1) % CQ_MOD]

\* The kernel posts a completion, on the overflow list if the ring is full.
Post(cq, cqe) ==
  IF HasRoom(cq) THEN Put(cq, cqe) ELSE [cq EXCEPT !.overflow = Append(@, cqe)]

\* It moves the oldest overflowed completion into the ring.
CanFlush(cq) == cq.overflow # <<>> /\ Ready(cq) < CQ_SIZE
Flush(cq) == [Put(cq, Head(cq.overflow)) EXCEPT !.overflow = Tail(cq.overflow)]

\* io_uring_peek_batch_cqe fills cqe_buf with pointers to the oldest entries.
Min2(a, b) == IF a <= b THEN a ELSE b
io_uring_peek_batch_cqe(cq, count) ==
  [k \in 1 .. Min2(Ready(cq), count) |-> (cq.khead + k - 1) % CQ_SIZE]

\* Faulty variant: the whole batch is released with its first entry.
cq_advance_all(cq, nr) == [cq EXCEPT !.khead = cq.ktail]

io_uring_cq_advance(cq, nr) == [cq EXCEPT !.khead = (@ + nr) % CQ_MOD]
=============================================================================
