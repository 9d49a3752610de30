--------------------------- MODULE SubmissionRing ---------------------------
(***************************************************************************)
(* The submission ring (src/src/ring.rs, src/src/op.rs) as the record      *)
(*                                                                         *)
(*     [sqes |-> [SqIndices -> Sqe], sqe_tail |-> u32, khead |-> u32]      *)
(*                                                                         *)
(* An entry taken from the ring still holds whatever operation used it     *)
(* last: io_uring_initialize_sqe clears some fields, the prep functions    *)
(* set others, and the rest stay.  Flag words are sets of flag names.      *)
(***************************************************************************)
EXTENDS Integers, Sequences

CONSTANTS
  SQ_ENTRIES,  \* sq.ring_entries: 1024
  SQ_MOD,      \* the ring's head and tail are u32: 2^32
  NULL         \* the null pointer

ASSUME SqAssumption ==
  /\ SQ_ENTRIES \in Nat \ {0}
  /\ SQ_MOD \in Nat
  /\ \E laps \in 2 .. SQ_MOD : SQ_MOD = laps * SQ_ENTRIES

SqIndices == 0 .. SQ_ENTRIES - 1

\* The mapped ring starts zeroed; "NOP" is opcode 0.  data is a history field:
\* what the program meant the operation to send.
ZeroSqe ==
  [opcode |-> "NOP", fd |-> 0, addr |-> NULL, len |-> 0, flags |-> {}, ioprio |-> {},
   msg_flags |-> {}, buf_group |-> 0, user_data |-> 0, data |-> 0]

EmptySq == [sqes |-> [k \in SqIndices |-> ZeroSqe], sqe_tail |-> 0, khead |-> 0]

\* Faulty variant: the flags of the entry's last use stay.
initialize_keeping_flags(sqe) ==
  [sqe EXCEPT !.msg_flags = {}, !.buf_group = 0]

io_uring_initialize_sqe(sqe) ==
  [sqe EXCEPT !.flags = {}, !.ioprio = {}, !.msg_flags = {}, !.buf_group = 0]

\* io_uring_get_sqe fails: "sq ring entries overflow"
SqFull(sq) == (((sq.sqe_tail + 1) % SQ_MOD) - sq.khead) % SQ_MOD > SQ_ENTRIES

\* The entry io_uring_get_sqe hands out
NextSqe(sq) == io_uring_initialize_sqe(sq.sqes[sq.sqe_tail % SQ_ENTRIES])

\* The ring once the caller has filled that entry in as sqe
PutSqe(sq, sqe) ==
  [sq EXCEPT !.sqes[sq.sqe_tail % SQ_ENTRIES] = sqe,
             !.sqe_tail = (@ + 1) % SQ_MOD]

send(sqe, fd, ptr, len, flags) ==
  [sqe EXCEPT !.opcode = "SEND", !.fd = fd, !.addr = ptr, !.len = len, !.msg_flags = flags]

\* Ring::_prep_send: the entry io_uring_get_sqe hands out, made a send
prep_send(sq, fd, ptr, len, flags) == send(NextSqe(sq), fd, ptr, len, flags)

\* Faulty variant: the receive is not a multishot one.
single_recv(sqe, fd, flags, buf_group) ==
  [sqe EXCEPT !.opcode = "RECV", !.fd = fd, !.msg_flags = flags,
              !.flags = {"BUFFER_SELECT"}, !.buf_group = buf_group]

multishot_recv(sqe, fd, flags, buf_group) ==
  [sqe EXCEPT !.opcode = "RECV", !.fd = fd, !.msg_flags = flags,
              !.ioprio = {"MULTISHOT"}, !.flags = {"BUFFER_SELECT"},
              !.buf_group = buf_group]

\* Faulty variant: the tag of the entry's last use stays.
set_no_data(sqe, data) == sqe

io_uring_sqe_set_data(sqe, data) == [sqe EXCEPT !.user_data = data]

\* The entries the kernel has not consumed, and the ring once
\* io_uring_submit has made it consume them all
PreparedCount(sq) == (sq.sqe_tail - sq.khead) % SQ_MOD
PreparedOps(sq) ==
  {sq.sqes[(sq.khead + k - 1) % SQ_ENTRIES] : k \in 1 .. PreparedCount(sq)}
Consumed(sq) == [sq EXCEPT !.khead = sq.sqe_tail]
=============================================================================
