------------------------------ MODULE BufRing ------------------------------
(***************************************************************************)
(* The provided-buffer ring of one buffer group (src/src/buf_ring.rs), as  *)
(* the record                                                              *)
(*                                                                         *)
(*     [bufs |-> [Slots -> [addr, len, bid]], tail |-> u16]                *)
(*                                                                         *)
(* that the program and the kernel share.  The operators below are the     *)
(* functions of the file: each returns the ring it leaves behind.  A       *)
(* buffer's address is the number of its block in the allocation made by   *)
(* new_buffer_group (block i starts at bufs_addr + i * BUF_SIZE).          *)
(***************************************************************************)
EXTENDS Integers, Sequences

CONSTANTS
  RING_POOL_SIZE,  \* entries of the ring: 1024 in src/src/lib.rs
  BUF_SIZE,        \* bytes of one buffer: 1500 in src/src/lib.rs
  TAIL_MOD         \* the tail is a u16: 65536

(***************************************************************************)
(* 1024 divides 65536 at least twice, so an index taken from the wrapped   *)
(* tail is the index of the unwrapped one, and a full ring (tail = head +  *)
(* 1024) differs from an empty one (tail = head).                          *)
(***************************************************************************)
ASSUME RingAssumption ==
  /\ RING_POOL_SIZE \in Nat \ {0}
  /\ BUF_SIZE \in Nat \ {0}
  /\ TAIL_MOD \in Nat
  /\ \E laps \in 2 .. TAIL_MOD : TAIL_MOD = laps * RING_POOL_SIZE

Slots == 0 .. RING_POOL_SIZE - 1
Tails == 0 .. TAIL_MOD - 1

Slot == [addr : Slots, len : 1 .. BUF_SIZE, bid : Slots]
Ring == [bufs : [Slots -> Slot], tail : Tails]

(***************************************************************************)
(* struct KernelBuffer: a buffer the program owns until it is dropped.     *)
(* data_len is what the operation stored, buf_len what was allocated.      *)
(***************************************************************************)
KernelBuffer ==
  [addr : Slots, data_len : 1 .. BUF_SIZE, bid : Slots, buf_len : 1 .. BUF_SIZE]

\* `& mask` with mask = ring_entries - 1, for a ring of a power of two
SlotIndex(n) == n % RING_POOL_SIZE

\* Faulty variant: the tail is left out of the index.
add_at_offset(br, addr, len, bid, buf_offset) ==
  [br EXCEPT !.bufs[SlotIndex(buf_offset)] = [addr |-> addr, len |-> len, bid |-> bid]]

\* Writes addr, len and bid of the slot buf_offset places past the tail; the
\* tail, which shares storage with bufs[0].resv, is not touched.
io_uring_buf_ring_add(br, addr, len, bid, buf_offset) ==
  [br EXCEPT !.bufs[SlotIndex(br.tail + buf_offset)] =
     [addr |-> addr, len |-> len, bid |-> bid]]

\* Faulty variant: the tail does not wrap.
advance_unwrapped(br, count) == [br EXCEPT !.tail = @ + count]

io_uring_buf_ring_advance(br, count) ==
  [br EXCEPT !.tail = (@ + count) % TAIL_MOD]

\* Faulty variants: the slot is as long as the data was; no advance.
add_data_len(br, read_buf) ==
  io_uring_buf_ring_advance(
    io_uring_buf_ring_add(br, read_buf.addr, read_buf.data_len, read_buf.bid, 0),
    1)
add_only(br, read_buf) ==
  io_uring_buf_ring_add(br, read_buf.addr, read_buf.buf_len, read_buf.bid, 0)

\* Drop of a KernelBuffer: the buffer goes back, whole, at the tail.
buf_ring_add_advance(br, read_buf) ==
  io_uring_buf_ring_advance(
    io_uring_buf_ring_add(br, read_buf.addr, read_buf.buf_len, read_buf.bid, 0),
    1)

\* A fresh ring (tail 0): block i is added at offset i as buffer i, then the
\* tail advances over the whole pool.
new_buffer_group ==
  io_uring_buf_ring_advance(
    [bufs |-> [i \in Slots |-> [addr |-> i, len |-> BUF_SIZE, bid |-> i]],
     tail |-> 0],
    RING_POOL_SIZE)

\* The slot is looked up by buffer id, not by the head the kernel took it
\* from: the function panics unless slot buffer_id still describes it, and a
\* debug build also when the slot is shorter than the data.
get_read_buf_panics(br, buffer_id, data_len) ==
  \/ br.bufs[buffer_id].bid # buffer_id
  \/ br.bufs[buffer_id].len < data_len

get_read_buf(br, buffer_id, data_len) ==
  LET data_buf == br.bufs[buffer_id] IN
    [addr     |-> data_buf.addr,
     data_len |-> data_len,
     bid      |-> data_buf.bid,
     buf_len  |-> data_buf.len]
=============================================================================
