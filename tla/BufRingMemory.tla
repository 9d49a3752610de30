--------------------------- MODULE BufRingMemory ---------------------------
(***************************************************************************)
(* The memory of a buffer ring, store by store.  BufRing takes an entry    *)
(* and the tail for separate things that change at once; in the code the   *)
(* ring is a union (src/src/sys.rs): the tail is the last u16 of the first *)
(* entry, an entry is written field by field, and the kernel may look      *)
(* between any two stores (src/src/buf_ring.rs).                           *)
(***************************************************************************)
EXTENDS BufRing

VARIABLES
  memory,     \* the ring's entries; the tail is memory[0].resv
  khead,      \* the kernel's u16 head
  phase,      \* where new_buffer_group is, then "run", or "panic"
  filled,     \* entries its loop has filled
  step,       \* what io_uring_buf_ring_add and advance do next, "none" outside
  entry,      \* the arguments of io_uring_buf_ring_add
  idx,        \* the entry it writes
  announced,  \* buffers the kernel has filled, not yet looked up
  held        \* the program's KernelBuffers, dropped in the order taken

kernelVars == <<khead, announced>>
addVars == <<step, entry, idx>>
vars == <<memory, phase, filled, held, kernelVars, addVars>>

Zeroed == [addr |-> -1, len |-> 0, bid |-> 0, resv |-> 0]
NoEntry == [addr |-> -1, len |-> 0, bid |-> 0, buf_offset |-> 0]

tail == memory[0].resv

\* The ring as BufRing has it
AsRing ==
  [bufs |-> [s \in Slots |-> [addr |-> memory[s].addr, len |-> memory[s].len, bid |-> memory[s].bid]],
   tail |-> tail]

-----------------------------------------------------------------------------
Init ==
  /\ memory = [s \in Slots |-> Zeroed]
  /\ khead = 0
  /\ phase = "setup" /\ filled = 0
  /\ step = "none" /\ entry = NoEntry /\ idx = 0
  /\ announced = <<>> /\ held = <<>>

(***************************************************************************)
(* io_uring_buf_ring_add and io_uring_buf_ring_advance                     *)
(***************************************************************************)
Begin(addr, len, bid, buf_offset) ==
  /\ step' = "load"
  /\ entry' = [addr |-> addr, len |-> len, bid |-> bid, buf_offset |-> buf_offset]
  /\ UNCHANGED idx

\* The tail is loaded and masked.
LoadTail ==
  /\ step = "load"
  /\ idx' = SlotIndex(tail + entry.buf_offset)
  /\ step' = "addr"
  /\ UNCHANGED <<memory, phase, filled, held, kernelVars, entry>>

After == [addr |-> "len", len |-> "bid", bid |-> "added"]

\* Faulty variant: the entry is written as a whole, its reserved field as 0.
StoreWhole(field) ==
  /\ step = field
  /\ memory' = [memory EXCEPT ![idx] =
       [addr |-> entry.addr, len |-> entry.len, bid |-> entry.bid, resv |-> 0]]
  /\ step' = After[field]
  /\ UNCHANGED <<phase, filled, held, kernelVars, entry, idx>>

\* One field is stored.
Store(field) ==
  /\ step = field
  /\ memory' = [memory EXCEPT ![idx][field] = entry[field]]
  /\ step' = After[field]
  /\ UNCHANGED <<phase, filled, held, kernelVars, entry, idx>>

\* Faulty variant: the counter does not wrap.
FetchAddUnwrapped(count) == memory' = [memory EXCEPT ![0].resv = @ + count]

FetchAdd(count) == memory' = [memory EXCEPT ![0].resv = (@ + count) % TAIL_MOD]

(***************************************************************************)
(* new_buffer_group                                                        *)
(***************************************************************************)

\* The ring's memory is mapped, zeroed, and registered with the kernel.
SetupBufRing ==
  /\ phase = "setup"
  /\ phase' \in {"alloc", "panic"}
  /\ UNCHANGED <<memory, filled, held, kernelVars, addVars>>

\* Faulty variant: the tail advances before the entries are filled.
AllocAdvancing ==
  /\ phase = "alloc"
  /\ phase' = "fill" /\ FetchAdd(RING_POOL_SIZE)
  /\ UNCHANGED <<filled, held, kernelVars, addVars>>

\* The buffers are allocated, or memory is short.
Alloc ==
  /\ phase = "alloc"
  /\ phase' \in {"fill", "panic"}
  /\ UNCHANGED <<memory, filled, held, kernelVars, addVars>>

Fill ==
  /\ phase = "fill" /\ step = "none" /\ filled < RING_POOL_SIZE
  /\ Begin(filled, BUF_SIZE, filled, filled)
  /\ UNCHANGED <<memory, phase, filled, held, kernelVars>>

Filled ==
  /\ phase = "fill" /\ step = "added"
  /\ filled' = filled + 1
  /\ step' = "none"
  /\ UNCHANGED <<memory, phase, held, kernelVars, entry, idx>>

Publish ==
  /\ phase = "fill" /\ step = "none" /\ filled = RING_POOL_SIZE
  /\ FetchAdd(RING_POOL_SIZE)
  /\ phase' = "run"
  /\ UNCHANGED <<filled, held, kernelVars, addVars>>

(***************************************************************************)
(* get_read_buf, and the Drop of a KernelBuffer                            *)
(***************************************************************************)
GetReadBuf ==
  /\ phase = "run" /\ step = "none" /\ announced # <<>>
  /\ LET a == Head(announced) IN
       IF get_read_buf_panics(AsRing, a.bid, a.len)
       THEN phase' = "panic" /\ UNCHANGED <<held, announced>>
       ELSE /\ held' = Append(held, get_read_buf(AsRing, a.bid, a.len))
            /\ announced' = Tail(announced)
            /\ UNCHANGED phase
  /\ UNCHANGED <<memory, khead, filled, addVars>>

Drop ==
  /\ phase = "run" /\ step = "none" /\ held # <<>>
  /\ LET read_buf == Head(held) IN
       Begin(read_buf.addr, read_buf.buf_len, read_buf.bid, 0)
  /\ UNCHANGED <<memory, phase, filled, held, kernelVars>>

Dropped ==
  /\ phase = "run" /\ step = "added"
  /\ FetchAdd(1)
  /\ held' = Tail(held)
  /\ step' = "none"
  /\ UNCHANGED <<phase, filled, kernelVars, entry, idx>>

(***************************************************************************)
(* The kernel (external) takes the entry at its head, as it finds it.      *)
(***************************************************************************)
KernelTake(n) ==
  /\ phase # "panic"
  /\ khead # tail
  /\ n <= memory[SlotIndex(khead)].len
  /\ announced' = Append(announced, [bid |-> memory[SlotIndex(khead)].bid, len |-> n])
  /\ khead' = (khead + 1) % TAIL_MOD
  /\ UNCHANGED <<memory, phase, filled, held, addVars>>

Add == LoadTail \/ (\E field \in {"addr", "len", "bid"} : Store(field))

NewBufferGroup == SetupBufRing \/ Alloc \/ Fill \/ Filled \/ Publish

Next ==
  \/ NewBufferGroup \/ Add \/ GetReadBuf \/ Drop \/ Dropped
  \/ \E n \in 1 .. BUF_SIZE : KernelTake(n)

Spec == Init /\ [][Next]_vars

-----------------------------------------------------------------------------
(***************************************************************************)
(* Properties.                                                             *)
(***************************************************************************)
TypeOK ==
  /\ memory \in [Slots -> [addr : Slots \cup {-1}, len : {0, BUF_SIZE}, bid : Slots, resv : Tails]]
  /\ khead \in Tails
  /\ phase \in {"setup", "alloc", "fill", "run", "panic"}
  /\ filled \in 0 .. RING_POOL_SIZE
  /\ step \in {"none", "load", "addr", "len", "bid", "added"}
  /\ entry \in [addr : Slots \cup {-1}, len : {0, BUF_SIZE}, bid : Slots, buf_offset : Slots]
  /\ idx \in Slots
  /\ announced \in Seq([bid : Slots, len : 1 .. BUF_SIZE])
  /\ held \in Seq(KernelBuffer)

\* Whatever lies between its head and the tail, the kernel finds whole
\* entries there: entry b is all of buffer b, at every moment between two
\* stores of the program (buf_ring.rs:80, 182-184, 231).
PublishedWhole ==
  \A k \in 0 .. ((tail - khead) % TAIL_MOD) - 1 :
    LET b == SlotIndex(khead + k) IN
      /\ memory[b].addr = b /\ memory[b].bid = b /\ memory[b].len = BUF_SIZE

\* The inductive invariant.  Between the head and the tail there is what the
\* program does not have; what it has is numbered from the tail on: first the
\* buffers held, then those announced.
Whole(s) == memory[s].addr = s /\ memory[s].len = BUF_SIZE /\ memory[s].bid = s

\* What of the entry at idx is written already
Written ==
  /\ step \in {"len", "bid", "added"} => memory[idx].addr = entry.addr
  /\ step \in {"bid", "added"} => memory[idx].len = entry.len
  /\ step = "added" => memory[idx].bid = entry.bid

SetupInv ==
  /\ phase # "run" => tail = 0 /\ khead = 0 /\ held = <<>> /\ announced = <<>>
  /\ phase \in {"setup", "alloc"} => filled = 0 /\ step = "none"

FillInv ==
  phase = "fill" =>
    /\ \A s \in 0 .. filled - 1 : Whole(s)
    /\ step # "none" =>
         /\ filled < RING_POOL_SIZE
         /\ entry = [addr |-> filled, len |-> BUF_SIZE, bid |-> filled, buf_offset |-> filled]
         /\ step # "load" => idx = filled
    /\ Written

RunInv ==
  phase = "run" =>
    /\ \A s \in Slots : Whole(s)
    /\ ((tail - khead) % TAIL_MOD) + Len(held) + Len(announced) = RING_POOL_SIZE
    /\ \A k \in 1 .. Len(held) :
         LET b == SlotIndex(tail + k - 1) IN
           held[k].addr = b /\ held[k].bid = b /\ held[k].buf_len = BUF_SIZE
    /\ \A j \in 1 .. Len(announced) : announced[j].bid = SlotIndex(tail + Len(held) + j - 1)
    /\ step # "none" =>
         /\ held # <<>>
         /\ entry = [addr |-> held[1].addr, len |-> BUF_SIZE, bid |-> held[1].bid, buf_offset |-> 0]
         /\ step # "load" => idx = SlotIndex(tail)

MemoryInv == TypeOK /\ SetupInv /\ FillInv /\ RunInv

\* The memory behaves as BufRing's record: after the setup it is
\* new_buffer_group, and then it changes only when a dropped buffer's last
\* store is done, as by buf_ring_add_advance.  Writing slot 0 leaves the
\* tail it shares storage with alone (buf_ring.rs:60-67, 182-184).
ActsAsBufRing ==
  [][/\ phase = "fill" /\ phase' = "run" => AsRing' = new_buffer_group
     /\ phase = "run" =>
          AsRing' = IF Len(held') < Len(held)
                    THEN buf_ring_add_advance(AsRing, Head(held))
                    ELSE AsRing]_vars
=============================================================================
