------------------------- MODULE BufRingMemoryProofs -------------------------
(***************************************************************************)
(* Proofs about BufRingMemory, for every pool size, buffer size and tail   *)
(* width: MemoryInv is inductive, and with it the kernel never finds a     *)
(* half-written entry and the memory changes as BufRing's operators say.   *)
(***************************************************************************)
EXTENDS BufRingMemory, RingLemmas

\* How many entries lie between the head and the tail
Offered == (tail - khead) % TAIL_MOD

LEMMA OfferedTail ==
  ASSUME TypeOK
  PROVE  /\ tail \in Tails /\ khead \in Tails
         /\ Offered \in Tails
         /\ tail = (khead + Offered) % TAIL_MOD
<1>1. tail \in Tails /\ khead \in Tails
  BY Sizes DEF TypeOK, tail
<1> QED BY <1>1, HeadToTail DEF Offered, Tails

\* What a store into one field of an entry leaves alone
LEMMA StoreKeeps ==
  ASSUME TypeOK, NEW field \in {"addr", "len", "bid"}, Store(field)
  PROVE  /\ TypeOK'
         /\ tail' = tail
         /\ \A s \in Slots \ {idx} : memory'[s] = memory[s]
         /\ memory'[idx][field] = entry[field]
         /\ \A f \in {"addr", "len", "bid"} \ {field} : memory'[idx][f] = memory[idx][f]
         /\ memory[idx][field] = entry[field] => memory' = memory
<1> USE DEF TypeOK, Store, After, kernelVars, tail
<1>1. /\ memory' = [memory EXCEPT ![idx] = [memory[idx] EXCEPT ![field] = entry[field]]]
      /\ step = field /\ step' = After[field]
      /\ UNCHANGED <<phase, filled, held, khead, announced, entry, idx>>
  OBVIOUS
<1>2. memory[idx] \in [addr : Slots \cup {-1}, len : {0, BUF_SIZE}, bid : Slots, resv : Tails]
  OBVIOUS
<1> DEFINE e == memory[idx]
           new == [e EXCEPT ![field] = entry[field]]
<1>3. /\ new \in [addr : Slots \cup {-1}, len : {0, BUF_SIZE}, bid : Slots, resv : Tails]
      /\ new[field] = entry[field]
      /\ \A f \in {"addr", "len", "bid", "resv"} \ {field} : new[f] = e[f]
      /\ e[field] = entry[field] => new = e
  <2>1. CASE field = "addr"
    <3>1. new = [e EXCEPT !.addr = entry.addr]
      BY <2>1
    <3> QED BY <1>2, <2>1, <3>1
  <2>2. CASE field = "len"
    <3>1. new = [e EXCEPT !.len = entry.len]
      BY <2>2
    <3> QED BY <1>2, <2>2, <3>1
  <2>3. CASE field = "bid"
    <3>1. new = [e EXCEPT !.bid = entry.bid]
      BY <2>3
    <3> QED BY <1>2, <2>3, <3>1
  <2> QED BY <2>1, <2>2, <2>3
<1>4. memory' = [memory EXCEPT ![idx] = new]
  BY <1>1
<1> HIDE DEF new
<1>5. TypeOK'
  <2>1. memory' \in [Slots -> [addr : Slots \cup {-1}, len : {0, BUF_SIZE}, bid : Slots, resv : Tails]]
    BY <1>3, <1>4
  <2>2. step' \in {"none", "load", "addr", "len", "bid", "added"}
    BY <1>1
  <2> QED BY <1>1, <2>1, <2>2
<1>6. tail' = tail
  BY <1>3, <1>4, Sizes
<1> QED BY <1>3, <1>4, <1>5, <1>6

-----------------------------------------------------------------------------
(***************************************************************************)
(* The inductive invariant.                                                *)
(***************************************************************************)

LEMMA InitMemoryInv == Init => MemoryInv
<1> SUFFICES ASSUME Init PROVE MemoryInv
  OBVIOUS
<1>1. TypeOK
  BY Sizes DEF Init, TypeOK, Zeroed, NoEntry
<1>2. tail = 0
  BY Sizes DEF Init, tail, Zeroed
<1> QED BY <1>1, <1>2 DEF Init, MemoryInv, SetupInv, FillInv, RunInv

LEMMA SetupBufRingInv ==
  ASSUME MemoryInv, SetupBufRing \/ Alloc
  PROVE  MemoryInv'
<1>1. TypeOK'
  BY Sizes DEF MemoryInv, TypeOK, SetupBufRing, Alloc, kernelVars, addVars
<1>2. tail' = tail
  BY DEF tail, SetupBufRing, Alloc
<1>3. SetupInv'
  BY <1>2 DEF MemoryInv, SetupInv, SetupBufRing, Alloc, kernelVars, addVars
<1>4. FillInv' /\ RunInv'
  BY DEF MemoryInv, SetupInv, FillInv, RunInv, Written, SetupBufRing, Alloc, kernelVars, addVars
<1> QED BY <1>1, <1>3, <1>4 DEF MemoryInv

LEMMA FillMemoryInv ==
  ASSUME MemoryInv, Fill
  PROVE  MemoryInv'
<1> USE DEF Fill, Begin, MemoryInv, kernelVars
<1>1. filled \in Slots /\ phase = "fill" /\ phase' = "fill"
  BY Sizes DEF TypeOK, Slots
<1>2. entry' = [addr |-> filled, len |-> BUF_SIZE, bid |-> filled, buf_offset |-> filled]
  OBVIOUS
<1>3. TypeOK'
  BY <1>1, <1>2, Sizes DEF TypeOK
<1>4. tail' = tail
  BY DEF tail
<1>5. SetupInv'
  BY <1>1, <1>4 DEF SetupInv
<1>6. FillInv'
  BY <1>1, <1>2 DEF FillInv, Whole, Written
<1> QED BY <1>1, <1>3, <1>5, <1>6 DEF RunInv

LEMMA LoadTailInv ==
  ASSUME MemoryInv, LoadTail
  PROVE  MemoryInv'
<1> USE DEF LoadTail, MemoryInv, kernelVars
<1>1. tail \in Nat /\ entry.buf_offset \in Nat
  <2>1. TypeOK /\ tail \in Tails
    BY OfferedTail
  <2>2. entry.buf_offset \in Slots
    BY <2>1 DEF TypeOK
  <2> QED BY <2>1, <2>2, Sizes DEF Tails, Slots
<1>2. idx' = SlotIndex(tail + entry.buf_offset) /\ idx' \in Slots
  BY <1>1, SlotType
<1>3. TypeOK'
  BY <1>2 DEF TypeOK
<1>4. tail' = tail
  BY DEF tail
<1>5. SetupInv'
  BY <1>4 DEF SetupInv
<1>6. FillInv'
  <2>1. phase = "fill" => idx' = filled
    <3>1. phase = "fill" => entry.buf_offset \in Slots /\ entry.buf_offset = filled /\ tail = 0
      BY DEF FillInv, SetupInv, TypeOK
    <3> QED BY <1>2, <3>1, SlotSmall DEF Slots
  <2> QED BY <2>1 DEF FillInv, Whole, Written
<1>7. RunInv'
  <2>1. phase = "run" => idx' = SlotIndex(tail)
    <3>1. phase = "run" => entry.buf_offset = 0
      BY DEF RunInv
    <3> QED BY <1>1, <1>2, <3>1
  <2> QED BY <2>1, <1>4 DEF RunInv, Whole
<1> QED BY <1>3, <1>5, <1>6, <1>7

\* In the fill loop a store completes the entry; later it changes nothing,
\* for the slot already says what the dropped buffer says.
LEMMA StoreInv ==
  ASSUME MemoryInv, NEW field \in {"addr", "len", "bid"}, Store(field)
  PROVE  MemoryInv' /\ (phase = "run" => memory' = memory)
<1> USE DEF MemoryInv
<1>1. /\ TypeOK'
      /\ tail' = tail
      /\ \A s \in Slots \ {idx} : memory'[s] = memory[s]
      /\ memory'[idx][field] = entry[field]
      /\ \A f \in {"addr", "len", "bid"} \ {field} : memory'[idx][f] = memory[idx][f]
      /\ memory[idx][field] = entry[field] => memory' = memory
  BY StoreKeeps
<1>2. /\ step = field /\ step' = After[field]
      /\ UNCHANGED <<phase, filled, held, khead, announced, entry, idx>>
  BY DEF Store, kernelVars
<1>3. SetupInv'
  BY <1>1, <1>2 DEF SetupInv
<1>4. FillInv'
  <2> SUFFICES ASSUME phase = "fill" PROVE FillInv'
    BY <1>2 DEF FillInv
  <2>1. filled \in Nat /\ filled < RING_POOL_SIZE /\ idx = filled
    BY <1>2 DEF FillInv, TypeOK
  <2>2. \A s \in 0 .. filled - 1 : s \in Slots \ {idx}
    BY <2>1, Sizes DEF Slots
  <2>3. \A s \in 0 .. filled - 1 : Whole(s)'
    <3> TAKE s \in 0 .. filled - 1
    <3>1. memory'[s] = memory[s] /\ Whole(s)
      BY <1>1, <2>2 DEF FillInv
    <3> QED BY <3>1 DEF Whole
  <2>4. Written'
    <3>1. Written
      BY DEF FillInv
    <3> QED BY <3>1, <1>1, <1>2 DEF Written, After
  <2>5. step' # "none" /\ step' # "load"
    BY <1>2 DEF After
  <2> QED BY <1>2, <2>1, <2>3, <2>4, <2>5 DEF FillInv
<1>5. phase = "run" => memory' = memory
  <2> SUFFICES ASSUME phase = "run" PROVE memory[idx][field] = entry[field]
    BY <1>1
  <2>1. /\ held # <<>>
        /\ entry = [addr |-> held[1].addr, len |-> BUF_SIZE, bid |-> held[1].bid, buf_offset |-> 0]
        /\ idx = SlotIndex(tail)
    BY <1>2 DEF RunInv
  <2>2. 1 \in 1 .. Len(held) /\ tail \in Nat
    BY <2>1, OfferedTail, Sizes DEF TypeOK, Tails
  <2>3. held[1].addr = SlotIndex(tail + 1 - 1) /\ held[1].bid = SlotIndex(tail + 1 - 1)
    BY <2>2 DEF RunInv
  <2>4. tail + 1 - 1 = tail
    BY <2>2
  <2>5. Whole(idx)
    BY DEF RunInv, TypeOK
  <2> QED BY <2>1, <2>3, <2>4, <2>5 DEF Whole
<1>6. RunInv'
  <2> SUFFICES ASSUME phase = "run" PROVE RunInv'
    BY <1>2 DEF RunInv
  <2>1. memory' = memory
    BY <1>5
  <2>2. step' # "none" /\ step' # "load"
    BY <1>2 DEF After
  <2> QED BY <1>1, <1>2, <2>1, <2>2 DEF RunInv, Whole
<1> QED BY <1>1, <1>3, <1>4, <1>5, <1>6

LEMMA FilledInv ==
  ASSUME MemoryInv, Filled
  PROVE  MemoryInv'
<1> USE DEF Filled, MemoryInv, kernelVars
<1>1. filled \in Nat /\ filled < RING_POOL_SIZE /\ idx = filled /\ filled' = filled + 1
  BY DEF FillInv, TypeOK
<1>2. TypeOK'
  BY <1>1, Sizes DEF TypeOK
<1>3. tail' = tail
  BY DEF tail
<1>4. SetupInv'
  BY <1>3 DEF SetupInv
<1>5. FillInv'
  <2>1. Whole(filled)
    BY <1>1 DEF FillInv, Written, Whole
  <2>2. \A s \in 0 .. filled' - 1 : Whole(s)
    <3> TAKE s \in 0 .. filled' - 1
    <3>1. s = filled \/ s \in 0 .. filled - 1
      BY <1>1
    <3> QED BY <2>1, <3>1 DEF FillInv
  <2> QED BY <2>2 DEF FillInv, Whole, Written
<1> QED BY <1>2, <1>4, <1>5 DEF RunInv

\* The whole pool is offered at once.
LEMMA PublishInv ==
  ASSUME MemoryInv, Publish
  PROVE  MemoryInv' /\ phase' = "run" /\ held' = held /\ AsRing' = new_buffer_group
<1> USE DEF Publish, FetchAdd, MemoryInv, kernelVars, addVars
<1>1. /\ memory' = [memory EXCEPT ![0].resv = (memory[0].resv + RING_POOL_SIZE) % TAIL_MOD]
      /\ phase = "fill" /\ phase' = "run" /\ filled = RING_POOL_SIZE /\ step = "none"
      /\ UNCHANGED <<filled, held, khead, announced, step, entry, idx>>
  OBVIOUS
<1>2. tail = 0 /\ khead = 0 /\ held = <<>> /\ announced = <<>>
  BY DEF SetupInv
<1>3. (0 + RING_POOL_SIZE) % TAIL_MOD = RING_POOL_SIZE
  BY Sizes, ModSmall
<1>4. /\ memory'[0] = [memory[0] EXCEPT !.resv = RING_POOL_SIZE]
      /\ \A s \in Slots \ {0} : memory'[s] = memory[s]
  BY <1>1, <1>2, <1>3, Sizes DEF TypeOK, tail
<1>5. memory' \in [Slots -> [addr : Slots \cup {-1}, len : {0, BUF_SIZE}, bid : Slots, resv : Tails]]
  BY <1>1, <1>2, <1>3, Sizes DEF TypeOK, tail, Tails
<1>6. TypeOK'
  BY <1>1, <1>5 DEF TypeOK
<1>7. tail' = RING_POOL_SIZE
  BY <1>4, Sizes DEF TypeOK, tail
<1>8. \A s \in Slots : Whole(s)'
  <2> TAKE s \in Slots
  <2>1. s \in 0 .. filled - 1
    BY <1>1 DEF Slots
  <2>2. Whole(s)
    BY <2>1 DEF FillInv
  <2>3. memory'[s].addr = memory[s].addr /\ memory'[s].len = memory[s].len /\ memory'[s].bid = memory[s].bid
    BY <1>4, Sizes DEF TypeOK
  <2> QED BY <2>2, <2>3 DEF Whole
<1>9. (tail' - khead') % TAIL_MOD = RING_POOL_SIZE
  <2>1. tail' - khead' = RING_POOL_SIZE /\ RING_POOL_SIZE \in 0 .. TAIL_MOD - 1
    BY <1>1, <1>2, <1>7, Sizes
  <2> QED BY <2>1, Sizes, ModSmall
<1>10. RunInv'
  BY <1>1, <1>2, <1>8, <1>9, Sizes DEF RunInv
<1>11. AsRing' = new_buffer_group
  <2> DEFINE bufs == [i \in Slots |-> [addr |-> i, len |-> BUF_SIZE, bid |-> i]]
  <2>1. AsRing' = [bufs |-> bufs, tail |-> RING_POOL_SIZE]
    BY <1>7, <1>8 DEF AsRing, Whole
  <2>2. new_buffer_group = io_uring_buf_ring_advance([bufs |-> bufs, tail |-> 0], RING_POOL_SIZE)
    BY DEF new_buffer_group
  <2> HIDE DEF bufs
  <2>3. io_uring_buf_ring_advance([bufs |-> bufs, tail |-> 0], RING_POOL_SIZE)
          = [bufs |-> bufs, tail |-> RING_POOL_SIZE]
    BY <1>3 DEF io_uring_buf_ring_advance
  <2> QED BY <2>1, <2>2, <2>3
<1> QED BY <1>1, <1>6, <1>10, <1>11 DEF SetupInv, FillInv

\* What a looked up buffer is
LEMMA GetReadBufInv ==
  ASSUME MemoryInv, GetReadBuf
  PROVE  MemoryInv' /\ memory' = memory /\ Len(held') = Len(held) + 1
<1> USE DEF MemoryInv
<1> DEFINE a == announced[1]
           b == SlotIndex(tail + Len(held))
           buffer == [addr |-> b, data_len |-> a.len, bid |-> b, buf_len |-> BUF_SIZE]
<1>1. /\ Len(held) \in Nat /\ Len(announced) \in Nat /\ 1 \in 1 .. Len(announced)
      /\ a \in [bid : Slots, len : 1 .. BUF_SIZE] /\ Head(announced) = a
      /\ phase = "run" /\ step = "none"
  <2>1. announced # <<>> /\ phase = "run" /\ step = "none"
    BY DEF GetReadBuf
  <2>2. announced \in Seq([bid : Slots, len : 1 .. BUF_SIZE]) /\ Len(held) \in Nat
    BY DEF TypeOK
  <2>3. Len(announced) \in Nat /\ Len(announced) # 0 /\ Head(announced) = announced[1]
    BY <2>1, <2>2
  <2> DEFINE S == [bid : Slots, len : 1 .. BUF_SIZE]
  <2> HIDE DEF S
  <2>4. 1 \in 1 .. Len(announced) /\ announced \in Seq(S)
    BY <2>2, <2>3 DEF S
  <2>5. announced[1] \in S
    BY <2>4
  <2> QED BY <2>1, <2>2, <2>3, <2>4, <2>5 DEF S
<1>2. tail \in Nat /\ b \in Slots
  BY <1>1, OfferedTail, Sizes, SlotType DEF Tails
<1>3. a.bid = b
  <2>1. a.bid = SlotIndex(tail + Len(held) + 1 - 1)
    BY <1>1 DEF RunInv
  <2>2. tail + Len(held) + 1 - 1 = tail + Len(held)
    BY <1>1, <1>2
  <2> QED BY <2>1, <2>2
<1>4. AsRing.bufs[b] = [addr |-> b, len |-> BUF_SIZE, bid |-> b]
  BY <1>1, <1>2 DEF AsRing, RunInv, Whole
<1> HIDE DEF b
<1>5. ~get_read_buf_panics(AsRing, b, a.len)
  BY <1>1, <1>4, Sizes DEF get_read_buf_panics
<1>6. get_read_buf(AsRing, b, a.len) = buffer
  BY <1>4 DEF get_read_buf
<1>7. /\ held' = Append(held, buffer) /\ announced' = Tail(announced)
      /\ UNCHANGED <<memory, phase, khead, filled, step, entry, idx>>
  BY <1>1, <1>3, <1>5, <1>6 DEF GetReadBuf, addVars
<1>8. buffer \in KernelBuffer
  BY <1>1, <1>2, Sizes DEF KernelBuffer
<1> HIDE DEF a, buffer
<1>9. /\ Len(held') = Len(held) + 1 /\ held'[Len(held) + 1] = buffer
      /\ \A k \in 1 .. Len(held) : held'[k] = held[k]
      /\ held' \in Seq(KernelBuffer) /\ held' # <<>>
  BY <1>7, <1>8 DEF TypeOK
<1>10. /\ Len(announced') = Len(announced) - 1
       /\ \A j \in 1 .. Len(announced') : announced'[j] = announced[j + 1]
       /\ announced' \in Seq([bid : Slots, len : 1 .. BUF_SIZE])
  BY <1>1, <1>7 DEF TypeOK
<1>11. TypeOK'
  BY <1>7, <1>9, <1>10 DEF TypeOK
<1>12. tail' = tail
  BY <1>7 DEF tail
<1>13. RunInv'
  <2>1. \A s \in Slots : Whole(s)'
    BY <1>1, <1>7 DEF RunInv, Whole
  <2>2. ((tail' - khead') % TAIL_MOD) + Len(held') + Len(announced') = RING_POOL_SIZE
    <3>1. Offered + Len(held) + Len(announced) = RING_POOL_SIZE /\ Offered \in Tails
      BY <1>1, OfferedTail DEF RunInv, Offered
    <3>2. (tail' - khead') % TAIL_MOD = Offered
      BY <1>7, <1>12 DEF Offered
    <3> QED BY <1>1, <1>9, <1>10, <3>1, <3>2, Sizes DEF Tails
  <2>3. ASSUME NEW k \in 1 .. Len(held')
        PROVE  LET s == SlotIndex(tail' + k - 1) IN
                 held'[k].addr = s /\ held'[k].bid = s /\ held'[k].buf_len = BUF_SIZE
    <3>1. CASE k = Len(held) + 1
      <4>1. tail' + k - 1 = tail + Len(held)
        BY <1>1, <1>2, <1>12, <3>1
      <4> QED BY <1>9, <3>1, <4>1 DEF buffer, b
    <3>2. CASE k \in 1 .. Len(held)
      BY <1>1, <1>9, <1>12, <3>2 DEF RunInv
    <3> QED BY <1>1, <1>9, <3>1, <3>2
  <2>4. ASSUME NEW j \in 1 .. Len(announced')
        PROVE  announced'[j].bid = SlotIndex(tail' + Len(held') + j - 1)
    <3>1. j + 1 \in 1 .. Len(announced) /\ announced'[j] = announced[j + 1]
      BY <1>1, <1>10
    <3>2. announced[j + 1].bid = SlotIndex(tail + Len(held) + (j + 1) - 1)
      BY <1>1, <3>1 DEF RunInv
    <3>3. tail' + Len(held') + j - 1 = tail + Len(held) + (j + 1) - 1
      BY <1>1, <1>2, <1>9, <1>12, <3>1
    <3> QED BY <3>1, <3>2, <3>3
  <2> QED BY <1>1, <1>7, <2>1, <2>2, <2>3, <2>4 DEF RunInv
<1> QED BY <1>1, <1>7, <1>9, <1>11, <1>13 DEF SetupInv, FillInv

LEMMA DropInv ==
  ASSUME MemoryInv, Drop
  PROVE  MemoryInv'
<1> USE DEF MemoryInv, Drop, Begin, kernelVars
<1>1. /\ held[1] \in KernelBuffer /\ Head(held) = held[1] /\ 1 \in 1 .. Len(held)
      /\ held[1].buf_len = BUF_SIZE
  <2>1. held[1] \in KernelBuffer /\ Head(held) = held[1] /\ 1 \in 1 .. Len(held)
    BY DEF TypeOK
  <2> QED BY <2>1 DEF RunInv
<1>2. entry' = [addr |-> held[1].addr, len |-> BUF_SIZE, bid |-> held[1].bid, buf_offset |-> 0]
  BY <1>1
<1>3. entry' \in [addr : Slots \cup {-1}, len : {0, BUF_SIZE}, bid : Slots, buf_offset : Slots]
  BY <1>1, <1>2, Sizes DEF KernelBuffer
<1>4. TypeOK'
  BY <1>3 DEF TypeOK
<1>5. tail' = tail
  BY DEF tail
<1>6. RunInv'
  BY <1>2, <1>5 DEF RunInv, Whole
<1> QED BY <1>4, <1>6 DEF SetupInv, FillInv

\* The slot at the tail is the kernel's again.
LEMMA DroppedInv ==
  ASSUME MemoryInv, Dropped
  PROVE  /\ MemoryInv'
         /\ Len(held') < Len(held)
         /\ AsRing' = buf_ring_add_advance(AsRing, Head(held))
<1> USE DEF MemoryInv
<1> DEFINE t == (tail + 1) % TAIL_MOD
<1>1. /\ memory' = [memory EXCEPT ![0].resv = t]
      /\ phase = "run" /\ step = "added" /\ step' = "none"
      /\ held' = Tail(held)
      /\ UNCHANGED <<phase, filled, khead, announced, entry, idx>>
  BY DEF Dropped, FetchAdd, kernelVars, tail
<1>2. /\ held # <<>> /\ Len(held) \in Nat \ {0} /\ Len(announced) \in Nat
      /\ Head(held) = held[1] /\ 1 \in 1 .. Len(held)
  BY <1>1 DEF RunInv, TypeOK
<1>3. /\ tail \in Tails /\ khead \in Tails /\ Offered \in Tails /\ tail \in Nat
      /\ t \in Tails
  BY OfferedTail, Sizes, TailType DEF Tails
<1> HIDE DEF t
<1>4. /\ memory'[0] = [memory[0] EXCEPT !.resv = t]
      /\ \A s \in Slots \ {0} : memory'[s] = memory[s]
  BY <1>1, Sizes DEF TypeOK
<1>5. memory' \in [Slots -> [addr : Slots \cup {-1}, len : {0, BUF_SIZE}, bid : Slots, resv : Tails]]
  BY <1>1, <1>3, Sizes DEF TypeOK
<1>6. /\ held' \in Seq(KernelBuffer) /\ Len(held') = Len(held) - 1
      /\ \A k \in 1 .. Len(held') : held'[k] = held[k + 1]
  BY <1>1, <1>2 DEF TypeOK
<1>7. TypeOK'
  BY <1>1, <1>5, <1>6 DEF TypeOK
<1>8. tail' = t
  BY <1>4, Sizes DEF TypeOK, tail
<1>9. \A s \in Slots : Whole(s) /\ Whole(s)'
  <2> TAKE s \in Slots
  <2>1. Whole(s)
    BY <1>1 DEF RunInv
  <2>2. memory'[s].addr = memory[s].addr /\ memory'[s].len = memory[s].len /\ memory'[s].bid = memory[s].bid
    BY <1>4, Sizes DEF TypeOK
  <2> QED BY <2>1, <2>2 DEF Whole
<1>10. ((tail' - khead') % TAIL_MOD) = Offered + 1
  <2>1. Offered + 1 < TAIL_MOD
    BY <1>1, <1>2, <1>3, Sizes DEF RunInv, Offered, Tails
  <2>2. (((tail + 1) % TAIL_MOD) - khead) % TAIL_MOD = ((tail - khead) % TAIL_MOD) + 1
    BY <1>3, <2>1, Sizes, ModNext DEF Tails, Offered
  <2> QED BY <1>1, <1>8, <2>2 DEF t, Offered
<1>11. \A d \in Nat : SlotIndex(tail' + d) = SlotIndex(tail + 1 + d)
  <2> TAKE d \in Nat
  <2>1. tail + 1 \in Nat
    BY <1>3
  <2> QED BY <1>8, <2>1, SlotOffset DEF t
<1>12. RunInv'
  <2>1. ((tail' - khead') % TAIL_MOD) + Len(held') + Len(announced') = RING_POOL_SIZE
    <3>1. Offered + Len(held) + Len(announced) = RING_POOL_SIZE
      BY <1>1 DEF RunInv, Offered
    <3> QED BY <1>1, <1>2, <1>3, <1>6, <1>10, <3>1, Sizes DEF Tails
  <2>2. ASSUME NEW k \in 1 .. Len(held')
        PROVE  LET s == SlotIndex(tail' + k - 1) IN
                 held'[k].addr = s /\ held'[k].bid = s /\ held'[k].buf_len = BUF_SIZE
    <3>1. k + 1 \in 1 .. Len(held) /\ held'[k] = held[k + 1]
      BY <1>2, <1>6
    <3>2. k - 1 \in Nat /\ tail' + k - 1 = tail' + (k - 1) /\ tail + 1 + (k - 1) = tail + (k + 1) - 1
      BY <1>3, <1>8, <3>1 DEF Tails
    <3>3. SlotIndex(tail' + k - 1) = SlotIndex(tail + (k + 1) - 1)
      BY <1>11, <3>2
    <3> QED BY <1>1, <3>1, <3>3 DEF RunInv
  <2>3. ASSUME NEW j \in 1 .. Len(announced')
        PROVE  announced'[j].bid = SlotIndex(tail' + Len(held') + j - 1)
    <3>1. announced'[j].bid = SlotIndex(tail + Len(held) + j - 1)
      BY <1>1 DEF RunInv
    <3> DEFINE d == Len(held') + j - 1
    <3>2. /\ d \in Nat /\ tail' + Len(held') + j - 1 = tail' + d
          /\ tail + 1 + d = tail + Len(held) + j - 1
      BY <1>2, <1>3, <1>6, <1>8 DEF Tails
    <3> HIDE DEF d
    <3>3. SlotIndex(tail' + d) = SlotIndex(tail + 1 + d)
      BY <1>11, <3>2
    <3> QED BY <3>1, <3>2, <3>3
  <2> QED BY <1>1, <1>9, <2>1, <2>2, <2>3 DEF RunInv
<1>13. AsRing' = buf_ring_add_advance(AsRing, Head(held))
  <2> DEFINE bufs == [s \in Slots |-> [addr |-> s, len |-> BUF_SIZE, bid |-> s]]
             b == SlotIndex(tail)
  <2>1. AsRing' = [bufs |-> bufs, tail |-> t]
    BY <1>8, <1>9 DEF AsRing, Whole
  <2>2. AsRing = [bufs |-> bufs, tail |-> tail]
    BY <1>9 DEF AsRing, Whole
  <2>3. b \in Slots
    BY <1>3, SlotType
  <2>4. held[1].addr = b /\ held[1].bid = b /\ held[1].buf_len = BUF_SIZE
    <3>1. tail + 1 - 1 = tail
      BY <1>3
    <3> QED BY <1>1, <1>2, <3>1 DEF RunInv
  <2>5. [bufs EXCEPT ![b] = [addr |-> b, len |-> BUF_SIZE, bid |-> b]] = bufs
    BY <2>3
  <2>6. tail + 0 = tail
    BY <1>3
  <2> HIDE DEF bufs
  <2>7. io_uring_buf_ring_add(AsRing, held[1].addr, held[1].buf_len, held[1].bid, 0)
          = [bufs |-> bufs, tail |-> tail]
    <3>1. SlotIndex(AsRing.tail + 0) = b
      BY <2>2, <2>6
    <3> QED BY <2>2, <2>4, <2>5, <3>1 DEF io_uring_buf_ring_add
  <2>8. io_uring_buf_ring_advance([bufs |-> bufs, tail |-> tail], 1) = [bufs |-> bufs, tail |-> t]
    BY DEF io_uring_buf_ring_advance, t
  <2> QED BY <1>2, <2>1, <2>7, <2>8 DEF buf_ring_add_advance
<1>14. Len(held') < Len(held)
  BY <1>2, <1>6
<1> QED BY <1>1, <1>7, <1>12, <1>13, <1>14 DEF SetupInv, FillInv

\* The buffer the kernel takes comes after the last one announced.
LEMMA KernelTakeInv ==
  ASSUME MemoryInv, NEW n \in 1 .. BUF_SIZE, KernelTake(n)
  PROVE  MemoryInv' /\ UNCHANGED <<memory, held, phase>>
<1> USE DEF MemoryInv
<1> DEFINE b == SlotIndex(khead)
           a == [bid |-> b, len |-> n]
<1>1. /\ tail \in Tails /\ khead \in Tails /\ Offered \in Tails /\ tail \in Nat /\ khead \in Nat
      /\ tail = (khead + Offered) % TAIL_MOD /\ Len(held) \in Nat /\ Len(announced) \in Nat
  <2>1. /\ tail \in Tails /\ khead \in Tails /\ Offered \in Tails
        /\ tail = (khead + Offered) % TAIL_MOD
    BY OfferedTail
  <2> QED BY <2>1, Sizes DEF Tails, TypeOK
<1>2. phase = "run" /\ khead # tail
  BY DEF KernelTake, TypeOK, SetupInv
<1>3. b \in Slots /\ Whole(b)
  BY <1>1, <1>2, SlotType DEF RunInv
<1>4. /\ announced' = Append(announced, a)
      /\ khead' = (khead + 1) % TAIL_MOD
      /\ UNCHANGED <<memory, phase, filled, held, step, entry, idx>>
  BY <1>3 DEF KernelTake, Whole, addVars
<1> HIDE DEF b
<1>5. a \in [bid : Slots, len : 1 .. BUF_SIZE]
  BY <1>3
<1>6. /\ announced' \in Seq([bid : Slots, len : 1 .. BUF_SIZE])
      /\ Len(announced') = Len(announced) + 1
      /\ announced'[Len(announced) + 1] = a
      /\ \A j \in 1 .. Len(announced) : announced'[j] = announced[j]
  <2> HIDE DEF a
  <2> QED BY <1>4, <1>5 DEF TypeOK
<1>7. TypeOK'
  <2>1. khead' \in Tails
    BY <1>1, <1>4, TailType
  <2> QED BY <1>4, <1>6, <2>1 DEF TypeOK
<1>8. tail' = tail
  BY <1>4 DEF tail
<1>9. Offered # 0
  <2>1. khead % TAIL_MOD = khead
    BY <1>1, Sizes, ModSmall DEF Tails
  <2> QED BY <1>1, <1>2, <2>1
<1>10. (tail' - khead') % TAIL_MOD = Offered - 1
  <2> DEFINE d == Offered - 1
  <2>1. d \in 0 .. TAIL_MOD - 1 /\ khead + 1 \in Nat /\ khead + 1 + d = khead + Offered
    BY <1>1, <1>9, Sizes DEF Tails
  <2> HIDE DEF d
  <2>2. (((khead + 1 + d) % TAIL_MOD) - ((khead + 1) % TAIL_MOD)) % TAIL_MOD = d
    BY <2>1, Sizes, ModDistance
  <2> QED BY <1>1, <1>4, <1>8, <2>1, <2>2 DEF d
<1>11. SlotIndex(tail + Len(held) + Len(announced)) = b
  <2> DEFINE d == Len(held) + Len(announced)
  <2>1. Offered + Len(held) + Len(announced) = RING_POOL_SIZE
    BY <1>2 DEF RunInv, Offered
  <2>2. /\ d \in Nat /\ khead + Offered \in Nat
        /\ tail + Len(held) + Len(announced) = tail + d
        /\ khead + Offered + d = khead + RING_POOL_SIZE
    BY <1>1, <2>1, Sizes DEF Tails
  <2> HIDE DEF d
  <2>3. SlotIndex(tail + d) = SlotIndex(khead + Offered + d)
    BY <1>1, <2>2, SlotOffset
  <2>4. SlotIndex(khead + RING_POOL_SIZE) = b
    BY <1>1, SlotLap DEF b
  <2> QED BY <2>2, <2>3, <2>4
<1>12. RunInv'
  <2>1. \A s \in Slots : Whole(s)'
    BY <1>2, <1>4 DEF RunInv, Whole
  <2>2. ((tail' - khead') % TAIL_MOD) + Len(held') + Len(announced') = RING_POOL_SIZE
    <3>1. Offered + Len(held) + Len(announced) = RING_POOL_SIZE
      BY <1>2 DEF RunInv, Offered
    <3> QED BY <1>1, <1>4, <1>6, <1>10, <3>1, Sizes DEF Tails
  <2>3. ASSUME NEW j \in 1 .. Len(announced')
        PROVE  announced'[j].bid = SlotIndex(tail' + Len(held') + j - 1)
    <3>1. CASE j = Len(announced) + 1
      <4>1. tail' + Len(held') + j - 1 = tail + Len(held) + Len(announced)
        BY <1>1, <1>4, <1>8, <3>1
      <4> QED BY <1>6, <1>11, <3>1, <4>1
    <3>2. CASE j \in 1 .. Len(announced)
      BY <1>2, <1>4, <1>6, <1>8, <3>2 DEF RunInv
    <3> QED BY <1>1, <1>6, <3>1, <3>2
  <2> QED BY <1>2, <1>4, <1>8, <2>1, <2>2, <2>3 DEF RunInv
<1> QED BY <1>2, <1>4, <1>7, <1>12 DEF SetupInv, FillInv

LEMMA NextMemoryInv ==
  ASSUME MemoryInv, [Next]_vars
  PROVE  MemoryInv'
<1>1. CASE NewBufferGroup
  BY <1>1, SetupBufRingInv, FillMemoryInv, FilledInv, PublishInv DEF NewBufferGroup
<1>2. CASE Add
  BY <1>2, LoadTailInv, StoreInv DEF Add
<1>3. CASE GetReadBuf \/ Drop \/ Dropped
  BY <1>3, GetReadBufInv, DropInv, DroppedInv
<1>4. CASE \E n \in 1 .. BUF_SIZE : KernelTake(n)
  BY <1>4, KernelTakeInv
<1>5. CASE UNCHANGED vars
  <2>1. UNCHANGED <<memory, phase, filled, held, khead, announced, step, entry, idx>>
    BY <1>5 DEF vars, kernelVars, addVars
  <2>2. TypeOK' /\ tail' = tail
    BY <2>1 DEF MemoryInv, TypeOK, tail
  <2> QED BY <2>1, <2>2 DEF MemoryInv, SetupInv, FillInv, RunInv, Whole, Written
<1> QED BY <1>1, <1>2, <1>3, <1>4, <1>5 DEF Next

-----------------------------------------------------------------------------
(***************************************************************************)
(* Theorems.                                                               *)
(***************************************************************************)

\* Between any two stores of new_buffer_group, get_read_buf and the Drop of a
\* KernelBuffer, the invariant holds, whenever the kernel looks
\* (buf_ring.rs:56-67, 160-186, 231-256).
THEOREM MemoryInductive == Spec => []MemoryInv
BY InitMemoryInv, NextMemoryInv, PTL DEF Spec

\* The ring's memory, its head and what the program has of it keep their
\* types (buf_ring.rs:160-186).
THEOREM MemoryTypes == Spec => []TypeOK
<1>1. MemoryInv => TypeOK
  BY DEF MemoryInv
<1> QED BY <1>1, MemoryInductive, PTL

\* Wherever the program is between two of its stores, the kernel finds only
\* whole entries between its head and the tail (buf_ring.rs:80, 182-184, 231).
THEOREM OnlyWholeEntries == Spec => []PublishedWhole
<1>1. ASSUME MemoryInv PROVE PublishedWhole
  <2>1. /\ khead \in Nat /\ (phase # "run" => tail = 0 /\ khead = 0)
        /\ phase = "run" => \A s \in Slots : Whole(s)
    BY <1>1, Sizes DEF MemoryInv, SetupInv, RunInv, TypeOK, Tails
  <2>2. CASE phase = "run"
    <3> SUFFICES ASSUME NEW k \in 0 .. Offered - 1 PROVE Whole(SlotIndex(khead + k))
      BY DEF PublishedWhole, Whole, Offered
    <3>1. k \in Nat
      BY <1>1, OfferedTail, Sizes DEF MemoryInv, Tails
    <3> QED BY <2>1, <2>2, <3>1, SlotType
  <2>3. CASE phase # "run"
    <3>1. (tail - khead) % TAIL_MOD = 0
      <4>1. tail - khead = 0 /\ 0 \in 0 .. TAIL_MOD - 1
        BY <2>1, <2>3, Sizes
      <4> QED BY <4>1, Sizes, ModSmall
    <3> QED BY <3>1 DEF PublishedWhole
  <2> QED BY <2>2, <2>3
<1> QED BY <1>1, MemoryInductive, PTL

\* The union's memory, written field by field, is BufRing's record: filled
\* at once by new_buffer_group, and afterwards changed only by the last store
\* of a Drop, as buf_ring_add_advance changes it (buf_ring.rs:60-67, 182-184).
THEOREM ImplementsBufRing == Spec => ActsAsBufRing
<1> DEFINE Acts ==
      /\ phase = "fill" /\ phase' = "run" => AsRing' = new_buffer_group
      /\ phase = "run" =>
           AsRing' = IF Len(held') < Len(held)
                     THEN buf_ring_add_advance(AsRing, Head(held))
                     ELSE AsRing
<1>1. ASSUME MemoryInv, [Next]_vars PROVE [Acts]_vars
  <2> USE DEF MemoryInv
  <2>1. ASSUME memory' = memory, Len(held') >= Len(held), phase = "fill" => phase' # "run"
        PROVE  Acts
    <3>1. AsRing' = AsRing
      BY <2>1 DEF AsRing, tail
    <3>2. ~(Len(held') < Len(held))
      <4>1. Len(held) \in Nat /\ Len(held') \in Nat
        BY <1>1, NextMemoryInv DEF TypeOK
      <4> QED BY <2>1, <4>1
    <3> QED BY <2>1, <3>1, <3>2
  <2>2. Len(held) \in Nat
    BY <1>1 DEF TypeOK
  <2> HIDE DEF MemoryInv
  <2>3. CASE SetupBufRing \/ Alloc \/ Fill \/ Filled \/ LoadTail \/ Drop
    <3>1. memory' = memory /\ held' = held /\ (phase = "fill" => phase' # "run")
      BY <2>3 DEF SetupBufRing, Alloc, Fill, Filled, LoadTail, Drop
    <3> QED BY <2>1, <2>2, <3>1
  <2>4. CASE Publish
    BY <1>1, <2>4, PublishInv DEF Publish
  <2>5. CASE \E field \in {"addr", "len", "bid"} : Store(field)
    <3>1. /\ held' = held /\ phase' = phase
          /\ phase = "run" => memory' = memory
      BY <1>1, <2>5, StoreInv DEF Store
    <3>2. CASE phase = "run"
      BY <2>1, <2>2, <3>1, <3>2
    <3>3. CASE phase # "run"
      BY <3>1, <3>3
    <3> QED BY <3>2, <3>3
  <2>6. CASE GetReadBuf
    <3>1. memory' = memory /\ Len(held') = Len(held) + 1 /\ phase # "fill"
      BY <1>1, <2>6, GetReadBufInv DEF GetReadBuf
    <3> QED BY <2>1, <2>2, <3>1
  <2>7. CASE Dropped
    BY <1>1, <2>7, DroppedInv DEF Dropped
  <2>8. CASE \E n \in 1 .. BUF_SIZE : KernelTake(n)
    <3>1. UNCHANGED <<memory, held, phase>>
      BY <1>1, <2>8, KernelTakeInv
    <3> QED BY <2>1, <2>2, <3>1
  <2>9. CASE UNCHANGED vars
    BY <2>9
  <2> QED BY <1>1, <2>3, <2>4, <2>5, <2>6, <2>7, <2>8, <2>9 DEF Next, NewBufferGroup, Add
<1> QED BY <1>1, MemoryInductive, PTL DEF Spec, ActsAsBufRing

=============================================================================
