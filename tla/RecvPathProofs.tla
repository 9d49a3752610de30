--------------------------- MODULE RecvPathProofs ---------------------------
(***************************************************************************)
(* Proofs about RecvPath, for every pool size, buffer size, tail width and *)
(* stream length: IInv is inductive, and with it the receive path keeps    *)
(* its types, never fails an assertion about its own buffers, never lets   *)
(* the kernel write under a reader, and implements RecvStream.             *)
(***************************************************************************)
EXTENDS RecvPathInv, RingLemmas

-----------------------------------------------------------------------------
(***************************************************************************)
(* The inductive invariant.                                                *)
(***************************************************************************)

LEMMA InitIInv == Init => IInv
<1> SUFFICES ASSUME Init PROVE IInv
  OBVIOUS
<1> USE DEF Init
<1>1. br = [bufs |-> [i \in Slots |-> [addr |-> i, len |-> BUF_SIZE, bid |-> i]],
            tail |-> RING_POOL_SIZE % TAIL_MOD]
  <2>1. 0 + RING_POOL_SIZE = RING_POOL_SIZE
    BY Sizes
  <2> QED BY <2>1, Zenon DEF new_buffer_group, io_uring_buf_ring_advance
<1>2. SlotIdentity
  BY <1>1 DEF SlotIdentity
<1>3. 0 % TAIL_MOD = 0 /\ 0 \in Tails
  BY Sizes, ModSmall DEF Tails
<1>4. br \in Ring
  <2>1. RING_POOL_SIZE % TAIL_MOD \in Tails
    BY Sizes, TailType
  <2>2. [i \in Slots |-> [addr |-> i, len |-> BUF_SIZE, bid |-> i]] \in [Slots -> Slot]
    BY Sizes DEF Slot
  <2> QED BY <1>1, <2>1, <2>2 DEF Ring
<1>5. TypeOK
  BY <1>3, <1>4, Sizes DEF TypeOK, Phases, Panics, NoCompletion
<1>6. RingInv
  BY <1>1, <1>2, <1>3, Sizes DEF RingInv
<1>7. QueueInv /\ CompletionInv /\ ReadersInv /\ ContentInv /\ NoInternalPanic
  BY DEF QueueInv, CompletionInv, ReadersInv, ContentInv, NoInternalPanic, First, Buffers
<1> QED BY <1>5, <1>6, <1>7 DEF IInv

\* The kernel fills buffer number received, which nobody holds.
LEMMA KernelRecvIInv ==
  ASSUME IInv, NEW n \in 1 .. BUF_SIZE, KernelRecv(n)
  PROVE  IInv'
<1> USE DEF IInv
<1> DEFINE s == SlotIndex(received)
<1>1. /\ received \in Nat /\ returned \in Nat /\ got \in Nat /\ n \in Nat
      /\ n >= 1 /\ n <= BUF_SIZE /\ Len(buf_vec) \in Nat /\ Len(cq) \in Nat
  BY Sizes DEF TypeOK
<1>2. s \in Slots /\ SlotIndex(khead) = s
  BY <1>1, SlotType, SlotWrapped DEF RingInv
<1>3. br.bufs[s] = [addr |-> s, len |-> BUF_SIZE, bid |-> s]
  BY <1>2 DEF RingInv, SlotIdentity
<1>4. /\ mem' = [mem EXCEPT ![s] = [start |-> got, len |-> n]]
      /\ cq' = Append(cq, [res |-> n, buffer |-> TRUE, bid |-> s])
      /\ khead' = (khead + 1) % TAIL_MOD
      /\ got' = got + n
      /\ received' = received + 1
      /\ armed /\ armed'
      /\ UNCHANGED <<br, phase, completion, buf_vec, panic, given, last, returned>>
  BY <1>2, <1>3 DEF KernelRecv, historyVars
<1>5. received < returned + RING_POOL_SIZE
  <2>1. received # returned + RING_POOL_SIZE
    BY DEF KernelRecv, RingInv
  <2> QED BY <2>1, <1>1, Sizes DEF RingInv
<1> HIDE DEF s
<1>6. \A c \in returned .. received - 1 :
        SlotIndex(c) \in Slots /\ SlotIndex(c) # s /\ mem'[SlotIndex(c)] = mem[SlotIndex(c)]
  <2> TAKE c \in returned .. received - 1
  <2>1. c \in Nat /\ c < received /\ received - c < RING_POOL_SIZE
    BY <1>1, <1>5, Sizes
  <2>2. SlotIndex(c) \in Slots /\ SlotIndex(c) # s
    BY <1>1, <2>1, SlotType, SlotDistinct DEF s
  <2> QED BY <2>2, <1>4 DEF TypeOK
<1>7. mem'[s] = [start |-> got, len |-> n]
  BY <1>2, <1>4 DEF TypeOK
<1>8. TypeOK'
  <2>1. khead' \in Tails
    BY <1>1, <1>4, TailStep, TailType DEF RingInv
  <2>2. mem' \in [Slots -> [start : Nat, len : 0 .. BUF_SIZE]]
    BY <1>1, <1>2, <1>4, Sizes DEF TypeOK
  <2>3. cq' \in Seq(Cqe)
    BY <1>1, <1>2, <1>4 DEF TypeOK, Cqe
  <2> QED BY <1>1, <1>4, <2>1, <2>2, <2>3 DEF TypeOK
<1>9. RingInv'
  <2>1. khead' = received' % TAIL_MOD
    BY <1>1, <1>4, TailStep DEF RingInv
  <2>2. SlotIdentity'
    <3>1. SlotIdentity /\ br' = br
      BY <1>4 DEF RingInv
    <3> QED BY <3>1 DEF SlotIdentity
  <2>3. br'.tail = (returned' + RING_POOL_SIZE) % TAIL_MOD
    BY <1>4 DEF RingInv
  <2>4. returned' + Len(buf_vec') <= received' /\ received' <= returned' + RING_POOL_SIZE
    BY <1>1, <1>4, <1>5, Sizes DEF RingInv
  <2> QED BY <2>1, <2>2, <2>3, <2>4 DEF RingInv
<1>10. First' = First /\ First \in Int /\ Buffers = Len(cq) /\ Buffers' = Len(cq) + 1
  BY <1>1, <1>4 DEF First, Buffers, TypeOK
<1>11. QueueInv'
  <2>1. received' = First' + Buffers'
    BY <1>1, <1>4, <1>10 DEF QueueInv
  <2>2. cq' # <<>>
    <3>1. Len(cq') = Len(cq) + 1
      BY <1>4 DEF TypeOK
    <3> QED BY <1>1, <3>1
  <2>3. phase' = "read" => cq'[1].buffer
    BY <1>1, <1>4 DEF QueueInv, TypeOK
  <2>4. ASSUME NEW j \in 1 .. Len(cq)'
        PROVE  /\ cq'[j].buffer
               /\ cq'[j].bid = SlotIndex(First + j - 1)
               /\ (phase = "read" => j > 1) => cq'[j].res = mem'[cq'[j].bid].len
    <3>1. CASE j = Len(cq) + 1
      <4>1. cq'[j] = [res |-> n, buffer |-> TRUE, bid |-> s]
        BY <1>1, <1>4, <3>1 DEF TypeOK
      <4>2. First + j - 1 = received
        BY <1>1, <1>10, <3>1 DEF QueueInv
      <4> QED BY <4>1, <4>2, <1>7 DEF s
    <3>2. CASE j \in 1 .. Len(cq)
      <4>1. cq'[j] = cq[j]
        BY <1>1, <1>4, <3>2 DEF TypeOK
      <4>2. cq[j].buffer /\ cq[j].bid = SlotIndex(First + j - 1)
        BY <3>2, <1>4 DEF QueueInv
      <4>3. ASSUME phase = "read" => j > 1
            PROVE  cq'[j].res = mem'[cq'[j].bid].len
        <5>1. cq[j].res = mem[cq[j].bid].len
          BY <3>2, <4>3, <4>2 DEF QueueInv
        <5>2. First + j - 1 \in returned .. received - 1
          <6>1. received = First + Len(cq)
            BY <1>10 DEF QueueInv
          <6>2. IF phase = "read"
                THEN First = returned + Len(buf_vec) - 1 /\ j > 1
                ELSE First = returned + Len(buf_vec)
            BY <1>1, <4>3 DEF First
          <6> HIDE DEF IInv
          <6> QED BY <1>1, <1>10, <3>2, <6>1, <6>2
        <5> QED BY <4>1, <4>2, <5>1, <5>2, <1>6
      <4> QED BY <4>1, <4>2, <4>3
    <3> QED BY <1>1, <1>4, <3>1, <3>2 DEF TypeOK
  <2> QED BY <1>4, <1>10, <2>1, <2>2, <2>3, <2>4 DEF QueueInv
<1>12. CompletionInv'
  <2>1. CASE phase = "completed"
    <3>1. cq # <<>> /\ cq'[1] = cq[1]
      BY <1>1, <1>4, <2>1 DEF QueueInv, TypeOK
    <3>2. 1 \in 1 .. Len(cq) /\ First \in returned .. received - 1
      BY <1>1, <1>10, <2>1, <3>1 DEF QueueInv, First, TypeOK
    <3>3. BufferAt(First)' = BufferAt(First)
      BY <1>6, <1>10, <3>2 DEF BufferAt
    <3> QED BY <1>4, <1>10, <2>1, <3>1, <3>3 DEF CompletionInv
  <2>2. CASE phase # "completed"
    BY <1>4, <2>2 DEF CompletionInv
  <2> QED BY <2>1, <2>2
<1>13. ReadersInv'
  <2> SUFFICES ASSUME NEW i \in 1 .. Len(buf_vec)
               PROVE  BufferAt(returned + i - 1)' = BufferAt(returned + i - 1)
    BY <1>4 DEF ReadersInv
  <2>1. returned + i - 1 \in returned .. received - 1
    BY <1>1 DEF RingInv
  <2> QED BY <1>4, <1>6, <2>1 DEF BufferAt
<1>14. ContentInv'
  <2>1. ASSUME NEW c \in returned .. received
        PROVE  LET held == mem'[SlotIndex(c)] IN
                 /\ held.len >= 1
                 /\ held.start + held.len <= got'
                 /\ held.start + held.len =
                      IF c + 1 < received' THEN mem'[SlotIndex(c + 1)].start ELSE got'
    <3>1. CASE c = received
      BY <1>1, <1>4, <1>7, <3>1 DEF s
    <3>2. CASE c < received
      <4>1. c \in returned .. received - 1
        BY <1>1, <3>2
      <4>2. mem'[SlotIndex(c)] = mem[SlotIndex(c)] /\ SlotIndex(c) \in Slots
        BY <4>1, <1>6
      <4>3. c + 1 < received => mem'[SlotIndex(c + 1)] = mem[SlotIndex(c + 1)]
        BY <1>1, <1>6, <4>1
      <4>4. mem[SlotIndex(c)] \in [start : Nat, len : 0 .. BUF_SIZE]
        BY <4>2 DEF TypeOK
      <4>5. /\ mem[SlotIndex(c)].len >= 1
            /\ mem[SlotIndex(c)].start + mem[SlotIndex(c)].len <= got
            /\ mem[SlotIndex(c)].start + mem[SlotIndex(c)].len =
                 IF c + 1 < received THEN mem[SlotIndex(c + 1)].start ELSE got
        BY <4>1 DEF ContentInv
      <4>6. CASE c + 1 < received
        BY <1>1, <1>4, <3>2, <4>2, <4>3, <4>4, <4>5, <4>6, Sizes
      <4>7. CASE c + 1 = received
        BY <1>1, <1>4, <1>7, <3>2, <4>2, <4>4, <4>5, <4>7, Sizes DEF s
      <4> QED BY <1>1, <3>2, <4>6, <4>7
    <3> QED BY <1>1, <3>1, <3>2
  <2>2. given' = IF returned' = received' THEN got'
                 ELSE mem'[SlotIndex(returned')].start
                        + (IF buf_vec' = <<>> THEN 0 ELSE buf_vec'[1].claimed)
    <3>1. CASE returned = received
      <4>1. buf_vec = <<>>
        BY <1>1, <3>1 DEF RingInv, TypeOK
      <4> QED BY <1>1, <1>4, <1>7, <3>1, <4>1 DEF ContentInv, s
    <3>2. CASE returned # received
      <4>1. returned \in returned .. received - 1
        BY <1>1, <3>2 DEF RingInv
      <4> QED BY <1>1, <1>4, <1>6, <3>2, <4>1 DEF ContentInv
    <3> QED BY <3>1, <3>2
  <2>3. returned' .. received' - 1 = returned .. received
    BY <1>1, <1>4
  <2> QED BY <2>1, <2>2, <2>3 DEF ContentInv
<1>15. NoInternalPanic'
  BY <1>4 DEF NoInternalPanic
<1> QED BY <1>8, <1>9, <1>11, <1>12, <1>13, <1>14, <1>15

\* The parts of IInv that only the buffers' contents and counters enter.
LEMMA DataUnchanged ==
  ASSUME IInv, UNCHANGED <<br, khead, mem, got, given, received, returned, buf_vec>>
  PROVE  RingInv' /\ ReadersInv' /\ ContentInv'
<1>1. RingInv'
  <2>1. SlotIdentity'
    <3>1. SlotIdentity /\ br' = br
      BY DEF IInv, RingInv
    <3> QED BY <3>1 DEF SlotIdentity
  <2> QED BY <2>1 DEF IInv, RingInv
<1>2. ReadersInv'
  BY DEF IInv, ReadersInv, BufferAt
<1>3. ContentInv'
  BY DEF IInv, ContentInv
<1> QED BY <1>1, <1>2, <1>3

LEMMA KernelEndIInv ==
  ASSUME IInv, NEW res \in EndResults, KernelEnd(res)
  PROVE  IInv'
<1> USE DEF IInv
<1>1. /\ cq' = Append(cq, [res |-> res, buffer |-> FALSE, bid |-> 0])
      /\ armed /\ ~armed' /\ armed' = FALSE
      /\ UNCHANGED <<br, khead, mem, phase, completion, buf_vec, panic, got, given,
                     last, received, returned>>
  BY DEF KernelEnd, historyVars
<1>2. /\ Len(cq) \in Nat /\ Len(cq') = Len(cq) + 1 /\ 0 \in Slots
      /\ cq'[Len(cq) + 1] = [res |-> res, buffer |-> FALSE, bid |-> 0]
      /\ \A j \in 1 .. Len(cq) : cq'[j] = cq[j]
  BY <1>1, Sizes DEF TypeOK, Slots
<1>3. TypeOK'
  <2>1. cq' \in Seq(Cqe)
    BY <1>1, <1>2 DEF TypeOK, Cqe
  <2> QED BY <1>1, <2>1 DEF TypeOK
<1>4. RingInv' /\ ReadersInv' /\ ContentInv'
  BY <1>1, DataUnchanged
<1>5. First' = First /\ Buffers' = Buffers
  BY <1>1, <1>2 DEF First, Buffers
<1>6. QueueInv'
  <2>1. cq' # <<>>
    BY <1>2
  <2>2. phase' = "read" => cq'[1].buffer
    BY <1>1, <1>2 DEF QueueInv, TypeOK
  <2>3. ASSUME NEW j \in 1 .. Len(cq')
        PROVE  IF cq'[j].buffer
               THEN /\ cq'[j].bid = SlotIndex(First' + j - 1)
                    /\ (phase' = "read" => j > 1) => cq'[j].res = mem'[cq'[j].bid].len
               ELSE j = Len(cq') /\ ~armed'
    <3>1. CASE j = Len(cq) + 1
      BY <1>1, <1>2, <3>1
    <3>2. CASE j \in 1 .. Len(cq)
      BY <1>1, <1>2, <1>5, <3>2 DEF QueueInv
    <3> QED BY <1>2, <3>1, <3>2
  <2>4. received' = First' + Buffers'
    BY <1>1, <1>5 DEF QueueInv
  <2> QED BY <1>1, <1>2, <2>1, <2>2, <2>3, <2>4 DEF QueueInv
<1>7. CompletionInv'
  <2>1. phase = "completed" => cq'[1] = cq[1]
    BY <1>2 DEF QueueInv, TypeOK
  <2> QED BY <1>1, <1>5, <2>1 DEF CompletionInv, BufferAt
<1>8. NoInternalPanic'
  BY <1>1 DEF NoInternalPanic
<1> QED BY <1>3, <1>4, <1>6, <1>7, <1>8

\* What the head of the completion queue is before its buffer is queued.
LEMMA HeadOfCq ==
  ASSUME IInv, cq # <<>>, phase # "read"
  PROVE  IF cq[1].buffer
         THEN /\ First \in returned .. received - 1 /\ First = returned + Len(buf_vec)
              /\ SlotIndex(First) \in Slots
              /\ cq[1].bid = SlotIndex(First)
              /\ cq[1].res = mem[SlotIndex(First)].len
              /\ cq[1].res \in 1 .. BUF_SIZE
         ELSE cq[1].res \in EndResults
<1> USE DEF IInv
<1>1. 1 \in 1 .. Len(cq) /\ Len(cq) \in Nat /\ Len(buf_vec) \in Nat
      /\ received \in Nat /\ returned \in Nat /\ armed \in BOOLEAN /\ cq[1] \in Cqe
  BY DEF TypeOK
<1>2. CASE cq[1].buffer
  <2>1. First \in returned .. received - 1 /\ First = returned + Len(buf_vec)
    <3>1. First = returned + Len(buf_vec)
      BY <1>1 DEF First
    <3>2. Buffers >= 1
      <4>1. CASE armed
        BY <1>1, <4>1 DEF Buffers
      <4>2. CASE ~armed
        <5>1. Len(cq) # 1
          BY <1>2, <4>2 DEF QueueInv
        <5> QED BY <1>1, <4>2, <5>1 DEF Buffers
      <4> QED BY <4>1, <4>2
    <3>3. received = First + Buffers /\ Buffers \in Int
      BY <1>1 DEF QueueInv, Buffers
    <3> QED BY <1>1, <3>1, <3>2, <3>3
  <2>2. cq[1].bid = SlotIndex(First) /\ cq[1].res = mem[SlotIndex(First)].len
    <3>1. /\ cq[1].bid = SlotIndex(First + 1 - 1)
          /\ cq[1].res = mem[cq[1].bid].len
      BY <1>1, <1>2 DEF QueueInv
    <3>2. First + 1 - 1 = First
      BY <1>1, <2>1
    <3> QED BY <3>1, <3>2
  <2>3. SlotIndex(First) \in Slots
    BY <1>1, <2>1, SlotType
  <2>4. mem[SlotIndex(First)].len \in 1 .. BUF_SIZE
    <3>1. mem[SlotIndex(First)].len \in 0 .. BUF_SIZE
      BY <2>3 DEF TypeOK
    <3>2. mem[SlotIndex(First)].len >= 1
      BY <2>1 DEF ContentInv
    <3> QED BY <3>1, <3>2, Sizes
  <2> QED BY <1>2, <2>1, <2>2, <2>3, <2>4
<1>3. CASE ~cq[1].buffer
  <2>1. 1 = Len(cq) /\ ~armed
    BY <1>1, <1>3 DEF QueueInv
  <2> QED BY <1>1, <1>3, <2>1 DEF QueueInv
<1> QED BY <1>2, <1>3

\* The completion is built for the buffer the kernel filled, or the program
\* stops at an error completion; get_read_buf does not panic.
LEMMA FromRawEventIInv ==
  ASSUME IInv, FromRawEvent
  PROVE  IInv'
<1> USE DEF IInv
<1>1. /\ phase = "reap" /\ cq # <<>>
      /\ panic' = RawEventFailure(cq[1])
      /\ UNCHANGED <<br, khead, mem, armed, got, received, cq, buf_vec, given, last, returned>>
  BY DEF FromRawEvent, kernelVars, historyVars
<1>2. 1 \in 1 .. Len(cq) /\ cq[1] \in Cqe
  BY <1>1 DEF TypeOK
<1>3. RingInv' /\ ReadersInv' /\ ContentInv'
  BY <1>1, DataUnchanged
<1>4. br.bufs \in [Slots -> Slot] /\ mem \in [Slots -> [start : Nat, len : 0 .. BUF_SIZE]]
  BY DEF TypeOK, Ring
<1>5. CASE cq[1].buffer
  <2> DEFINE b == SlotIndex(First)
  <2>1. b \in Slots /\ cq[1].bid = b /\ cq[1].res = mem[b].len /\ cq[1].res \in 1 .. BUF_SIZE
    BY <1>1, <1>5, HeadOfCq
  <2>2. br.bufs[b] = [addr |-> b, len |-> BUF_SIZE, bid |-> b]
    BY <2>1 DEF RingInv, SlotIdentity
  <2> HIDE DEF b
  <2>3. RawEventFailure(cq[1]) = "none"
    BY <1>5, <2>1, <2>2, Sizes DEF RawEventFailure, get_read_buf_panics
  <2>4. phase' = "completed" /\ completion' = [res |-> cq[1].res, kernel_buf |-> BufferAt(First)]
    <3>1. get_read_buf(br, b, cq[1].res) = BufferAt(First)
      BY <2>1, <2>2 DEF get_read_buf, BufferAt, b
    <3> QED BY <1>1, <1>5, <2>1, <2>3, <3>1 DEF FromRawEvent
  <2>5. BufferAt(First) \in KernelBuffer
    BY <2>1, Sizes DEF BufferAt, KernelBuffer, b
  <2>6. TypeOK'
    BY <1>1, <2>1, <2>3, <2>4, <2>5, Sizes DEF TypeOK, Phases
  <2>7. First' = First /\ Buffers' = Buffers
    BY <1>1, <2>4 DEF First, Buffers
  <2>8. QueueInv'
    BY <1>1, <2>4, <2>7 DEF QueueInv
  <2>9. CompletionInv'
    BY <1>1, <1>5, <2>4, <2>7 DEF CompletionInv, BufferAt
  <2> QED BY <1>1, <1>3, <2>3, <2>6, <2>8, <2>9 DEF NoInternalPanic
<1>6. CASE ~cq[1].buffer /\ cq[1].res < 0
  <2>1. panic' = "cqe error"
    BY <1>1, <1>6 DEF RawEventFailure
  <2>2. UNCHANGED <<phase, completion>>
    BY <2>1 DEF FromRawEvent
  <2>3. First' = First /\ Buffers' = Buffers
    BY <1>1, <2>2 DEF First, Buffers
  <2>4. TypeOK' /\ NoInternalPanic'
    BY <1>1, <2>1, <2>2 DEF TypeOK, Panics, NoInternalPanic
  <2>5. QueueInv'
    BY <1>1, <2>2, <2>3 DEF QueueInv
  <2>6. CompletionInv'
    BY <1>1, <2>2, <2>3 DEF CompletionInv, BufferAt
  <2> QED BY <1>3, <2>4, <2>5, <2>6
<1>7. CASE ~cq[1].buffer /\ ~(cq[1].res < 0)
  <2>1. cq[1].res = 0
    <3>1. cq[1].res \in EndResults
      BY <1>1, <1>7, HeadOfCq
    <3> QED BY <1>7, <3>1 DEF EndResults, EOF, ECONNRESET, ENOBUFS
  <2>2. panic' = "none"
    BY <1>1, <1>7 DEF RawEventFailure
  <2>3. phase' = "completed" /\ completion' = [res |-> 0, kernel_buf |-> NoBuffer]
    BY <1>1, <1>7, <2>1, <2>2 DEF FromRawEvent
  <2>4. First' = First /\ Buffers' = Buffers
    BY <1>1, <2>3 DEF First, Buffers
  <2>5. TypeOK' /\ NoInternalPanic'
    <3>1. completion' \in [res : 0 .. BUF_SIZE, kernel_buf : KernelBuffer \cup {NoBuffer}]
      BY <2>3, Sizes
    <3>2. phase' \in Phases
      BY <2>3 DEF Phases
    <3> QED BY <1>1, <2>2, <3>1, <3>2 DEF TypeOK, NoInternalPanic
  <2>6. QueueInv'
    BY <1>1, <2>3, <2>4 DEF QueueInv
  <2>7. CompletionInv'
    BY <1>1, <1>7, <2>1, <2>3 DEF CompletionInv
  <2> QED BY <1>3, <2>5, <2>6, <2>7
<1> QED BY <1>5, <1>6, <1>7

\* The buffer moves to the stream's queue, or the program stops at the end of
\* the stream.
LEMMA OnCompletionIInv ==
  ASSUME IInv, OnCompletion
  PROVE  IInv'
<1> USE DEF IInv
<1>1. /\ phase = "completed" /\ cq # <<>>
      /\ panic' = CompletionFailure
      /\ UNCHANGED <<br, khead, mem, armed, got, received, cq, given, last, returned>>
  BY DEF OnCompletion, kernelVars, historyVars, QueueInv
<1>2. /\ received \in Nat /\ returned \in Nat /\ Len(buf_vec) \in Nat /\ Len(cq) \in Nat
      /\ armed \in BOOLEAN
  BY DEF TypeOK
<1>3. CASE cq[1].buffer
  <2> DEFINE b == SlotIndex(First)
             reader == [buf |-> BufferAt(First), claimed |-> 0]
  <2>1. /\ First \in returned .. received - 1 /\ First = returned + Len(buf_vec)
        /\ b \in Slots /\ mem[b].len \in 1 .. BUF_SIZE /\ cq[1].res = mem[b].len
    BY <1>1, <1>3, HeadOfCq
  <2>2. completion = [res |-> cq[1].res, kernel_buf |-> BufferAt(First)]
    BY <1>1, <1>3 DEF CompletionInv
  <2>3. BufferAt(First) \in KernelBuffer /\ BufferAt(First) # NoBuffer
    <3>1. BufferAt(First) \in KernelBuffer
      BY <2>1, Sizes DEF BufferAt, KernelBuffer
    <3>2. BufferAt(First).bid # NoBuffer.bid
      BY <2>1 DEF BufferAt, NoBuffer, Slots
    <3> QED BY <3>1, <3>2
  <2>4. CompletionFailure = "none"
    BY <2>1, <2>2, <2>3, Sizes DEF CompletionFailure
  <2>5. /\ buf_vec' = Append(buf_vec, reader)
        /\ completion' = NoCompletion /\ phase' = "read" /\ panic' = "none"
    BY <1>1, <2>2, <2>4 DEF OnCompletion
  <2>6. reader \in Reader
    BY <2>3, Sizes DEF Reader
  <2> HIDE DEF reader
  <2>7. /\ Len(buf_vec') = Len(buf_vec) + 1
        /\ buf_vec'[Len(buf_vec) + 1] = reader
        /\ \A i \in 1 .. Len(buf_vec) : buf_vec'[i] = buf_vec[i]
    BY <1>2, <2>5, <2>6 DEF TypeOK
  <2>8. First' = First /\ Buffers' = Buffers
    BY <1>1, <1>2, <2>1, <2>5, <2>7 DEF First, Buffers
  <2>9. TypeOK'
    <3>1. buf_vec' \in Seq(Reader)
      BY <2>5, <2>6 DEF TypeOK
    <3>2. completion' \in [res : 0 .. BUF_SIZE, kernel_buf : KernelBuffer \cup {NoBuffer}]
      BY <2>5, Sizes DEF NoCompletion
    <3> QED BY <1>1, <2>5, <3>1, <3>2 DEF TypeOK, Phases
  <2>10. RingInv'
    <3>1. SlotIdentity'
      BY <1>1 DEF RingInv, SlotIdentity
    <3>2. returned' + Len(buf_vec') <= received'
      BY <1>1, <1>2, <2>1, <2>7
    <3> QED BY <1>1, <3>1, <3>2 DEF RingInv
  <2>11. QueueInv'
    BY <1>1, <1>3, <2>5, <2>8 DEF QueueInv
  <2>12. CompletionInv'
    BY <2>5 DEF CompletionInv
  <2>13. ReadersInv'
    <3> SUFFICES ASSUME NEW i \in 1 .. Len(buf_vec) + 1
                 PROVE  /\ buf_vec'[i].buf = BufferAt(returned + i - 1)
                        /\ buf_vec'[i].claimed < buf_vec'[i].buf.data_len
                        /\ i > 1 => buf_vec'[i].claimed = 0
      BY <1>1, <2>7 DEF ReadersInv, BufferAt
    <3>1. CASE i = Len(buf_vec) + 1
      <4>1. returned + i - 1 = First
        BY <1>2, <2>1, <3>1
      <4>2. buf_vec'[i] = reader
        BY <2>7, <3>1
      <4>3. BufferAt(First).data_len = mem[b].len
        BY DEF BufferAt
      <4> QED BY <2>1, <4>1, <4>2, <4>3, Sizes DEF reader
    <3>2. CASE i \in 1 .. Len(buf_vec)
      BY <2>7, <3>2 DEF ReadersInv
    <3> QED BY <1>2, <3>1, <3>2
  <2>14. ContentInv'
    <3>1. CASE buf_vec = <<>>
      <4>1. Len(buf_vec) = 0 /\ buf_vec' # <<>> /\ buf_vec'[1].claimed = 0
        BY <2>7, <3>1 DEF reader
      <4> QED BY <1>1, <3>1, <4>1 DEF ContentInv
    <3>2. CASE buf_vec # <<>>
      <4>1. buf_vec' # <<>> /\ buf_vec'[1] = buf_vec[1]
        BY <1>2, <2>7, <3>2 DEF TypeOK
      <4> QED BY <1>1, <3>2, <4>1 DEF ContentInv
    <3> QED BY <3>1, <3>2
  <2> QED BY <2>5, <2>9, <2>10, <2>11, <2>12, <2>13, <2>14 DEF NoInternalPanic
<1>4. CASE ~cq[1].buffer
  <2>1. completion = [res |-> cq[1].res, kernel_buf |-> NoBuffer]
    BY <1>1, <1>4 DEF CompletionInv
  <2>2. completion.res = 0
    <3>1. completion.res \in 0 .. BUF_SIZE /\ completion.res = cq[1].res
      BY <2>1 DEF TypeOK
    <3>2. cq[1].res \in EndResults
      BY <1>1, <1>4, HeadOfCq
    <3> QED BY <3>1, <3>2, Sizes DEF EndResults, EOF, ECONNRESET, ENOBUFS
  <2>3. panic' = "res 0"
    BY <1>1, <2>2 DEF CompletionFailure
  <2>4. UNCHANGED <<phase, completion, buf_vec>>
    BY <2>3 DEF OnCompletion
  <2>5. RingInv' /\ ReadersInv' /\ ContentInv'
    BY <1>1, <2>4, DataUnchanged
  <2>6. First' = First /\ Buffers' = Buffers
    BY <1>1, <2>4 DEF First, Buffers
  <2>7. TypeOK' /\ NoInternalPanic'
    BY <1>1, <2>3, <2>4 DEF TypeOK, Panics, NoInternalPanic
  <2>8. QueueInv' /\ CompletionInv'
    BY <1>1, <2>4, <2>6 DEF QueueInv, CompletionInv, BufferAt
  <2> QED BY <2>5, <2>7, <2>8
<1> QED BY <1>3, <1>4

\* Dropping the front buffer puts slot returned back as it was.
LEMMA DropKeepsSlots ==
  ASSUME IInv, buf_vec # <<>>
  PROVE  buf_ring_add_advance(br, buf_vec[1].buf) =
           [bufs |-> br.bufs, tail |-> (returned + 1 + RING_POOL_SIZE) % TAIL_MOD]
<1> USE DEF IInv
<1> DEFINE b == SlotIndex(returned)
<1>1. returned \in Nat /\ returned + RING_POOL_SIZE \in Nat /\ 1 \in 1 .. Len(buf_vec)
  BY Sizes DEF TypeOK
<1>2. buf_vec[1].buf = BufferAt(returned)
  <2>1. \A i \in 1 .. Len(buf_vec) : buf_vec[i].buf = BufferAt(returned + i - 1)
    BY DEF ReadersInv
  <2>2. buf_vec[1].buf = BufferAt(returned + 1 - 1)
    BY <1>1, <2>1
  <2>3. returned + 1 - 1 = returned
    BY <1>1
  <2> QED BY <2>2, <2>3
<1>3. br.tail \in Nat /\ SlotIndex(br.tail) = b
  <2>1. br.tail \in Nat
    BY DEF TypeOK, Ring, Tails
  <2>2. SlotIndex(br.tail) = SlotIndex(returned + RING_POOL_SIZE)
    BY <1>1, SlotWrapped DEF RingInv
  <2> QED BY <1>1, <2>1, <2>2, SlotLap
<1>4. b \in Slots /\ br.bufs[b] = [addr |-> b, len |-> BUF_SIZE, bid |-> b]
  BY <1>1, SlotType DEF RingInv, SlotIdentity
<1>5. br = [bufs |-> br.bufs, tail |-> br.tail] /\ br.bufs \in [Slots -> Slot]
  BY DEF TypeOK, Ring
<1> HIDE DEF b
<1>6. io_uring_buf_ring_add(br, BufferAt(returned).addr, BufferAt(returned).buf_len,
                            BufferAt(returned).bid, 0) = br
  <2>1. /\ BufferAt(returned).addr = b /\ BufferAt(returned).buf_len = BUF_SIZE
        /\ BufferAt(returned).bid = b
    BY DEF BufferAt, b
  <2>2. SlotIndex(br.tail + 0) = b
    BY <1>3
  <2>3. [br.bufs EXCEPT ![b] = [addr |-> b, len |-> BUF_SIZE, bid |-> b]] = br.bufs
    BY <1>4, <1>5
  <2> QED BY <1>4, <1>5, <2>1, <2>2, <2>3 DEF io_uring_buf_ring_add
<1>7. (br.tail + 1) % TAIL_MOD = (returned + 1 + RING_POOL_SIZE) % TAIL_MOD
  <2>1. (((returned + RING_POOL_SIZE) % TAIL_MOD) + 1) % TAIL_MOD
          = (returned + RING_POOL_SIZE + 1) % TAIL_MOD
    BY <1>1, TailStep
  <2>2. returned + RING_POOL_SIZE + 1 = returned + 1 + RING_POOL_SIZE
    BY <1>1, Sizes
  <2> QED BY <2>1, <2>2 DEF RingInv
<1> QED BY <1>2, <1>5, <1>6, <1>7 DEF buf_ring_add_advance, io_uring_buf_ring_advance

\* The reader at the front of the queue, and what taking k bytes of it does.
LEMMA ReadStep ==
  ASSUME IInv, NEW k \in 1 .. READ_LEN, Read(k)
  PROVE  LET v == buf_vec[1]
             bytes == Min2(k, Remaining(v))
             held == mem[SlotIndex(returned)]
         IN /\ phase \in {"read", "sent"} /\ buf_vec # <<>> /\ returned < received
            /\ v \in Reader /\ v.buf = BufferAt(returned) /\ v.buf.data_len = held.len
            /\ held \in [start : Nat, len : 0 .. BUF_SIZE]
            /\ given = held.start + v.claimed
            /\ bytes \in 1 .. BUF_SIZE /\ v.claimed + bytes <= held.len
            /\ panic' = "none"
            /\ last' = [first |-> given, len |-> bytes]
            /\ given' = given + bytes
            /\ IF v.claimed + bytes = held.len
               THEN /\ buf_vec' = Tail(buf_vec)
                    /\ br' = buf_ring_add_advance(br, v.buf)
                    /\ returned' = returned + 1
               ELSE /\ buf_vec' = [buf_vec EXCEPT ![1].claimed = @ + bytes]
                    /\ UNCHANGED <<br, returned>>
            /\ UNCHANGED <<khead, mem, armed, got, received, cq, phase, completion>>
<1> USE DEF IInv
<1> DEFINE v == buf_vec[1]
           bytes == Min2(k, Remaining(v))
           held == mem[SlotIndex(returned)]
<1>1. /\ phase \in {"read", "sent"} /\ buf_vec # <<>>
      /\ 1 \in 1 .. Len(buf_vec) /\ v \in Reader
      /\ returned \in Nat /\ received \in Nat /\ Len(buf_vec) \in Nat
  BY DEF Read, TypeOK
<1>2. returned < received
  BY <1>1 DEF RingInv
<1>3. v.buf = BufferAt(returned) /\ v.claimed < v.buf.data_len
  <2>1. \A i \in 1 .. Len(buf_vec) :
           buf_vec[i].buf = BufferAt(returned + i - 1) /\ buf_vec[i].claimed < buf_vec[i].buf.data_len
    BY DEF ReadersInv
  <2>2. v.buf = BufferAt(returned + 1 - 1) /\ v.claimed < v.buf.data_len
    BY <1>1, <2>1
  <2>3. returned + 1 - 1 = returned
    BY <1>1
  <2> QED BY <2>2, <2>3
<1>4. held \in [start : Nat, len : 0 .. BUF_SIZE]
  BY <1>1, SlotType DEF TypeOK
<1>5. v.buf.data_len = held.len /\ v.buf.addr = SlotIndex(returned) /\ v.claimed \in Nat
  BY <1>1, <1>3, Sizes DEF BufferAt, Reader
<1>6. given = held.start + v.claimed
  BY <1>1, <1>2 DEF ContentInv
<1>7. Remaining(v) = held.len - v.claimed /\ Remaining(v) \in 1 .. BUF_SIZE
  BY <1>3, <1>4, <1>5, Sizes DEF Remaining
<1>8. bytes \in 1 .. BUF_SIZE /\ bytes <= Remaining(v) /\ k \in Nat
  BY <1>7, Sizes, ReadAssumption DEF Min2
<1>9. v.claimed + bytes <= held.len /\ (bytes = Remaining(v) <=> v.claimed + bytes = held.len)
  BY <1>4, <1>5, <1>7, <1>8
<1>10. ReadFailure(v, bytes) = "none"
  BY <1>4, <1>5, <1>7, <1>8, <1>9 DEF ReadFailure
<1> HIDE DEF bytes, held
<1>11. /\ panic' = "none"
       /\ last' = [first |-> held.start + v.claimed, len |-> bytes]
       /\ given' = given + bytes
       /\ IF bytes = Remaining(v)
          THEN /\ buf_vec' = Tail(buf_vec)
               /\ br' = buf_ring_add_advance(br, v.buf)
               /\ returned' = returned + 1
          ELSE /\ buf_vec' = [buf_vec EXCEPT ![1].claimed = @ + bytes]
               /\ UNCHANGED <<br, returned>>
       /\ UNCHANGED <<khead, mem, armed, got, received, cq, phase, completion>>
  BY <1>5, <1>10 DEF Read, kernelVars, historyVars, bytes, held
<1> QED BY <1>1, <1>2, <1>3, <1>4, <1>5, <1>6, <1>8, <1>9, <1>11 DEF bytes, held

LEMMA ReadIInv ==
  ASSUME IInv, NEW k \in 1 .. READ_LEN, Read(k)
  PROVE  IInv'
<1> USE DEF IInv
<1> DEFINE v == buf_vec[1]
           bytes == Min2(k, Remaining(v))
           held == mem[SlotIndex(returned)]
<1>1. /\ phase \in {"read", "sent"} /\ buf_vec # <<>> /\ returned < received
      /\ v \in Reader /\ v.buf = BufferAt(returned) /\ v.buf.data_len = held.len
      /\ held \in [start : Nat, len : 0 .. BUF_SIZE]
      /\ given = held.start + v.claimed
      /\ bytes \in 1 .. BUF_SIZE /\ v.claimed + bytes <= held.len
      /\ panic' = "none" /\ last' = [first |-> given, len |-> bytes]
      /\ given' = given + bytes
      /\ UNCHANGED <<khead, mem, armed, got, received, cq, phase, completion>>
  BY ReadStep
<1>2. IF v.claimed + bytes = held.len
      THEN /\ buf_vec' = Tail(buf_vec)
           /\ br' = buf_ring_add_advance(br, v.buf)
           /\ returned' = returned + 1
      ELSE /\ buf_vec' = [buf_vec EXCEPT ![1].claimed = @ + bytes]
           /\ UNCHANGED <<br, returned>>
  BY ReadStep
<1> HIDE DEF bytes, v, held
<1>3. /\ returned \in Nat /\ received \in Nat /\ got \in Nat /\ given \in Nat
      /\ Len(buf_vec) \in Nat /\ 1 \in 1 .. Len(buf_vec)
      /\ v.claimed \in 0 .. BUF_SIZE - 1 /\ buf_vec \in Seq(Reader)
      /\ held.start \in Nat /\ held.len \in 0 .. BUF_SIZE
  <2>1. /\ returned \in Nat /\ received \in Nat /\ got \in Nat /\ given \in Nat
        /\ buf_vec \in Seq(Reader)
    BY DEF TypeOK
  <2>2. Len(buf_vec) \in Nat /\ 1 \in 1 .. Len(buf_vec)
    BY <1>1, <2>1
  <2>3. v.claimed \in 0 .. BUF_SIZE - 1
    BY <1>1 DEF Reader
  <2>4. held.start \in Nat /\ held.len \in 0 .. BUF_SIZE
    BY <1>1
  <2> QED BY <2>1, <2>2, <2>3, <2>4
<1>4. last' \in [first : Nat, len : 0 .. BUF_SIZE] /\ given' \in Nat
  <2>1. bytes \in 0 .. BUF_SIZE /\ bytes \in Nat
    BY <1>1, Sizes
  <2> QED BY <1>1, <1>3, <2>1
<1>5. NoInternalPanic'
  BY <1>1 DEF NoInternalPanic
<1>6. CompletionInv'
  BY <1>1 DEF CompletionInv
<1>7. CASE v.claimed + bytes = held.len
  <2>1. /\ buf_vec' = Tail(buf_vec) /\ returned' = returned + 1
        /\ br' = [bufs |-> br.bufs, tail |-> (returned + 1 + RING_POOL_SIZE) % TAIL_MOD]
    BY <1>1, <1>2, <1>7, DropKeepsSlots DEF v
  <2>2. /\ Len(buf_vec') = Len(buf_vec) - 1
        /\ \A i \in 1 .. Len(buf_vec') : buf_vec'[i] = buf_vec[i + 1]
        /\ buf_vec' \in Seq(Reader)
    BY <1>1, <1>3, <2>1
  <2>3. TypeOK'
    <3>1. br' \in Ring
      <4>1. (returned + 1 + RING_POOL_SIZE) % TAIL_MOD \in Tails
        <5> DEFINE c == returned + 1 + RING_POOL_SIZE
        <5>1. c \in Nat
          BY <1>3, Sizes
        <5> HIDE DEF c
        <5>2. c % TAIL_MOD \in Tails
          BY <5>1, TailType
        <5> QED BY <5>2 DEF c
      <4>2. br.bufs \in [Slots -> Slot]
        BY DEF TypeOK, Ring
      <4> QED BY <2>1, <4>1, <4>2 DEF Ring
    <3>2. returned' \in Nat
      BY <1>3, <2>1
    <3>3. UNCHANGED <<khead, mem, armed, got, received, cq, phase, completion>> /\ panic' = "none"
      BY <1>1
    <3> QED BY <1>4, <2>2, <3>1, <3>2, <3>3 DEF TypeOK
  <2>4. RingInv'
    <3>1. SlotIdentity'
      BY <2>1 DEF RingInv, SlotIdentity
    <3>2. br'.tail = (returned' + RING_POOL_SIZE) % TAIL_MOD
      BY <2>1
    <3>3. returned' + Len(buf_vec') <= received' /\ received' <= returned' + RING_POOL_SIZE
      <4>1. returned + Len(buf_vec) <= received /\ received <= returned + RING_POOL_SIZE
        BY DEF RingInv
      <4>2. /\ received' = received /\ returned' = returned + 1
            /\ Len(buf_vec') = Len(buf_vec) - 1
        BY <1>1, <2>1, <2>2
      <4>3. /\ returned \in Nat /\ received \in Nat /\ Len(buf_vec) \in Nat
            /\ RING_POOL_SIZE \in Nat
        BY <1>3, Sizes
      <4> HIDE DEF IInv
      <4> QED BY <4>1, <4>2, <4>3
    <3> QED BY <1>1, <3>1, <3>2, <3>3 DEF RingInv
  <2>5. First' = First /\ Buffers' = Buffers
    BY <1>1, <1>3, <2>1, <2>2 DEF First, Buffers
  <2>6. QueueInv'
    BY <1>1, <2>5 DEF QueueInv
  <2>7. ReadersInv'
    <3> SUFFICES ASSUME NEW i \in 1 .. Len(buf_vec')
                 PROVE  /\ buf_vec'[i].buf = BufferAt(returned' + i - 1)
                        /\ buf_vec'[i].claimed < buf_vec'[i].buf.data_len
                        /\ i > 1 => buf_vec'[i].claimed = 0
      BY <1>1, <2>1 DEF ReadersInv, BufferAt
    <3>1. i + 1 \in 1 .. Len(buf_vec) /\ i + 1 > 1 /\ buf_vec'[i] = buf_vec[i + 1]
      BY <1>3, <2>2
    <3>2. returned' + i - 1 = returned + (i + 1) - 1
      BY <1>3, <2>1, <2>2
    <3> QED BY <3>1, <3>2 DEF ReadersInv
  <2>8. ContentInv'
    <3>1. given' = held.start + held.len
      BY <1>1, <1>3, <1>7
    <3>2. returned \in returned .. received - 1
      BY <1>1, <1>3
    <3>3. held.start + held.len =
            IF returned + 1 < received THEN mem[SlotIndex(returned + 1)].start ELSE got
      BY <3>2 DEF ContentInv, held
    <3>4. IF buf_vec' = <<>> THEN TRUE ELSE buf_vec'[1].claimed = 0
      <4>1. CASE buf_vec' # <<>>
        <5>1. 1 \in 1 .. Len(buf_vec')
          BY <1>3, <2>2, <4>1
        <5>2. 2 \in 1 .. Len(buf_vec) /\ buf_vec'[1] = buf_vec[2]
          BY <1>3, <2>2, <5>1
        <5> QED BY <4>1, <5>2 DEF ReadersInv
      <4> QED BY <4>1
    <3>5. given' = IF returned' = received' THEN got'
                   ELSE mem'[SlotIndex(returned')].start
                          + (IF buf_vec' = <<>> THEN 0 ELSE buf_vec'[1].claimed)
      <4>1. CASE returned + 1 = received
        BY <1>1, <1>3, <2>1, <3>1, <3>3, <4>1
      <4>2. CASE returned + 1 < received
        <5>1. mem[SlotIndex(returned + 1)].start \in Nat
          BY <1>3, SlotType DEF TypeOK
        <5>2. given' = mem[SlotIndex(returned + 1)].start
          BY <3>1, <3>3, <4>2
        <5>3. returned' # received' /\ mem' = mem /\ returned' = returned + 1
          BY <1>1, <1>3, <2>1, <4>2
        <5>4. CASE buf_vec' = <<>>
          BY <5>1, <5>2, <5>3, <5>4
        <5>5. CASE buf_vec' # <<>>
          BY <3>4, <5>1, <5>2, <5>3, <5>5
        <5> QED BY <5>4, <5>5
      <4> QED BY <1>1, <1>3, <4>1, <4>2
    <3>6. \A c \in returned' .. received' - 1 : c \in returned .. received - 1
      BY <1>1, <1>3, <2>1
    <3> QED BY <1>1, <3>5, <3>6 DEF ContentInv
  <2> QED BY <1>5, <1>6, <2>3, <2>4, <2>6, <2>7, <2>8
<1>8. CASE v.claimed + bytes # held.len
  <2>1. buf_vec' = [buf_vec EXCEPT ![1].claimed = @ + bytes] /\ br' = br /\ returned' = returned
    BY <1>2, <1>8
  <2>2. v.claimed + bytes < held.len /\ v.claimed + bytes \in 0 .. BUF_SIZE - 1
    <3>1. bytes \in 1 .. BUF_SIZE /\ v.claimed + bytes <= held.len
      BY <1>1
    <3> QED BY <1>3, <1>8, <3>1, Sizes
  <2>3. /\ Len(buf_vec') = Len(buf_vec)
        /\ buf_vec'[1] = [v EXCEPT !.claimed = @ + bytes]
        /\ \A i \in 1 .. Len(buf_vec) : i > 1 => buf_vec'[i] = buf_vec[i]
    BY <1>3, <2>1 DEF v
  <2>4. buf_vec'[1] = [buf |-> v.buf, claimed |-> v.claimed + bytes] /\ buf_vec'[1] \in Reader
    BY <1>1, <2>2, <2>3 DEF Reader
  <2>5. buf_vec' \in Seq(Reader)
    <3>1. buf_vec' = [buf_vec EXCEPT ![1] = [v EXCEPT !.claimed = @ + bytes]]
      BY <2>1 DEF v
    <3>2. [v EXCEPT !.claimed = @ + bytes] \in Reader
      BY <2>3, <2>4
    <3> QED BY <1>3, <3>1, <3>2
  <2>6. TypeOK'
    BY <1>1, <1>4, <2>1, <2>5 DEF TypeOK
  <2>7. RingInv'
    <3>1. SlotIdentity'
      BY <2>1 DEF RingInv, SlotIdentity
    <3> QED BY <1>1, <2>1, <2>3, <3>1 DEF RingInv
  <2>8. First' = First /\ Buffers' = Buffers
    BY <1>1, <2>1, <2>3 DEF First, Buffers
  <2>9. QueueInv'
    BY <1>1, <2>8 DEF QueueInv
  <2>10. ReadersInv'
    <3> SUFFICES ASSUME NEW i \in 1 .. Len(buf_vec)
                 PROVE  /\ buf_vec'[i].buf = BufferAt(returned + i - 1)
                        /\ buf_vec'[i].claimed < buf_vec'[i].buf.data_len
                        /\ i > 1 => buf_vec'[i].claimed = 0
      BY <1>1, <2>1, <2>3 DEF ReadersInv, BufferAt
    <3>1. CASE i = 1
      <4>1. returned + i - 1 = returned
        BY <1>3, <3>1
      <4> QED BY <1>1, <2>2, <2>4, <3>1, <4>1
    <3>2. CASE i > 1
      BY <2>3, <3>2 DEF ReadersInv
    <3> QED BY <1>3, <3>1, <3>2
  <2>11. ContentInv'
    <3>1. buf_vec' # <<>> /\ buf_vec'[1].claimed = v.claimed + bytes
      BY <1>3, <2>3, <2>4
    <3>2. given' = mem'[SlotIndex(returned')].start + buf_vec'[1].claimed
      BY <1>1, <1>3, <2>1, <3>1 DEF held
    <3> QED BY <1>1, <1>3, <2>1, <3>1, <3>2 DEF ContentInv
  <2> QED BY <1>5, <1>6, <2>6, <2>7, <2>9, <2>10, <2>11
<1> QED BY <1>7, <1>8

\* A step that only changes phase, between two in which no receive's
\* completion is in hand.
LEMMA PhaseIInv ==
  ASSUME IInv, phase \in {"reap", "sent"}, phase' \in {"reap", "sent"},
         UNCHANGED <<br, khead, mem, got, given, received, returned, buf_vec, armed, cq,
                     completion, panic, last>>
  PROVE  IInv'
<1>1. RingInv' /\ ReadersInv' /\ ContentInv'
  BY DataUnchanged
<1>2. First' = First /\ Buffers' = Buffers
  BY DEF First, Buffers
<1>3. QueueInv'
  BY <1>2 DEF IInv, QueueInv
<1>4. CompletionInv'
  BY DEF IInv, CompletionInv
<1>5. TypeOK' /\ NoInternalPanic'
  BY DEF IInv, TypeOK, NoInternalPanic, Phases
<1> QED BY <1>1, <1>3, <1>4, <1>5 DEF IInv

LEMMA OnSendIInv ==
  ASSUME IInv, OnSend
  PROVE  IInv'
BY PhaseIInv DEF OnSend, kernelVars, historyVars

\* A receive's completion is released: its buffer is queued or given back.
LEMMA ReleaseRecvIInv ==
  ASSUME IInv, CqAdvance, phase = "read"
  PROVE  IInv'
<1> USE DEF IInv
<1>1. /\ phase = "read" /\ phase' = "reap" /\ cq # <<>> /\ cq' = Tail(cq)
      /\ cq[1].buffer
      /\ UNCHANGED <<br, khead, mem, armed, got, received, completion, buf_vec, panic,
                     given, last, returned>>
  BY DEF CqAdvance, kernelVars, historyVars, QueueInv
<1>2. /\ Len(cq) \in Nat /\ 1 \in 1 .. Len(cq)
      /\ Len(cq') = Len(cq) - 1 /\ cq' \in Seq(Cqe)
      /\ \A j \in 1 .. Len(cq') : cq'[j] = cq[j + 1]
      /\ returned \in Nat /\ received \in Nat /\ Len(buf_vec) \in Nat /\ armed \in BOOLEAN
  BY <1>1 DEF TypeOK
<1>3. First' = First + 1 /\ Buffers' = Buffers - 1 /\ First \in Int /\ Buffers \in Int
  BY <1>1, <1>2 DEF First, Buffers
<1>4. TypeOK'
  BY <1>1, <1>2 DEF TypeOK, Phases
<1>5. RingInv' /\ ReadersInv' /\ ContentInv'
  BY <1>1, DataUnchanged
<1>6. QueueInv'
  <2>1. received' = First' + Buffers'
    <3>1. received = First + Buffers /\ received' = received
      BY <1>1 DEF QueueInv
    <3> QED BY <1>3, <3>1
  <2>2. ~armed => cq' # <<>> /\ cq'[Len(cq')] = cq[Len(cq)]
    <3> SUFFICES ASSUME ~armed PROVE cq' # <<>> /\ cq'[Len(cq')] = cq[Len(cq)]
      OBVIOUS
    <3>1. Len(cq) # 1
      BY <1>1 DEF QueueInv
    <3>2. Len(cq') \in 1 .. Len(cq') /\ Len(cq') + 1 = Len(cq)
      BY <1>2, <3>1
    <3> QED BY <1>2, <3>2
  <2>3. ASSUME NEW j \in 1 .. Len(cq')
        PROVE  IF cq'[j].buffer
               THEN /\ cq'[j].bid = SlotIndex(First' + j - 1)
                    /\ (phase' = "read" => j > 1) => cq'[j].res = mem'[cq'[j].bid].len
               ELSE j = Len(cq') /\ ~armed'
    <3>1. j + 1 \in 1 .. Len(cq) /\ j + 1 > 1 /\ cq'[j] = cq[j + 1]
      BY <1>2
    <3>2. First' + j - 1 = First + (j + 1) - 1
      BY <1>2, <1>3
    <3>3. j + 1 = Len(cq) => j = Len(cq')
      BY <1>2
    <3> QED BY <1>1, <3>1, <3>2, <3>3 DEF QueueInv
  <2> QED BY <1>1, <2>1, <2>2, <2>3 DEF QueueInv
<1>7. CompletionInv'
  BY <1>1 DEF CompletionInv
<1>8. NoInternalPanic'
  BY <1>1 DEF NoInternalPanic
<1> QED BY <1>4, <1>5, <1>6, <1>7, <1>8

LEMMA CqAdvanceIInv ==
  ASSUME IInv, CqAdvance
  PROVE  IInv'
<1>1. CASE phase = "read"
  BY <1>1, ReleaseRecvIInv
<1>2. CASE phase = "sent"
  <2>1. /\ phase' = "reap" /\ cq' = cq
        /\ UNCHANGED <<br, khead, mem, got, given, received, returned, buf_vec, armed,
                       completion, panic, last>>
    BY <1>2 DEF CqAdvance, kernelVars, historyVars
  <2> QED BY <1>2, <2>1, PhaseIInv
<1> QED BY <1>1, <1>2 DEF CqAdvance

LEMMA DecoderErrorIInv ==
  ASSUME IInv, DecoderError
  PROVE  IInv'
<1>1. /\ panic' = "bad frame"
      /\ UNCHANGED <<br, khead, mem, got, given, received, returned, buf_vec, armed, cq,
                     phase, completion, last>>
  BY DEF DecoderError, kernelVars, historyVars
<1>2. RingInv' /\ ReadersInv' /\ ContentInv'
  BY <1>1, DataUnchanged
<1>3. First' = First /\ Buffers' = Buffers
  BY <1>1 DEF First, Buffers
<1>4. QueueInv' /\ CompletionInv'
  BY <1>1, <1>3 DEF IInv, QueueInv, CompletionInv, BufferAt
<1>5. TypeOK' /\ NoInternalPanic'
  BY <1>1 DEF IInv, TypeOK, NoInternalPanic, Panics
<1> QED BY <1>2, <1>4, <1>5 DEF IInv

LEMMA StepIInv == IInv /\ [Next]_vars => IInv'
<1> SUFFICES ASSUME IInv, [Next]_vars PROVE IInv'
  OBVIOUS
<1>1. CASE \E n \in 1 .. BUF_SIZE : KernelRecv(n)
  BY <1>1, KernelRecvIInv
<1>2. CASE \E res \in EndResults : KernelEnd(res)
  BY <1>2, KernelEndIInv
<1>3. CASE FromRawEvent
  BY <1>3, FromRawEventIInv
<1>4. CASE OnCompletion
  BY <1>4, OnCompletionIInv
<1>5. CASE \E n \in 1 .. READ_LEN : Read(n)
  BY <1>5, ReadIInv
<1>6. CASE CqAdvance
  BY <1>6, CqAdvanceIInv
<1>7. CASE DecoderError
  BY <1>7, DecoderErrorIInv
<1>8. CASE OnSend
  BY <1>8, OnSendIInv
<1>9. CASE UNCHANGED vars
  <2>1. UNCHANGED <<br, khead, mem, got, given, received, returned, buf_vec, armed, cq,
                    phase, completion, panic, last>>
    BY <1>9 DEF vars, kernelVars, historyVars
  <2>2. RingInv' /\ ReadersInv' /\ ContentInv'
    BY <2>1, DataUnchanged
  <2>3. First' = First /\ Buffers' = Buffers
    BY <2>1 DEF First, Buffers
  <2>4. QueueInv' /\ CompletionInv'
    BY <2>1, <2>3 DEF IInv, QueueInv, CompletionInv, BufferAt
  <2>5. TypeOK' /\ NoInternalPanic'
    BY <2>1 DEF IInv, TypeOK, NoInternalPanic
  <2> QED BY <2>2, <2>4, <2>5 DEF IInv
<1> QED BY <1>1, <1>2, <1>3, <1>4, <1>5, <1>6, <1>7, <1>8, <1>9
  DEF Next, Kernel, Loop, Handler

THEOREM Inductive == Spec => []IInv
BY InitIInv, StepIInv, PTL DEF Spec

-----------------------------------------------------------------------------
(***************************************************************************)
(* What follows from it.                                                   *)
(***************************************************************************)

\* Type correctness: in particular the u16 head and tail stay in range and
\* every attached or queued buffer is a whole buffer of the pool.
THEOREM TypeCorrect == Spec => []TypeOK
<1>1. IInv => TypeOK
  BY DEF IInv
<1> QED BY <1>1, Inductive, PTL

\* No assertion about the ring, an attached buffer or the bytes left in it
\* ever fails (buf_ring.rs:111, cqe.rs:36, net.rs:90, read_buf.rs:78, 113).
THEOREM NoAssertionFails == Spec => []NoInternalPanic
<1>1. IInv => NoInternalPanic
  BY DEF IInv
<1> QED BY <1>1, Inductive, PTL

\* Slot b always describes buffer b, at full length, although buffers are
\* put back wherever the tail happens to be (buf_ring.rs:111).
THEOREM SlotsKeepIdentity == Spec => []SlotIdentity
<1>1. IInv => SlotIdentity
  BY DEF IInv, RingInv
<1> QED BY <1>1, Inductive, PTL

\* A stream's queue never outgrows the capacity it was created with, so
\* push never reallocates (read_buf.rs:138, net.rs:32).
THEOREM QueueFits == Spec => []NoReallocate
<1>1. IInv => NoReallocate
  <2> SUFFICES ASSUME IInv PROVE NoReallocate
    OBVIOUS
  <2>1. returned \in Nat /\ received \in Nat /\ Len(buf_vec) \in Nat
    BY DEF IInv, TypeOK
  <2>2. returned + Len(buf_vec) <= received /\ received <= returned + RING_POOL_SIZE
    BY DEF IInv, RingInv
  <2> QED BY <2>1, <2>2, Sizes DEF NoReallocate
<1> QED BY <1>1, Inductive, PTL

LEMMA ReadDelivers ==
  ASSUME IInv, NEW k \in 1 .. READ_LEN, Read(k)
  PROVE  Stream!Deliver
<1> DEFINE v == buf_vec[1]
           bytes == Min2(k, Remaining(v))
           held == mem[SlotIndex(returned)]
<1>1. /\ returned < received /\ v \in Reader
      /\ held \in [start : Nat, len : 0 .. BUF_SIZE]
      /\ given = held.start + v.claimed
      /\ bytes \in 1 .. BUF_SIZE /\ v.claimed + bytes <= held.len
      /\ last' = [first |-> given, len |-> bytes]
      /\ given' = given + bytes /\ got' = got
  BY ReadStep
<1>2. got \in Nat /\ given \in Nat /\ returned \in Nat /\ received \in Nat
  BY DEF IInv, TypeOK
<1>3. held.start + held.len <= got
  <2>1. returned \in returned .. received - 1
    BY <1>1, <1>2
  <2> QED BY <2>1 DEF IInv, ContentInv
<1> HIDE DEF v, bytes, held
<1>4. bytes \in Nat \ {0} /\ v.claimed \in Nat /\ held.start \in Nat /\ held.len \in Nat
  BY <1>1, Sizes DEF Reader
<1>5. given' \in Nat /\ given < given' /\ given' <= got /\ given' - given = bytes
  BY <1>1, <1>2, <1>3, <1>4
<1> QED BY <1>1, <1>5 DEF Stream!Deliver

LEMMA StepStreams ==
  ASSUME IInv, [Next]_vars
  PROVE  [Stream!Next]_(Stream!vars)
<1>1. CASE \E n \in 1 .. BUF_SIZE : KernelRecv(n)
  <2>1. PICK n \in 1 .. BUF_SIZE : KernelRecv(n)
    BY <1>1
  <2>2. got' = got + n /\ UNCHANGED <<given, last>> /\ n \in Nat \ {0} /\ got \in Nat
    BY <2>1, Sizes DEF KernelRecv, historyVars, IInv, TypeOK
  <2> QED BY <2>2 DEF Stream!Next, Stream!Arrive
<1>2. CASE \E k \in 1 .. READ_LEN : Read(k)
  BY <1>2, ReadDelivers DEF Stream!Next
<1>3. CASE UNCHANGED <<got, given, last>>
  BY <1>3 DEF Stream!vars
<1> QED BY <1>1, <1>2, <1>3 DEF Next, Kernel, Loop, Handler, OnSend, KernelEnd,
      FromRawEvent, OnCompletion, CqAdvance, DecoderError, kernelVars, historyVars, vars

\* The receive path implements the byte stream: the decoder is handed every
\* byte the kernel took in exactly once and in order, whatever way they were
\* cut into buffers and slices.
THEOREM ImplementsStream == Spec => StreamSpec
<1>1. Init => Stream!Init
  BY DEF Init, Stream!Init
<1>2. IInv /\ [Next]_vars => [Stream!Next]_(Stream!vars)
  BY StepStreams
<1> QED BY <1>1, <1>2, Inductive, PTL DEF Spec, StreamSpec, Stream!Spec

-----------------------------------------------------------------------------
(***************************************************************************)
(* Owners.  Every buffer of the pool has exactly one.  Each holder of a    *)
(* buffer stands for one of the RING_POOL_SIZE numbers from returned on,   *)
(* different holders for different numbers, every number has a holder, and *)
(* a buffer is the slot of exactly one of these numbers.                   *)
(***************************************************************************)

\* The number of the buffer that holder h of a buffer stands for
Number(h) ==
  CASE h[1] = "kernel"     -> received + h[2]
    [] h[1] = "cq"         -> First + h[2] - 1
    [] h[1] = "completion" -> First
    [] h[1] = "stream"     -> returned + h[2] - 1

LEMMA OfferedNumbers ==
  ASSUME IInv, NEW b \in Slots
  PROVE  Offered(b) = {k \in 0 .. returned + RING_POOL_SIZE - received - 1 :
                         SlotIndex(received + k) = b}
<1> USE DEF IInv
<1>1. received \in Nat /\ returned \in Nat /\ Len(buf_vec) \in Nat
  BY DEF TypeOK
<1>2. (br.tail - khead) % TAIL_MOD = returned + RING_POOL_SIZE - received
  <2> DEFINE d == returned + RING_POOL_SIZE - received
  <2>1. d \in 0 .. TAIL_MOD - 1 /\ received + d = returned + RING_POOL_SIZE
    BY <1>1, Sizes, Sizes DEF RingInv
  <2> HIDE DEF d
  <2>2. (((received + d) % TAIL_MOD) - (received % TAIL_MOD)) % TAIL_MOD = d
    BY <1>1, <2>1, Sizes, ModDistance
  <2> QED BY <2>1, <2>2 DEF d, RingInv
<1>3. ASSUME NEW k \in Nat
      PROVE  br.bufs[SlotIndex(khead + k)].bid = SlotIndex(received + k)
  <2> DEFINE c == received + k
             s == SlotIndex(c)
  <2>1. SlotIndex(khead + k) = s /\ s \in Slots
    <3>1. SlotIndex((received % TAIL_MOD) + k) = s
      BY <1>1, SlotOffset
    <3>2. c \in Nat
      BY <1>1
    <3> HIDE DEF c
    <3>3. s \in Slots
      BY <3>2, SlotType
    <3> QED BY <3>1, <3>3 DEF RingInv
  <2> HIDE DEF s
  <2>2. br.bufs[s] = [addr |-> s, len |-> BUF_SIZE, bid |-> s]
    BY <2>1 DEF RingInv, SlotIdentity
  <2> QED BY <2>1, <2>2 DEF s
<1>4. Offered(b) = {k \in 0 .. returned + RING_POOL_SIZE - received - 1 :
                      br.bufs[SlotIndex(khead + k)].bid = b}
  <2> DEFINE free == (br.tail - khead) % TAIL_MOD
  <2>1. Offered(b) = {k \in 0 .. free - 1 : br.bufs[SlotIndex(khead + k)].bid = b}
    BY DEF Offered
  <2> HIDE DEF free
  <2>2. free = returned + RING_POOL_SIZE - received
    BY <1>2 DEF free
  <2>3. 0 .. free - 1 = 0 .. returned + RING_POOL_SIZE - received - 1
    BY <1>1, <2>2, Sizes
  <2> QED BY <2>1, <2>3
<1>5. \A k \in 0 .. returned + RING_POOL_SIZE - received - 1 : k \in Nat
  BY <1>1, Sizes
<1> QED BY <1>3, <1>4, <1>5

LEMMA AnnouncedNumbers ==
  ASSUME IInv, NEW b \in Slots, NEW j \in 1 .. Len(cq)
  PROVE  /\ cq[j].buffer <=> First + j - 1 < received
         /\ cq[j].buffer => (cq[j].bid = b <=> SlotIndex(First + j - 1) = b)
         /\ First \in Int /\ First >= returned + Len(buf_vec) - 1
         /\ phase # "read" => First = returned + Len(buf_vec)
<1> USE DEF IInv
<1>1. /\ received \in Nat /\ returned \in Nat /\ Len(buf_vec) \in Nat /\ Len(cq) \in Nat
      /\ armed \in BOOLEAN
  BY DEF TypeOK
<1>2. /\ First \in Int /\ First >= returned + Len(buf_vec) - 1
      /\ phase # "read" => First = returned + Len(buf_vec)
  BY <1>1 DEF First
<1>3. received = First + Buffers
  BY DEF QueueInv
<1>4. CASE cq[j].buffer
  <2>1. j <= Buffers
    <3>1. ~armed => j # Len(cq)
      BY <1>4 DEF QueueInv
    <3> QED BY <1>1, <3>1 DEF Buffers
  <2>2. cq[j].bid = SlotIndex(First + j - 1)
    BY <1>4 DEF QueueInv
  <2>3. Buffers \in Int
    BY <1>1 DEF Buffers
  <2> QED BY <1>2, <1>3, <1>4, <2>1, <2>2, <2>3
<1>5. CASE ~cq[j].buffer
  <2>1. j = Len(cq) /\ ~armed
    BY <1>5 DEF QueueInv
  <2> QED BY <1>1, <1>2, <1>3, <1>5, <2>1 DEF Buffers
<1> QED BY <1>4, <1>5

\* The attached buffer is the first the stream has not queued.
LEMMA AttachedNumber ==
  ASSUME IInv, NEW b \in Slots
  PROVE  /\ \A k \in Attached(b) :
              /\ k = 0 /\ phase = "completed" /\ First = returned + Len(buf_vec)
              /\ First < received /\ SlotIndex(First) = b
         /\ phase = "completed" /\ First < received /\ SlotIndex(First) = b => 0 \in Attached(b)
<1> USE DEF IInv
<1>1. b # NoBuffer.bid
  BY DEF Slots, NoBuffer
<1>2. CASE phase # "completed"
  <2>1. completion.kernel_buf = NoBuffer
    BY <1>2 DEF CompletionInv, NoCompletion
  <2> QED BY <1>1, <1>2, <2>1 DEF Attached
<1>3. CASE phase = "completed"
  <2>1. cq # <<>> /\ 1 \in 1 .. Len(cq)
    BY <1>3 DEF QueueInv, TypeOK
  <2>2. /\ cq[1].buffer <=> First + 1 - 1 < received
        /\ First \in Int /\ First = returned + Len(buf_vec)
    BY <1>3, <2>1, AnnouncedNumbers
  <2>3. cq[1].buffer <=> First < received
    BY <2>2
  <2>4. completion.kernel_buf = IF cq[1].buffer THEN BufferAt(First) ELSE NoBuffer
    BY <1>3 DEF CompletionInv
  <2>5. BufferAt(First).bid = SlotIndex(First)
    BY DEF BufferAt
  <2> QED BY <1>1, <1>3, <2>2, <2>3, <2>4, <2>5 DEF Attached
<1> QED BY <1>2, <1>3

LEMMA QueuedNumbers ==
  ASSUME IInv, NEW b \in Slots
  PROVE  Queued(b) = {i \in 1 .. Len(buf_vec) : SlotIndex(returned + i - 1) = b}
<1>1. ASSUME NEW i \in 1 .. Len(buf_vec)
      PROVE  buf_vec[i].buf.bid = SlotIndex(returned + i - 1)
  <2>1. buf_vec[i].buf = BufferAt(returned + i - 1)
    BY DEF IInv, ReadersInv
  <2>2. BufferAt(returned + i - 1).bid = SlotIndex(returned + i - 1)
    BY DEF BufferAt
  <2> QED BY <2>1, <2>2
<1> QED BY <1>1 DEF Queued

\* Whatever the program may still read is the buffer of a number that it has
\* been given and has not given back.
LEMMA HeldNumber ==
  ASSUME IInv, NEW a \in Held
  PROVE  \E c \in returned .. received - 1 : a = SlotIndex(c)
<1> USE DEF IInv
<1>1. /\ received \in Nat /\ returned \in Nat /\ Len(buf_vec) \in Nat /\ Len(cq) \in Nat
      /\ returned + Len(buf_vec) <= received
  BY DEF TypeOK, RingInv
<1>2. CASE a \in Slots /\ Announced(a) # {}
  <2>1. PICK j \in 1 .. Len(cq) :
          (phase \in {"completed", "read"} => j > 1) /\ cq[j].buffer /\ cq[j].bid = a
    BY <1>2 DEF Announced
  <2>2. /\ First + j - 1 < received /\ SlotIndex(First + j - 1) = a
        /\ First \in Int /\ First >= returned + Len(buf_vec) - 1
        /\ phase # "read" => First = returned + Len(buf_vec)
    BY <1>2, <2>1, AnnouncedNumbers
  <2>3. First + j - 1 \in returned .. received - 1
    BY <1>1, <2>1, <2>2
  <2> QED BY <2>2, <2>3
<1>3. CASE completion.kernel_buf # NoBuffer /\ a = completion.kernel_buf.addr
  <2>1. phase = "completed"
    BY <1>3 DEF CompletionInv, NoCompletion
  <2>2. completion.kernel_buf = IF cq[1].buffer THEN BufferAt(First) ELSE NoBuffer
    BY <2>1 DEF CompletionInv
  <2>3. cq[1].buffer /\ a = SlotIndex(First)
    BY <1>3, <2>2 DEF BufferAt
  <2>4. 1 \in 1 .. Len(cq) /\ 0 \in Slots
    BY <2>1, Sizes DEF QueueInv, TypeOK, Slots
  <2>5. First + 1 - 1 < received /\ First = returned + Len(buf_vec)
    BY <2>1, <2>3, <2>4, AnnouncedNumbers
  <2>6. First \in returned .. received - 1
    BY <1>1, <2>5
  <2> QED BY <2>3, <2>6
<1>4. CASE \E k \in 1 .. Len(buf_vec) : a = buf_vec[k].buf.addr
  <2>1. PICK k \in 1 .. Len(buf_vec) : a = buf_vec[k].buf.addr
    BY <1>4
  <2>2. buf_vec[k].buf = BufferAt(returned + k - 1)
    BY DEF ReadersInv
  <2>3. a = SlotIndex(returned + k - 1)
    BY <2>1, <2>2 DEF BufferAt
  <2>4. returned + k - 1 \in returned .. received - 1
    BY <1>1, <2>1
  <2> QED BY <2>3, <2>4
<1> QED BY <1>2, <1>3, <1>4 DEF Held

LEMMA StepKeepsHeld ==
  ASSUME IInv, [Next]_vars, NEW a \in Held
  PROVE  mem'[a] = mem[a]
<1> USE DEF IInv
<1>1. CASE \E n \in 1 .. BUF_SIZE : KernelRecv(n)
  <2>1. PICK n \in 1 .. BUF_SIZE : KernelRecv(n)
    BY <1>1
  <2>2. /\ returned \in Nat /\ received \in Nat
        /\ received < returned + RING_POOL_SIZE
    <3>1. received # returned + RING_POOL_SIZE
      BY <2>1 DEF KernelRecv, RingInv
    <3> QED BY <3>1, Sizes DEF TypeOK, RingInv
  <2>3. PICK c \in returned .. received - 1 : a = SlotIndex(c)
    BY HeldNumber
  <2>4. c \in Nat /\ c < received /\ received - c < RING_POOL_SIZE
    BY <2>2, <2>3, Sizes
  <2>5. SlotIndex(c) # SlotIndex(received) /\ SlotIndex(c) \in Slots
    BY <2>2, <2>4, SlotDistinct, SlotType
  <2>6. mem' = [mem EXCEPT ![SlotIndex(received)] = [start |-> got, len |-> n]]
    <3>1. SlotIndex(khead) = SlotIndex(received) /\ SlotIndex(received) \in Slots
      BY <2>2, SlotWrapped, SlotType DEF RingInv
    <3>2. br.bufs[SlotIndex(received)].addr = SlotIndex(received)
      <4> DEFINE s == SlotIndex(received)
      <4>1. s \in Slots
        BY <3>1
      <4> HIDE DEF s
      <4>2. br.bufs[s] = [addr |-> s, len |-> BUF_SIZE, bid |-> s]
        BY <4>1 DEF RingInv, SlotIdentity
      <4>3. br.bufs[s].addr = s
        BY <4>2
      <4> QED BY <4>3 DEF s
    <3> QED BY <2>1, <3>1, <3>2 DEF KernelRecv
  <2> QED BY <2>3, <2>5, <2>6 DEF TypeOK
<1>2. CASE ~ \E n \in 1 .. BUF_SIZE : KernelRecv(n)
  <2>1. mem' = mem
    BY <1>2 DEF Next, Kernel, Loop, Handler, OnSend, KernelEnd, FromRawEvent, OnCompletion, Read,
      CqAdvance, DecoderError, kernelVars, vars
  <2> QED BY <2>1
<1> QED BY <1>1, <1>2

\* The kernel never writes to a buffer that the program may still read
\* (cqe.rs:48, read_buf.rs:30): it fills buffer number received, which is less
\* than a pool away from every number held.
THEOREM HeldUndisturbed == Spec => HeldBytesStable
<1>1. IInv /\ [Next]_vars => [\A a \in Held : mem'[a] = mem[a]]_vars
  BY StepKeepsHeld
<1> QED BY <1>1, Inductive, PTL DEF Spec, HeldBytesStable

\* The numbers still to be given back or offered: returned is the oldest.
Window == returned .. returned + RING_POOL_SIZE - 1

LEMMA HolderNumber ==
  ASSUME IInv, NEW b \in Slots, NEW h \in Holders(b)
  PROVE  Number(h) \in Window /\ SlotIndex(Number(h)) = b
<1> USE DEF IInv
<1>1. /\ received \in Nat /\ returned \in Nat /\ Len(buf_vec) \in Nat /\ Len(cq) \in Nat
      /\ returned + Len(buf_vec) <= received /\ received <= returned + RING_POOL_SIZE
      /\ RING_POOL_SIZE \in Nat
  BY Sizes DEF TypeOK, RingInv
<1>2. CASE h \in {"kernel"} \X Offered(b)
  <2>1. h[1] = "kernel" /\ h[2] \in Offered(b)
    BY <1>2
  <2>2. /\ h[2] \in 0 .. returned + RING_POOL_SIZE - received - 1
        /\ SlotIndex(received + h[2]) = b
    BY <2>1, OfferedNumbers
  <2>3. Number(h) = received + h[2]
    BY <2>1 DEF Number
  <2> QED BY <1>1, <2>2, <2>3 DEF Window
<1>3. CASE h \in {"cq"} \X Announced(b)
  <2> DEFINE j == h[2]
  <2>1. h[1] = "cq" /\ j \in Announced(b)
    BY <1>3
  <2>2. j \in 1 .. Len(cq) /\ (phase \in {"completed", "read"} => j > 1) /\ cq[j].buffer /\ cq[j].bid = b
    BY <2>1 DEF Announced
  <2> HIDE DEF j
  <2>3. /\ First + j - 1 < received /\ SlotIndex(First + j - 1) = b
        /\ First \in Int /\ First >= returned + Len(buf_vec) - 1
        /\ phase # "read" => First = returned + Len(buf_vec)
    BY <2>2, AnnouncedNumbers
  <2>4. First + j - 1 >= returned
    BY <1>1, <2>2, <2>3
  <2>5. Number(h) = First + j - 1
    BY <2>1 DEF Number, j
  <2> QED BY <1>1, <2>2, <2>3, <2>4, <2>5 DEF Window
<1>4. CASE h \in {"completion"} \X Attached(b)
  <2>1. h[1] = "completion" /\ h[2] \in Attached(b)
    BY <1>4
  <2>2. First = returned + Len(buf_vec) /\ First < received /\ SlotIndex(First) = b
    BY <2>1, AttachedNumber
  <2>3. Number(h) = First
    BY <2>1 DEF Number
  <2> QED BY <1>1, <2>2, <2>3 DEF Window
<1>5. CASE h \in {"stream"} \X Queued(b)
  <2>1. h[1] = "stream" /\ h[2] \in Queued(b)
    BY <1>5
  <2>2. h[2] \in 1 .. Len(buf_vec) /\ SlotIndex(returned + h[2] - 1) = b
    BY <2>1, QueuedNumbers
  <2>3. Number(h) = returned + h[2] - 1
    BY <2>1 DEF Number
  <2> QED BY <1>1, <2>2, <2>3 DEF Window
<1> QED BY <1>2, <1>3, <1>4, <1>5 DEF Holders

\* Where a number's holder is, by the range the number falls in.
LEMMA HolderOf ==
  ASSUME IInv, NEW b \in Slots, NEW c \in Window, SlotIndex(c) = b
  PROVE  \E h \in Holders(b) : Number(h) = c
<1> USE DEF IInv
<1>1. /\ received \in Nat /\ returned \in Nat /\ Len(buf_vec) \in Nat /\ Len(cq) \in Nat
      /\ returned + Len(buf_vec) <= received /\ received <= returned + RING_POOL_SIZE
      /\ RING_POOL_SIZE \in Nat /\ armed \in BOOLEAN /\ c \in Nat
      /\ returned <= c /\ c < returned + RING_POOL_SIZE
  BY Sizes DEF TypeOK, RingInv, Window
<1>2. CASE c < returned + Len(buf_vec)
  <2> DEFINE i == c - returned + 1
  <2>1. i \in 1 .. Len(buf_vec) /\ returned + i - 1 = c
    BY <1>1, <1>2
  <2> HIDE DEF i
  <2>2. i \in Queued(b)
    BY <2>1, QueuedNumbers
  <2>3. <<"stream", i>> \in Holders(b)
    BY <2>2 DEF Holders
  <2>4. Number(<<"stream", i>>) = c
    BY <2>1 DEF Number
  <2> QED BY <2>3, <2>4
<1>3. CASE phase = "completed" /\ c = returned + Len(buf_vec) /\ c < received
  <2>1. First = c
    BY <1>1, <1>3 DEF First
  <2>2. 0 \in Attached(b)
    BY <1>3, <2>1, AttachedNumber
  <2>3. <<"completion", 0>> \in Holders(b)
    BY <2>2 DEF Holders
  <2>4. Number(<<"completion", 0>>) = c
    BY <2>1 DEF Number
  <2> QED BY <2>3, <2>4
<1>4. CASE /\ returned + Len(buf_vec) <= c /\ c < received
           /\ phase = "completed" => c # returned + Len(buf_vec)
  <2> DEFINE j == c - First + 1
  <2>1. First \in Int
    BY <1>1 DEF First
  <2>2. received = First + Buffers /\ Buffers \in Int /\ Buffers <= Len(cq)
    BY <1>1 DEF QueueInv, Buffers
  <2>3. j >= 1 /\ (phase \in {"completed", "read"} => j > 1)
    <3>1. phase = "read" => First = returned + Len(buf_vec) - 1
      BY <1>1 DEF First
    <3>2. phase # "read" => First = returned + Len(buf_vec)
      BY <1>1 DEF First
    <3>3. phase \in {"reap", "completed", "read", "sent"}
      BY DEF TypeOK, Phases
    <3> QED BY <1>1, <1>4, <2>1, <3>1, <3>2, <3>3
  <2>4. j \in 1 .. Len(cq) /\ First + j - 1 = c
    BY <1>1, <1>4, <2>1, <2>2, <2>3
  <2> HIDE DEF j
  <2>5. cq[j].buffer /\ cq[j].bid = b
    BY <1>4, <2>4, AnnouncedNumbers
  <2>6. j \in Announced(b)
    BY <2>3, <2>4, <2>5 DEF Announced
  <2>7. <<"cq", j>> \in Holders(b)
    BY <2>6 DEF Holders
  <2>8. Number(<<"cq", j>>) = c
    BY <2>4 DEF Number
  <2> QED BY <2>7, <2>8
<1>5. CASE received <= c
  <2> DEFINE k == c - received
  <2>1. k \in 0 .. returned + RING_POOL_SIZE - received - 1 /\ received + k = c
    BY <1>1, <1>5
  <2> HIDE DEF k
  <2>2. k \in Offered(b)
    BY <2>1, OfferedNumbers
  <2>3. <<"kernel", k>> \in Holders(b)
    BY <2>2 DEF Holders
  <2>4. Number(<<"kernel", k>>) = c
    BY <2>1 DEF Number
  <2> QED BY <2>3, <2>4
<1> QED BY <1>1, <1>2, <1>3, <1>4, <1>5

\* A number tells which holder it belongs to.
LEMMA HolderUnique ==
  ASSUME IInv, NEW b \in Slots, NEW g \in Holders(b), NEW h \in Holders(b),
         Number(g) = Number(h)
  PROVE  g = h
<1> USE DEF IInv
<1> DEFINE T == returned + Len(buf_vec)
<1>1. received \in Nat /\ returned \in Nat /\ Len(buf_vec) \in Nat /\ T <= received
  BY DEF TypeOK, RingInv
<1> DEFINE Kind(x) ==
      \/ x[1] = "kernel" /\ Number(x) = received + x[2] /\ Number(x) >= received
      \/ /\ x[1] = "cq" /\ Number(x) = First + x[2] - 1
         /\ T <= Number(x) /\ Number(x) < received
         /\ phase = "completed" => Number(x) # T
      \/ /\ x[1] = "completion" /\ x[2] = 0 /\ Number(x) = T /\ phase = "completed"
         /\ T < received
      \/ x[1] = "stream" /\ Number(x) = returned + x[2] - 1 /\ Number(x) < T
<1>2. ASSUME NEW x \in Holders(b)
      PROVE  Kind(x) /\ x = <<x[1], x[2]>> /\ x[2] \in Int
  <2>1. CASE x \in {"kernel"} \X Offered(b)
    <3>1. x[1] = "kernel" /\ x[2] \in Offered(b) /\ x = <<x[1], x[2]>>
      BY <2>1
    <3>2. x[2] \in 0 .. returned + RING_POOL_SIZE - received - 1
      BY <3>1, OfferedNumbers
    <3>3. Number(x) = received + x[2]
      BY <3>1 DEF Number
    <3> QED BY <1>1, <3>1, <3>2, <3>3, Sizes
  <2>2. CASE x \in {"cq"} \X Announced(b)
    <3> DEFINE j == x[2]
    <3>1. x[1] = "cq" /\ j \in Announced(b) /\ x = <<x[1], j>>
      BY <2>2
    <3>2. j \in 1 .. Len(cq) /\ (phase \in {"completed", "read"} => j > 1) /\ cq[j].buffer /\ cq[j].bid = b
      BY <3>1 DEF Announced
    <3> HIDE DEF j
    <3>3. /\ First + j - 1 < received
          /\ First \in Int /\ First >= returned + Len(buf_vec) - 1
          /\ phase # "read" => First = returned + Len(buf_vec)
      BY <3>2, AnnouncedNumbers
    <3>4. Number(x) = First + j - 1
      BY <3>1 DEF Number, j
    <3>5. T <= Number(x) /\ Number(x) < received /\ (phase = "completed" => Number(x) # T)
      BY <1>1, <3>2, <3>3, <3>4
    <3> QED BY <3>1, <3>2, <3>4, <3>5 DEF j
  <2>3. CASE x \in {"completion"} \X Attached(b)
    <3>1. x[1] = "completion" /\ x[2] \in Attached(b) /\ x = <<x[1], x[2]>>
      BY <2>3
    <3>2. x[2] = 0 /\ phase = "completed" /\ First = T /\ First < received
      BY <3>1, AttachedNumber
    <3>3. Number(x) = First
      BY <3>1 DEF Number
    <3> QED BY <3>1, <3>2, <3>3
  <2>4. CASE x \in {"stream"} \X Queued(b)
    <3>1. x[1] = "stream" /\ x[2] \in Queued(b) /\ x = <<x[1], x[2]>>
      BY <2>4
    <3>2. x[2] \in 1 .. Len(buf_vec)
      BY <3>1, QueuedNumbers
    <3>3. Number(x) = returned + x[2] - 1
      BY <3>1 DEF Number
    <3> QED BY <1>1, <3>1, <3>2, <3>3
  <2> QED BY <2>1, <2>2, <2>3, <2>4 DEF Holders
<1>3. First \in Int
  BY <1>1 DEF First
<1>4. Kind(g) /\ Kind(h) /\ g[2] \in Int /\ h[2] \in Int
  BY <1>2
<1>5. g[1] = h[1] /\ g[2] = h[2]
  <2> DEFINE m == Number(g)
  <2>1. m = Number(h) /\ m \in Int
    BY <1>1, <1>3, <1>4
  <2> DEFINE At(x) ==
        \/ x[1] = "kernel" /\ m = received + x[2] /\ m >= received
        \/ /\ x[1] = "cq" /\ m = First + x[2] - 1 /\ T <= m /\ m < received
           /\ phase = "completed" => m # T
        \/ x[1] = "completion" /\ x[2] = 0 /\ m = T /\ phase = "completed" /\ T < received
        \/ x[1] = "stream" /\ m = returned + x[2] - 1 /\ m < T
  <2>2. At(g) /\ At(h)
    BY <1>4, <2>1
  <2>3. T \in Int /\ T <= received /\ received \in Int /\ returned \in Int
    BY <1>1
  <2> HIDE DEF m, T, IInv
  <2>4. CASE g[1] = "kernel"
    BY <1>4, <2>1, <2>2, <2>3, <2>4
  <2>5. CASE g[1] = "cq"
    BY <1>3, <1>4, <2>1, <2>2, <2>3, <2>5
  <2>6. CASE g[1] = "completion"
    BY <1>4, <2>1, <2>2, <2>3, <2>6
  <2>7. CASE g[1] = "stream"
    BY <1>4, <2>1, <2>2, <2>3, <2>7
  <2> QED BY <2>2, <2>4, <2>5, <2>6, <2>7
<1> QED BY <1>2, <1>5

\* Each buffer is at any time in one place only: offered to the kernel,
\* announced, being handed to its stream, or queued there; so none is offered
\* while still readable, none twice, and none is lost (read_buf.rs:39).
THEOREM OwnedOnce == Spec => []OneOwner
<1>1. IInv => OneOwner
  <2> SUFFICES ASSUME IInv, NEW b \in Slots
               PROVE  \E h \in Holders(b) : Holders(b) = {h}
    BY DEF OneOwner
  <2>1. PICK c \in Window : SlotIndex(c) = b
    <3>1. returned \in Nat /\ RING_POOL_SIZE \in Nat \ {0} /\ b \in 0 .. RING_POOL_SIZE - 1
      BY Sizes DEF IInv, TypeOK, Slots
    <3>2. \E d \in returned .. returned + RING_POOL_SIZE - 1 : d % RING_POOL_SIZE = b
      BY <3>1, ModCover
    <3> QED BY <3>2 DEF Window, SlotIndex
  <2>2. PICK h \in Holders(b) : Number(h) = c
    BY <2>1, HolderOf
  <2>3. ASSUME NEW g \in Holders(b)
        PROVE  g = h
    <3>1. Number(g) \in Window /\ SlotIndex(Number(g)) = b
      BY HolderNumber
    <3>2. ASSUME NEW d \in Window, NEW e \in Window, d < e
          PROVE  SlotIndex(d) # SlotIndex(e)
      <4>1. returned \in Nat /\ RING_POOL_SIZE \in Nat
        BY Sizes DEF IInv, TypeOK
      <4>2. d \in Nat /\ e \in Nat /\ e - d < RING_POOL_SIZE
        BY <4>1 DEF Window
      <4> QED BY <3>2, <4>2, SlotDistinct
    <3>3. Number(g) \in Int /\ c \in Int
      BY <3>1, Sizes DEF Window, IInv, TypeOK
    <3>4. Number(g) = c
      BY <2>1, <3>1, <3>2, <3>3
    <3> QED BY <2>2, <3>4, HolderUnique
  <2> QED BY <2>2, <2>3
<1> QED BY <1>1, Inductive, PTL
=============================================================================
