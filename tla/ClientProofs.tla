---------------------------- MODULE ClientProofs ----------------------------
(***************************************************************************)
(* Proofs about Client: it drives EventLoop, and the receive path of any   *)
(* one of its streams is RecvPath.                                         *)
(***************************************************************************)
EXTENDS Client, EventLoopProofs

\* RecvPath's proofs, about the path of the client's stream
P == INSTANCE RecvPathProofs WITH
  MAX_BYTES <- MAX_RECVS * BUF_SIZE,
  br <- br[stream], khead <- khead[stream], mem <- mem[stream],
  armed <- stream \in open,
  cq <- Selected(Contents(cq), RecvTag(stream)),
  phase <- PathPhase, completion <- PathCompletion, panic <- PathPanic,
  buf_vec <- [k \in DOMAIN buf_vec[stream] |->
                [buf |-> buf_vec[stream][k].buf, claimed |-> buf_vec[stream][k].claimed]],
  got <- got[stream], given <- given[stream], last <- last[stream],
  received <- received[stream], returned <- returned[stream]

\* The two instances are the same specification.
LEMMA SamePath ==
  /\ Path!Init <=> P!Init
  /\ [Path!Next]_(Path!vars) <=> [P!Next]_(P!vars)
<1>1. \A n : Path!KernelRecv(n) <=> P!KernelRecv(n)
  BY DEF Path!KernelRecv, P!KernelRecv, Path!SlotIndex, P!SlotIndex, Path!Running,
         P!Running, Path!kernelVars, P!kernelVars, Path!historyVars, P!historyVars,
         Path!NoBuffer, P!NoBuffer, Path!NoCompletion, P!NoCompletion
<1>2. \A res : Path!KernelEnd(res) <=> P!KernelEnd(res)
  BY DEF Path!KernelEnd, P!KernelEnd, Path!ENOBUFS, P!ENOBUFS, Path!Running, P!Running,
         Path!kernelVars, P!kernelVars, Path!historyVars, P!historyVars, Path!NoBuffer,
         P!NoBuffer, Path!NoCompletion, P!NoCompletion
<1>3. Path!FromRawEvent <=> P!FromRawEvent
  BY DEF Path!FromRawEvent, P!FromRawEvent, Path!RawEventFailure, P!RawEventFailure,
         Path!SlotIndex, P!SlotIndex, Path!get_read_buf, P!get_read_buf,
         Path!get_read_buf_panics, P!get_read_buf_panics, Path!Running, P!Running,
         Path!kernelVars, P!kernelVars, Path!historyVars, P!historyVars, Path!NoBuffer,
         P!NoBuffer, Path!NoCompletion, P!NoCompletion
<1>4. Path!OnCompletion <=> P!OnCompletion
  BY DEF Path!OnCompletion, P!OnCompletion, Path!CompletionFailure, P!CompletionFailure,
         Path!Running, P!Running, Path!kernelVars, P!kernelVars, Path!historyVars,
         P!historyVars, Path!NoBuffer, P!NoBuffer, Path!NoCompletion, P!NoCompletion
<1>5. \A n : Path!Read(n) <=> P!Read(n)
  BY DEF Path!Read, P!Read, Path!ReadFailure, P!ReadFailure, Path!Remaining, P!Remaining,
         Path!Min2, P!Min2, Path!buf_ring_add_advance, P!buf_ring_add_advance,
         Path!io_uring_buf_ring_add, P!io_uring_buf_ring_add,
         Path!io_uring_buf_ring_advance, P!io_uring_buf_ring_advance, Path!SlotIndex,
         P!SlotIndex, Path!Running, P!Running, Path!kernelVars, P!kernelVars,
         Path!historyVars, P!historyVars, Path!NoBuffer, P!NoBuffer, Path!NoCompletion,
         P!NoCompletion
<1>6. /\ Path!OnSend <=> P!OnSend
      /\ Path!CqAdvance <=> P!CqAdvance
      /\ Path!DecoderError <=> P!DecoderError
  BY DEF Path!OnSend, P!OnSend, Path!CqAdvance, P!CqAdvance, Path!DecoderError,
         P!DecoderError, Path!Running, P!Running, Path!kernelVars, P!kernelVars,
         Path!historyVars, P!historyVars, Path!NoBuffer, P!NoBuffer, Path!NoCompletion,
         P!NoCompletion
<1>7. Path!vars = P!vars /\ Path!EndResults = P!EndResults
  BY DEF Path!vars, P!vars, Path!EndResults, P!EndResults, Path!EOF, P!EOF,
         Path!ECONNRESET, P!ECONNRESET, Path!ENOBUFS, P!ENOBUFS, Path!Running, P!Running,
         Path!kernelVars, P!kernelVars, Path!historyVars, P!historyVars, Path!NoBuffer,
         P!NoBuffer, Path!NoCompletion, P!NoCompletion
<1>8. Path!Init <=> P!Init
  BY DEF Path!Init, P!Init, Path!new_buffer_group, P!new_buffer_group,
         Path!io_uring_buf_ring_advance, P!io_uring_buf_ring_advance, Path!Slots, P!Slots,
         Path!NoBuffer, P!NoBuffer, Path!NoCompletion, P!NoCompletion
<1>9. Path!Kernel <=> P!Kernel
  BY <1>1, <1>2, <1>7, Zenon DEF Path!Kernel, P!Kernel
<1>10. Path!Handler <=> P!Handler
  BY <1>4, <1>5, <1>6, Zenon DEF Path!Handler, P!Handler
<1>11. Path!Next <=> P!Next
  BY <1>3, <1>6, <1>9, <1>10, Zenon DEF Path!Next, P!Next, Path!Loop, P!Loop
<1>12. [Path!Next]_(Path!vars) <=> [P!Next]_(P!vars)
  <2>1. (Path!vars' = Path!vars) <=> (P!vars' = P!vars)
    BY DEF Path!vars, P!vars, Path!kernelVars, P!kernelVars, Path!historyVars, P!historyVars
  <2> QED BY <1>11, <2>1
<1> QED BY <1>8, <1>12

-----------------------------------------------------------------------------
(***************************************************************************)
(* The completions of one receive among all.                               *)
(***************************************************************************)
Brief(cqe) == [res |-> cqe.res, buffer |-> cqe.buffer, bid |-> cqe.bid]
Briefs(E) == {Brief(cqe) : cqe \in E}

\* sel[k] is what Selected takes of the first k entries of queue.
Selects(sel, queue, d) ==
  sel = [k \in 0 .. Len(queue) |->
           IF k = 0 THEN <<>>
           ELSE IF queue[k].user_data # d THEN sel[k - 1]
           ELSE Append(sel[k - 1], Brief(queue[k]))]

LEMMA SelectsExists ==
  ASSUME NEW E, NEW queue \in Seq(E), NEW d
  PROVE  \E sel : Selects(sel, queue, d) /\ sel \in [0 .. Len(queue) -> Seq(Briefs(E))]
<1> DEFINE n == Len(queue)
           S == Seq(Briefs(E))
           step == [x \in (1 .. n) \X S |->
                      IF queue[x[1]].user_data # d THEN x[2] ELSE Append(x[2], Brief(queue[x[1]]))]
<1>1. n \in Nat /\ <<>> \in S /\ \A k \in 1 .. n : Brief(queue[k]) \in Briefs(E)
  BY DEF Briefs
<1> HIDE DEF n
<1>2. step \in [(1 .. n) \X S -> S]
  <2>1. ASSUME NEW k \in 1 .. n, NEW s \in S
        PROVE  Append(s, Brief(queue[k])) \in S
    BY <1>1
  <2> HIDE DEF S
  <2> QED BY <2>1
<1>3. \A k \in 1 .. n, s \in S :
        step[<<k, s>>] = IF queue[k].user_data # d THEN s ELSE Append(s, Brief(queue[k]))
  OBVIOUS
<1> HIDE DEF step, S
<1>4. PICK h \in [0 .. n -> S] : h[0] = <<>> /\ \A k \in 1 .. n : h[k] = step[<<k, h[k - 1]>>]
  <2>1. \E h \in [0 .. n -> S] : Stepwise(h, n, <<>>, step)
    BY <1>1, <1>2, ByRecursion, Zenon
  <2> QED BY <2>1 DEF Stepwise
<1>5. \A k \in 1 .. n : h[k] = IF queue[k].user_data # d THEN h[k - 1]
                               ELSE Append(h[k - 1], Brief(queue[k]))
  <2> TAKE k \in 1 .. n
  <2>1. k - 1 \in 0 .. n
    BY <1>1
  <2> QED BY <1>3, <1>4, <2>1
<1>6. ASSUME NEW k \in 0 .. n
      PROVE  h[k] = IF k = 0 THEN <<>>
                    ELSE IF queue[k].user_data # d THEN h[k - 1]
                    ELSE Append(h[k - 1], Brief(queue[k]))
  <2>1. k = 0 \/ (k # 0 /\ k \in 1 .. n)
    BY <1>1
  <2> QED BY <1>4, <1>5, <2>1, Zenon
<1>7. Selects(h, queue, d)
  BY <1>4, <1>6 DEF Selects, n
<1> QED BY <1>7 DEF n, S

Steps(sel, queue, d) ==
  /\ sel[0] = <<>>
  /\ \A k \in 1 .. Len(queue) :
       /\ queue[k].user_data # d => sel[k] = sel[k - 1]
       /\ queue[k].user_data = d => sel[k] = Append(sel[k - 1], Brief(queue[k]))

LEMMA SelectsSteps ==
  ASSUME NEW E, NEW queue \in Seq(E), NEW d, NEW sel, Selects(sel, queue, d)
  PROVE  Steps(sel, queue, d)
<1> DEFINE n == Len(queue)
<1>1. n \in Nat
  OBVIOUS
<1>2. \A k \in 0 .. n :
        sel[k] = IF k = 0 THEN <<>>
                 ELSE IF queue[k].user_data # d THEN sel[k - 1]
                 ELSE Append(sel[k - 1], Brief(queue[k]))
  BY DEF Selects
<1> HIDE DEF n
<1>3. sel[0] = <<>>
  BY <1>1, <1>2
<1>4. ASSUME NEW k \in 1 .. n
      PROVE  /\ queue[k].user_data # d => sel[k] = sel[k - 1]
             /\ queue[k].user_data = d => sel[k] = Append(sel[k - 1], Brief(queue[k]))
  <2>1. k # 0 /\ k \in 0 .. n
    BY <1>1
  <2> QED BY <1>2, <2>1, Zenon
<1> QED BY <1>3, <1>4 DEF n, Steps

\* Selected is the last of them, whichever function they are given by.
LEMMA SelectedBy ==
  ASSUME NEW E, NEW queue \in Seq(E), NEW d, NEW sel, Steps(sel, queue, d)
  PROVE  Selected(queue, d) = sel[Len(queue)]
<1> DEFINE n == Len(queue)
           f == CHOOSE g : Selects(g, queue, d)
<1>1. Selected(queue, d) = f[n]
  BY DEF Selected, Selects, Brief
<1>2. Selects(f, queue, d)
  BY SelectsExists
<1> HIDE DEF f
<1>3. /\ f[0] = <<>> /\ sel[0] = <<>> /\ n \in Nat
      /\ \A k \in 1 .. n :
           /\ queue[k].user_data # d => f[k] = f[k - 1] /\ sel[k] = sel[k - 1]
           /\ queue[k].user_data = d => /\ f[k] = Append(f[k - 1], Brief(queue[k]))
                                        /\ sel[k] = Append(sel[k - 1], Brief(queue[k]))
  <2>1. Steps(f, queue, d)
    BY <1>2, SelectsSteps
  <2>2. Len(queue) \in Nat
    OBVIOUS
  <2> QED BY <2>1, <2>2, Zenon DEF Steps
<1> DEFINE S == {k \in 0 .. n : f[k] = sel[k]}
<1>4. 0 \in S
  BY <1>3
<1>5. ASSUME NEW k \in 1 .. n, k - 1 \in S PROVE k \in S
  <2>1. k \in 0 .. n /\ f[k - 1] = sel[k - 1]
    BY <1>3, <1>5
  <2>2. f[k] = sel[k]
    BY <1>3, <2>1
  <2> QED BY <2>1, <2>2
<1> HIDE DEF S, n
<1>6. \A k \in 0 .. n : k \in S
  BY <1>3, <1>4, <1>5, UpTo, Zenon
<1>7. n \in 0 .. n
  BY <1>3
<1> QED BY <1>1, <1>6, <1>7 DEF S, n

LEMMA SelectedType ==
  ASSUME NEW E, NEW queue \in Seq(E), NEW d
  PROVE  Selected(queue, d) \in Seq(Briefs(E))
<1>1. PICK sel : Selects(sel, queue, d) /\ sel \in [0 .. Len(queue) -> Seq(Briefs(E))]
  BY SelectsExists
<1>2. Selected(queue, d) = sel[Len(queue)]
  BY <1>1, SelectsSteps, SelectedBy
<1>3. Len(queue) \in 0 .. Len(queue)
  OBVIOUS
<1> QED BY <1>1, <1>2, <1>3

LEMMA SelectedAppend ==
  ASSUME NEW E, NEW queue \in Seq(E), NEW cqe \in E, NEW d
  PROVE  Selected(Append(queue, cqe), d) =
           IF cqe.user_data = d THEN Append(Selected(queue, d), Brief(cqe)) ELSE Selected(queue, d)
<1> DEFINE more == Append(queue, cqe)
           n == Len(queue)
<1>1. /\ n \in Nat /\ Len(more) = n + 1 /\ more \in Seq(E) /\ more[n + 1] = cqe
      /\ \A k \in 1 .. n : more[k] = queue[k]
  BY AppendProperties
<1>2. PICK sel : Selects(sel, more, d)
  <2> HIDE DEF more
  <2> QED BY <1>1, SelectsExists
<1> HIDE DEF more
<1>3. Steps(sel, more, d)
  BY <1>1, <1>2, SelectsSteps
<1>4. Steps(sel, queue, d)
  BY <1>1, <1>3 DEF Steps
<1>5. Selected(queue, d) = sel[n]
  BY <1>4, SelectedBy
<1>6. Selected(more, d) = sel[n + 1]
  BY <1>1, <1>3, SelectedBy
<1>7. /\ cqe.user_data # d => sel[n + 1] = sel[n]
      /\ cqe.user_data = d => sel[n + 1] = Append(sel[n], Brief(cqe))
  <2>1. n + 1 \in 1 .. n + 1 /\ (n + 1) - 1 = n
    BY <1>1
  <2> HIDE DEF n
  <2> QED BY <1>1, <1>3, <2>1 DEF Steps
<1> QED BY <1>5, <1>6, <1>7 DEF more

LEMMA SelectedTail ==
  ASSUME NEW E, NEW queue \in Seq(E), queue # <<>>, NEW d
  PROVE  IF queue[1].user_data = d
         THEN /\ Selected(queue, d) # <<>>
              /\ Head(Selected(queue, d)) = Brief(queue[1])
              /\ Tail(Selected(queue, d)) = Selected(Tail(queue), d)
         ELSE Selected(Tail(queue), d) = Selected(queue, d)
<1> DEFINE rest == Tail(queue)
           n == Len(rest)
           B == Briefs(E)
           first == IF queue[1].user_data = d THEN <<Brief(queue[1])>> ELSE <<>>
<1>1. /\ n \in Nat /\ Len(queue) = n + 1 /\ rest \in Seq(E)
      /\ \A k \in 1 .. n : rest[k] = queue[k + 1]
      /\ Brief(queue[1]) \in B
  BY HeadTailProperties DEF Briefs
<1>2. PICK f : Selects(f, rest, d) /\ f \in [0 .. n -> Seq(B)]
  <2> HIDE DEF rest
  <2> QED BY <1>1, SelectsExists
<1> HIDE DEF rest, B, n
<1>3. /\ f[0] = <<>>
      /\ \A k \in 1 .. n :
           /\ rest[k].user_data # d => f[k] = f[k - 1]
           /\ rest[k].user_data = d => f[k] = Append(f[k - 1], Brief(rest[k]))
  <2>1. Steps(f, rest, d)
    BY <1>1, <1>2, SelectsSteps
  <2> QED BY <2>1 DEF Steps, n
<1>4. Selected(rest, d) = f[n]
  <2>1. Steps(f, rest, d)
    BY <1>1, <1>2, SelectsSteps
  <2> QED BY <1>1, <2>1, SelectedBy DEF n
<1>5. first \in Seq(B)
  BY <1>1
<1> DEFINE g == [k \in 0 .. n + 1 |-> IF k = 0 THEN <<>> ELSE first \o f[k - 1]]
<1>6. g[0] = <<>> /\ g[1] = first /\ g[n + 1] = first \o f[n]
  <2>1. 0 \in 0 .. n + 1 /\ 1 \in 0 .. n + 1 /\ n + 1 \in 0 .. n + 1 /\ 1 - 1 = 0 /\ (n + 1) - 1 = n
        /\ n + 1 # 0
    BY <1>1
  <2>2. first \o <<>> = first
    BY <1>5, ConcatEmptySeq
  <2> HIDE DEF first
  <2>3. g[0] = <<>>
    BY <2>1
  <2>4. g[1] = first
    <3>1. g[1] = first \o f[1 - 1]
      BY <2>1
    <3> HIDE DEF g
    <3> QED BY <1>3, <2>1, <2>2, <3>1
  <2>5. g[n + 1] = first \o f[n]
    BY <2>1
  <2> QED BY <2>3, <2>4, <2>5
<1>7. ASSUME NEW k \in 1 .. n + 1
      PROVE  /\ queue[k].user_data # d => g[k] = g[k - 1]
             /\ queue[k].user_data = d => g[k] = Append(g[k - 1], Brief(queue[k]))
  <2>1. CASE k = 1
    <3>1. Append(<<>>, Brief(queue[1])) = <<Brief(queue[1])>>
      OBVIOUS
    <3>2. g[k] = first /\ g[k - 1] = <<>>
      <4>1. k - 1 = 0
        BY <2>1
      <4> HIDE DEF g, first
      <4> QED BY <1>6, <2>1, <4>1
    <3> HIDE DEF g
    <3> QED BY <2>1, <3>1, <3>2
  <2>2. CASE k # 1
    <3>1. k - 1 \in 1 .. n /\ k - 1 \in 0 .. n /\ (k - 1) - 1 \in 0 .. n /\ k \in 0 .. n + 1
          /\ k - 1 \in 0 .. n + 1 /\ k # 0 /\ k - 1 # 0
      BY <1>1, <2>2
    <3>2. rest[k - 1] = queue[k]
      BY <1>1, <3>1
    <3>3. g[k] = first \o f[k - 1] /\ g[k - 1] = first \o f[(k - 1) - 1]
      <4> HIDE DEF first
      <4> QED BY <3>1
    <3>4. f[(k - 1) - 1] \in Seq(B)
      BY <1>2, <3>1
    <3>5. Brief(queue[k]) \in B
      BY <1>1 DEF B, Briefs
    <3> HIDE DEF g, first
    <3>6. CASE queue[k].user_data # d
      BY <1>3, <3>1, <3>2, <3>3, <3>6
    <3>7. CASE queue[k].user_data = d
      <4>1. f[k - 1] = Append(f[(k - 1) - 1], Brief(queue[k]))
        BY <1>3, <3>1, <3>2, <3>7
      <4>2. \A s, t \in Seq(B), b \in B : s \o Append(t, b) = Append(s \o t, b)
        OBVIOUS
      <4> QED BY <1>5, <3>3, <3>4, <3>5, <3>7, <4>1, <4>2
    <3> QED BY <3>6, <3>7
  <2> QED BY <2>1, <2>2
<1>8. Selected(queue, d) = first \o f[n]
  <2> HIDE DEF g, first
  <2>1. Steps(g, queue, d)
    BY <1>1, <1>6, <1>7 DEF Steps
  <2>2. Selected(queue, d) = g[Len(queue)]
    BY <2>1, SelectedBy
  <2> QED BY <1>1, <1>6, <2>2
<1>9. f[n] \in Seq(B)
  BY <1>1, <1>2
<1>10. CASE queue[1].user_data = d
  <2>1. \A b \in B, s \in Seq(B) :
          <<b>> \o s # <<>> /\ Head(<<b>> \o s) = b /\ Tail(<<b>> \o s) = s
    OBVIOUS
  <2>2. Selected(queue, d) = <<Brief(queue[1])>> \o f[n]
    BY <1>8, <1>10
  <2> QED BY <1>1, <1>4, <1>9, <1>10, <2>1, <2>2 DEF rest
<1>11. CASE queue[1].user_data # d
  <2>1. Selected(queue, d) = f[n]
    BY <1>8, <1>9, <1>11, ConcatEmptySeq
  <2> QED BY <1>4, <1>11, <2>1 DEF rest
<1> QED BY <1>10, <1>11

-----------------------------------------------------------------------------
(***************************************************************************)
(* The client's steps are steps of the event loop.                         *)
(***************************************************************************)
LEMMA RecvOps ==
  ASSUME LoopInv, NEW op \in recvs
  PROVE  /\ op.fd \in Owners /\ op = RecvOf(op.fd) /\ op.user_data = RecvTag(op.fd)
         /\ op.buf_group = op.fd /\ owner_of(op.user_data) = op.fd
<1>1. op.fd \in Owners /\ op = RecvOf(op.fd)
  BY DEF LoopInv, OpsInv, IsRecv
<1>2. op.user_data = RecvTag(op.fd) /\ op.buf_group = op.fd
  BY <1>1 DEF RecvOf, RecvTag
<1> QED BY <1>1, <1>2, RecvTags

LEMMA SlotOfRing ==
  ASSUME NEW ring \in Ring, NEW k \in Nat
  PROVE  ring.bufs[SlotIndex(k)] \in Slot /\ SlotIndex(k) \in Slots
<1>1. SlotIndex(k) \in Slots
  BY SlotType
<1> QED BY <1>1 DEF Ring

LEMMA StepDrives ==
  ASSUME LoopInv, ClientTypes, [ClientNext]_clientVars
  PROVE  [Next]_vars
<1>1. CASE \E op \in recvs, n \in 1 .. BUF_SIZE : RecvInto(op, n)
  <2>1. PICK op \in recvs, n \in 1 .. BUF_SIZE : RecvInto(op, n)
    BY <1>1
  <2>2. op.buf_group \in Owners
    BY RecvOps
  <2>3. br[op.buf_group] \in Ring /\ khead[op.buf_group] \in Nat
    BY <2>2 DEF ClientTypes, Tails
  <2>4. br[op.buf_group].bufs[SlotIndex(khead[op.buf_group])].bid \in Slots
    BY <2>3, SlotOfRing DEF Slot
  <2>5. \E bid \in Slots : KernelRecv(op, n, bid)
    BY <2>1, <2>4 DEF RecvInto
  <2> QED BY <2>5 DEF Next, Kernel, Incoming
<1>2. CASE \E op \in recvs, res \in {EOF, ECONNRESET, ENOBUFS} : EndOf(op, res)
  BY <1>2 DEF EndOf, Next, Kernel, Incoming
<1>3. CASE TakeBuffer
  <2> DEFINE lookup == LookupFailure(cq.cqes[Head(cqe_buf)])
  <2>1. /\ lookup \in {"none"} \cup LookupFailures
        /\ lookup # "none" => cq.cqes[Head(cqe_buf)].buffer
    BY DEF LookupFailure, LookupFailures
  <2>2. FromRawEvent(lookup)
    BY <1>3 DEF TakeBuffer
  <2> HIDE DEF lookup
  <2> QED BY <2>1, <2>2 DEF Next, Loop, RawEvent
<1>4. CASE QueueBuffer
  BY <1>4 DEF QueueBuffer, Next, Loop
<1>5. CASE (\E n \in 1 .. READ_LEN : Read(n)) \/ UNCHANGED clientVars
  BY <1>5 DEF Read, clientVars
<1>6. CASE Elsewhere
  BY <1>6 DEF Elsewhere, Next, Kernel, Loop
<1> QED BY <1>1, <1>2, <1>3, <1>4, <1>5, <1>6 DEF ClientNext

-----------------------------------------------------------------------------
(***************************************************************************)
(* What the event loop's steps do to the completions, the oldest first.    *)
(***************************************************************************)
LEMMA QueueType ==
  ASSUME LoopInv
  PROVE  /\ BatchInv /\ TypeOK /\ PendingInv /\ cq \in Cq(CqEntry)
         /\ Contents(cq) \in Seq(CqEntry) /\ sends \subseteq Sqe /\ recvs \subseteq Sqe
<1>1. BatchInv /\ TypeOK /\ PendingInv
  BY LoopParts DEF LoopInv
<1>2. cq \in Cq(CqEntry)
  BY <1>1, RingOfInv
<1> QED BY <1>1, <1>2, ContentsType, Types

LEMMA PostContents ==
  ASSUME LoopInv, NEW cqe \in CqEntry, cq' = Post(cq, cqe)
  PROVE  Contents(cq)' = Append(Contents(cq), cqe)
BY QueueType, PostAppends

LEMMA EntryType ==
  ASSUME NEW op \in Sqe, NEW res \in {EOF, ECONNRESET, ENOBUFS, EPIPE} \cup 0 .. SEND_LEN \cup 1 .. BUF_SIZE
  PROVE  Cqe(op, res) \in CqEntry
BY LoopSizes, Sizes DEF Cqe, CqEntry, Sqe

\* A send's completion is not taken for one of a receive.
LEMMA AfterSend ==
  ASSUME LoopInv, NEW op \in sends, NEW res \in {EPIPE} \cup 0 .. SEND_LEN, KernelSend(op, res)
  PROVE  \E cqe \in CqEntry :
           /\ ~cqe.buffer /\ \A i \in Owners : cqe.user_data # RecvTag(i)
           /\ Contents(cq)' = Append(Contents(cq), cqe)
<1>1. op \in Sqe /\ op.user_data \in Pending
  BY QueueType DEF LoopInv, OpsInv, IsSend
<1>2. \A i \in Owners : op.user_data # RecvTag(i)
  BY <1>1, QueueType, RecvNotPending
<1>3. Cqe(op, res) \in CqEntry /\ ~Cqe(op, res).buffer /\ Cqe(op, res).user_data = op.user_data
  <2>1. Cqe(op, res) \in CqEntry
    BY <1>1, EntryType
  <2> QED BY <2>1 DEF Cqe
<1>4. Contents(cq)' = Append(Contents(cq), Cqe(op, res))
  BY <1>3, PostContents DEF KernelSend
<1> QED BY <1>2, <1>3, <1>4

LEMMA AfterRecv ==
  ASSUME LoopInv, NEW op \in recvs, NEW n \in 1 .. BUF_SIZE, NEW bid \in Slots,
         KernelRecv(op, n, bid)
  PROVE  \E cqe \in CqEntry :
           /\ cqe.user_data = RecvTag(op.fd)
           /\ Brief(cqe) = [res |-> n, buffer |-> TRUE, bid |-> bid]
           /\ Contents(cq)' = Append(Contents(cq), cqe)
<1>1. op \in Sqe /\ op.user_data = RecvTag(op.fd)
  BY QueueType, RecvOps
<1>2. PICK more \in BOOLEAN : more = (op.ioprio = {"MULTISHOT"} /\ HasRoom(cq))
  OBVIOUS
<1> DEFINE cqe == [Cqe(op, n) EXCEPT !.buffer = TRUE, !.bid = bid, !.more = more]
<1>3. Cqe(op, n) \in CqEntry
  BY <1>1, EntryType
<1>4. /\ cqe \in CqEntry /\ cqe.user_data = op.user_data
      /\ cqe.res = n /\ cqe.buffer = TRUE /\ cqe.bid = bid
  <2>1. Cqe(op, n).user_data = op.user_data /\ Cqe(op, n).res = n
    BY DEF Cqe
  <2> QED BY <1>3, <2>1 DEF CqEntry
<1>5. cq' = Post(cq, cqe)
  BY <1>2 DEF KernelRecv
<1> HIDE DEF cqe
<1>6. Contents(cq)' = Append(Contents(cq), cqe)
  BY <1>4, <1>5, PostContents
<1> QED BY <1>1, <1>4, <1>6 DEF Brief

LEMMA AfterEnd ==
  ASSUME LoopInv, NEW op \in recvs, NEW res \in {EOF, ECONNRESET, ENOBUFS}, KernelEnd(op, res)
  PROVE  \E cqe \in CqEntry :
           /\ cqe.user_data = RecvTag(op.fd)
           /\ Brief(cqe) = [res |-> res, buffer |-> FALSE, bid |-> 0]
           /\ Contents(cq)' = Append(Contents(cq), cqe)
<1>1. op \in Sqe /\ op.user_data = RecvTag(op.fd)
  BY QueueType, RecvOps
<1>2. Cqe(op, res) \in CqEntry
  BY <1>1, EntryType
<1>3. /\ Cqe(op, res).user_data = op.user_data
      /\ Brief(Cqe(op, res)) = [res |-> res, buffer |-> FALSE, bid |-> 0]
  BY DEF Cqe, Brief
<1>4. Contents(cq)' = Append(Contents(cq), Cqe(op, res))
  BY <1>2, PostContents DEF KernelEnd
<1> QED BY <1>1, <1>2, <1>3, <1>4

LEMMA AfterFlushing ==
  ASSUME LoopInv, KernelFlush
  PROVE  Contents(cq)' = Contents(cq)
BY QueueType, FlushKeepsContents DEF KernelFlush

LEMMA AfterRelease ==
  ASSUME LoopInv, CqAdvance
  PROVE  Contents(cq) # <<>> /\ Contents(cq)' = Tail(Contents(cq))
<1>1. cq \in Cq(CqEntry) /\ Ready(cq) > 0
  BY QueueType, BatchInRing DEF CqAdvance
<1> QED BY <1>1, AdvanceDropsFirst DEF CqAdvance

\* What the other steps leave alone
LEMMA AfterOthers ==
  ASSUME Between \/ ProtocolError \/ RawEvent \/ OnCompletion \/ UNCHANGED vars
  PROVE  UNCHANGED <<cq, open, arrivals>>
BY DEF Between, Arm, Top, Write, SkipWrite, Submit, SyscallFails, Peek, Wait, ProtocolError,
       RawEvent, FromRawEvent, OnCompletion, vars, kernelVars

\* The completion that the loop has come to is the oldest.
LEMMA AtHand ==
  ASSUME LoopInv, phase \in {"handle", "completed", "read"}
  PROVE  LET cqe == Contents(cq)[1] IN
           /\ cqe \in CqEntry /\ Contents(cq) # <<>> /\ 1 \in DOMAIN Contents(cq)
           /\ cq.cqes[Head(cqe_buf)] = cqe /\ Head(cqe_buf) = cqe_buf[1]
           /\ phase \in {"completed", "read"} =>
                /\ cq.cqes[completion.ptr] = cqe /\ completion.user_data = cqe.user_data
           /\ phase # "read" =>
                \/ /\ event_of(cqe.user_data) = Send /\ owner_of(cqe.user_data) \in Owners
                   /\ \A i \in Owners : cqe.user_data # RecvTag(i)
                \/ \E i \in Owners : cqe.user_data = RecvTag(i)
<1>1. /\ BatchInv /\ TypeOK /\ PendingInv
      /\ cqe_buf # <<>> /\ Contents(cq) # <<>> /\ Contents(cq)[1] \in CqEntry
      /\ cqe_buf[1] = SlotOf(cq, 1) /\ Contents(cq)[1] = cq.cqes[SlotOf(cq, 1)]
      /\ Contents(cq) \in Seq(CqEntry) /\ cqe_buf \in Seq(CqSlots)
  BY QueueType, BatchInRing, Types
<1>2. Head(cqe_buf) = cqe_buf[1] /\ 1 \in DOMAIN Contents(cq)
  BY <1>1
<1>3. phase \in {"completed", "read"} =>
        completion = [ptr |-> cqe_buf[1], user_data |-> Contents(cq)[1].user_data]
  BY <1>1 DEF BatchInv, CqInv, BatchFresh
<1>4. ASSUME phase # "read"
      PROVE  \/ /\ event_of(Contents(cq)[1].user_data) = Send
                /\ owner_of(Contents(cq)[1].user_data) \in Owners
                /\ \A i \in Owners : Contents(cq)[1].user_data # RecvTag(i)
             \/ \E i \in Owners : Contents(cq)[1].user_data = RecvTag(i)
  <2>1. Expected(Contents(cq)[1])
    BY <1>2, <1>4 DEF LoopInv, CompletionsInv, Unforgotten
  <2>2. CASE Contents(cq)[1].user_data \in Pending
    BY <1>1, <2>2, PendingFacts, RecvNotPending
  <2>3. CASE Contents(cq)[1].user_data \notin Pending
    BY <2>1, <2>3 DEF Expected, RecvTag
  <2> QED BY <2>2, <2>3
<1> QED BY <1>1, <1>2, <1>3, <1>4

\* What it is tagged with
TagSeen ==
  phase \in {"handle", "completed", "read"} => TagInHand = Contents(cq)[1].user_data

LEMMA TagOldest == LoopInv => TagSeen
BY AtHand DEF TagInHand, TagSeen

\* The same in the next state
LEMMA TagOldestNext == LoopInv' => TagSeen'
BY TagOldest, PTL

-----------------------------------------------------------------------------
(***************************************************************************)
(* What the client adds to the event loop's invariant.                     *)
(***************************************************************************)
LEMMA EntriesAppend ==
  ASSUME LoopInv, EntriesInv, NEW cqe \in CqEntry, Brings(cqe),
         Contents(cq)' = Append(Contents(cq), cqe)
  PROVE  EntriesInv'
<1> DEFINE queue == Contents(cq)
           more == Append(queue, cqe)
<1>1. queue \in Seq(CqEntry)
  BY QueueType
<1>2. /\ Len(queue) \in Nat /\ DOMAIN queue = 1 .. Len(queue)
      /\ DOMAIN more = 1 .. Len(queue) + 1
      /\ \A k \in 1 .. Len(queue) : more[k] = queue[k]
      /\ more[Len(queue) + 1] = cqe
  BY <1>1, AppendProperties
<1>3. \A k \in 1 .. Len(queue) : Brings(queue[k])
  BY <1>2 DEF EntriesInv
<1> HIDE DEF queue, more
<1>4. \A k \in DOMAIN more : Brings(more[k])
  <2> TAKE k \in DOMAIN more
  <2>1. k \in 1 .. Len(queue) \/ k = Len(queue) + 1
    BY <1>2
  <2> QED BY <1>2, <1>3, <2>1
<1>5. \A c : Brings(c)' <=> Brings(c)
  BY DEF Brings
<1> QED BY <1>4, <1>5 DEF EntriesInv, more, queue

LEMMA EntriesStep ==
  ASSUME LoopInv, EntriesInv, [Next]_vars
  PROVE  EntriesInv'
<1>1. CASE \E op \in sends, res \in {EPIPE} \cup 0 .. SEND_LEN : KernelSend(op, res)
  <2>1. PICK op \in sends, res \in {EPIPE} \cup 0 .. SEND_LEN : KernelSend(op, res)
    BY <1>1
  <2>2. PICK cqe \in CqEntry : ~cqe.buffer /\ Contents(cq)' = Append(Contents(cq), cqe)
    BY <2>1, AfterSend
  <2>3. Brings(cqe)
    BY <2>2 DEF Brings
  <2> QED BY <2>2, <2>3, EntriesAppend
<1>2. CASE \E op \in recvs, n \in 1 .. BUF_SIZE, bid \in Slots : KernelRecv(op, n, bid)
  <2>1. PICK op \in recvs, n \in 1 .. BUF_SIZE, bid \in Slots : KernelRecv(op, n, bid)
    BY <1>2
  <2>2. PICK cqe \in CqEntry :
          /\ cqe.user_data = RecvTag(op.fd)
          /\ Brief(cqe) = [res |-> n, buffer |-> TRUE, bid |-> bid]
          /\ Contents(cq)' = Append(Contents(cq), cqe)
    BY <2>1, AfterRecv
  <2>3. Brings(cqe)
    BY <2>1, <2>2, RecvOps DEF Brings, Brief
  <2> QED BY <2>2, <2>3, EntriesAppend
<1>3. CASE \E op \in recvs, res \in {EOF, ECONNRESET, ENOBUFS} : KernelEnd(op, res)
  <2>1. PICK op \in recvs, res \in {EOF, ECONNRESET, ENOBUFS} : KernelEnd(op, res)
    BY <1>3
  <2>2. PICK cqe \in CqEntry :
          /\ Brief(cqe) = [res |-> res, buffer |-> FALSE, bid |-> 0]
          /\ Contents(cq)' = Append(Contents(cq), cqe)
    BY <2>1, AfterEnd
  <2>3. Brings(cqe)
    BY <2>2 DEF Brings, Brief
  <2> QED BY <2>2, <2>3, EntriesAppend
<1>4. ASSUME Contents(cq)' = Contents(cq) PROVE EntriesInv'
  BY <1>4 DEF EntriesInv, Brings
<1>5. CASE KernelFlush
  BY <1>4, <1>5, AfterFlushing
<1>6. CASE CqAdvance
  <2>1. Contents(cq) \in Seq(CqEntry) /\ Contents(cq) # <<>> /\ Contents(cq)' = Tail(Contents(cq))
    BY <1>6, QueueType, AfterRelease
  <2>2. \A k \in DOMAIN Tail(Contents(cq)) : Brings(Tail(Contents(cq))[k])
    BY <2>1, RestOf DEF EntriesInv
  <2> QED BY <2>1, <2>2 DEF EntriesInv, Brings
<1>7. CASE Between \/ ProtocolError \/ RawEvent \/ OnCompletion \/ UNCHANGED vars
  <2>1. cq' = cq
    BY <1>7, AfterOthers
  <2> QED BY <1>4, <2>1
<1> QED BY <1>1, <1>2, <1>3, <1>5, <1>6, <1>7 DEF Next, Kernel, Outgoing, Incoming, Loop

\* A completion is handed to one of the streams, or the program stops.
LEMMA HandStep ==
  ASSUME LoopInv, HandInv, [Next]_vars
  PROVE  HandInv'
<1>1. CASE Kernel \/ UNCHANGED vars
  BY <1>1 DEF HandInv, Kernel, Outgoing, Incoming, KernelSend, KernelFlush, KernelRecv, KernelEnd,
              vars, loopVars
<1>2. CASE OnCompletion
  <2>1. UNCHANGED completion /\ phase = "completed"
    BY <1>2 DEF OnCompletion
  <2>2. CASE panic' = "none"
    <3>1. owner_of(completion.user_data) \in Owners
      BY <1>2, <2>2 DEF OnCompletion, CompletionFailure
    <3> QED BY <2>1, <3>1 DEF HandInv
  <2>3. CASE panic' # "none"
    <3>1. UNCHANGED phase
      BY <1>2, <2>3 DEF OnCompletion
    <3> QED BY <2>1, <3>1 DEF HandInv
  <2> QED BY <2>2, <2>3
<1>3. CASE Between
  <2>1. phase # "read" /\ phase' # "read"
    BY <1>3 DEF Between, Arm, Top, Write, SkipWrite, Submit, SyscallFails, Peek, Wait, Advance, loopVars
  <2> QED BY <2>1 DEF HandInv
<1>4. CASE RawEvent \/ CqAdvance
  <2>1. phase' # "read"
    BY <1>4 DEF RawEvent, FromRawEvent, CqAdvance
  <2> QED BY <2>1 DEF HandInv
<1>5. CASE ProtocolError
  BY <1>5 DEF ProtocolError, HandInv, loopVars
<1> QED BY <1>1, <1>2, <1>3, <1>4, <1>5 DEF Next, Loop

\* Nothing but the submission of the receives arms one, and only their ends
\* close a stream.
LEMMA OpenStep ==
  ASSUME LoopInv, OpenInv, [Next]_vars
  PROVE  OpenInv'
<1>1. /\ open \subseteq Owners /\ sq \in SqType
      /\ \A op \in PreparedOps(sq) \cup sends \cup recvs : IsSend(op) \/ IsRecv(op)
      /\ \A op : IsRecv(op) => op.fd \in Owners
  BY QueueType, LoopParts, Types DEF LoopInv, OpsInv, IsRecv
<1>2. ASSUME UNCHANGED <<sq, recvs, open>>, phase' = "arm" => phase = "arm"
      PROVE  OpenInv'
  BY <1>2 DEF OpenInv
<1>3. CASE Arm
  <2>1. phase = "arm" /\ UNCHANGED <<recvs, open>>
    BY <1>3 DEF Arm, kernelVars
  <2> QED BY <2>1 DEF OpenInv
<1>4. CASE \E b \in BLOCKS : Write(b)
  <2>1. PICK b \in BLOCKS : Write(b)
    BY <1>4
  <2>2. UNCHANGED <<recvs, open>> /\ phase' # "arm"
    BY <2>1 DEF Write, Advance, kernelVars
  <2>3. \A op \in PreparedOps(sq') : op.opcode = "RECV" => op \in PreparedOps(sq)
    BY <2>1, WriteKeeps
  <2> QED BY <2>2, <2>3 DEF OpenInv
<1>5. CASE Submit
  <2>1. /\ recvs' = recvs \cup {op \in PreparedOps(sq) : op.opcode = "RECV"}
        /\ open' = open /\ phase' # "arm"
    BY <1>5 DEF Submit
  <2>2. PreparedOps(sq') = {}
    BY <1>5, SubmitKeeps
  <2>3. \A op \in recvs' : op.fd \in open
    <3> TAKE op \in recvs'
    <3>1. CASE op \in recvs
      BY <3>1 DEF OpenInv
    <3>2. CASE op \in PreparedOps(sq) /\ op.opcode = "RECV"
      <4>1. op.fd \in Owners
        BY <1>1, <3>2, OpsKinds DEF IsSend, SendOf
      <4> QED BY <3>2, <4>1 DEF OpenInv
    <3> QED BY <2>1, <3>1, <3>2
  <2> QED BY <2>1, <2>2, <2>3 DEF OpenInv
<1>6. CASE Top \/ SkipWrite \/ SyscallFails \/ Peek \/ Wait \/ RawEvent \/ OnCompletion
           \/ CqAdvance \/ ProtocolError \/ KernelFlush \/ UNCHANGED vars
  <2>1. UNCHANGED <<sq, recvs, open>> /\ (phase' = "arm" => phase = "arm")
    BY <1>6 DEF Top, SkipWrite, SyscallFails, Peek, Wait, RawEvent, FromRawEvent, OnCompletion,
                CqAdvance, ProtocolError, KernelFlush, Advance, vars, loopVars, kernelVars
  <2> QED BY <1>2, <2>1
<1>7. CASE \E op \in sends, res \in {EPIPE} \cup 0 .. SEND_LEN : KernelSend(op, res)
  BY <1>2, <1>7 DEF KernelSend, loopVars
<1>8. CASE \E op \in recvs, n \in 1 .. BUF_SIZE, bid \in Slots : KernelRecv(op, n, bid)
  <2>1. UNCHANGED <<sq, open, phase>> /\ recvs' \subseteq recvs
    BY <1>8 DEF KernelRecv, loopVars
  <2> QED BY <2>1 DEF OpenInv
<1>9. CASE \E op \in recvs, res \in {EOF, ECONNRESET, ENOBUFS} : KernelEnd(op, res)
  <2>1. PICK op \in recvs, res \in {EOF, ECONNRESET, ENOBUFS} : KernelEnd(op, res)
    BY <1>9
  <2>2. /\ UNCHANGED <<sq, phase>> /\ recvs' = recvs \ {op} /\ open' = open \ {op.fd}
    BY <2>1, RecvOps DEF KernelEnd, loopVars
  <2>3. \A o \in recvs' : o.fd \in open'
    <3> TAKE o \in recvs'
    <3>1. o \in recvs /\ o # op /\ o.fd \in open
      BY <2>2 DEF OpenInv
    <3>2. o = RecvOf(o.fd) /\ op = RecvOf(op.fd)
      BY <2>1, <3>1, RecvOps
    <3> QED BY <2>2, <3>1, <3>2
  <2>4. ~(phase = "arm" \/ (\E o \in PreparedOps(sq) : o.opcode = "RECV"))
    BY <2>1 DEF OpenInv
  <2> QED BY <2>2, <2>3, <2>4 DEF OpenInv
<1> QED BY <1>3, <1>4, <1>5, <1>6, <1>7, <1>8, <1>9
        DEF Next, Kernel, Outgoing, Incoming, Loop, Between

LEMMA FreshRing == new_buffer_group \in Ring
<1>1. RING_POOL_SIZE % TAIL_MOD \in Tails /\ RING_POOL_SIZE \in Nat /\ BUF_SIZE \in 1 .. BUF_SIZE
  BY Sizes, TailType
<1>2. 0 + RING_POOL_SIZE = RING_POOL_SIZE
  BY <1>1
<1> QED BY <1>1, <1>2 DEF new_buffer_group, io_uring_buf_ring_advance, Ring, Slot

LEMMA ReturnedRing ==
  ASSUME NEW ring \in Ring, NEW buf \in KernelBuffer
  PROVE  buf_ring_add_advance(ring, buf) \in Ring
<1> DEFINE s == SlotIndex(ring.tail + 0)
           slot == [addr |-> buf.addr, len |-> buf.buf_len, bid |-> buf.bid]
<1>1. ring.tail \in Nat /\ ring.tail + 0 \in Nat /\ ring.bufs \in [Slots -> Slot]
  BY Sizes DEF Ring, Tails
<1>2. s \in Slots /\ slot \in Slot
  BY <1>1, SlotType DEF KernelBuffer, Slot
<1>3. io_uring_buf_ring_add(ring, buf.addr, buf.buf_len, buf.bid, 0) = [ring EXCEPT !.bufs[s] = slot]
  BY DEF io_uring_buf_ring_add
<1> HIDE DEF s, slot
<1>4. [ring EXCEPT !.bufs[s] = slot] \in Ring
  BY <1>1, <1>2 DEF Ring
<1>5. \A r \in Ring : [r EXCEPT !.tail = (@ + 1) % TAIL_MOD] \in Ring
  <2> TAKE r \in Ring
  <2>1. (r.tail + 1) % TAIL_MOD \in Tails
    BY TailType, Sizes DEF Ring, Tails
  <2> QED BY <2>1 DEF Ring
<1> QED BY <1>3, <1>4, <1>5 DEF buf_ring_add_advance, io_uring_buf_ring_advance

LEMMA TakenBuffer ==
  ASSUME NEW ring \in Ring, NEW bid \in Slots, NEW n \in 1 .. BUF_SIZE
  PROVE  get_read_buf(ring, bid, n) \in KernelBuffer
BY DEF get_read_buf, KernelBuffer, Ring, Slot

\* Nothing of the receive paths changes, and what is in hand stays.
LEMMA PathsKept ==
  ASSUME LoopInv, ClientTypes, GroupsInv, GotInv, UNCHANGED <<groupVars, readVars, arrivals>>,
         phase' = "completed" <=> phase = "completed",
         phase = "completed" => UNCHANGED completion /\ Contents(cq)'[1] = Contents(cq)[1]
  PROVE  ClientTypes' /\ GroupsInv' /\ GotInv'
<1>1. ClientTypes'
  BY DEF ClientTypes, groupVars, readVars
<1>2. GroupsInv'
  BY DEF GroupsInv, readVars, Reader
<1>3. GotInv'
  BY DEF GotInv, groupVars
<1> QED BY <1>1, <1>2, <1>3

\* The head of the queue from which a decoder reads
LEMMA ReaderAtHead ==
  ASSUME GroupsInv, NEW i \in Owners, buf_vec[i] # <<>>
  PROVE  /\ buf_vec[i] \in Seq(Reader(i)) /\ 1 \in DOMAIN buf_vec[i]
         /\ Head(buf_vec[i]) = buf_vec[i][1] /\ buf_vec[i][1] \in Reader(i)
         /\ buf_vec[i][1].group = i /\ buf_vec[i][1].buf \in KernelBuffer
         /\ buf_vec[i][1].claimed \in Nat /\ buf_vec[i][1].buf.data_len \in 1 .. BUF_SIZE
         /\ buf_vec[i][1].claimed < buf_vec[i][1].buf.data_len
         /\ buf_vec[i][1].buf.addr \in Slots
<1>1. buf_vec[i] \in Seq(Reader(i))
  BY DEF GroupsInv
<1>2. 1 \in DOMAIN buf_vec[i] /\ Head(buf_vec[i]) = buf_vec[i][1] /\ buf_vec[i][1] \in Reader(i)
  BY <1>1
<1> QED BY <1>1, <1>2 DEF Reader, KernelBuffer

\* What a read takes and leaves
LEMMA ReadTakes ==
  ASSUME ClientInv, NEW n \in 1 .. READ_LEN, Read(n)
  PROVE  LET i == owner_of(completion.user_data)
             v == buf_vec[i][1]
             remaining == v.buf.data_len - v.claimed
             bytes == Min2(n, remaining)
         IN /\ i \in Owners /\ buf_vec[i] # <<>> /\ phase = "read" /\ Running
            /\ bytes \in 1 .. BUF_SIZE /\ bytes <= remaining /\ remaining \in Nat
            /\ last' = [last EXCEPT ![i] =
                          [first |-> mem[i][v.buf.addr].start + v.claimed, len |-> bytes]]
            /\ given' = [given EXCEPT ![i] = @ + bytes]
            /\ bytes = remaining =>
                 /\ buf_vec' = [buf_vec EXCEPT ![i] = Tail(@)]
                 /\ br' = [br EXCEPT ![i] = buf_ring_add_advance(@, v.buf)]
                 /\ returned' = [returned EXCEPT ![i] = @ + 1]
            /\ bytes # remaining =>
                 /\ buf_vec' = [buf_vec EXCEPT ![i] =
                      [buf_vec[i] EXCEPT ![1] = [v EXCEPT !.claimed = v.claimed + bytes]]]
                 /\ UNCHANGED <<br, returned>>
            /\ UNCHANGED <<vars, khead, mem, got, received, kernel_buf>>
<1> DEFINE i == owner_of(completion.user_data)
           v == buf_vec[i][1]
           remaining == v.buf.data_len - v.claimed
           bytes == Min2(n, remaining)
<1>1. i \in Owners /\ phase = "read" /\ Running /\ buf_vec[i] # <<>>
  BY DEF Read, ClientInv, HandInv
<1>2. Head(buf_vec[i]) = v /\ v.group = i
  BY <1>1, ReaderAtHead DEF ClientInv
<1>3. v.claimed \in Nat /\ v.buf.data_len \in 1 .. BUF_SIZE /\ v.claimed < v.buf.data_len
  BY <1>1, ReaderAtHead DEF ClientInv
<1>4. bytes \in 1 .. BUF_SIZE /\ bytes <= remaining /\ remaining \in Nat
  <2> HIDE DEF v, i
  <2>1. n \in Nat /\ n >= 1 /\ BUF_SIZE \in Nat
    BY ClientAssumption, Sizes
  <2> QED BY <1>3, <2>1 DEF Min2
<1>5. /\ last' = [last EXCEPT ![i] =
                          [first |-> mem[i][v.buf.addr].start + v.claimed, len |-> bytes]]
      /\ given' = [given EXCEPT ![i] = @ + bytes]
      /\ UNCHANGED <<vars, khead, mem, got, received, kernel_buf>>
  BY <1>2 DEF Read
<1>6. bytes = remaining =>
        /\ buf_vec' = [buf_vec EXCEPT ![i] = Tail(@)]
        /\ br' = [br EXCEPT ![i] = buf_ring_add_advance(@, v.buf)]
        /\ returned' = [returned EXCEPT ![i] = @ + 1]
  BY <1>2 DEF Read
<1>7. bytes # remaining =>
        /\ buf_vec' = [buf_vec EXCEPT ![i] =
             [buf_vec[i] EXCEPT ![1] = [v EXCEPT !.claimed = v.claimed + bytes]]]
        /\ UNCHANGED <<br, returned>>
  BY <1>2 DEF Read
<1> QED BY <1>1, <1>4, <1>5, <1>6, <1>7

LEMMA ReadKeeps ==
  ASSUME ClientInv, NEW n \in 1 .. READ_LEN, Read(n)
  PROVE  ClientTypes' /\ GroupsInv' /\ GotInv'
<1> DEFINE i == owner_of(completion.user_data)
           v == buf_vec[i][1]
           remaining == v.buf.data_len - v.claimed
           bytes == Min2(n, remaining)
<1>1. /\ i \in Owners /\ buf_vec[i] # <<>> /\ phase = "read"
      /\ bytes \in 1 .. BUF_SIZE /\ bytes <= remaining /\ remaining \in Nat
      /\ last' = [last EXCEPT ![i] =
                    [first |-> mem[i][v.buf.addr].start + v.claimed, len |-> bytes]]
      /\ given' = [given EXCEPT ![i] = @ + bytes]
      /\ bytes = remaining =>
           /\ buf_vec' = [buf_vec EXCEPT ![i] = Tail(@)]
           /\ br' = [br EXCEPT ![i] = buf_ring_add_advance(@, v.buf)]
           /\ returned' = [returned EXCEPT ![i] = @ + 1]
      /\ bytes # remaining =>
           /\ buf_vec' = [buf_vec EXCEPT ![i] =
                [buf_vec[i] EXCEPT ![1] = [v EXCEPT !.claimed = v.claimed + bytes]]]
           /\ UNCHANGED <<br, returned>>
      /\ UNCHANGED <<vars, khead, mem, got, received, kernel_buf>>
  BY ReadTakes
<1>2. /\ buf_vec[i] \in Seq(Reader(i)) /\ 1 \in DOMAIN buf_vec[i] /\ v \in Reader(i)
      /\ v.buf \in KernelBuffer /\ v.claimed \in Nat /\ v.buf.addr \in Slots
      /\ v.buf.data_len \in 1 .. BUF_SIZE
  BY <1>1, ReaderAtHead DEF ClientInv
<1> HIDE DEF v, i
<1>3. /\ ClientTypes /\ br \in [Owners -> Ring] /\ returned \in [Owners -> Nat]
      /\ given \in [Owners -> Nat] /\ buf_vec = [k \in Owners |-> buf_vec[k]]
      /\ last \in [Owners -> [first : Nat, len : 0 .. BUF_SIZE]]
      /\ mem \in [Owners -> [Slots -> [start : Nat, len : 0 .. BUF_SIZE]]]
  BY DEF ClientInv, ClientTypes
<1>4. br' \in [Owners -> Ring] /\ returned' \in [Owners -> Nat]
  <2>1. CASE bytes = remaining
    <3>1. buf_ring_add_advance(br[i], v.buf) \in Ring
      BY <1>1, <1>2, <1>3, ReturnedRing
    <3>2. returned[i] + 1 \in Nat
      BY <1>1, <1>3
    <3>3. /\ br' = [br EXCEPT ![i] = buf_ring_add_advance(br[i], v.buf)]
          /\ returned' = [returned EXCEPT ![i] = returned[i] + 1]
      BY <1>1, <2>1
    <3> QED BY <1>1, <1>3, <3>1, <3>2, <3>3
  <2>2. CASE bytes # remaining
    BY <1>1, <1>3, <2>2
  <2> QED BY <2>1, <2>2
<1>5. given' \in [Owners -> Nat]
  <2> HIDE DEF bytes
  <2> QED BY <1>1, <1>3, Sizes
<1>6. last' \in [Owners -> [first : Nat, len : 0 .. BUF_SIZE]]
  <2>1. [first |-> mem[i][v.buf.addr].start + v.claimed, len |-> bytes]
          \in [first : Nat, len : 0 .. BUF_SIZE]
    <3>1. mem[i][v.buf.addr].start \in Nat
      BY <1>1, <1>2, <1>3
    <3> HIDE DEF bytes
    <3> QED BY <1>1, <1>2, <3>1, Sizes
  <2> HIDE DEF bytes
  <2> QED BY <1>1, <1>3, <2>1
<1> HIDE DEF bytes
<1>7. buf_vec' = [k \in Owners |-> buf_vec'[k]] /\ \A k \in Owners \ {i} : buf_vec'[k] = buf_vec[k]
  <2>1. \A new : [buf_vec EXCEPT ![i] = new] = [k \in Owners |-> IF k = i THEN new ELSE buf_vec[k]]
    BY <1>1, <1>3
  <2>2. PICK new : buf_vec' = [k \in Owners |-> IF k = i THEN new ELSE buf_vec[k]]
    BY <1>1, <2>1
  <2> QED BY <2>2
<1>8. buf_vec'[i] \in Seq(Reader(i))
  <2>1. CASE bytes = remaining
    <3>1. buf_vec'[i] = Tail(buf_vec[i])
      BY <1>1, <1>3, <2>1
    <3> QED BY <1>1, <1>2, <3>1
  <2>2. CASE bytes # remaining
    <3> DEFINE w == [v EXCEPT !.claimed = v.claimed + bytes]
    <3>1. buf_vec'[i] = [buf_vec[i] EXCEPT ![1] = w]
      <4>1. buf_vec' = [buf_vec EXCEPT ![i] = [buf_vec[i] EXCEPT ![1] = w]]
        BY <1>1, <2>2
      <4> HIDE DEF w
      <4> QED BY <1>1, <1>3, <4>1
    <3>2. v.claimed + bytes \in Nat /\ v.claimed + bytes < v.buf.data_len
      BY <1>1, <1>2, <2>2, Sizes
    <3>3. w \in Reader(i)
      BY <1>2, <3>2 DEF Reader
    <3> HIDE DEF w
    <3>4. [buf_vec[i] EXCEPT ![1] = w] \in Seq(Reader(i))
      BY <1>2, <3>3
    <3> QED BY <3>1, <3>4
  <2> QED BY <2>1, <2>2
<1>9. ClientTypes'
  BY <1>1, <1>3, <1>4, <1>5, <1>6, <1>7 DEF ClientTypes
<1>10. GroupsInv'
  <2>1. \A k \in Owners : buf_vec'[k] \in Seq(Reader(k))
    BY <1>7, <1>8 DEF ClientInv, GroupsInv
  <2>2. kernel_buf' = NoKernelBuf /\ phase' = "read"
    BY <1>1 DEF ClientInv, GroupsInv, vars, loopVars
  <2>3. \A k : Reader(k)' = Reader(k)
    BY DEF Reader
  <2> QED BY <2>1, <2>2, <2>3 DEF GroupsInv
<1>11. GotInv'
  BY <1>1 DEF ClientInv, GotInv, vars, kernelVars
<1> QED BY <1>9, <1>10, <1>11

\* A completion posted does not get ahead of the one in hand.
LEMMA HeadKept ==
  ASSUME LoopInv, NEW cqe \in CqEntry, Contents(cq)' = Append(Contents(cq), cqe),
         phase \in {"handle", "completed", "read"}
  PROVE  Contents(cq)'[1] = Contents(cq)[1]
<1>1. Contents(cq) \in Seq(CqEntry) /\ Contents(cq) # <<>>
  BY QueueType, AtHand
<1> QED BY <1>1

\* Where the kernel puts what arrives, and what it does to the counts
LEMMA ReceiveEffect ==
  ASSUME LoopInv, ClientInv, NEW op \in recvs, NEW n \in 1 .. BUF_SIZE, RecvInto(op, n)
  PROVE  LET i == op.fd
             slot == br[i].bufs[SlotIndex(khead[i])]
         IN /\ i \in Owners /\ i \in open /\ slot \in Slot /\ Running
            /\ khead[i] # br[i].tail /\ n <= slot.len
            /\ KernelRecv(op, n, slot.bid)
            /\ mem' = [mem EXCEPT ![i] = [mem[i] EXCEPT ![slot.addr] =
                                            [start |-> got[i], len |-> n]]]
            /\ khead' = [khead EXCEPT ![i] = (khead[i] + 1) % TAIL_MOD]
            /\ got' = [got EXCEPT ![i] = got[i] + n]
            /\ received' = [received EXCEPT ![i] = received[i] + 1]
            /\ got[i] + n <= (arrivals + 1) * BUF_SIZE
            /\ got[i] + n <= MAX_RECVS * BUF_SIZE
            /\ arrivals' = arrivals + 1
            /\ UNCHANGED <<br, readVars, loopVars, open, panic>>
<1> DEFINE i == op.fd
           slot == br[i].bufs[SlotIndex(khead[i])]
<1>1. i \in Owners /\ op.buf_group = i /\ owner_of(op.user_data) = i /\ i \in open
  BY RecvOps DEF ClientInv, OpenInv
<1>2. slot \in Slot
  <2>1. br[i] \in Ring /\ khead[i] \in Nat
    BY <1>1 DEF ClientInv, ClientTypes, Tails
  <2> QED BY <2>1, SlotOfRing
<1>3. /\ khead[i] # br[i].tail /\ n <= slot.len
      /\ KernelRecv(op, n, slot.bid)
      /\ mem' = [mem EXCEPT ![i][slot.addr] = [start |-> got[i], len |-> n]]
      /\ khead' = [khead EXCEPT ![i] = (@ + 1) % TAIL_MOD]
      /\ got' = [got EXCEPT ![i] = @ + n]
      /\ received' = [received EXCEPT ![i] = @ + 1]
      /\ UNCHANGED <<br, readVars>>
  BY <1>1 DEF RecvInto
<1> HIDE DEF slot
<1>4. /\ arrivals < MAX_RECVS /\ arrivals' = arrivals + 1
      /\ UNCHANGED <<loopVars, open, panic>> /\ Running
  BY <1>3 DEF KernelRecv
<1>5. got[i] + n <= (arrivals + 1) * BUF_SIZE /\ got[i] + n <= MAX_RECVS * BUF_SIZE
  <2>1. /\ got[i] \in Nat /\ n \in Nat /\ n <= BUF_SIZE /\ BUF_SIZE \in Nat
        /\ arrivals \in Nat /\ MAX_RECVS \in Nat /\ got[i] <= arrivals * BUF_SIZE
    <3>1. got[i] \in Nat /\ got[i] <= arrivals * BUF_SIZE
      BY <1>1 DEF ClientInv, ClientTypes, GotInv
    <3>2. arrivals \in Nat
      BY QueueType, Types
    <3>3. MAX_RECVS \in Nat /\ BUF_SIZE \in Nat
      BY LoopSizes, Sizes
    <3>4. n \in Nat /\ n <= BUF_SIZE
      BY <3>3
    <3> QED BY <3>1, <3>2, <3>3, <3>4
  <2>2. \A a, b \in Nat : a * b \in Nat /\ (a + 1) * b = a * b + b
    OBVIOUS
  <2>3. (arrivals + 1) * BUF_SIZE = arrivals * BUF_SIZE + BUF_SIZE /\ arrivals * BUF_SIZE \in Nat
    BY <2>1, <2>2
  <2>4. PICK rest \in Nat : MAX_RECVS = (arrivals + 1) + rest
    <3>1. MAX_RECVS - (arrivals + 1) \in Nat
      BY <1>4, <2>1
    <3> QED BY <2>1, <3>1
  <2>5. MAX_RECVS * BUF_SIZE = (arrivals + 1) * BUF_SIZE + rest * BUF_SIZE /\ rest * BUF_SIZE \in Nat
    <3>1. \A a, b, c \in Nat : (a + b) * c = a * c + b * c /\ b * c \in Nat
      OBVIOUS
    <3>2. arrivals + 1 \in Nat
      BY <2>1
    <3>3. ((arrivals + 1) + rest) * BUF_SIZE = (arrivals + 1) * BUF_SIZE + rest * BUF_SIZE
          /\ rest * BUF_SIZE \in Nat
      BY <2>1, <2>4, <3>1, <3>2
    <3> QED BY <2>4, <3>3
  <2> DEFINE all == MAX_RECVS * BUF_SIZE
             more == (arrivals + 1) * BUF_SIZE
             so_far == arrivals * BUF_SIZE
             left == rest * BUF_SIZE
  <2>6. /\ all = more + left /\ more = so_far + BUF_SIZE /\ so_far \in Nat /\ left \in Nat
        /\ got[i] <= so_far
    BY <2>1, <2>3, <2>5
  <2> HIDE DEF all, more, so_far, left
  <2>7. got[i] + n <= more /\ got[i] + n <= all
    BY <2>1, <2>6
  <2> QED BY <2>7 DEF all, more
<1> QED BY <1>1, <1>2, <1>3, <1>4, <1>5 DEF slot

LEMMA ReceiveKeeps ==
  ASSUME LoopInv, ClientInv, NEW op \in recvs, NEW n \in 1 .. BUF_SIZE, RecvInto(op, n)
  PROVE  ClientTypes' /\ GroupsInv' /\ GotInv'
<1> DEFINE i == op.fd
           slot == br[i].bufs[SlotIndex(khead[i])]
<1>1. /\ i \in Owners /\ slot \in Slot
      /\ KernelRecv(op, n, slot.bid)
      /\ mem' = [mem EXCEPT ![i] = [mem[i] EXCEPT ![slot.addr] = [start |-> got[i], len |-> n]]]
      /\ khead' = [khead EXCEPT ![i] = (khead[i] + 1) % TAIL_MOD]
      /\ got' = [got EXCEPT ![i] = got[i] + n]
      /\ received' = [received EXCEPT ![i] = received[i] + 1]
      /\ got[i] + n <= (arrivals + 1) * BUF_SIZE
      /\ arrivals' = arrivals + 1
      /\ UNCHANGED <<br, readVars, loopVars>>
  BY ReceiveEffect
<1> HIDE DEF i, slot
<1>2. /\ khead \in [Owners -> Tails] /\ got \in [Owners -> Nat] /\ received \in [Owners -> Nat]
      /\ mem \in [Owners -> [Slots -> [start : Nat, len : 0 .. BUF_SIZE]]]
      /\ n \in Nat /\ n \in 0 .. BUF_SIZE
  BY Sizes DEF ClientInv, ClientTypes
<1>3. ClientTypes'
  <2>1. khead' \in [Owners -> Tails]
    <3>1. (khead[i] + 1) % TAIL_MOD \in Tails
      <4>1. khead[i] + 1 \in Nat
        BY <1>1, <1>2 DEF Tails
      <4> QED BY <4>1, TailType
    <3> QED BY <1>1, <1>2, <3>1
  <2>2. got' \in [Owners -> Nat] /\ received' \in [Owners -> Nat]
    <3>1. got[i] + n \in Nat /\ received[i] + 1 \in Nat
      BY <1>1, <1>2
    <3> QED BY <1>1, <1>2, <3>1
  <2>3. mem' \in [Owners -> [Slots -> [start : Nat, len : 0 .. BUF_SIZE]]]
    <3>1. [start |-> got[i], len |-> n] \in [start : Nat, len : 0 .. BUF_SIZE]
      BY <1>1, <1>2
    <3>2. slot.addr \in Slots
      BY <1>1 DEF Slot
    <3>3. [mem[i] EXCEPT ![slot.addr] = [start |-> got[i], len |-> n]]
            \in [Slots -> [start : Nat, len : 0 .. BUF_SIZE]]
      BY <1>1, <1>2, <3>1, <3>2
    <3> QED BY <1>1, <1>2, <3>3
  <2> QED BY <1>1, <2>1, <2>2, <2>3 DEF ClientInv, ClientTypes, readVars
<1>4. GroupsInv'
  <2>1. phase = "completed" => Contents(cq)'[1] = Contents(cq)[1]
    <3>1. slot.bid \in Slots
      BY <1>1 DEF Slot
    <3> QED BY <1>1, <3>1, AfterRecv, HeadKept
  <2> QED BY <1>1, <2>1 DEF ClientInv, GroupsInv, readVars, loopVars, Reader
<1>5. GotInv'
  <2>1. /\ arrivals \in Nat /\ BUF_SIZE \in Nat /\ \A k \in Owners : got[k] <= arrivals * BUF_SIZE
    BY QueueType, Types, Sizes DEF ClientInv, GotInv
  <2>2. \A a, b \in Nat : a * b \in Nat /\ (a + 1) * b = a * b + b
    OBVIOUS
  <2>3. arrivals * BUF_SIZE \in Nat /\ (arrivals + 1) * BUF_SIZE = arrivals * BUF_SIZE + BUF_SIZE
    BY <2>1, <2>2
  <2> DEFINE more == (arrivals + 1) * BUF_SIZE
             so_far == arrivals * BUF_SIZE
  <2>4. /\ so_far \in Nat /\ more = so_far + BUF_SIZE /\ got[i] + n <= more
        /\ \A k \in Owners : got[k] <= so_far
    BY <1>1, <2>1, <2>3
  <2> HIDE DEF more, so_far
  <2>5. \A k \in Owners : got'[k] <= more
    <3> TAKE k \in Owners
    <3>1. CASE k = i
      BY <1>1, <1>2, <2>4, <3>1
    <3>2. CASE k # i
      <4>1. got'[k] = got[k] /\ got[k] \in Nat
        BY <1>1, <1>2, <3>2
      <4> QED BY <2>1, <2>4, <4>1
    <3> QED BY <3>1, <3>2
  <2> QED BY <1>1, <2>5 DEF GotInv, more
<1> QED BY <1>3, <1>4, <1>5

\* The next completion is taken, with its buffer, out of its owner's group.
LEMMA TakeEffect ==
  ASSUME LoopInv, ClientInv, TakeBuffer
  PROVE  LET cqe == Contents(cq)[1]
             i == owner_of(cqe.user_data)
         IN /\ phase = "handle" /\ Running /\ kernel_buf = NoKernelBuf
            /\ panic' = IF cqe.res < 0 THEN "cqe error" ELSE LookupFailure(cqe)
            /\ panic' = "none" =>
                 /\ phase' = "completed" /\ completion'.user_data = cqe.user_data
                 /\ cq.cqes[completion'.ptr] = cqe
                 /\ cqe.buffer =>
                      kernel_buf' = [group |-> i, buf |-> get_read_buf(br[i], cqe.bid, cqe.res)]
                 /\ ~cqe.buffer => kernel_buf' = NoKernelBuf
            /\ panic' # "none" => UNCHANGED <<phase, completion, kernel_buf>>
            /\ UNCHANGED <<groupVars, buf_vec, given, last, returned, cq, cqe_buf, kernelVars>>
<1>1. /\ phase = "handle" /\ Running
      /\ UNCHANGED <<groupVars, buf_vec, given, last, returned, cq, cqe_buf, kernelVars>>
  BY DEF TakeBuffer, FromRawEvent
<1>2. cq.cqes[Head(cqe_buf)] = Contents(cq)[1]
  BY <1>1, AtHand
<1>3. kernel_buf = NoKernelBuf
  BY <1>1 DEF ClientInv, GroupsInv
<1>4. FromRawEvent(LookupFailure(Contents(cq)[1]))
  BY <1>2 DEF TakeBuffer
<1>5. /\ panic' = IF Contents(cq)[1].res < 0 THEN "cqe error" ELSE LookupFailure(Contents(cq)[1])
      /\ panic' = "none" =>
           /\ phase' = "completed"
           /\ completion' = [ptr |-> Head(cqe_buf), user_data |-> Contents(cq)[1].user_data]
      /\ panic' # "none" => UNCHANGED <<phase, completion>>
  BY <1>2, <1>4 DEF FromRawEvent
<1>6. kernel_buf' = IF panic' = "none" /\ Contents(cq)[1].buffer
                    THEN [group |-> GroupOf(Contents(cq)[1].user_data),
                          buf |-> get_read_buf(br[GroupOf(Contents(cq)[1].user_data)],
                                               Contents(cq)[1].bid, Contents(cq)[1].res)]
                    ELSE kernel_buf
  BY <1>2 DEF TakeBuffer
<1>7. panic' = "none" => /\ completion'.user_data = Contents(cq)[1].user_data
                         /\ cq.cqes[completion'.ptr] = Contents(cq)[1]
  BY <1>2, <1>5
<1>8. /\ panic' = "none" /\ Contents(cq)[1].buffer =>
           kernel_buf' = [group |-> owner_of(Contents(cq)[1].user_data),
                          buf |-> get_read_buf(br[owner_of(Contents(cq)[1].user_data)],
                                               Contents(cq)[1].bid, Contents(cq)[1].res)]
      /\ panic' # "none" \/ ~Contents(cq)[1].buffer => kernel_buf' = kernel_buf
  BY <1>6 DEF GroupOf
<1> QED BY <1>1, <1>3, <1>5, <1>7, <1>8

LEMMA TakeKeeps ==
  ASSUME LoopInv, ClientInv, TakeBuffer
  PROVE  ClientTypes' /\ GroupsInv' /\ GotInv'
<1> DEFINE cqe == Contents(cq)[1]
           i == owner_of(cqe.user_data)
<1>1. /\ phase = "handle" /\ kernel_buf = NoKernelBuf
      /\ panic' = "none" =>
           /\ phase' = "completed" /\ completion'.user_data = cqe.user_data
           /\ cqe.buffer =>
                kernel_buf' = [group |-> i, buf |-> get_read_buf(br[i], cqe.bid, cqe.res)]
           /\ ~cqe.buffer => kernel_buf' = NoKernelBuf
      /\ panic' # "none" => UNCHANGED <<phase, completion, kernel_buf>>
      /\ UNCHANGED <<groupVars, buf_vec, given, last, returned, cq, kernelVars>>
  BY TakeEffect
<1>2. cqe \in CqEntry /\ Brings(cqe)
  BY <1>1, AtHand DEF ClientInv, EntriesInv
<1>3. cqe.buffer => i \in Owners /\ get_read_buf(br[i], cqe.bid, cqe.res) \in KernelBuffer
  <2> SUFFICES ASSUME cqe.buffer
               PROVE  i \in Owners /\ get_read_buf(br[i], cqe.bid, cqe.res) \in KernelBuffer
    OBVIOUS
  <2>1. i \in Owners /\ cqe.res \in 1 .. BUF_SIZE /\ cqe.bid \in Slots
    BY <1>2, RecvTags DEF Brings, CqEntry
  <2>2. br[i] \in Ring
    BY <2>1 DEF ClientInv, ClientTypes
  <2> QED BY <2>1, <2>2, TakenBuffer
<1>4. Contents(cq)' = Contents(cq)
  BY <1>1
<1> HIDE DEF cqe, i
<1>5. ClientTypes'
  <2>1. kernel_buf' \in [group : Owners, buf : KernelBuffer] \cup {NoKernelBuf}
    BY <1>1, <1>3
  <2> QED BY <1>1, <2>1 DEF ClientInv, ClientTypes, groupVars
<1>6. GroupsInv'
  <2>1. \A k \in Owners : buf_vec'[k] \in Seq(Reader(k)')
    BY <1>1 DEF ClientInv, GroupsInv, Reader
  <2>2. CASE panic' = "none"
    <3>1. owner_of(completion'.user_data) = i
      BY <1>1, <2>2 DEF i
    <3>2. CASE cqe.buffer
      BY <1>1, <1>3, <1>4, <2>1, <2>2, <3>1, <3>2 DEF GroupsInv, cqe
    <3>3. CASE ~cqe.buffer
      BY <1>1, <1>4, <2>1, <2>2, <3>3 DEF GroupsInv, cqe
    <3> QED BY <3>2, <3>3
  <2>3. CASE panic' # "none"
    BY <1>1, <2>1, <2>3 DEF GroupsInv
  <2> QED BY <2>2, <2>3
<1>7. GotInv'
  BY <1>1 DEF ClientInv, GotInv, groupVars, kernelVars
<1> QED BY <1>5, <1>6, <1>7

\* A receive's completion is handed to its stream, a send's elsewhere.
LEMMA QueueEffect ==
  ASSUME LoopInv, ClientInv, QueueBuffer
  PROVE  LET cqe == Contents(cq)[1]
             data == completion.user_data
         IN /\ phase = "completed" /\ Running /\ data = cqe.user_data
            /\ panic' = "none" => phase' = "read"
            /\ panic' # "none" => UNCHANGED phase
            /\ panic' \in {"none", "res 0", "no buffer", "short send"}
            /\ \/ /\ event_of(data) = Send /\ owner_of(data) \in Owners
                  /\ \A i \in Owners : data # RecvTag(i)
                  /\ kernel_buf = NoKernelBuf /\ UNCHANGED <<buf_vec, kernel_buf>>
               \/ \E i \in Owners :
                    /\ data = RecvTag(i)
                    /\ panic' = IF cqe.res = 0 THEN "res 0"
                                ELSE IF ~cqe.buffer THEN "no buffer" ELSE "none"
                    /\ cqe.buffer => kernel_buf \in [group : {i}, buf : KernelBuffer]
                    /\ ~cqe.buffer => kernel_buf = NoKernelBuf
                    /\ panic' = "none" =>
                         /\ buf_vec' = [buf_vec EXCEPT ![i] =
                              Append(buf_vec[i], [group |-> kernel_buf.group,
                                                  buf |-> kernel_buf.buf, claimed |-> 0])]
                         /\ kernel_buf' = NoKernelBuf
                    /\ panic' # "none" => UNCHANGED <<buf_vec, kernel_buf>>
            /\ UNCHANGED <<groupVars, given, last, returned, cq, completion, kernelVars>>
<1> DEFINE cqe == Contents(cq)[1]
           data == completion.user_data
<1>1. /\ phase = "completed" /\ Running /\ OnCompletion
      /\ UNCHANGED <<groupVars, given, last, returned, cq, completion, kernelVars>>
  BY DEF QueueBuffer, OnCompletion
<1>2. /\ cqe \in CqEntry /\ 1 \in DOMAIN Contents(cq)
      /\ cq.cqes[completion.ptr] = cqe /\ data = cqe.user_data
      /\ \/ /\ event_of(data) = Send /\ owner_of(data) \in Owners
            /\ \A i \in Owners : data # RecvTag(i)
         \/ \E i \in Owners : data = RecvTag(i)
  BY <1>1, AtHand
<1>3. Brings(cqe)
  BY <1>2 DEF ClientInv, EntriesInv
<1>4. /\ panic' = CompletionFailure(data, cqe)
      /\ panic' = "none" => phase' = "read"
      /\ panic' # "none" => UNCHANGED phase
  BY <1>1, <1>2 DEF OnCompletion
<1>5. /\ panic' = "none" /\ event_of(data) = MultishortRecv =>
           /\ buf_vec' = [buf_vec EXCEPT ![owner_of(data)] =
                Append(buf_vec[owner_of(data)], [group |-> kernel_buf.group,
                                                 buf |-> kernel_buf.buf, claimed |-> 0])]
           /\ kernel_buf' = NoKernelBuf
      /\ ~(panic' = "none" /\ event_of(data) = MultishortRecv) => UNCHANGED <<buf_vec, kernel_buf>>
  BY DEF QueueBuffer
<1>6. IF cqe.buffer THEN kernel_buf \in [group : {owner_of(data)}, buf : KernelBuffer]
      ELSE kernel_buf = NoKernelBuf
  BY <1>1 DEF ClientInv, GroupsInv
<1>7. panic' \in {"none", "res 0", "short send"} \/ \E i \in Owners : data = RecvTag(i)
  BY <1>1, <1>2, <1>4, NoSurprise
<1> HIDE DEF cqe, data
<1>8. CASE event_of(data) = Send /\ owner_of(data) \in Owners /\ \A i \in Owners : data # RecvTag(i)
  <2>1. ~cqe.buffer
    BY <1>2, <1>3, <1>8 DEF Brings
  <2>2. kernel_buf = NoKernelBuf /\ UNCHANGED <<buf_vec, kernel_buf>>
    BY <1>5, <1>6, <1>8, <2>1 DEF Send, MultishortRecv
  <2> QED BY <1>1, <1>2, <1>4, <1>7, <1>8, <2>2 DEF cqe, data
<1>9. CASE \E i \in Owners : data = RecvTag(i)
  <2>1. PICK i \in Owners : data = RecvTag(i)
    BY <1>9
  <2>2. /\ event_of(data) = MultishortRecv /\ owner_of(data) = i /\ req_of(data) = RECV_ID(i)
        /\ MultishortRecv \in Events /\ MultishortRecv # Send
    BY <2>1, RecvTags DEF Events, MultishortRecv, Send
  <2>3. panic' = IF cqe.res = 0 THEN "res 0" ELSE IF ~cqe.buffer THEN "no buffer" ELSE "none"
    BY <1>4, <2>2 DEF CompletionFailure
  <2>4. \E k \in Owners :
          /\ data = RecvTag(k)
          /\ panic' = IF cqe.res = 0 THEN "res 0" ELSE IF ~cqe.buffer THEN "no buffer" ELSE "none"
          /\ cqe.buffer => kernel_buf \in [group : {k}, buf : KernelBuffer]
          /\ ~cqe.buffer => kernel_buf = NoKernelBuf
          /\ panic' = "none" =>
               /\ buf_vec' = [buf_vec EXCEPT ![k] =
                    Append(buf_vec[k], [group |-> kernel_buf.group,
                                        buf |-> kernel_buf.buf, claimed |-> 0])]
               /\ kernel_buf' = NoKernelBuf
          /\ panic' # "none" => UNCHANGED <<buf_vec, kernel_buf>>
    <3> WITNESS i \in Owners
    <3> QED BY <1>5, <1>6, <2>1, <2>2, <2>3
  <2>5. panic' \in {"none", "res 0", "no buffer", "short send"}
    BY <2>3
  <2> QED BY <1>1, <1>2, <1>4, <2>4, <2>5 DEF cqe, data
<1> QED BY <1>2, <1>8, <1>9

LEMMA QueueKeeps ==
  ASSUME LoopInv, ClientInv, QueueBuffer
  PROVE  ClientTypes' /\ GroupsInv' /\ GotInv'
<1>1. /\ phase = "completed" /\ completion.user_data = Contents(cq)[1].user_data
      /\ phase' = "read" \/ (panic' # "none" /\ UNCHANGED phase)
      /\ UNCHANGED <<groupVars, given, last, returned, cq, completion, kernelVars>>
  BY QueueEffect
<1>2. /\ ClientTypes /\ GroupsInv /\ GotInv /\ buf_vec = [k \in Owners |-> buf_vec[k]]
      /\ \A k \in Owners : buf_vec[k] \in Seq(Reader(k))
      /\ \A k : Reader(k)' = Reader(k)
  BY DEF ClientInv, ClientTypes, GroupsInv, Reader
<1>3. CASE UNCHANGED <<buf_vec, kernel_buf>> /\ (phase' = "read" => kernel_buf = NoKernelBuf)
  BY <1>1, <1>2, <1>3 DEF ClientTypes, GroupsInv, GotInv, groupVars, kernelVars
<1>4. CASE ~(UNCHANGED <<buf_vec, kernel_buf>> /\ (phase' = "read" => kernel_buf = NoKernelBuf))
  <2> DEFINE w == [group |-> kernel_buf.group, buf |-> kernel_buf.buf, claimed |-> 0]
  <2>1. PICK i \in Owners :
          /\ kernel_buf \in [group : {i}, buf : KernelBuffer]
          /\ buf_vec' = [buf_vec EXCEPT ![i] = Append(buf_vec[i], w)]
          /\ kernel_buf' = NoKernelBuf /\ phase' = "read"
    BY <1>4, QueueEffect
  <2>2. w \in Reader(i)
    <3>1. kernel_buf.buf \in KernelBuffer /\ kernel_buf.group = i
      BY <2>1
    <3>2. 0 < kernel_buf.buf.data_len
      BY <3>1 DEF KernelBuffer
    <3> QED BY <3>1, <3>2 DEF Reader
  <2> HIDE DEF w
  <2>3. Append(buf_vec[i], w) \in Seq(Reader(i))
    BY <1>2, <2>1, <2>2
  <2>4. buf_vec' = [k \in Owners |-> IF k = i THEN Append(buf_vec[i], w) ELSE buf_vec[k]]
    BY <1>2, <2>1
  <2>5. \A k \in Owners : buf_vec'[k] \in Seq(Reader(k))
    BY <1>2, <2>3, <2>4
  <2>6. buf_vec' = [k \in Owners |-> buf_vec'[k]]
    BY <2>4
  <2> QED BY <1>1, <1>2, <2>1, <2>5, <2>6
          DEF ClientTypes, GroupsInv, GotInv, groupVars, kernelVars
<1> QED BY <1>3, <1>4

\* What is not about a receive leaves the receive paths as they are.
LEMMA ElsewhereKeeps ==
  ASSUME LoopInv, ClientInv, Elsewhere
  PROVE  ClientTypes' /\ GroupsInv' /\ GotInv'
<1>1. UNCHANGED <<groupVars, readVars>> /\ ClientTypes /\ GroupsInv /\ GotInv
  BY DEF Elsewhere, ClientInv
<1>2. CASE Outgoing
  <2>1. UNCHANGED <<arrivals, phase, completion>>
    BY <1>2 DEF Outgoing, KernelSend, KernelFlush, loopVars, kernelVars
  <2>2. phase = "completed" => Contents(cq)'[1] = Contents(cq)[1]
    <3>1. CASE KernelFlush
      BY <3>1, AfterFlushing
    <3>2. CASE \E op \in sends, res \in {EPIPE} \cup 0 .. SEND_LEN : KernelSend(op, res)
      BY <3>2, AfterSend, HeadKept
    <3> QED BY <1>2, <3>1, <3>2 DEF Outgoing
  <2> QED BY <1>1, <2>1, <2>2, PathsKept
<1>3. CASE Between \/ CqAdvance \/ ProtocolError
  <2>1. UNCHANGED arrivals /\ phase # "completed" /\ phase' # "completed"
    BY <1>3 DEF Between, Arm, Top, Write, SkipWrite, Submit, SyscallFails, Peek, Wait,
                CqAdvance, ProtocolError, Advance, loopVars, kernelVars
  <2> QED BY <1>1, <2>1, PathsKept
<1> QED BY <1>2, <1>3 DEF Elsewhere

LEMMA EndKeeps ==
  ASSUME LoopInv, ClientInv, NEW op \in recvs, NEW res \in {EOF, ECONNRESET, ENOBUFS}, EndOf(op, res)
  PROVE  ClientTypes' /\ GroupsInv' /\ GotInv'
<1>1. /\ UNCHANGED <<groupVars, readVars, arrivals, phase, completion>>
      /\ ClientTypes /\ GroupsInv /\ GotInv /\ KernelEnd(op, res)
  BY DEF EndOf, KernelEnd, loopVars, ClientInv
<1>2. phase = "completed" => Contents(cq)'[1] = Contents(cq)[1]
  BY <1>1, AfterEnd, HeadKept
<1> QED BY <1>1, <1>2, PathsKept

LEMMA LookupStep ==
  ASSUME LoopInv, LoopInv', ClientInv, [ClientNext]_clientVars
  PROVE  LookupInv'
<1>1. CASE TakeBuffer
  <2> DEFINE cqe == Contents(cq)[1]
  <2>1. /\ phase = "handle" /\ Contents(cq)' = Contents(cq)
        /\ panic' = IF cqe.res < 0 THEN "cqe error" ELSE LookupFailure(cqe)
        /\ panic' # "none" => phase' = phase
    BY <1>1, TakeEffect
  <2>2. ASSUME panic' \in LookupFailures
        PROVE  \E i \in Owners : TagInHand' = RecvTag(i)
    <3>1. panic' # "none" /\ cqe.buffer
      BY <2>1, <2>2 DEF LookupFailures, LookupFailure
    <3>2. \E i \in Owners : cqe.user_data = RecvTag(i)
      <4>1. 1 \in DOMAIN Contents(cq)
        BY <2>1, AtHand
      <4> QED BY <3>1, <4>1 DEF ClientInv, EntriesInv, Brings
    <3>3. TagInHand' = Contents(cq)'[1].user_data
      <4>1. phase' = "handle"
        BY <2>1, <3>1
      <4> QED BY <4>1, TagOldestNext DEF TagSeen
    <3> QED BY <2>1, <3>2, <3>3
  <2> QED BY <2>2 DEF LookupInv, LookupFailures, RecvTag, RECV_ID, Owners
<1>2. CASE UNCHANGED clientVars
  <2>1. panic' = panic /\ TagInHand' = TagInHand
    BY <1>2 DEF clientVars, vars, loopVars, TagInHand
  <2> QED BY <2>1 DEF ClientInv, LookupInv
<1>3. CASE ClientNext /\ ~TakeBuffer
  <2>1. panic' \notin LookupFailures
    <3>1. CASE \E op \in recvs, n \in 1 .. BUF_SIZE : RecvInto(op, n)
      BY <3>1 DEF RecvInto, KernelRecv, Running, LookupFailures
    <3>2. CASE \E op \in recvs, res \in {EOF, ECONNRESET, ENOBUFS} : EndOf(op, res)
      BY <3>2 DEF EndOf, KernelEnd, Running, LookupFailures
    <3>3. CASE QueueBuffer
      <4>1. panic' \in {"none", "res 0", "no buffer", "short send"}
        BY <3>3, QueueEffect
      <4> QED BY <4>1 DEF LookupFailures
    <3>4. CASE \E n \in 1 .. READ_LEN : Read(n)
      BY <3>4 DEF Read, vars, Running, LookupFailures
    <3>5. CASE Elsewhere
      BY <3>5 DEF Elsewhere, Outgoing, KernelSend, KernelFlush, Between, Arm, Top, Write, SkipWrite,
                  Submit, SyscallFails, Peek, Wait, CqAdvance, ProtocolError, Running, LookupFailures
    <3> QED BY <1>3, <3>1, <3>2, <3>3, <3>4, <3>5 DEF ClientNext
  <2> QED BY <2>1 DEF LookupInv
<1> QED BY <1>1, <1>2, <1>3

LEMMA ClientStep ==
  ASSUME LoopInv, ClientInv, [ClientNext]_clientVars
  PROVE  LoopInv' /\ ClientInv'
<1>1. [Next]_vars
  BY StepDrives DEF ClientInv
<1>2. LoopInv' /\ EntriesInv' /\ HandInv' /\ LookupInv' /\ OpenInv'
  BY <1>1, LoopStep, EntriesStep, HandStep, LookupStep, OpenStep DEF ClientInv
<1>3. ClientTypes' /\ GroupsInv' /\ GotInv'
  <2>1. CASE \E op \in recvs, n \in 1 .. BUF_SIZE : RecvInto(op, n)
    BY <2>1, ReceiveKeeps
  <2>2. CASE \E op \in recvs, res \in {EOF, ECONNRESET, ENOBUFS} : EndOf(op, res)
    BY <2>2, EndKeeps
  <2>3. CASE TakeBuffer
    BY <2>3, TakeKeeps
  <2>4. CASE QueueBuffer
    BY <2>4, QueueKeeps
  <2>5. CASE \E n \in 1 .. READ_LEN : Read(n)
    BY <2>5, ReadKeeps
  <2>6. CASE Elsewhere
    BY <2>6, ElsewhereKeeps
  <2>7. CASE UNCHANGED clientVars
    <3>1. UNCHANGED <<groupVars, readVars, arrivals, phase, completion, cq>>
      BY <2>7 DEF clientVars, vars, loopVars, kernelVars
    <3> QED BY <3>1, PathsKept DEF ClientInv
  <2> QED BY <2>1, <2>2, <2>3, <2>4, <2>5, <2>6, <2>7 DEF ClientNext
<1> QED BY <1>2, <1>3 DEF ClientInv

LEMMA InitClient ==
  ASSUME ClientInit
  PROVE  LoopInv /\ ClientInv
<1>1. LoopInv /\ Init
  BY InitLoop DEF ClientInit
<1>2. /\ br = [i \in Owners |-> new_buffer_group] /\ khead = [i \in Owners |-> 0]
      /\ mem = [i \in Owners |-> [a \in Slots |-> [start |-> 0, len |-> 0]]]
      /\ kernel_buf = NoKernelBuf /\ buf_vec = [i \in Owners |-> <<>>]
      /\ got = [i \in Owners |-> 0] /\ given = got /\ received = got /\ returned = got
      /\ last = [i \in Owners |-> [first |-> 0, len |-> 0]]
      /\ phase = "arm" /\ recvs = {} /\ open = Owners /\ arrivals = 0
      /\ 0 \in Tails /\ 0 \in 0 .. BUF_SIZE /\ BUF_SIZE \in Nat
  BY <1>1, Sizes DEF ClientInit, Init, Tails
<1>3. ClientTypes
  <2>1. br \in [Owners -> Ring]
    BY <1>2, FreshRing
  <2>2. mem \in [Owners -> [Slots -> [start : Nat, len : 0 .. BUF_SIZE]]]
    BY <1>2
  <2>3. buf_vec = [i \in Owners |-> buf_vec[i]]
    BY <1>2
  <2> QED BY <1>2, <2>1, <2>2, <2>3 DEF ClientTypes
<1>4. GroupsInv
  <2>1. \A i \in Owners : buf_vec[i] \in Seq(Reader(i))
    BY <1>2
  <2> QED BY <1>2, <2>1 DEF GroupsInv
<1>5. GotInv
  <2>1. \A i \in Owners : got[i] = 0 /\ 0 <= 0 * BUF_SIZE
    BY <1>2
  <2> QED BY <1>2, <2>1 DEF GotInv
<1>6. EntriesInv
  <2>1. Contents(cq) = <<>>
    <3>1. /\ Ready(cq) = 0 /\ cq.overflow = <<>>
      BY <1>1, CqSizes DEF Init, EmptyCq, Ready
    <3>2. Len(Contents(cq)) = 0 /\ Contents(cq) \in Seq(CqEntry)
      BY <1>1, <3>1, QueueType, ContentsType
    <3> QED BY <3>2
  <2> QED BY <2>1 DEF EntriesInv
<1> QED BY <1>1, <1>2, <1>3, <1>4, <1>5, <1>6
        DEF ClientInv, HandInv, OpenInv, LookupInv, LookupFailures, Init

\* The inductive invariant, with the event loop's own
THEOREM ClientInductive == ClientSpec => [](LoopInv /\ ClientInv)
<1>1. LoopInv /\ ClientInv /\ [ClientNext]_clientVars => LoopInv' /\ ClientInv'
  BY ClientStep
<1> QED BY <1>1, InitClient, PTL DEF ClientSpec

\* The client does to rings, tags, sends and memory only what EventLoop does,
\* so that what is proved of EventLoop holds of the client.
THEOREM DrivesLoop == ClientSpec => Spec
<1>1. ClientInit => Init
  BY DEF ClientInit
<1>2. LoopInv /\ ClientInv /\ [ClientNext]_clientVars => [Next]_vars
  BY StepDrives DEF ClientInv
<1> QED BY <1>1, <1>2, ClientInductive, PTL DEF ClientSpec, Spec

\* The sends of several streams do not get in each other's way, nor do their
\* receives: memory and bookkeeping are as EventLoop's theorems say, completions
\* are handled once and in order, and no panic is about the program's own doing
\* but, so far, the lookup of a buffer.
THEOREM SendsSound ==
  ClientSpec => []MemoryAlive /\ []PendingExact /\ []ExpectedPanics /\ InOrder /\ SendMemorySpec
BY DrivesLoop, MemoryStaysAlive, PendingIsExact, OnlyExpectedPanics, ImplementsFifo,
   ImplementsSendMemory

-----------------------------------------------------------------------------
(***************************************************************************)
(* The client seen from one stream: each step is a step of RecvPath, or    *)
(* does not show.                                                          *)
(***************************************************************************)
PathQueue == Selected(Contents(cq), RecvTag(stream))
PathBufs == [k \in DOMAIN buf_vec[stream] |->
               [buf |-> buf_vec[stream][k].buf, claimed |-> buf_vec[stream][k].claimed]]
InHandVars == <<PathPhase, PathCompletion, PathPanic>>
InGroup == <<br[stream], khead[stream], mem[stream], got[stream], received[stream]>>
InStream == <<PathBufs, given[stream], last[stream], returned[stream]>>

LEMMA PhaseSeen ==
  /\ phase \notin {"completed", "read"} => PathPhase = "reap"
  /\ phase \in {"completed", "read"} /\ completion.user_data = RecvTag(stream) => PathPhase = phase
  /\ phase = "completed" /\ completion.user_data # RecvTag(stream) => PathPhase = "reap"
  /\ phase = "read" /\ completion.user_data # RecvTag(stream) =>
       PathPhase = IF owner_of(completion.user_data) = stream THEN "sent" ELSE "reap"
BY DEF PathPhase

LEMMA PanicSeen ==
  /\ panic \notin {"protocol", "cqe error", "zero data", "wrong slot", "res 0", "no buffer"} =>
       PathPanic = "none"
  /\ panic = "protocol" =>
       PathPanic = IF phase = "read" /\ owner_of(TagInHand) = stream THEN "bad frame" ELSE "none"
  /\ panic \in {"cqe error", "zero data", "wrong slot", "res 0", "no buffer"} =>
       PathPanic = IF TagInHand = RecvTag(stream) THEN panic ELSE "none"
BY DEF PathPanic

\* In hand is the oldest completion.
HandSeen ==
  /\ PathPhase = "completed" =>
       PathCompletion = [res |-> Contents(cq)[1].res, kernel_buf |-> kernel_buf.buf]
  /\ PathPhase # "completed" => PathCompletion = [res |-> 0, kernel_buf |-> [bid |-> -1]]
  /\ phase \in {"handle", "completed", "read"} => TagInHand = Contents(cq)[1].user_data

LEMMA OldestSeen == LoopInv => HandSeen
<1> SUFFICES ASSUME LoopInv PROVE HandSeen
  OBVIOUS
<1>1. PathPhase = "completed" => phase = "completed"
  BY DEF PathPhase
<1>2. /\ phase = "completed" => cq.cqes[completion.ptr] = Contents(cq)[1]
      /\ phase \in {"handle", "completed", "read"} => TagInHand = Contents(cq)[1].user_data
  BY AtHand DEF TagInHand
<1> QED BY <1>1, <1>2 DEF PathCompletion, NoKernelBuf, HandSeen

\* The same in the next state
LEMMA NextSeen ==
  /\ phase' \notin {"completed", "read"} => PathPhase' = "reap"
  /\ phase' \in {"completed", "read"} /\ completion'.user_data = RecvTag(stream) => PathPhase' = phase'
  /\ phase' = "completed" /\ completion'.user_data # RecvTag(stream) => PathPhase' = "reap"
  /\ phase' = "read" /\ completion'.user_data # RecvTag(stream) =>
       PathPhase' = IF owner_of(completion'.user_data) = stream THEN "sent" ELSE "reap"
  /\ panic' \notin {"protocol", "cqe error", "zero data", "wrong slot", "res 0", "no buffer"} =>
       PathPanic' = "none"
  /\ panic' = "protocol" =>
       PathPanic' = IF phase' = "read" /\ owner_of(TagInHand') = stream THEN "bad frame" ELSE "none"
  /\ panic' \in {"cqe error", "zero data", "wrong slot", "res 0", "no buffer"} =>
       PathPanic' = IF TagInHand' = RecvTag(stream) THEN panic' ELSE "none"
BY DEF PathPhase, PathPanic

LEMMA OldestSeenNext == LoopInv' => HandSeen'
BY OldestSeen, PTL

\* What the path's stream does not see
LEMMA PathStutters ==
  ASSUME UNCHANGED <<InGroup, InStream, InHandVars, PathQueue>>, stream \in open' <=> stream \in open
  PROVE  UNCHANGED Path!vars
BY DEF Path!vars, Path!kernelVars, Path!historyVars, InGroup, InStream, InHandVars, PathQueue, PathBufs

LEMMA SameInHand ==
  ASSUME LoopInv, LoopInv', Running, UNCHANGED <<phase, completion, panic, kernel_buf>>,
         phase = "completed" => Contents(cq)'[1] = Contents(cq)[1]
  PROVE  UNCHANGED InHandVars
<1>1. PathPhase' = PathPhase
  BY DEF PathPhase
<1>2. PathPanic' = "none" /\ PathPanic = "none"
  BY NextSeen, PanicSeen DEF Running
<1>3. PathPhase = "completed" => phase = "completed"
  BY DEF PathPhase
<1>4. PathCompletion' = PathCompletion
  BY <1>1, <1>3, OldestSeen, OldestSeenNext DEF HandSeen
<1> QED BY <1>1, <1>2, <1>4 DEF InHandVars

\* A completion posted shows if it is of the stream's receive.
LEMMA PathPosted ==
  ASSUME LoopInv, NEW cqe \in CqEntry, Contents(cq)' = Append(Contents(cq), cqe)
  PROVE  PathQueue' = IF cqe.user_data = RecvTag(stream) THEN Append(PathQueue, Brief(cqe))
                      ELSE PathQueue
<1>1. Contents(cq) \in Seq(CqEntry)
  BY QueueType
<1>2. Selected(Append(Contents(cq), cqe), RecvTag(stream)) =
        IF cqe.user_data = RecvTag(stream)
        THEN Append(Selected(Contents(cq), RecvTag(stream)), Brief(cqe))
        ELSE Selected(Contents(cq), RecvTag(stream))
  BY <1>1, SelectedAppend
<1>3. PathQueue' = Selected(Contents(cq)', RecvTag(stream))
  BY DEF PathQueue, RecvTag, RECV_ID
<1> QED BY <1>2, <1>3 DEF PathQueue

LEMMA OwnTag ==
  /\ stream \in Owners
  /\ \A i \in Owners : RecvTag(i) = RecvTag(stream) => i = stream
  /\ owner_of(RecvTag(stream)) = stream /\ event_of(RecvTag(stream)) = MultishortRecv
<1>1. stream \in Owners
  BY ClientAssumption
<1> QED BY <1>1, RecvTags

\* Bytes arrive for the stream, or for another one.
LEMMA ReceiveSeen ==
  ASSUME LoopInv, LoopInv', ClientInv, NEW op \in recvs, NEW n \in 1 .. BUF_SIZE, RecvInto(op, n)
  PROVE  [Path!Next]_(Path!vars)
<1> DEFINE i == op.fd
           slot == br[i].bufs[SlotIndex(khead[i])]
<1>1. /\ i \in Owners /\ i \in open /\ slot \in Slot /\ Running
      /\ khead[i] # br[i].tail /\ n <= slot.len
      /\ KernelRecv(op, n, slot.bid)
      /\ mem' = [mem EXCEPT ![i] = [mem[i] EXCEPT ![slot.addr] = [start |-> got[i], len |-> n]]]
      /\ khead' = [khead EXCEPT ![i] = (khead[i] + 1) % TAIL_MOD]
      /\ got' = [got EXCEPT ![i] = got[i] + n]
      /\ received' = [received EXCEPT ![i] = received[i] + 1]
      /\ got[i] + n <= MAX_RECVS * BUF_SIZE
      /\ UNCHANGED <<br, readVars, loopVars, open, panic>>
  BY ReceiveEffect
<1>2. PICK cqe \in CqEntry :
        /\ cqe.user_data = RecvTag(i)
        /\ Brief(cqe) = [res |-> n, buffer |-> TRUE, bid |-> slot.bid]
        /\ Contents(cq)' = Append(Contents(cq), cqe)
  <2>1. slot.bid \in Slots
    BY <1>1 DEF Slot
  <2> QED BY <1>1, <2>1, AfterRecv
<1>3. UNCHANGED InHandVars
  <2>1. phase = "completed" => Contents(cq)'[1] = Contents(cq)[1]
    BY <1>2, HeadKept
  <2> QED BY <1>1, <2>1, SameInHand DEF loopVars, readVars
<1>4. PathPanic = "none"
  BY <1>1, PanicSeen DEF Running
<1> HIDE DEF slot, i
<1>5. /\ br \in [Owners -> Ring] /\ khead \in [Owners -> Tails]
      /\ got \in [Owners -> Nat] /\ received \in [Owners -> Nat]
      /\ mem \in [Owners -> [Slots -> [start : Nat, len : 0 .. BUF_SIZE]]]
  BY DEF ClientInv, ClientTypes
<1>6. UNCHANGED InStream
  BY <1>1 DEF InStream, PathBufs, readVars
<1>7. CASE i = stream
  <2>1. PathQueue' = Append(PathQueue, [res |-> n, buffer |-> TRUE, bid |-> slot.bid])
    BY <1>2, <1>7, PathPosted
  <2>2. /\ mem'[stream] = [mem[stream] EXCEPT ![slot.addr] = [start |-> got[stream], len |-> n]]
        /\ khead'[stream] = (khead[stream] + 1) % TAIL_MOD
        /\ got'[stream] = got[stream] + n
        /\ received'[stream] = received[stream] + 1
        /\ br'[stream] = br[stream]
        /\ (stream \in open') = (stream \in open)
    BY <1>1, <1>5, <1>7
  <2>3. slot = br[stream].bufs[SlotIndex(khead[stream])]
    BY <1>7 DEF slot
  <2>4. Path!KernelRecv(n)
    BY <1>1, <1>3, <1>4, <1>6, <1>7, <2>1, <2>2, <2>3
       DEF Path!KernelRecv, Path!Running, Path!SlotIndex, SlotIndex, Path!historyVars,
           InHandVars, InStream, PathBufs, PathQueue
  <2> QED BY <2>4 DEF Path!Next, Path!Kernel
<1>8. CASE i # stream
  <2>1. PathQueue' = PathQueue
    BY <1>1, <1>2, <1>8, PathPosted, OwnTag
  <2>2. UNCHANGED InGroup
    BY <1>1, <1>5, <1>8, OwnTag DEF InGroup
  <2>3. open' = open
    BY <1>1
  <2> QED BY <1>3, <1>6, <2>1, <2>2, <2>3, PathStutters
<1> QED BY <1>7, <1>8

\* A receive ends.
LEMMA EndSeen ==
  ASSUME LoopInv, LoopInv', ClientInv,
         NEW op \in recvs, NEW res \in {EOF, ECONNRESET, ENOBUFS}, EndOf(op, res)
  PROVE  [Path!Next]_(Path!vars)
<1> DEFINE i == op.fd
<1>1. /\ i \in Owners /\ i \in open /\ Running /\ op.buf_group = i
      /\ res = ENOBUFS <=> khead[i] = br[i].tail
      /\ KernelEnd(op, res)
      /\ open' = open \ {i}
      /\ UNCHANGED <<groupVars, readVars, loopVars, panic>>
  <2>1. i \in Owners /\ i \in open /\ op.buf_group = i /\ owner_of(op.user_data) = i
    BY RecvOps DEF ClientInv, OpenInv
  <2> QED BY <2>1 DEF EndOf, KernelEnd
<1>2. PICK cqe \in CqEntry :
        /\ cqe.user_data = RecvTag(i)
        /\ Brief(cqe) = [res |-> res, buffer |-> FALSE, bid |-> 0]
        /\ Contents(cq)' = Append(Contents(cq), cqe)
  BY <1>1, AfterEnd
<1>3. UNCHANGED InHandVars
  <2>1. phase = "completed" => Contents(cq)'[1] = Contents(cq)[1]
    BY <1>2, HeadKept
  <2> QED BY <1>1, <2>1, SameInHand DEF loopVars, readVars
<1>4. PathPanic = "none"
  BY <1>1, PanicSeen DEF Running
<1> HIDE DEF i
<1>5. UNCHANGED InStream /\ UNCHANGED InGroup
  BY <1>1 DEF InStream, InGroup, PathBufs, readVars, groupVars
<1>6. CASE i = stream
  <2>1. PathQueue' = Append(PathQueue, [res |-> res, buffer |-> FALSE, bid |-> 0])
    BY <1>2, <1>6, PathPosted
  <2>2. (stream \in open) /\ (stream \in open') = FALSE
    BY <1>1, <1>6
  <2>3. Path!KernelEnd(res)
    BY <1>1, <1>3, <1>4, <1>5, <1>6, <2>1, <2>2
       DEF Path!KernelEnd, Path!Running, Path!historyVars, Path!ENOBUFS, ENOBUFS,
           InHandVars, InStream, InGroup, PathBufs, PathQueue
  <2> QED BY <2>3 DEF Path!Next, Path!Kernel, Path!EndResults, Path!EOF, Path!ECONNRESET,
                      Path!ENOBUFS, EOF, ECONNRESET, ENOBUFS
<1>7. CASE i # stream
  <2>1. PathQueue' = PathQueue
    BY <1>1, <1>2, <1>7, PathPosted, OwnTag
  <2>2. stream \in open' <=> stream \in open
    BY <1>1, <1>7
  <2> QED BY <1>3, <1>5, <2>1, <2>2, PathStutters
<1> QED BY <1>6, <1>7

\* The oldest completion, if it is of the stream's receive, is the first that
\* the path has.
LEMMA PathHead ==
  ASSUME LoopInv, phase \in {"handle", "completed", "read"},
         Contents(cq)[1].user_data = RecvTag(stream)
  PROVE  /\ PathQueue # <<>> /\ Head(PathQueue) = Brief(Contents(cq)[1])
         /\ Tail(PathQueue) = Selected(Tail(Contents(cq)), RecvTag(stream))
<1>1. Contents(cq) \in Seq(CqEntry) /\ Contents(cq) # <<>>
  BY QueueType, AtHand
<1> QED BY <1>1, SelectedTail DEF PathQueue

LEMMA PathKept ==
  ASSUME Contents(cq)' = Contents(cq)
  PROVE  PathQueue' = PathQueue
BY DEF PathQueue, RecvTag, RECV_ID

\* The next completion is taken.
LEMMA TakeSeen ==
  ASSUME LoopInv, LoopInv', ClientInv, TakeBuffer
  PROVE  [Path!Next]_(Path!vars)
<1> DEFINE cqe == Contents(cq)[1]
           i == owner_of(cqe.user_data)
<1>1. /\ phase = "handle" /\ Running /\ kernel_buf = NoKernelBuf
      /\ panic' = IF cqe.res < 0 THEN "cqe error" ELSE LookupFailure(cqe)
      /\ panic' = "none" =>
           /\ phase' = "completed" /\ completion'.user_data = cqe.user_data
           /\ cqe.buffer =>
                kernel_buf' = [group |-> i, buf |-> get_read_buf(br[i], cqe.bid, cqe.res)]
           /\ ~cqe.buffer => kernel_buf' = NoKernelBuf
      /\ panic' # "none" => UNCHANGED <<phase, completion, kernel_buf>>
      /\ UNCHANGED <<groupVars, buf_vec, given, last, returned, cq, cqe_buf, kernelVars>>
  BY TakeEffect
<1>2. UNCHANGED InGroup /\ UNCHANGED InStream /\ open' = open /\ Contents(cq)' = Contents(cq)
  BY <1>1 DEF InGroup, InStream, PathBufs, groupVars, kernelVars
<1>3. PathQueue' = PathQueue
  BY <1>2, PathKept
<1>4. PathPhase = "reap" /\ PathPanic = "none"
      /\ PathCompletion = [res |-> 0, kernel_buf |-> [bid |-> -1]]
  BY <1>1, PhaseSeen, PanicSeen, OldestSeen DEF HandSeen, Running
<1>5. phase' \in {"handle", "completed"} /\ TagInHand' = cqe.user_data
  <2>1. phase' \in {"handle", "completed"}
    BY <1>1
  <2> QED BY <1>2, <2>1, OldestSeenNext DEF HandSeen
<1>6. panic' \in {"none", "cqe error", "zero data", "wrong slot"}
  BY <1>1 DEF LookupFailure
<1>7. CASE cqe.user_data = RecvTag(stream)
  <2>1. i = stream /\ cqe = Contents(cq)[1]
    BY <1>7, OwnTag
  <2>2. PathQueue # <<>> /\ Head(PathQueue) = Brief(cqe)
    BY <1>1, <1>7, PathHead
  <2>3. PathPanic' = panic'
    BY <1>5, <1>6, <1>7, NextSeen
  <2>4. panic' = IF cqe.res < 0 THEN "cqe error"
                 ELSE IF ~cqe.buffer THEN "none"
                 ELSE IF cqe.res = 0 THEN "zero data"
                 ELSE IF get_read_buf_panics(br[stream], cqe.bid, cqe.res) THEN "wrong slot"
                 ELSE "none"
    BY <1>1, <2>1 DEF LookupFailure, GroupOf
  <2>5. Brief(cqe).res = cqe.res /\ Brief(cqe).buffer = cqe.buffer /\ Brief(cqe).bid = cqe.bid
    BY DEF Brief
  <2>6. cqe.buffer \in BOOLEAN
    <3>1. cqe \in CqEntry
      BY <1>1, QueueType, AtHand
    <3> QED BY <3>1 DEF CqEntry
  <2>7. CASE panic' = "none"
    <3>1. PathPhase' = "completed"
      BY <1>1, <1>7, <2>7, NextSeen
    <3>2. PathCompletion' = [res |-> cqe.res, kernel_buf |-> kernel_buf'.buf]
      BY <1>2, <3>1, OldestSeenNext DEF HandSeen
    <3>3. kernel_buf'.buf = IF cqe.buffer THEN get_read_buf(br[stream], cqe.bid, cqe.res)
                            ELSE [bid |-> -1]
      BY <1>1, <2>1, <2>7 DEF NoKernelBuf
    <3> HIDE DEF cqe, i
    <3>4. /\ Path!RawEventFailure(Head(PathQueue)) = panic'
          /\ PathCompletion' = [res |-> Head(PathQueue).res,
                                kernel_buf |-> IF Head(PathQueue).buffer
                                               THEN Path!get_read_buf(br[stream], Head(PathQueue).bid,
                                                                      Head(PathQueue).res)
                                               ELSE [bid |-> -1]]
      BY <2>2, <2>4, <2>5, <2>6, <3>2, <3>3
         DEF Path!RawEventFailure, Path!get_read_buf, Path!get_read_buf_panics,
             get_read_buf, get_read_buf_panics
    <3>5. Path!FromRawEvent
      BY <1>2, <1>3, <1>4, <2>2, <2>3, <2>7, <3>1, <3>4
         DEF Path!FromRawEvent, Path!Running, Path!NoBuffer,
             Path!kernelVars, Path!historyVars, InGroup, InStream, PathBufs, PathQueue
    <3> QED BY <3>5 DEF Path!Next, Path!Loop
  <2>8. CASE panic' # "none"
    <3>1. PathPhase' = "reap"
      BY <1>1, <2>8, NextSeen
    <3>2. PathCompletion' = PathCompletion
      BY <1>4, <3>1, OldestSeenNext DEF HandSeen
    <3> HIDE DEF cqe, i
    <3>3. Path!RawEventFailure(Head(PathQueue)) = panic'
      BY <2>2, <2>4, <2>5, <2>6
         DEF Path!RawEventFailure, Path!get_read_buf_panics, get_read_buf_panics
    <3>4. Path!FromRawEvent
      BY <1>2, <1>3, <1>4, <2>2, <2>3, <2>8, <3>1, <3>2, <3>3
         DEF Path!FromRawEvent, Path!Running,
             Path!kernelVars, Path!historyVars, InGroup, InStream, PathBufs, PathQueue
    <3> QED BY <3>4 DEF Path!Next, Path!Loop
  <2> QED BY <2>7, <2>8
<1>8. CASE cqe.user_data # RecvTag(stream)
  <2>1. PathPanic' = "none"
    BY <1>5, <1>6, <1>8, NextSeen
  <2>2. PathPhase' = "reap"
    <3>1. phase' = "completed" => completion'.user_data # RecvTag(stream)
      BY <1>1, <1>8
    <3> QED BY <1>5, <3>1, NextSeen
  <2>3. PathCompletion' = PathCompletion
    BY <1>4, <2>2, OldestSeenNext DEF HandSeen
  <2> QED BY <1>2, <1>3, <1>4, <2>1, <2>2, <2>3, PathStutters DEF InHandVars
<1> QED BY <1>7, <1>8

LEMMA SeqFunction ==
  ASSUME NEW S, NEW s \in Seq(S)
  PROVE  s = [k \in 1 .. Len(s) |-> s[k]]
OBVIOUS

\* The completion in hand is handed to its stream.
LEMMA QueueSeen ==
  ASSUME LoopInv, LoopInv', ClientInv, QueueBuffer
  PROVE  [Path!Next]_(Path!vars)
<1> DEFINE cqe == Contents(cq)[1]
           data == completion.user_data
           Handed(i) ==
             /\ data = RecvTag(i)
             /\ panic' = IF cqe.res = 0 THEN "res 0" ELSE IF ~cqe.buffer THEN "no buffer" ELSE "none"
             /\ cqe.buffer => kernel_buf \in [group : {i}, buf : KernelBuffer]
             /\ ~cqe.buffer => kernel_buf = NoKernelBuf
             /\ panic' = "none" =>
                  /\ buf_vec' = [buf_vec EXCEPT ![i] =
                       Append(buf_vec[i], [group |-> kernel_buf.group,
                                           buf |-> kernel_buf.buf, claimed |-> 0])]
                  /\ kernel_buf' = NoKernelBuf
             /\ panic' # "none" => UNCHANGED <<buf_vec, kernel_buf>>
<1>1. /\ phase = "completed" /\ Running /\ data = cqe.user_data
      /\ panic' = "none" => phase' = "read"
      /\ panic' # "none" => UNCHANGED phase
      /\ panic' \in {"none", "res 0", "no buffer", "short send"}
      /\ UNCHANGED <<groupVars, given, last, returned, cq, completion, kernelVars>>
  BY QueueEffect
<1>2. \/ /\ event_of(data) = Send /\ owner_of(data) \in Owners
         /\ \A i \in Owners : data # RecvTag(i)
         /\ UNCHANGED <<buf_vec, kernel_buf>>
      \/ \E i \in Owners : Handed(i)
  BY QueueEffect
<1> HIDE DEF Handed
<1>3. UNCHANGED InGroup /\ open' = open /\ Contents(cq)' = Contents(cq)
      /\ UNCHANGED <<given, last, returned>>
  BY <1>1 DEF InGroup, groupVars, kernelVars
<1>4. PathQueue' = PathQueue
  BY <1>3, PathKept
<1>5. PathPanic = "none"
  BY <1>1, PanicSeen DEF Running
<1>6. phase' \in {"completed", "read"} /\ TagInHand' = data
  <2>1. phase' \in {"completed", "read"}
    BY <1>1
  <2> QED BY <1>1, <1>3, <2>1, OldestSeenNext DEF HandSeen
<1>7. ClientTypes /\ stream \in Owners /\ buf_vec = [k \in Owners |-> buf_vec[k]]
      /\ buf_vec[stream] \in Seq(Reader(stream))
  BY OwnTag DEF ClientInv, ClientTypes, GroupsInv
<1>8. CASE data = RecvTag(stream)
  <2>1. Handed(stream)
    BY <1>2, <1>8, OwnTag DEF Handed
  <2>2. /\ panic' = IF cqe.res = 0 THEN "res 0" ELSE IF ~cqe.buffer THEN "no buffer" ELSE "none"
        /\ cqe.buffer => kernel_buf.buf \in KernelBuffer
        /\ ~cqe.buffer => kernel_buf.buf = [bid |-> -1]
        /\ panic' # "none" => UNCHANGED <<buf_vec, kernel_buf>>
    <3>1. NoKernelBuf.buf = [bid |-> -1]
      BY DEF NoKernelBuf
    <3>2. \A k \in [group : {stream}, buf : KernelBuffer] : k.buf \in KernelBuffer
      OBVIOUS
    <3> HIDE DEF cqe, data
    <3> QED BY <2>1, <3>1, <3>2 DEF Handed
  <2>3. PathPhase = "completed" /\ PathCompletion = [res |-> cqe.res, kernel_buf |-> kernel_buf.buf]
    BY <1>1, <1>8, PhaseSeen, OldestSeen DEF HandSeen
  <2>4. kernel_buf.buf = [bid |-> -1] <=> ~cqe.buffer
    <3>1. \A b \in KernelBuffer : b.bid # -1
      BY Sizes DEF KernelBuffer, Slots
    <3>2. [bid |-> -1].bid = -1
      OBVIOUS
    <3> QED BY <2>2, <3>1, <3>2
  <2>5. PathPanic' = panic'
    <3>1. panic' \in {"none", "res 0", "no buffer"}
      BY <2>2
    <3> QED BY <1>6, <1>8, <3>1, NextSeen
  <2>6. CASE panic' = "none"
    <3>1. PathPhase' = "read"
      BY <1>1, <1>8, <2>6, NextSeen
    <3>2. PathCompletion' = [res |-> 0, kernel_buf |-> [bid |-> -1]]
      BY <3>1, OldestSeenNext DEF HandSeen
    <3>3. PathBufs' = Append(PathBufs, [buf |-> kernel_buf.buf, claimed |-> 0])
      <4> DEFINE w == [group |-> kernel_buf.group, buf |-> kernel_buf.buf, claimed |-> 0]
                 q == buf_vec[stream]
      <4>1. buf_vec' = [buf_vec EXCEPT ![stream] = Append(q, w)]
        BY <2>1, <2>6 DEF Handed
      <4>2. w.buf = kernel_buf.buf /\ w.claimed = 0
        OBVIOUS
      <4> HIDE DEF w
      <4>3. buf_vec'[stream] = Append(q, w)
        BY <1>7, <4>1
      <4>4. /\ Len(q) \in Nat /\ DOMAIN q = 1 .. Len(q) /\ DOMAIN Append(q, w) = 1 .. Len(q) + 1
            /\ Append(q, w)[Len(q) + 1] = w /\ \A k \in 1 .. Len(q) : Append(q, w)[k] = q[k]
        BY <1>7, AppendProperties
      <4> DEFINE brief == [k \in 1 .. Len(q) |-> [buf |-> q[k].buf, claimed |-> q[k].claimed]]
                 more == [k \in 1 .. Len(q) + 1 |-> [buf |-> Append(q, w)[k].buf,
                                                     claimed |-> Append(q, w)[k].claimed]]
                 b == [buf |-> kernel_buf.buf, claimed |-> 0]
      <4>5. PathBufs = brief /\ PathBufs' = more
        BY <4>3, <4>4 DEF PathBufs
      <4>6. more = Append(brief, b)
        <5> HIDE DEF q
        <5>1. Append(brief, b) = [k \in 1 .. Len(q) + 1 |-> IF k <= Len(q) THEN brief[k] ELSE b]
          <6> DEFINE all == {brief[k] : k \in 1 .. Len(q)} \cup {b}
          <6>1. brief \in [1 .. Len(q) -> all] /\ b \in all
            OBVIOUS
          <6> HIDE DEF brief, b, all
          <6>2. brief \in Seq(all)
            BY <4>4, <6>1
          <6>3. Len(brief) = Len(q)
            BY <4>4, <6>1, <6>2
          <6>4. /\ Append(brief, b) \in Seq(all) /\ Len(Append(brief, b)) = Len(q) + 1
                /\ \A k \in 1 .. Len(q) : Append(brief, b)[k] = brief[k]
                /\ Append(brief, b)[Len(q) + 1] = b
            BY <6>1, <6>2, <6>3, AppendProperties
          <6>5. Append(brief, b) = [k \in 1 .. Len(q) + 1 |-> Append(brief, b)[k]]
            BY <6>4, SeqFunction
          <6>6. \A k \in 1 .. Len(q) + 1 :
                  Append(brief, b)[k] = IF k <= Len(q) THEN brief[k] ELSE b
            BY <4>4, <6>4
          <6> QED BY <6>5, <6>6
        <5>2. ASSUME NEW k \in 1 .. Len(q) + 1
              PROVE  more[k] = IF k <= Len(q) THEN brief[k] ELSE b
          <6>1. CASE k <= Len(q)
            BY <4>4, <6>1
          <6>2. CASE ~(k <= Len(q))
            <7>1. k = Len(q) + 1
              BY <4>4, <6>2
            <7>2. Append(q, w)[k] = w
              BY <4>4, <7>1
            <7>3. more[k] = [buf |-> Append(q, w)[k].buf, claimed |-> Append(q, w)[k].claimed]
              OBVIOUS
            <7> QED BY <4>2, <6>2, <7>2, <7>3
          <6> QED BY <6>1, <6>2
        <5> QED BY <5>1, <5>2
      <4> QED BY <4>5, <4>6
    <3> HIDE DEF cqe, data
    <3>4. Path!OnCompletion
      BY <1>3, <1>4, <1>5, <2>2, <2>3, <2>4, <2>5, <2>6, <3>1, <3>2, <3>3
         DEF Path!OnCompletion, Path!Running, Path!CompletionFailure, Path!NoBuffer,
             Path!NoCompletion, Path!kernelVars, Path!historyVars, InGroup, PathBufs, PathQueue
    <3> QED BY <3>4 DEF Path!Next, Path!Loop, Path!Handler
  <2>7. CASE panic' # "none"
    <3>1. PathPhase' = "completed"
      BY <1>1, <1>8, <2>7, NextSeen
    <3>2. PathCompletion' = PathCompletion
      BY <1>3, <2>2, <2>3, <2>7, <3>1, OldestSeenNext DEF HandSeen
    <3>3. PathBufs' = PathBufs
      BY <2>2, <2>7 DEF PathBufs
    <3> HIDE DEF cqe, data
    <3>4. Path!OnCompletion
      BY <1>3, <1>4, <1>5, <2>2, <2>3, <2>4, <2>5, <2>7, <3>1, <3>2, <3>3
         DEF Path!OnCompletion, Path!Running, Path!CompletionFailure, Path!NoBuffer,
             Path!NoCompletion, Path!kernelVars, Path!historyVars, InGroup, PathBufs, PathQueue
    <3> QED BY <3>4 DEF Path!Next, Path!Loop, Path!Handler
  <2> QED BY <2>6, <2>7
<1>9. CASE data # RecvTag(stream)
  <2>1. PathPhase = "reap" /\ PathCompletion = [res |-> 0, kernel_buf |-> [bid |-> -1]]
    BY <1>1, <1>9, PhaseSeen, OldestSeen DEF HandSeen
  <2>2. PathPanic' = "none"
    BY <1>1, <1>6, <1>9, NextSeen
  <2>3. buf_vec'[stream] = buf_vec[stream]
    <3>1. CASE UNCHANGED buf_vec
      BY <3>1
    <3>2. CASE \E i \in Owners : Handed(i)
      <4>1. PICK i \in Owners : Handed(i)
        BY <3>2
      <4>2. i # stream
        BY <1>9, <4>1 DEF Handed
      <4> QED BY <1>7, <4>1, <4>2 DEF Handed
    <3> QED BY <1>2, <3>1, <3>2
  <2>4. UNCHANGED InStream
    BY <1>3, <2>3 DEF InStream, PathBufs
  <2>5. PathPhase' \in {"reap", "sent"} /\ (PathPhase' = "sent" => phase' = "read")
    BY <1>1, <1>6, <1>9, NextSeen
  <2>6. PathCompletion' = PathCompletion
    BY <2>1, <2>5, OldestSeenNext DEF HandSeen
  <2>7. CASE PathPhase' = "reap"
    BY <1>3, <1>4, <1>5, <2>1, <2>2, <2>4, <2>6, <2>7, PathStutters DEF InHandVars
  <2>8. CASE PathPhase' = "sent"
    <3>1. Path!OnSend
      BY <1>3, <1>4, <1>5, <2>1, <2>2, <2>4, <2>6, <2>8
         DEF Path!OnSend, Path!Running, Path!kernelVars, Path!historyVars, InGroup, InStream,
             PathBufs, PathQueue
    <3> QED BY <3>1 DEF Path!Next, Path!Loop
  <2> QED BY <2>5, <2>7, <2>8
<1> QED BY <1>8, <1>9

\* A stream's queue as the path has it
Queue(q) == [k \in DOMAIN q |-> [buf |-> q[k].buf, claimed |-> q[k].claimed]]

LEMMA TailFunction ==
  ASSUME NEW S, NEW s \in Seq(S), s # <<>>
  PROVE  Tail(s) = [k \in 1 .. Len(s) - 1 |-> s[k + 1]]
<1>1. /\ Tail(s) \in Seq(S) /\ Len(Tail(s)) = Len(s) - 1
      /\ \A k \in 1 .. Len(Tail(s)) : Tail(s)[k] = s[k + 1]
  BY HeadTailProperties
<1>2. Tail(s) = [k \in 1 .. Len(Tail(s)) |-> Tail(s)[k]]
  BY <1>1, SeqFunction
<1> QED BY <1>1, <1>2

LEMMA QueueFirst ==
  ASSUME NEW S, NEW q \in Seq(S), q # <<>>
  PROVE  /\ Queue(q) # <<>> /\ Head(Queue(q)) = [buf |-> q[1].buf, claimed |-> q[1].claimed]
         /\ Queue(q)[1] = Head(Queue(q)) /\ 1 \in DOMAIN Queue(q)
         /\ Queue(Tail(q)) = Tail(Queue(q))
<1> DEFINE b(k) == [buf |-> q[k].buf, claimed |-> q[k].claimed]
           all == {b(k) : k \in 1 .. Len(q)}
<1>1. Len(q) \in Nat /\ Len(q) >= 1 /\ DOMAIN q = 1 .. Len(q)
  BY EmptySeq
<1>2. Queue(q) = [k \in 1 .. Len(q) |-> b(k)]
  BY <1>1 DEF Queue
<1>3. \A k \in 1 .. Len(q) : b(k) \in all
  OBVIOUS
<1>4. Tail(q) = [k \in 1 .. Len(q) - 1 |-> q[k + 1]]
  BY TailFunction
<1>5. Queue(Tail(q)) = [k \in 1 .. Len(q) - 1 |-> b(k + 1)]
  <2>1. DOMAIN Tail(q) = 1 .. Len(q) - 1 /\ \A k \in 1 .. Len(q) - 1 : Tail(q)[k] = q[k + 1]
    BY <1>4
  <2> QED BY <2>1 DEF Queue
<1> HIDE DEF b, all
<1>6. Queue(q) \in Seq(all) /\ Len(Queue(q)) = Len(q) /\ \A k \in 1 .. Len(q) : Queue(q)[k] = b(k)
  <2>1. \A k \in 1 .. Len(q) : Queue(q)[k] = b(k)
    BY <1>2
  <2>2. Queue(q) \in [1 .. Len(q) -> all]
    BY <1>2, <1>3
  <2>3. Queue(q) \in Seq(all)
    BY <1>1, <2>2
  <2> QED BY <1>1, <2>1, <2>2, <2>3
<1>7. Queue(q) # <<>> /\ Head(Queue(q)) = Queue(q)[1] /\ Queue(q)[1] = b(1) /\ 1 \in DOMAIN Queue(q)
  BY <1>1, <1>6
<1>8. Tail(Queue(q)) = [k \in 1 .. Len(q) - 1 |-> b(k + 1)]
  <2>1. Tail(Queue(q)) = [k \in 1 .. Len(q) - 1 |-> Queue(q)[k + 1]]
    BY <1>6, <1>7, TailFunction
  <2>2. \A k \in 1 .. Len(q) - 1 : Queue(q)[k + 1] = b(k + 1)
    BY <1>1, <1>6
  <2> QED BY <2>1, <2>2
<1> QED BY <1>5, <1>7, <1>8 DEF b

LEMMA QueueChanged ==
  ASSUME NEW S, NEW q \in Seq(S), q # <<>>, NEW w
  PROVE  Queue([q EXCEPT ![1] = w]) =
           [Queue(q) EXCEPT ![1] = [buf |-> w.buf, claimed |-> w.claimed]]
<1>1. 1 \in DOMAIN q
  BY EmptySeq
<1>2. /\ DOMAIN [q EXCEPT ![1] = w] = DOMAIN q
      /\ \A k \in DOMAIN q : [q EXCEPT ![1] = w][k] = IF k = 1 THEN w ELSE q[k]
  BY <1>1
<1> QED BY <1>1, <1>2 DEF Queue

\* The stream reads.
LEMMA ReadSeenOwn ==
  ASSUME LoopInv, LoopInv', ClientInv, NEW n \in 1 .. READ_LEN, Read(n),
         owner_of(completion.user_data) = stream
  PROVE  Path!Read(n)
<1> DEFINE q == buf_vec[stream]
           v == q[1]
           remaining == v.buf.data_len - v.claimed
           bytes == Min2(n, remaining)
           b == [buf |-> v.buf, claimed |-> v.claimed]
<1>1. /\ stream \in Owners /\ q # <<>> /\ phase = "read" /\ Running
      /\ bytes \in 1 .. BUF_SIZE /\ bytes <= remaining /\ remaining \in Nat
      /\ last' = [last EXCEPT ![stream] =
                    [first |-> mem[stream][v.buf.addr].start + v.claimed, len |-> bytes]]
      /\ given' = [given EXCEPT ![stream] = @ + bytes]
      /\ bytes = remaining =>
           /\ buf_vec' = [buf_vec EXCEPT ![stream] = Tail(@)]
           /\ br' = [br EXCEPT ![stream] = buf_ring_add_advance(@, v.buf)]
           /\ returned' = [returned EXCEPT ![stream] = @ + 1]
      /\ bytes # remaining =>
           /\ buf_vec' = [buf_vec EXCEPT ![stream] =
                [q EXCEPT ![1] = [v EXCEPT !.claimed = v.claimed + bytes]]]
           /\ UNCHANGED <<br, returned>>
      /\ UNCHANGED <<vars, khead, mem, got, received, kernel_buf>>
  BY ReadTakes
<1>2. /\ q \in Seq(Reader(stream)) /\ v \in Reader(stream)
      /\ v.claimed \in Nat /\ v.buf.data_len \in 1 .. BUF_SIZE
  BY <1>1, ReaderAtHead DEF ClientInv
<1> HIDE DEF q
<1>3. /\ buf_vec = [k \in Owners |-> buf_vec[k]] /\ br \in [Owners -> Ring]
      /\ returned \in [Owners -> Nat] /\ given \in [Owners -> Nat]
      /\ last \in [Owners -> [first : Nat, len : 0 .. BUF_SIZE]]
  BY DEF ClientInv, ClientTypes
<1>4. /\ PathBufs = Queue(q) /\ PathBufs' = Queue(buf_vec'[stream])
      /\ PathBufs # <<>> /\ Head(PathBufs) = b /\ PathBufs[1] = b /\ 1 \in DOMAIN PathBufs
      /\ Queue(Tail(q)) = Tail(PathBufs)
  BY <1>1, <1>2, QueueFirst DEF PathBufs, Queue, q
<1>5. /\ last'[stream] = [first |-> mem[stream][v.buf.addr].start + v.claimed, len |-> bytes]
      /\ given'[stream] = given[stream] + bytes
  <2> HIDE DEF v, bytes
  <2> QED BY <1>1, <1>3
<1>6. ASSUME bytes = remaining
      PROVE  /\ PathBufs' = Tail(PathBufs)
             /\ br'[stream] = buf_ring_add_advance(br[stream], v.buf)
             /\ returned'[stream] = returned[stream] + 1
  <2>1. buf_vec'[stream] = Tail(q)
    BY <1>1, <1>3, <1>6 DEF q
  <2>2. br'[stream] = buf_ring_add_advance(br[stream], v.buf)
        /\ returned'[stream] = returned[stream] + 1
    <3> HIDE DEF v, bytes, remaining
    <3> QED BY <1>1, <1>3, <1>6
  <2> QED BY <1>4, <2>1, <2>2
<1>7. ASSUME bytes # remaining
      PROVE  /\ PathBufs' = [PathBufs EXCEPT ![1] = [buf |-> v.buf, claimed |-> v.claimed + bytes]]
             /\ br'[stream] = br[stream] /\ returned'[stream] = returned[stream]
  <2> DEFINE w == [v EXCEPT !.claimed = v.claimed + bytes]
  <2>1. buf_vec'[stream] = [q EXCEPT ![1] = w]
    <3>1. buf_vec' = [buf_vec EXCEPT ![stream] = [q EXCEPT ![1] = w]]
      BY <1>1, <1>7
    <3> HIDE DEF w
    <3> QED BY <1>1, <1>3, <3>1
  <2>2. w.buf = v.buf /\ w.claimed = v.claimed + bytes
    <3> HIDE DEF bytes, v
    <3> QED BY <1>2 DEF Reader
  <2> HIDE DEF w
  <2>3. Queue([q EXCEPT ![1] = w]) =
          [Queue(q) EXCEPT ![1] = [buf |-> w.buf, claimed |-> w.claimed]]
    <3>1. q \in Seq(Reader(stream)) /\ q # <<>>
      BY <1>1, <1>2
    <3> QED BY <3>1, QueueChanged
  <2>4. br'[stream] = br[stream] /\ returned'[stream] = returned[stream]
    BY <1>1, <1>7
  <2> QED BY <1>4, <2>1, <2>2, <2>3, <2>4
<1>8. UNCHANGED InHandVars /\ PathPanic' = "none" /\ PathPhase \in {"read", "sent"}
  <2>1. UNCHANGED <<phase, completion, panic, cq, cqe_buf>> /\ PathPanic' = PathPanic
    BY <1>1 DEF vars, loopVars, PathPanic, TagInHand
  <2>2. Contents(cq)' = Contents(cq)
    BY <2>1
  <2>3. UNCHANGED InHandVars
    BY <1>1, <2>1, <2>2, SameInHand
  <2>4. PathPhase \in {"read", "sent"}
    BY <1>1, PhaseSeen
  <2> QED BY <1>1, <2>1, <2>3, <2>4, PanicSeen DEF Running
<1>9. /\ PathQueue' = PathQueue /\ UNCHANGED <<khead[stream], mem[stream], got[stream], received[stream]>>
      /\ open' = open
  <2>1. cq' = cq /\ open' = open
    BY <1>1 DEF vars, kernelVars
  <2> QED BY <1>1, <2>1, PathKept
<1>10. /\ Path!Remaining(b) = remaining /\ Path!Min2(n, remaining) = bytes
       /\ Path!ReadFailure(b, bytes) = "none"
  <2>1. Path!Remaining(b) = remaining
    BY DEF Path!Remaining
  <2>2. Path!Min2(n, remaining) = bytes
    BY DEF Path!Min2, Min2
  <2>3. remaining > 0 /\ bytes > 0 /\ b.claimed + bytes <= b.buf.data_len
    <3> HIDE DEF v, bytes
    <3> QED BY <1>1, <1>2, Sizes
  <2>4. ~(remaining <= 0 \/ bytes <= 0) /\ ~(b.claimed + bytes > b.buf.data_len)
    <3> HIDE DEF v, bytes
    <3> QED BY <1>1, <1>2, <2>3, Sizes
  <2> QED BY <2>1, <2>2, <2>4 DEF Path!ReadFailure
<1>11. Path!buf_ring_add_advance(br[stream], v.buf) = buf_ring_add_advance(br[stream], v.buf)
  BY DEF Path!buf_ring_add_advance, Path!io_uring_buf_ring_add, Path!io_uring_buf_ring_advance,
         Path!SlotIndex, buf_ring_add_advance, io_uring_buf_ring_add, io_uring_buf_ring_advance,
         SlotIndex
<1>12. [PathBufs EXCEPT ![1].claimed = @ + bytes] =
         [PathBufs EXCEPT ![1] = [buf |-> v.buf, claimed |-> v.claimed + bytes]]
  <2>1. [PathBufs EXCEPT ![1].claimed = @ + bytes] =
          [PathBufs EXCEPT ![1] = [PathBufs[1] EXCEPT !.claimed = PathBufs[1].claimed + bytes]]
    OBVIOUS
  <2>2. [b EXCEPT !.claimed = b.claimed + bytes] = [buf |-> v.buf, claimed |-> v.claimed + bytes]
    <3> HIDE DEF v, bytes
    <3> QED OBVIOUS
  <2> HIDE DEF v, bytes, b
  <2> QED BY <1>4, <2>1, <2>2
<1>13. b.buf = v.buf /\ b.claimed = v.claimed
  OBVIOUS
<1> HIDE DEF b, bytes, remaining, v
<1>14. CASE bytes = remaining
  BY <1>4, <1>5, <1>6, <1>8, <1>9, <1>10, <1>11, <1>13, <1>14
     DEF Path!Read, Path!Running, Path!kernelVars, InHandVars, PathBufs, PathQueue
<1>15. CASE bytes # remaining
  <2>1. PathPanic = "none" /\ PathPanic' = Path!ReadFailure(Head(PathBufs), bytes)
    BY <1>4, <1>8, <1>10 DEF InHandVars
  <2>2. Path!Min2(n, Path!Remaining(Head(PathBufs))) = bytes /\ bytes # Path!Remaining(Head(PathBufs))
    BY <1>4, <1>10, <1>15
  <2>3. /\ last'[stream] = [first |-> mem[stream][Head(PathBufs).buf.addr].start
                                       + Head(PathBufs).claimed, len |-> bytes]
        /\ given'[stream] = given[stream] + bytes
        /\ br'[stream] = br[stream] /\ returned'[stream] = returned[stream]
    BY <1>4, <1>5, <1>7, <1>13, <1>15
  <2>4. PathBufs' = [PathBufs EXCEPT ![1].claimed = @ + bytes]
    BY <1>7, <1>12, <1>15
  <2> QED BY <1>4, <1>8, <1>9, <2>1, <2>2, <2>3, <2>4
          DEF Path!Read, Path!Running, Path!kernelVars, InHandVars, PathBufs, PathQueue
<1> QED BY <1>14, <1>15

LEMMA ReadSeen ==
  ASSUME LoopInv, LoopInv', ClientInv, NEW n \in 1 .. READ_LEN, Read(n)
  PROVE  [Path!Next]_(Path!vars)
<1> DEFINE i == owner_of(completion.user_data)
<1>1. CASE i = stream
  BY <1>1, ReadSeenOwn DEF Path!Next, Path!Loop, Path!Handler
<1>2. CASE i # stream
  <2>1. /\ i \in Owners /\ phase = "read" /\ Running
        /\ UNCHANGED <<vars, khead, mem, got, received, kernel_buf>>
        /\ \E x : last' = [last EXCEPT ![i] = x]
        /\ \E x : given' = [given EXCEPT ![i] = x]
        /\ \E x : buf_vec' = [buf_vec EXCEPT ![i] = x]
        /\ br' = br \/ \E x : br' = [br EXCEPT ![i] = x]
        /\ returned' = returned \/ \E x : returned' = [returned EXCEPT ![i] = x]
    BY ReadTakes
  <2> HIDE DEF i
  <2>2. /\ buf_vec = [k \in Owners |-> buf_vec[k]] /\ br \in [Owners -> Ring]
        /\ returned \in [Owners -> Nat] /\ given \in [Owners -> Nat]
        /\ last \in [Owners -> [first : Nat, len : 0 .. BUF_SIZE]] /\ stream \in Owners
    BY OwnTag DEF ClientInv, ClientTypes
  <2>3. UNCHANGED <<br[stream], buf_vec[stream], given[stream], last[stream], returned[stream]>>
    BY <1>2, <2>1, <2>2
  <2>4. UNCHANGED InGroup /\ UNCHANGED InStream
    BY <2>1, <2>3 DEF InGroup, InStream, PathBufs
  <2>5. UNCHANGED <<phase, completion, panic, cq, open, kernel_buf>>
    BY <2>1 DEF vars, loopVars, kernelVars
  <2>6. UNCHANGED InHandVars /\ PathQueue' = PathQueue
    BY <2>1, <2>5, SameInHand, PathKept
  <2> QED BY <2>4, <2>5, <2>6, PathStutters
<1> QED BY <1>1, <1>2

\* The loop releases the completion in hand.
LEMMA ReleaseSeen ==
  ASSUME LoopInv, LoopInv', ClientInv, CqAdvance, UNCHANGED <<groupVars, readVars>>
  PROVE  [Path!Next]_(Path!vars)
<1> DEFINE data == completion.user_data
<1>1. /\ Contents(cq) \in Seq(CqEntry) /\ Contents(cq) # <<>>
      /\ Contents(cq)' = Tail(Contents(cq)) /\ data = Contents(cq)[1].user_data
  BY QueueType, AfterRelease, AtHand DEF CqAdvance
<1>2. /\ phase = "read" /\ phase' \in {"top", "handle"} /\ panic = "none" /\ panic' = "none"
      /\ open' = open
  BY DEF CqAdvance, Running, kernelVars
<1>3. PathPanic = "none" /\ PathPanic' = "none" /\ PathPhase' = "reap"
  BY <1>2, PanicSeen, NextSeen
<1>4. PathPhase = IF data = RecvTag(stream) THEN "read"
                  ELSE IF owner_of(data) = stream THEN "sent" ELSE "reap"
  BY <1>2, PhaseSeen
<1>5. PathCompletion' = PathCompletion
  BY <1>3, <1>4, OldestSeen, OldestSeenNext DEF HandSeen
<1>6. UNCHANGED InGroup /\ UNCHANGED InStream
  BY DEF InGroup, InStream, PathBufs, groupVars, readVars
<1>7. PathQueue' = Selected(Tail(Contents(cq)), RecvTag(stream))
  BY <1>1 DEF PathQueue, RecvTag, RECV_ID
<1>8. PathQueue' = IF data = RecvTag(stream) THEN Tail(PathQueue) ELSE PathQueue
  BY <1>1, <1>7, SelectedTail DEF PathQueue
<1> HIDE DEF data
<1>9. CASE data = RecvTag(stream) \/ owner_of(data) = stream
  <2>1. Path!CqAdvance
    BY <1>2, <1>3, <1>4, <1>5, <1>6, <1>8, <1>9, OwnTag
       DEF Path!CqAdvance, Path!Running, Path!kernelVars, Path!historyVars, InGroup, InStream,
           PathBufs, PathQueue
  <2> QED BY <2>1 DEF Path!Next, Path!Loop, Path!Handler
<1>10. CASE ~(data = RecvTag(stream) \/ owner_of(data) = stream)
  BY <1>2, <1>3, <1>4, <1>5, <1>6, <1>8, <1>10, PathStutters DEF InHandVars
<1> QED BY <1>9, <1>10

\* A frame of the stream is refused, or a ping.
LEMMA ErrorSeen ==
  ASSUME LoopInv, LoopInv', ClientInv, ProtocolError, UNCHANGED <<groupVars, readVars>>
  PROVE  [Path!Next]_(Path!vars)
<1> DEFINE data == completion.user_data
<1>1. /\ phase \in {"ping", "read"} /\ panic = "none" /\ panic' = "protocol"
      /\ UNCHANGED <<phase, completion, cq, open>>
  BY DEF ProtocolError, Running, loopVars, kernelVars
<1>2. PathPanic = "none" /\ PathPhase' = PathPhase /\ PathPhase # "completed"
  BY <1>1, PanicSeen DEF PathPhase
<1>3. PathPanic' = IF phase = "read" /\ owner_of(data) = stream THEN "bad frame" ELSE "none"
  <2>1. phase = "read" => TagInHand' = data
    BY <1>1 DEF TagInHand
  <2> QED BY <1>1, <2>1, NextSeen
<1>4. PathCompletion' = PathCompletion
  BY <1>2, OldestSeen, OldestSeenNext DEF HandSeen
<1>5. UNCHANGED InGroup /\ UNCHANGED InStream /\ PathQueue' = PathQueue
  BY <1>1, PathKept DEF InGroup, InStream, PathBufs, groupVars, readVars
<1>6. CASE phase = "read" /\ owner_of(data) = stream
  <2>1. PathPhase \in {"read", "sent"}
    BY <1>6, PhaseSeen
  <2> HIDE DEF data
  <2>2. Path!DecoderError
    BY <1>1, <1>2, <1>3, <1>4, <1>5, <1>6, <2>1
       DEF Path!DecoderError, Path!Running, Path!kernelVars, Path!historyVars, InGroup, InStream,
           PathBufs, PathQueue
  <2> QED BY <2>2 DEF Path!Next, Path!Loop, Path!Handler
<1>7. CASE ~(phase = "read" /\ owner_of(data) = stream)
  BY <1>1, <1>2, <1>3, <1>4, <1>5, <1>7, PathStutters DEF InHandVars
<1> QED BY <1>6, <1>7

\* A send ends, or the loop is between two completions.
LEMMA RestSeen ==
  ASSUME LoopInv, LoopInv', ClientInv, Outgoing \/ Between, UNCHANGED <<groupVars, readVars>>
  PROVE  [Path!Next]_(Path!vars)
<1>1. UNCHANGED InGroup /\ UNCHANGED InStream
  BY DEF InGroup, InStream, PathBufs, groupVars, readVars
<1>2. CASE Outgoing
  <2>1. UNCHANGED <<phase, completion, panic, open>> /\ Running
    BY <1>2 DEF Outgoing, KernelSend, KernelFlush, loopVars, kernelVars
  <2>2. PathQueue' = PathQueue /\ (phase = "completed" => Contents(cq)'[1] = Contents(cq)[1])
    <3>1. CASE KernelFlush
      BY <3>1, AfterFlushing, PathKept
    <3>2. CASE \E op \in sends, res \in {EPIPE} \cup 0 .. SEND_LEN : KernelSend(op, res)
      <4>1. PICK cqe \in CqEntry :
              /\ \A i \in Owners : cqe.user_data # RecvTag(i)
              /\ Contents(cq)' = Append(Contents(cq), cqe)
        BY <3>2, AfterSend
      <4> QED BY <4>1, OwnTag, PathPosted, HeadKept
    <3> QED BY <1>2, <3>1, <3>2 DEF Outgoing
  <2>3. kernel_buf' = kernel_buf
    BY DEF readVars
  <2>4. UNCHANGED InHandVars
    BY <2>1, <2>2, <2>3, SameInHand
  <2> QED BY <1>1, <2>1, <2>2, <2>4, PathStutters
<1>3. CASE Between
  <2>1. /\ phase \notin {"completed", "read"} /\ phase' \notin {"completed", "read"}
        /\ panic = "none" /\ panic' \in {"none", "sq overflow", "syscall"}
    BY <1>3 DEF Between, Arm, Top, Write, SkipWrite, Submit, SyscallFails, Peek, Wait, Advance,
                Running, loopVars
  <2>2. Contents(cq)' = Contents(cq) /\ open' = open
    BY <1>3, AfterOthers
  <2>3. /\ PathPhase = "reap" /\ PathPhase' = "reap" /\ PathPanic = "none" /\ PathPanic' = "none"
    BY <2>1, PhaseSeen, PanicSeen, NextSeen
  <2>4. PathCompletion' = PathCompletion
    BY <2>3, OldestSeen, OldestSeenNext DEF HandSeen
  <2> QED BY <1>1, <2>2, <2>3, <2>4, PathKept, PathStutters DEF InHandVars
<1> QED BY <1>2, <1>3


-----------------------------------------------------------------------------
(***************************************************************************)
(* The receive path of the stream is RecvPath.                             *)
(***************************************************************************)
LEMMA PathStep ==
  ASSUME LoopInv, ClientInv, [ClientNext]_clientVars
  PROVE  [Path!Next]_(Path!vars)
<1>1. LoopInv'
  BY ClientStep
<1>2. CASE \E op \in recvs, n \in 1 .. BUF_SIZE : RecvInto(op, n)
  BY <1>1, <1>2, ReceiveSeen
<1>3. CASE \E op \in recvs, res \in {EOF, ECONNRESET, ENOBUFS} : EndOf(op, res)
  BY <1>1, <1>3, EndSeen
<1>4. CASE TakeBuffer
  BY <1>1, <1>4, TakeSeen
<1>5. CASE QueueBuffer
  BY <1>1, <1>5, QueueSeen
<1>6. CASE \E n \in 1 .. READ_LEN : Read(n)
  BY <1>1, <1>6, ReadSeen
<1>7. CASE Elsewhere
  BY <1>1, <1>7, RestSeen, ReleaseSeen, ErrorSeen DEF Elsewhere
<1>8. CASE UNCHANGED clientVars
  <2>1. UNCHANGED InGroup /\ UNCHANGED InStream /\ open' = open /\ Contents(cq)' = Contents(cq)
    BY <1>8 DEF clientVars, vars, kernelVars, groupVars, readVars, InGroup, InStream, PathBufs
  <2>2. UNCHANGED InHandVars
    BY <1>8 DEF clientVars, vars, loopVars, readVars, InHandVars, PathPhase, PathCompletion,
                PathPanic, TagInHand
  <2> QED BY <2>1, <2>2, PathKept, PathStutters
<1> QED BY <1>2, <1>3, <1>4, <1>5, <1>6, <1>7, <1>8 DEF ClientNext

LEMMA PathInit ==
  ASSUME ClientInit
  PROVE  Path!Init
<1>1. stream \in Owners /\ LoopInv /\ phase = "arm" /\ panic = "none" /\ open = Owners
  BY OwnTag, InitClient DEF ClientInit, Init
<1>2. PathQueue = <<>>
  <2>1. Contents(cq) \in Seq(CqEntry) /\ Contents(cq) = <<>>
    <3>1. Ready(cq) = 0 /\ cq.overflow = <<>>
      BY CqSizes DEF ClientInit, Init, EmptyCq, Ready
    <3>2. Len(Contents(cq)) = 0 /\ Contents(cq) \in Seq(CqEntry)
      BY <1>1, <3>1, QueueType, ContentsType
    <3> QED BY <3>2
  <2>2. PICK sel : Selects(sel, Contents(cq), RecvTag(stream))
    BY <2>1, SelectsExists
  <2>3. Steps(sel, Contents(cq), RecvTag(stream))
    BY <2>1, <2>2, SelectsSteps
  <2>4. PathQueue = sel[Len(Contents(cq))]
    BY <2>1, <2>3, SelectedBy DEF PathQueue
  <2> QED BY <2>1, <2>3, <2>4 DEF Steps
<1>3. PathPhase = "reap" /\ PathPanic = "none" /\ PathCompletion = [res |-> 0, kernel_buf |-> [bid |-> -1]]
  BY <1>1, PhaseSeen, PanicSeen, OldestSeen DEF HandSeen
<1>4. PathBufs = <<>>
  BY <1>1 DEF ClientInit, PathBufs
<1>5. /\ br[stream] = new_buffer_group /\ khead[stream] = 0
      /\ mem[stream] = [a \in Slots |-> [start |-> 0, len |-> 0]]
      /\ got[stream] = 0 /\ given[stream] = 0 /\ last[stream] = [first |-> 0, len |-> 0]
      /\ received[stream] = 0 /\ returned[stream] = 0 /\ stream \in open
  BY <1>1 DEF ClientInit
<1>6. Path!new_buffer_group = new_buffer_group /\ Path!Slots = Slots
  BY DEF Path!new_buffer_group, Path!io_uring_buf_ring_advance, Path!Slots, new_buffer_group,
         io_uring_buf_ring_advance, Slots
<1> QED BY <1>2, <1>3, <1>4, <1>5, <1>6
        DEF Path!Init, Path!NoCompletion, Path!NoBuffer, PathQueue, PathBufs

\* The receive path of any stream of the client is RecvPath.
THEOREM ImplementsPath == ClientSpec => EachPath
<1>1. LoopInv /\ ClientInv /\ [ClientNext]_clientVars => [Path!Next]_(Path!vars)
  BY PathStep
<1> QED BY <1>1, PathInit, ClientInductive, PTL DEF ClientSpec, EachPath, Path!Spec

\* The assumptions of RecvPath hold of the client's constants.
LEMMA PathAssumptions == P!RingAssumption /\ P!ReadAssumption
<1>1. P!RingAssumption
  BY RingAssumption DEF P!RingAssumption, RingAssumption
<1>2. MAX_RECVS * BUF_SIZE \in Nat
  BY LoopSizes, Sizes
<1> QED BY <1>1, <1>2, ClientAssumption DEF P!ReadAssumption

LEMMA PathSpec == ClientSpec => P!Spec
BY ImplementsPath, SamePath, PTL DEF EachPath, Path!Spec, P!Spec

\* So what is proved of RecvPath holds of every stream of the client, whatever
\* the others do: its buffers have one owner each, its slots keep their buffers,
\* nothing is written under its readers, and its decoder sees the stream.
THEOREM EachStreamSound ==
  ClientSpec => []P!OneOwner /\ []P!SlotIdentity /\ P!HeldBytesStable /\ P!StreamSpec
<1>1. P!Spec => []P!OneOwner
  BY PathAssumptions, P!OwnedOnce
<1>2. P!Spec => []P!SlotIdentity
  BY PathAssumptions, P!SlotsKeepIdentity
<1>3. P!Spec => P!HeldBytesStable
  BY PathAssumptions, P!HeldUndisturbed
<1>4. P!Spec => P!StreamSpec
  BY PathAssumptions, P!ImplementsStream
<1> QED BY <1>1, <1>2, <1>3, <1>4, PathSpec

\* No lookup of a buffer of any stream fails: RecvPath's own theorem, of the
\* stream's path.
THEOREM NoLookupFails == ClientSpec => []LookupsSucceed
<1>1. ClientSpec => P!Spec
  BY PathSpec
<1>2. P!Spec => []P!NoInternalPanic
  BY PathAssumptions, P!NoAssertionFails
<1>3. P!NoInternalPanic => LookupsSucceed
  BY DEF P!NoInternalPanic, LookupsSucceed, LookupFailures, PathPanic
<1> QED BY <1>1, <1>2, <1>3, PTL
=============================================================================
