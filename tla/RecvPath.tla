------------------------------ MODULE RecvPath ------------------------------
(***************************************************************************)
(* The receive path of one connection: the multishot receive that the      *)
(* kernel serves from the connection's buffer group, the completion queue, *)
(* and the event loop that turns a completion into a KernelBuffer, queues  *)
(* it on the stream and lets the frame decoder read it until it is drained *)
(* and dropped back into the ring.                                         *)
(*                                                                         *)
(* Buffer group and connection are one to one (the loop uses owner_id as   *)
(* the group's id), so the other connections do not appear; nor do the     *)
(* connection's sends, except that the decoder also reads when one of them *)
(* has completed.  The kernel runs at any moment: with kernel_thread =     *)
(* false it really runs only inside the loop's system calls, with SQPOLL   *)
(* at any time.                                                            *)
(***************************************************************************)
EXTENDS BufRing

CONSTANTS
  READ_LEN,   \* longest slice the decoder passes to read
  MAX_BYTES   \* bound: bytes the peer sends

ASSUME ReadAssumption == READ_LEN \in Nat \ {0} /\ MAX_BYTES \in Nat

VARIABLES
  br,          \* the buffer ring, shared with the kernel
  khead,       \* the kernel's u16 head of that ring
  mem,         \* what each buffer holds: a run of the stream's bytes
  armed,       \* the multishot receive is still in the kernel
  cq,          \* its completions, the oldest first
  phase,       \* where the loop is with the head of cq, or with a send's
  completion,  \* the Completion being handled
  buf_vec,     \* KernelBufferVecReader: the queued KernelBufferReaders
  panic,       \* the assertion or panic! that stopped the program, or "none"
  got,         \* bytes taken in by the kernel
  given,       \* history: bytes handed to the decoder
  last,        \* history: the slice handed over last
  received,    \* history: buffers filled by the kernel
  returned     \* history: buffers dropped by the program

kernelVars == <<khead, mem, armed, got, received>>
historyVars == <<given, last, returned>>
vars == <<br, kernelVars, cq, phase, completion, buf_vec, panic, historyVars>>

EOF == 0
ECONNRESET == -104
ENOBUFS == -105
EndResults == {EOF, ECONNRESET, ENOBUFS}

NoBuffer == [bid |-> -1]  \* kernel_buf is None
NoCompletion == [res |-> 0, kernel_buf |-> NoBuffer]

Phases == {"reap", "completed", "read", "sent"}
Panics == {"cqe error", "zero data", "wrong slot", "res 0", "no buffer",
           "nothing remaining", "overclaimed", "bad frame"}

Min2(a, b) == IF a <= b THEN a ELSE b

Remaining(reader) == reader.buf.data_len - reader.claimed

-----------------------------------------------------------------------------
Init ==
  /\ br = new_buffer_group
  /\ khead = 0
  /\ mem = [a \in Slots |-> [start |-> 0, len |-> 0]]
  /\ armed = TRUE
  /\ cq = <<>>
  /\ phase = "reap"
  /\ completion = NoCompletion
  /\ buf_vec = <<>>
  /\ panic = "none"
  /\ got = 0 /\ given = 0
  /\ last = [first |-> 0, len |-> 0]
  /\ received = 0 /\ returned = 0

Running == panic = "none"

(***************************************************************************)
(* The kernel (external).                                                  *)
(***************************************************************************)

\* n bytes arrive, go to the buffer at the ring's head, and are announced.
KernelRecv(n) ==
  /\ Running /\ armed
  /\ khead # br.tail
  /\ got + n <= MAX_BYTES
  /\ LET slot == br.bufs[SlotIndex(khead)] IN
       /\ n <= slot.len
       /\ mem' = [mem EXCEPT ![slot.addr] = [start |-> got, len |-> n]]
       /\ cq' = Append(cq, [res |-> n, buffer |-> TRUE, bid |-> slot.bid])
  /\ khead' = (khead + 1) % TAIL_MOD
  /\ got' = got + n
  /\ received' = received + 1
  /\ UNCHANGED <<br, armed, phase, completion, buf_vec, panic, historyVars>>

\* The receive ends for good: the peer closes or resets the connection, or
\* something arrives (data or the end) and the ring has no buffer for it.
KernelEnd(res) ==
  /\ Running /\ armed
  /\ res = ENOBUFS <=> khead = br.tail
  /\ armed' = FALSE
  /\ cq' = Append(cq, [res |-> res, buffer |-> FALSE, bid |-> 0])
  /\ UNCHANGED <<br, khead, mem, phase, completion, buf_vec, panic, got,
                 received, historyVars>>

(***************************************************************************)
(* The event loop.                                                         *)
(***************************************************************************)

\* The panic! or assertion of Completion::from_raw_event that cqe fails.  The
\* one on IORING_CQE_F_BUF_MORE is left out: the rings are set up without
\* incremental buffers, and the kernel sets that flag for no other.
RawEventFailure(cqe) ==
  IF cqe.res < 0 THEN "cqe error"
  ELSE IF ~cqe.buffer THEN "none"
  ELSE IF cqe.res = 0 THEN "zero data"
  ELSE IF get_read_buf_panics(br, cqe.bid, cqe.res) THEN "wrong slot"
  ELSE "none"

\* A completion of one of the connection's sends is handled.
OnSend ==
  /\ Running /\ phase = "reap"
  /\ phase' = "sent"
  /\ UNCHANGED <<br, kernelVars, cq, completion, buf_vec, panic, historyVars>>

\* Completion::from_raw_event on the head of the completion queue
FromRawEvent ==
  /\ Running /\ phase = "reap" /\ cq # <<>>
  /\ LET cqe == Head(cq) IN
       /\ panic' = RawEventFailure(cqe)
       /\ IF panic' = "none"
          THEN /\ completion' =
                    [res |-> cqe.res,
                     kernel_buf |-> IF cqe.buffer
                                    THEN get_read_buf(br, cqe.bid, cqe.res)
                                    ELSE NoBuffer]
               /\ phase' = "completed"
          ELSE UNCHANGED <<phase, completion>>
  /\ UNCHANGED <<br, kernelVars, cq, buf_vec, historyVars>>

\* The assertion of TcpStream::on_completion that the completion fails
CompletionFailure ==
  IF completion.res = 0 THEN "res 0"
  ELSE IF completion.kernel_buf = NoBuffer THEN "no buffer"
  ELSE "none"

\* Faulty variant: the buffer is queued and given back to the kernel at once.
OnCompletionReturning ==
  /\ Running /\ phase = "completed"
  /\ panic' = CompletionFailure
  /\ IF panic' = "none"
     THEN /\ buf_vec' = Append(buf_vec, [buf |-> completion.kernel_buf, claimed |-> 0])
          /\ br' = buf_ring_add_advance(br, completion.kernel_buf)
          /\ completion' = NoCompletion
          /\ phase' = "read"
     ELSE UNCHANGED <<br, phase, completion, buf_vec>>
  /\ UNCHANGED <<kernelVars, cq, historyVars>>

\* TcpStream::on_completion, the MultishortRecv arm: the buffer moves from
\* the completion to the tail of the stream's queue.
OnCompletion ==
  /\ Running /\ phase = "completed"
  /\ panic' = CompletionFailure
  /\ IF panic' = "none"
     THEN /\ buf_vec' = Append(buf_vec, [buf |-> completion.kernel_buf, claimed |-> 0])
          /\ completion' = NoCompletion
          /\ phase' = "read"
     ELSE UNCHANGED <<phase, completion, buf_vec>>
  /\ UNCHANGED <<br, kernelVars, cq, historyVars>>

\* The assertion that taking bytes bytes out of reader fails
ReadFailure(reader, bytes) ==
  IF Remaining(reader) <= 0 \/ bytes <= 0 THEN "nothing remaining"
  ELSE IF reader.claimed + bytes > reader.buf.data_len THEN "overclaimed"
  ELSE "none"

\* Faulty variants: the buffer is dropped after one read, drained or not; the
\* bytes read are not committed.
ReadDropping(buf_len) ==
  /\ Running /\ phase \in {"read", "sent"} /\ buf_vec # <<>>
  /\ LET v == Head(buf_vec)
         bytes == Min2(buf_len, Remaining(v))
     IN /\ last' = [first |-> mem[v.buf.addr].start + v.claimed, len |-> bytes]
        /\ given' = given + bytes
        /\ buf_vec' = Tail(buf_vec)
        /\ br' = buf_ring_add_advance(br, v.buf)
  /\ returned' = returned + 1
  /\ UNCHANGED <<kernelVars, cq, phase, completion, panic>>
ReadUncommitted(buf_len) ==
  /\ Running /\ phase \in {"read", "sent"} /\ buf_vec # <<>>
  /\ LET v == Head(buf_vec) IN
       last' = [first |-> mem[v.buf.addr].start, len |-> Min2(buf_len, Remaining(v))]
  /\ UNCHANGED <<br, kernelVars, cq, phase, completion, buf_vec, panic, given, returned>>

\* One Read::read by the decoder with a slice of buf_len bytes: bytes are
\* copied out of the first queued buffer; once drained it is dropped.
Read(buf_len) ==
  /\ Running /\ phase \in {"read", "sent"} /\ buf_vec # <<>>
  /\ LET v == Head(buf_vec)
         bytes == Min2(buf_len, Remaining(v))
         drained == bytes = Remaining(v)
     IN /\ panic' = ReadFailure(v, bytes)
        /\ IF panic' # "none" THEN UNCHANGED <<br, buf_vec, historyVars>>
           ELSE /\ last' = [first |-> mem[v.buf.addr].start + v.claimed, len |-> bytes]
                /\ given' = given + bytes
                /\ IF drained
                   THEN /\ buf_vec' = Tail(buf_vec)
                        /\ br' = buf_ring_add_advance(br, v.buf)
                        /\ returned' = returned + 1
                   ELSE /\ buf_vec' = [buf_vec EXCEPT ![1].claimed = @ + bytes]
                        /\ UNCHANGED <<br, returned>>
  /\ UNCHANGED <<kernelVars, cq, phase, completion>>

\* Faulty variant: all completions seen are released, not just the one handled.
CqAdvanceAll ==
  /\ Running /\ phase \in {"read", "sent"}
  /\ phase' = "reap"
  /\ cq' = <<>>
  /\ UNCHANGED <<br, kernelVars, completion, buf_vec, panic, historyVars>>

\* read_message_frame returns, with a frame or because read had nothing
\* queued, and the loop releases the completion queue entry; a send's is not
\* in cq.
CqAdvance ==
  /\ Running /\ phase \in {"read", "sent"}
  /\ phase' = "reap"
  /\ cq' = IF phase = "read" THEN Tail(cq) ELSE cq
  /\ UNCHANGED <<br, kernelVars, completion, buf_vec, panic, historyVars>>

\* read_message_frame refuses what the peer sent.
DecoderError ==
  /\ Running /\ phase \in {"read", "sent"}
  /\ panic' = "bad frame"
  /\ UNCHANGED <<br, kernelVars, cq, phase, completion, buf_vec, historyVars>>

Kernel == (\E n \in 1 .. BUF_SIZE : KernelRecv(n)) \/ (\E res \in EndResults : KernelEnd(res))

Handler == OnCompletion \/ (\E n \in 1 .. READ_LEN : Read(n)) \/ CqAdvance \/ DecoderError

Loop == OnSend \/ FromRawEvent \/ Handler

Next == Kernel \/ Loop

Spec == Init /\ [][Next]_vars

\* The program's one thread never stops within a handler, and since the loop
\* takes completions in the order posted, those of sends cannot keep a
\* receive's from its turn; the peer and the kernel owe nothing.
FairSpec == Spec /\ WF_vars(Handler) /\ SF_vars(FromRawEvent)

-----------------------------------------------------------------------------
(***************************************************************************)
(* Properties.                                                             *)
(***************************************************************************)

Cqe == [res : EndResults \cup 1 .. BUF_SIZE, buffer : BOOLEAN, bid : Slots]

Reader == [buf : KernelBuffer, claimed : 0 .. BUF_SIZE - 1]

TypeOK ==
  /\ br \in Ring
  /\ khead \in Tails
  /\ mem \in [Slots -> [start : Nat, len : 0 .. BUF_SIZE]]
  /\ armed \in BOOLEAN
  /\ cq \in Seq(Cqe)
  /\ phase \in Phases
  /\ completion \in [res : 0 .. BUF_SIZE, kernel_buf : KernelBuffer \cup {NoBuffer}]
  /\ buf_vec \in Seq(Reader)
  /\ panic \in Panics \cup {"none"}
  /\ got \in Nat /\ given \in Nat
  /\ last \in [first : Nat, len : 0 .. BUF_SIZE]
  /\ received \in Nat /\ returned \in Nat

\* The lookup by buffer id in get_read_buf is sound: whatever the program has
\* returned, and in whatever laps of the tail, slot b of the ring describes
\* buffer b, at its own block and at its full length (buf_ring.rs:111, 141).
SlotIdentity ==
  \A b \in Slots : br.bufs[b] = [addr |-> b, len |-> BUF_SIZE, bid |-> b]

\* Of the panics and assertions on the receive path, only those for the end of
\* the receive and for a frame the decoder refuses are reachable: none about
\* the ring, an attached buffer or the bytes left in it ever fires.
NoInternalPanic == panic \in {"none", "cqe error", "res 0", "bad frame"}

\* Who may touch buffer b, and where: it is offered to the kernel, announced
\* in a completion not yet taken, attached to the completion being handled,
\* or queued on the stream.
Offered(b) ==
  {k \in 0 .. ((br.tail - khead) % TAIL_MOD) - 1 : br.bufs[SlotIndex(khead + k)].bid = b}
Announced(b) ==
  {j \in 1 .. Len(cq) : (phase \in {"completed", "read"} => j > 1) /\ cq[j].buffer /\ cq[j].bid = b}
Attached(b) == {k \in {0} : completion.kernel_buf.bid = b}
Queued(b) == {i \in 1 .. Len(buf_vec) : buf_vec[i].buf.bid = b}

Holders(b) ==
  ({"kernel"} \X Offered(b)) \cup ({"cq"} \X Announced(b))
    \cup ({"completion"} \X Attached(b)) \cup ({"stream"} \X Queued(b))

\* Every buffer has exactly one owner at any time: none is offered to the
\* kernel while the program may still read it, none is offered twice, and
\* none is lost (read_buf.rs:39, cqe.rs:71).
OneOwner == \A b \in Slots : \E h \in Holders(b) : Holders(b) = {h}

\* push's capacity assertion can only hold vacuously in the code (a VecDeque
\* grows first, read_buf.rs:137); this is what it was meant to say of a
\* queue created with the pool's capacity.
NoReallocate == Len(buf_vec) <= RING_POOL_SIZE

\* Where the program may still read: at the buffers of completions not taken
\* yet, of the completion in hand, and of the queued readers, which are raw
\* pointers.
Held ==
  {b \in Slots : Announced(b) # {}}
    \cup {buf.addr : buf \in {completion.kernel_buf} \ {NoBuffer}}
    \cup {buf_vec[k].buf.addr : k \in 1 .. Len(buf_vec)}

\* The kernel never writes to a buffer from the moment a completion announces it
\* until the last reader of it is dropped (cqe.rs:48, read_buf.rs:30).
HeldBytesStable == [][\A a \in Held : mem'[a] = mem[a]]_vars

\* The decoder sees the stream the peer sent.
Stream == INSTANCE RecvStream
StreamSpec == Stream!Spec

\* A handler always returns to the top of the loop, however much has piled
\* up on the stream: no step of it waits for the kernel.
HandlerReturns == phase # "reap" ~> (phase = "reap" \/ panic # "none")

\* The k-th buffer the kernel announces reaches the stream's queue, unless
\* the program panics first.
EachBufferQueued ==
  \A k \in 1 .. MAX_BYTES :
    received >= k ~> (returned + Len(buf_vec) >= k \/ panic # "none")
=============================================================================
