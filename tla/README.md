# uring_ws in TLA+

A specification of the event loops of `uring_ws`: WebSocket clients that do
their network I/O through io_uring, with a multishot receive and a ring of
buffers shared with the kernel for input, and plain sends of copied memory for
output. The crate is small, single-threaded and unsafe: its correctness lies in
who owns a piece of memory when, and in the order in which the program and the
kernel touch it. That is what is modelled, checked with TLC and proved with TLAPS:
the receive path, the buffer ring's memory, the event loop, the two together for any
number of streams, the hand-over of a connection and the first probe.

## 1. The system

### Components, their state and their operations

| component | source | state | operations |
|---|---|---|---|
| Buffer rings | `buf_ring.rs` | per group: the slots (addr, len, bid) and the u16 tail, shared with the kernel | `new_buffer_group`, `get_read_buf`, `io_uring_buf_ring_add`, `_advance`, `buf_ring_add_advance` |
| Kernel buffers and readers | `read_buf.rs` | a buffer lent to the program; a reader's `claimed` count; a stream's queue of readers | `push`, `read`, `commit`, drop (gives the buffer back) |
| Completions | `cqe.rs` | the entry, its tag, the buffer attached to it | `from_raw_event`, `take_kernel_buf`, drop (asserts the buffer was taken) |
| TcpStream | `net.rs` | reader queue, `send_id`, `pending_sent`, blocking mode | `on_completion`, `read`, `write` (in both modes), `set_nonblocking` |
| Submission ring, operations | `ring.rs`, `op.rs` | entries, tail, kernel's head | `io_uring_get_sqe`, `io_uring_initialize_sqe`, `send`, `multishot_recv`, `io_uring_sqe_set_data` |
| Tags | `lib.rs` | a u64 of event, owner, request | `from_parts`, `event`, `owner`, `req` |
| Event loops | `ping_pong.rs`, `io_uring_probe_v2.rs` | the batch of completions, the streams and their frame decoders | set up, connect, arm, ping, submit, peek, wait, handle, release |
| Completion ring | liburing and the kernel | entries, heads, overflow list | post, flush, peek, advance |
| First probe | `examples/io_uring_probe.rs` | one buffer group, a rustls connection, a frame decoder and the text accumulated so far | poll, `read_tls`, drain the plaintext, `add_data`, give the buffer back |
| liburing bindings | `sys.rs` | the layout of what is shared: the buffer ring is a union | generated declarations |
| Entry point, allocation layout, build scripts | `bin/main.rs`, `common.rs`, `build.rs` | none of their own | |

Everything is called from one loop on one thread. The kernel is the other
actor: it fills buffers, completes sends in any order, reads the memory of a
send at any time until its completion, and ends a receive when it wants to. The
two share three rings (buffers, submissions, completions) and the memory
pointed at from them. A completion finds its stream and its operation by its
tag. The peer decides how bytes are cut into arrivals, the frame decoder (a fork
of tungstenite) into which slices they are read.

### What is hard about it, and what makes it right

* A buffer is looked up *by its id*, in the slot of that number, whatever slot
  the kernel took it from. This is right only while every buffer comes back to
  its own slot, lap after lap of a tail that wraps: `SlotIdentity`,
  `NoInternalPanic`.
* A buffer has one owner: the kernel, a completion on its way, the completion
  in hand, or a reader in the stream's queue. Dropped early it is overwritten
  while it is read; dropped twice or never, the ring is corrupt or dry:
  `OneOwner`, `HeldBytesStable`, `NoReallocate`.
* The buffer ring is memory that the kernel may look at between any two stores,
  and its tail is a field of entry 0: `PublishedWhole`, `ActsAsBufRing`.
* All streams share one completion ring and differ by tag alone; a wrong owner or
  a wrong group would go unnoticed, for all groups have the same buffer ids:
  `EachPath`, `ClientInv`, `LookupsSucceed`.
* The decoder must get the bytes once and in order, however they are cut:
  `StreamSpec`. What it does not read must not be forgotten: `HandlerReturns`,
  `EachBufferQueued`, `TakenBufferReturned`, `NoBacklog`.
* A send's memory must outlive the kernel's use of it and no longer, with
  completions in any order and tags that wrap: `MemoryAlive`, `PendingExact`,
  `SendMemorySpec`.
* Ring entries are reused without being cleared: `CleanOps`.
* The batch of completions is a list of pointers into a ring whose entries are
  released one by one while the kernel posts more: `BatchFresh`, `InOrder`,
  `EachHandled`.
* Assertions and `unwrap`s are many. Those about the program's own bookkeeping
  must never fail, those about the network may: `NoInternalPanic`,
  `ExpectedPanics`.
* A receive that ended is never armed again; it must not end unnoticed: `RecvAlive`.
* The connection changes hands from a blocking WebSocket to the loop:
  `InSequence`.
* The first probe writes plaintext over a buffer that is lent to it, and must have
  every text out before it takes the next completion: `OneOwner`, `StreamSpec`,
  `TextsDelivered`.

`PROJECT.json` lists every hazard at its line with the properties for it.

## 2. Modules

```
BufRing <- RecvPath <- RecvPathInv <- MCRecvPath
   |           |            `- RecvPathProofs <- FrameLoopProofs (and FrameLoop)
   |           `- FrameLoop <- MCFrameLoop
   |- BufRingMemory <- BufRingMemoryProofs
   `- FirstProbe (and WebsocketHandler) <- FirstProbeInv <- MCFirstProbe
                                               `- FirstProbeProofs
BufRing, UserData, SubmissionRing, CompletionRing <- EventLoop
EventLoop <- EventLoopInv
   |             `- EventLoopProofs <- ClientProofs (and Client, RecvPathProofs)
   `- Client (and RecvPath)
Handshake <- HandshakeProofs                   Setup

RecvPath and FirstProbe implement RecvStream
EventLoop               implements CompletionFifo and SendMemory
Client                  implements EventLoop and, for each stream, RecvPath
BufRingMemory           behaves as BufRing's operators

RingLemmas: lemmas about %, about counting, about recursive functions and about
            BufRing, for all the proofs
```

**BufRing** is `buf_ring.rs` as operators on the record of slots and tail. A
buffer's address is the number of its block. `new_buffer_group` is given by its
result; `MCRecvPath` assumes (and TLC evaluates) that the loop of
`io_uring_buf_ring_add` calls builds the same ring.

**RecvPath** is the way of one connection's bytes: `KernelRecv` fills the buffer
at the head, `FromRawEvent` makes a `Completion`, `OnCompletion` queues its
buffer, `Read` is one `Read::read` by the decoder, with the drop of a drained
buffer in the same step, `CqAdvance` is the release that ends a handler,
`DecoderError` the loop's `panic!` for a bad frame. The decoder also reads when a
send of the connection has completed; `OnSend` begins such a handler, in phase
`"sent"`, and leaves open when sends complete. Each assertion of these
functions is a value of `panic`. `mem` says which bytes of the stream a buffer
holds, so overwriting one is visible; `HeldBytesStable` asks it of every buffer that
the program may still read: queued, attached to the completion in hand, or announced
by a completion on its way (`Held`). In all modules a panic ends the program: an
action that panics leaves the rest of the state as it was, also where the code has
changed some of it before (`on_completion` forgets a short send before it asserts its
length), for no step follows that could see it. The decoder may read any
number of slices, or none. Buffer group and connection are one to one in both
programs, so one connection stands for each of them; `Client` shows that several
do not get in each other's way.

**BufRingMemory** is `buf_ring.rs` again, store by store: `io_uring_buf_ring_add`
loads the tail and writes an entry's fields one at a time, `fetch_add` on
`memory[0].resv` is the release of the tail, and the kernel may take a buffer
between any two of these. `AsRing` reads the memory as `BufRing`'s record. The
setup (`Alloc`, `Fill`, `Publish`) and a drop (`Drop` to `Dropped`) are here the
sequences that the other modules take for one step. `StoreWhole` is the
assignment of a whole entry that the comment at `buf_ring.rs:60-67` has; it would
be harmless in the setup, and lose the tail when buffer 0 is given back later.

**RecvStream** is the abstract specification of that path: a byte stream that
delivers every byte once and in order. `RecvPath` implements it (`StreamSpec`),
with `got`, `given` and `last` as they are.

**FrameLoop** puts `read_message_frame` in charge of the reads, called once for each
completion: it reads while it lacks bytes for the frame at hand and returns at the first
whole frame or at `WouldBlock`. Its `FRAME_LENS` and `SLICES` say what the peer and the
transport do. The loop ignores every I/O error of a read, not `WouldBlock` alone:
`IoError` is such an error, at any moment and with buffers queued; `failed` remembers
it, and `NoBacklog` and `TakenBufferReturned` hold until then. `WouldBlock`, `IoError`
and `FrameDone` are all `RecvPath`'s `CqAdvance`.

**UserData**, **SubmissionRing**, **CompletionRing** are `lib.rs`'s packing,
`ring.rs` with `op.rs`, and the kernel's completion ring with its overflow list.
The shifts of the packing are multiplications, with the gap of eight bits between
owner and request kept as `GAP`. In `SubmissionRing` a ring entry keeps what its
last use left, except for the fields the code clears.

**EventLoop** is the loop with its sending side: `Arm`, `Top`, `Write`,
`SkipWrite`, `Submit`, `Peek`, `Wait`; then for each entry of the batch
`FromRawEvent`, `OnCompletion` and `CqAdvance`; and the kernel's sends, receives
and flushes. `completion` is the `Completion` in hand, whose pointer into the ring
`on_completion` reads through; the stream is read between `OnCompletion` and
`CqAdvance`, while the kernel goes on. A block of `heap` holds the number of the
write whose bytes it has; a send operation carries, as history, the number of the
write it is for, so a freed or reused block shows. Received data is only counted
here: `RING_POOL_SIZE` limits the completions with a buffer that are not handled yet,
and `KernelEnd` may report a dry pool at any time since buffers may be queued unread.
`handled` counts, as history, the completions handled. `RecvAlive` says that a receive
once armed is prepared, in the kernel, or `Ended`: announced to have ended by a completion
on its way, which the program answers with a panic, whether the connection is over or
(`ENOBUFS`) not.
Which buffer the kernel takes (`Incoming`) and whether the lookup of it fails
(`RawEvent`) are left open; `Client` determines both.
`PINGS` tells `ping_pong` from `io_uring_probe_v2`.

**CompletionFifo** is what the loop promises of completions: each is handled
once, as posted, in order. `EventLoop` implements it (`InOrder`) with
`queue <- Unforgotten`: ring and overflow list together, without the entry that is
handled but not released.

**SendMemory** is what `write` promises of the memory it hands to the kernel: a
write's copy is kept from the call on, the kernel gets done with writes in any
order, and a copy is given up only after that, once. `EventLoop` implements it
(`SendMemorySpec`) with the contents of the heap for `kept` and the operations
prepared or in the kernel for `inflight`.

**Client** puts the two sides together: `EventLoop`'s loop, rings and sends with,
per stream, `RecvPath`'s buffer group, buffers and queue. Its actions are
`EventLoop`'s, joined with what they do to the receive path: `TakeBuffer` looks a
buffer up in the group that the tag's owner names, `QueueBuffer` gives it to the
owner's queue, `Read` drains that queue, whichever completion the handler is for. The
refinement `Path` shows one `stream`, a constant that may be any of them, its own
completions only (`Selected`); `EachPath` says that what it sees is a behaviour of
`RecvPath`. `ClientInv` is the inductive invariant, together with `LoopInv`.

**FirstProbe** and **WebsocketHandler** are the earlier design under `examples/`,
which the crate keeps and does not compile. There is no `KernelBuffer`: a
completion's bytes go to rustls, the plaintext is read back piece by piece into
the same buffer (`ReadExact`), each piece goes to the frame handler (`Decode`), and
only then `ReturnBuffer` and `CqAdvance`. `add_data` is `WebsocketHandler::add_data`:
`Round` is one turn of its loop, for one event that the decoder reports, and the
recursive function `rounds` goes through as many turns as any slice can take (a turn
takes a byte or ends a frame, and a turn too many changes nothing); the decoder is
told apart by the frame it has come to. rustls is external: a record's plaintext is there when its last byte
is, and a slice is taken whole. A `Start` clears `str_acc` whatever it holds
(`io_uring_probe.rs:434`), so a text in several frames is returned with the bytes of its
last frame alone. No document, test or assertion says what such a text should become;
`TextsDelivered` therefore asks of it only that one message is returned, in its turn, and
of a text in one frame that the message is its bytes. `Kept`, in `FirstProbeInv`, is what
the code makes of the frames; it is part of the inductive invariant and promises nothing.
The model starts after the handshake, with nothing read ahead (see
`Handshake` for that).

**Handshake** is `init_tcp_stream` and what follows it: `ws` writes its requests to
the blocking socket, a part at a time (`BlockingWrite`), and reads from it, then
the stream turns nonblocking and a new decoder reads what the receive brings. A
byte is its offset in what the server sends.

**Setup** is the choice of flags and the assertions about the kernel.

Operators named `...Dropping`, `..._unwrapped`, and so on, under a comment
`Faulty variant`, are not part of the specifications: each shows that a property
notices the mistake it stands for.

## 3. What the runs check

| run | configuration | shows |
|---|---|---|
| `recv_path` | 4 buffers of 2 bytes, tail mod 8, 10 bytes, fair | types, slot identity, no internal panic, one owner, queue within capacity, the inductive invariant, no write to a buffer that may still be read, `RecvStream`; a handler ends, an announced buffer is queued |
| `frames_long` | frames of 2 or 3 bytes, buffers of 2 | until a read fails, one frame per completion leaves no backlog, and every taken buffer goes back |
| `frames_short` | frames of 1 byte, buffers of 2 | violation: buffers stay queued (finding) |
| `event_loop` | 1 stream, 2 submission and 2 completion entries, 3 writes, 1 arrival, fair | memory, tags, clean entries, exact bookkeeping, batches, the inductive invariant, `CompletionFifo`, `SendMemory`; every completion is handled, also when it overflowed |
| `client` | 2 streams with 2 buffers of 1 byte each, 1 write, 3 arrivals, 2 completion entries, seen from the second stream | every buffer is of its stream's group and no lookup of one fails, with the inductive invariant; the stream's receive path is `RecvPath` |
| `roomy_queue` | 1 stream with 2 buffers, 1 block, 4 arrivals, 5 completion entries (`EnoughRoom`, just) | the receive stays armed until its end is announced, with the inductive invariant |
| `full_queue` | 2 streams of 2 buffers, 2 completion entries | violation: a burst ends a receive for good (finding) |
| `ring_memory` | 4 entries, tail mod 8 | store by store, the ring is what `BufRing` says; its inductive invariant |
| `handshake_echo` | a server that only answers, either program, 6 requests | every byte seen in order across the hand-over |
| `handshake_push` | a server that sends unasked | violation: bytes read ahead are lost (finding) |
| `first_probe` | 2 buffers of 3 bytes, 20 bytes of wire, records of 5 bytes with 4 of plaintext, headers of 2 | one owner, rustls gets the stream, every text returned in time; the inductive invariant |
| `setup` | any features | violation: the first assertion checks nothing (finding) |

### Bounds, and why they are enough

* Ring sizes are small but keep what the arithmetic depends on: an entry count
  divides its counter's range at least twice, so full and empty rings differ.
  `MAX_BYTES = 10` fills ten one-byte buffers: 4 buffers are lapped more than
  twice and the tail wraps. In the event loop the submission tail (mod 4), the
  completion head (mod 4) and the send id (mod 4, from 3) wrap too.
* `BUF_SIZE = READ_LEN = 2` gives full and partly filled buffers, whole and
  partial reads.
* `client`: three arrivals go one and two, or all to one stream, past the two
  buffers of a group and past the two entries of the completion ring; with the
  send they make every pair of completions of two streams. Buffers are of one byte,
  the cutting of bytes being `recv_path`'s: a run with two bytes takes too long. The
  second stream is the one to look from, for a number left at 0 does not show in the
  first. The proofs about `Client` have none of these bounds.
* `ring_memory`: the kernel and the program go on for ever; heads and tails wrap, so
  the state space is finite without another bound.
* `first_probe`: records are longer than buffers and their plaintext is too, so
  that a buffer's last byte can release more than fits. The frames are a text, a
  ping, a text in two frames, an empty text and a close, cut everywhere.
* `MAX_WRITES`, `MAX_RECVS`: enough to overflow a completion ring of two entries,
  to reuse a ring entry for another kind of operation and to have sends complete
  out of order. In `event_loop` the completions of two sends and of the receive, or of
  its end, are more than the ring holds, so `KernelFlush` is a step that `EachHandled`
  depends on. `MAX_WRITES <= REQ_MOD` is an assumption of the model: a send id
  comes round only after 2^32 writes, and the code does rely on that (`Insert`
  under a tag in use would free memory the kernel reads). That hazard is assumed away,
  not excluded by a property; the mutant `NextIdStuck` shows what would report it.
* `BLOCKS`: two blocks of heap in `event_loop`, so that a freed one is reused while
  another is in use. Blocks are symmetric, but no run uses the symmetry: `event_loop`
  checks liveness.
* `MAX_ASKS = 6`, `MAX_BYTES = 18` and slices of 2 in the handshake: the upgrade,
  the subscription and four or five pings, with every cut of 3-byte messages.
* Where a run sets `CHECK_DEADLOCK FALSE` the system may stop: the program
  panics, or idles while a peer that owes nothing is silent.

### Fairness

`WF(Loop)`, `WF(Handler)`, `WF(FrameHandler)`: one thread that never waits for
anything but the kernel takes its next step. In `RecvPath` and `FrameLoop` a handler
has no system call in it. Between handlers these two choose freely between a
receive's completion and a send's, and take `SF(FromRawEvent)`: the loop handles
completions in the order posted (`InOrder`, proved of `EventLoop`), so completions of
sends cannot keep one of a receive waiting for ever. `EachHandled`, which counts
every completion posted, of a send or of a receive, into the ring or to the overflow
list, also needs `WF(KernelFlush)`: a system call of the loop moves overflowed
completions into the ring, and the loop makes one in each iteration. Nothing is assumed of the peer, of
arrivals or of the completion of sends. `HandlerReturns`, `EachBufferQueued`,
`EachHandled` and `TakenBufferReturned` allow the program to panic.

## 4. What is proved

### The receive path

For all pool sizes, buffer sizes, tail ranges, slice lengths and amounts of data,
from `RingAssumption` (sizes are positive and the pool divides the tail's range at
least twice: 1024 and 65536) and `ReadAssumption`:

* `Inductive`: the invariant `IInv` of `RecvPathInv` holds. From it `TypeCorrect`,
  `NoAssertionFails`, `SlotsKeepIdentity`, `QueueFits`, `HeldUndisturbed` (an
  action property), `ImplementsStream` (the refinement) and `OwnedOnce`.
* `FrameLoopProofs`: `DrivesRecvPath` (each step of `FrameLoop` is one of
  `RecvPath`, so all of the above holds of it) and `OneFrameSuffices`, from
  `FrameAssumption`.

**The argument.** `SlotIdentity` is not inductive: whether a returned buffer lands
in its own slot depends on the order of returns. `IInv` numbers buffers in the
order the kernel fills them. Buffer number `c` is slot `c % RING_POOL_SIZE`; the
kernel's head is `received` and the tail is `returned + RING_POOL_SIZE`, both
wrapped (`RingInv`); the numbers `returned .. received - 1` are, in order, the queued
readers (`ReadersInv`), the attached buffer (`CompletionInv`) and the entries of
the completion queue (`QueueInv`). Since the queue is drained from the front, the
buffer given back is number `returned`, and its slot is the one at the tail. A full
pool has at most `RING_POOL_SIZE` numbers out, so no two are in the same slot and
the kernel never fills a slot whose buffer is held. `ContentInv` says that the
bytes of these buffers follow each other and end at `got`; hence a read starts where
the last one ended. `OwnedOnce` maps each holder of a buffer to a number and uses
that `RING_POOL_SIZE` consecutive numbers hit each slot once. Arithmetic with `%`
is in `RingLemmas`: the solvers know little of it for a divisor that is not a
literal.

`OneFrameSuffices` adds `FrameInv`: if neither frames nor slices are shorter than
a buffer and no read has failed, at most one reader is queued during a handler, and
after it none.

### The event loop

For all numbers of streams, ring sizes, batch sizes, blocks, writes and arrivals,
from `LoopAssumption` (two entries of the submission ring for each stream; no more
writes than send ids), `SqAssumption` and `CqAssumption` (an entry count divides
its counter's range at least twice) and `UserData`'s assumption on the widths of a
tag's fields:

* Tags: `RoundTrip` and `TagsDistinct`.
* `AdvanceDropsFirst`: the loop's release of an entry drops exactly the oldest
  completion of the one queue that ring and overflow list form. (That the kernel's posting
  appends to it and its flush keeps it are lemmas about the model of the kernel.)
* `LoopTypes`, `BatchesStayFresh` and the refinement `ImplementsFifo`, from the
  invariant `BatchInv`: the batch's pointers are the slots of the oldest completions,
  in order, which posting leaves alone and releasing the first shifts by one.
* `LoopInductive`, and from it `OnlyExpectedPanics`, `OperationsClean`,
  `MemoryStaysAlive`, `PendingIsExact` and the refinement `ImplementsSendMemory`.
* With `EnoughRoom`: `ReceivesInductive`, and from it `ReceiveStaysArmed`.

All are in `EventLoopProofs`.

**The argument.** None of the five results from `LoopInductive` is inductive itself. `LoopInv` follows a send by its
tag. `StageInv`: the tags in `pending_sent` are exactly those of sends that are
prepared, in the kernel, or completed and not handled, and a tag is in one of these
places, once. An operation is a function of its tag (`IsSend`, through
`pending_sent` and `heap`; `IsRecv`), so its memory is what the table pins
(`PendingInv`: each tag a block of its own; `HeapInv`: each block a write of its own),
and a completion whose tag is pending is one that `on_completion` knows. What could
break this is a tag given out while still in use: `IdInv` gives each tag of a stream
the number of a write before the next one, and fewer writes than ids keep them
apart. `SqInv` bounds the entries prepared by what one iteration prepares, and with
that no prepared entry is overwritten and the ring never overflows; it also says that
the first use of an entry finds it empty, which a receive relies on, since
`multishot_recv` clears neither address nor length.

**Receives.** `EnoughRoom` says that the completion ring has an entry for each buffer
and for the end of each stream's receive, for each block, that is for each send, and
one more. `AliveInv` then keeps the overflow list empty and each receive prepared or in
the kernel, or its end among the completions on their way. The step that matters is that a posted completion finds
room (`RoomToPost`). It is a count: each completion not handled yet gets a place of its
own, a send's that of its block, which no other pending tag pins, and the k-th
completion of a stream's receive the k-th of its `RING_POOL_SIZE + 1` places. So there are no more
than `Places`, and the one in hand takes the last entry. For the programs this says:
with one stream of 1024 buffers and a ring of 2048 entries, `ping_pong` never loses its
receive for want of room while fewer than 1023 sends are outstanding. For the five
streams of `io_uring_probe_v2` the hypothesis is false, and so is the conclusion: see
`full_queue`.

### The buffer ring's memory

`BufRingMemoryProofs`, for all pool sizes, buffer sizes and tail ranges, from
`RingAssumption`: `MemoryInductive`, `MemoryTypes`, `OnlyWholeEntries` and
`ImplementsBufRing`, store by store. `MemoryInv` numbers the buffers from the tail on:
between the kernel's head and the tail lie the kernel's, then follow the held ones and
the announced ones, a whole pool together. Hence the slot at the tail, which a drop
writes, is that of the first held buffer, and outside the kernel's part; and it is
written with what it holds already, so every entry is whole at every moment. Of the
setup it says how far the entries are filled and what of the next one is `Written`;
there the tail is 0 and the kernel sees nothing. Storing field by field is what keeps
the tail, the last field of entry 0, out of all this.

### The first probe

`FirstProbeProofs`, for every sequence of frames, header length, record and buffer size
and every cutting of the bytes, from `RingAssumption`, `FramesAssumption` and the
assumptions of `FirstProbe`: `ProbeInductive`, and from it `ProbeTypes`,
`BuffersOwnedOnce`, `TextsReturned` and the refinement `FeedsStream`.

**The argument.** `ProbeInv` has one part for each thing that moves. `RingInv` and
`QueueInv`: buffers circulate in one order, the announced ones being numbered from the
tail on. `BytesInv`: what rustls has not been given is, in order, the contents of the
announced buffers, the first of which may hold plaintext by then. `PieceInv`: plaintext
is in the buffer in hand only from `ReadExact` to `Decode`. `HandlerInv`: after any
number of bytes the frame handler is `At` the place in the frames which that number
determines, with the part of the text before it in `str_acc`, and the messages are what
is `Kept` of the frames that have ended; `KeptInOrder` counts them and finds each frame's
at its place, which is `TextsReturned`. That `Decode` keeps this is
`AddDataDelivers`: it holds of each turn of `add_data`, and there are enough turns, since
each takes a byte or ends a frame.

This is induction over data, which the library's theorems cannot give here (they take
an operator as parameter, and the provers instantiate none). `RingLemmas` has it for
numbers up to a bound, in terms of a set: `LeastNat` (a set of numbers has a least one,
from well-foundedness), `UpTo` (a set with 0 and every successor has all numbers up to
n) and `ByRecursion` (a function defined stepwise exists, hence a recursive function has
its values). It serves `rounds`, `FrameStart`, `Kept` and `Client`'s `Selected`.

### The client

`ClientProofs`, for any number of streams and everything else of any size, from the
assumptions of `EventLoop` and `BufRing` and `ClientAssumption` (a slice is not empty;
`stream` is one of the streams):

* `ClientInductive`: `LoopInv /\ ClientInv`. `DrivesLoop`: each step is one of
  `EventLoop`. So `SendsSound`: `EventLoop`'s theorems about memory, bookkeeping,
  panics, order and the promise about sends hold of the client.
* `ImplementsPath`: the receive path of any stream is `RecvPath`. So
  `EachStreamSound`: `RecvPath`'s theorems about owners, slots, readers and the byte
  stream hold of each stream; and `NoLookupFails`.

**The argument.** A completion names neither its group nor its buffer's address: the
tag's owner stands for the one, the buffer's number for the other. `GroupsInv` says
that a buffer in hand is of the owner's group and that a stream's queue has only
buffers of its own group, so that a dropped buffer goes back to the ring it came from.
`EntriesInv` says that only a completion of a receive brings a buffer, `OpenInv` that a
stream whose connection is over has no receive left, `HandInv` and `LookupInv` that
there is a stream behind what the loop has in hand.

For `ImplementsPath` the one completion ring has to be taken apart. `Selected` picks a
stream's completions out of the queue that ring and overflow list form. It is a
recursive function, of which `SelectedAppend` and `SelectedTail` say all that is
needed: appending a completion of the stream appends, of another changes nothing, and
the same for dropping the first. The completion in hand is the oldest (`BatchInv`, as
`AtHand`), so if it is the stream's it is the first that the path has (`PathHead`).
Then there is one lemma for each action: it is the path's action of the same name if it
is about the stream, and does not show otherwise. A lookup that fails is a step of the
path as well, so that the refinement does not need what is proved of `RecvPath`;
`NoLookupFails` then follows from `NoAssertionFails`.

### The hand-over of a connection

`HandshakeProofs`, from `HandshakeAssumption`, for all lengths: `HandshakeTypes`, and
`AnswersInSequence` for a server that only answers (`~EAGER`). What was sent is, in
order, seen by a decoder, read ahead, brought by the receive, and in the socket
(`Meet`); `Answered` bounds it, stage by stage, by the answer that `ws` reads, so that
at the switch everything sent has been seen and nothing is read ahead. Without
`~EAGER` the theorem is false: `handshake_push`.

### Only model-checked

* All liveness: `HandlerReturns`, `EachBufferQueued`, `TakenBufferReturned`,
  `EachHandled` (temporal proofs under fairness need ENABLED, which is out of the
  prover's reach).

Every safety property of a passing run is stated by a theorem.

## 5. Findings

1. `io_uring_probe_v2.rs:146`: one frame is read for each completion. When
   buffers hold the ends of several frames or TLS records, as a feed of short
   messages does, the rest waits in the stream's queue, and with it the buffers,
   until other completions come. (`frames_short`; `frames_long` and
   `OneFrameSuffices` say when it is enough: `ping_pong`'s messages of 1600 bytes
   in buffers of 1500.)
2. `cqe.rs:20`: the check of `IORING_CQE_F_MORE` is commented out, and a receive
   that ends because the completion ring is full is never armed again. Five
   streams have 5 * 1024 buffers and the ring 2048 entries. (`full_queue`;
   `roomy_queue` shows that room for all is enough.)
3. `ping_pong.rs:74`: the decoder that takes over is a new one; what the
   handshake's WebSocket had read ahead is lost. (`handshake_push`)
4. `ping_pong.rs:59`: a feature bit is looked for among the setup flags, where
   the same bit is always set. (`setup`)

## 6. What is not modelled

* The inside of tungstenite and rustls: how bytes become frames, control frames,
  writes the decoder buffers. A ping is one write, or none (`SkipWrite`).
* Which bytes of several sends of one stream reach the socket first: the kernel's
  choice, and nothing in the code says what it relies on.
* `mmap`, allocation and page sizes, and weak memory: the tail's release store and
  the kernel's acquire load are taken to order the stores before it.
* Operations nobody calls (`recv`, `read_at`, `write_at`, `open_unchecked`,
  `close`), the `todo!()` methods, and generated bindings other than the layout of
  the buffer ring. Build scripts, the entry point and `common.rs` keep no state.
* Of the first probe: its connecting, and its copies of the functions of `ring.rs` and
  `buf_ring.rs`. What its handshake reads ahead is lost as in `handshake_push`.
* SQPOLL changes nothing in the models: the kernel already runs at any moment.

## 7. Plan

1. Done: the receive path and its frame loop; the event loop, its rings and its
   sends; their composition for several streams; the buffer ring's memory; the
   handshake; the setup; the first probe. Theorems about all of these but the setup,
   whose one property is false of the code.
2. The buffer ring's memory under `Client`'s groups: `BufRingMemory` is one group, and
   what `ActsAsBufRing` says of it is used by the other modules as `BufRing`'s
   operators; a theorem could compose the two.
3. `FrameLoop` for a stream of `Client`: that its decoder reads as `FrameLoop` says is
   not stated of the composition.
