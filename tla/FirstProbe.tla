----------------------------- MODULE FirstProbe -----------------------------
(***************************************************************************)
(* The first probe (src/src/examples/io_uring_probe.rs), which the crate   *)
(* keeps and no longer compiles: one connection, one buffer group, no      *)
(* KernelBuffer.  The loop polls without waiting.  The bytes of a          *)
(* completion go to rustls at once; what comes out of it is read, piece by *)
(* piece, into the kernel's own buffer, which only then goes back.         *)
(*                                                                         *)
(* rustls and the kernel are external.  A record is REC_LEN bytes on the   *)
(* wire and becomes REC_PLAIN bytes of plaintext when its last byte is in. *)
(***************************************************************************)
EXTENDS BufRing, WebsocketHandler, FiniteSets

CONSTANTS
  REC_LEN,    \* wire bytes of a TLS record
  REC_PLAIN,  \* plaintext bytes in it
  BATCH,      \* most completions taken at once: 10
  MAX_BYTES   \* bound: wire bytes the peer sends

ASSUME ProbeAssumption ==
  /\ REC_LEN \in Nat \ {0} /\ REC_PLAIN \in 1 .. REC_LEN
  /\ BATCH \in Nat \ {0} /\ MAX_BYTES \in Nat

VARIABLES
  br, khead,  \* the buffer ring and the kernel's head of it
  mem,        \* what each buffer holds: bytes of the wire, or plaintext
  recv,       \* the multishot receive: "prepared", "armed" or "ended"
  cq,         \* its completions, the oldest first
  batch,      \* how many of them the batch still holds
  phase,      \* where the loop is
  piece,      \* bytes read_exact has put in the buffer for add_data
  plain,      \* plaintext bytes read from rustls
  handler,    \* the WebsocketHandler
  panic,      \* what stopped the program, or "none"
  got,        \* bytes taken in by the kernel
  given,      \* history: bytes handed to rustls
  last,       \* history: the slice handed over last
  messages    \* history: the texts add_data has returned

ringVars == <<br, khead, mem>>
kernelVars == <<recv, cq, got>>
tlsVars == <<piece, plain, given, last>>
textVars == <<handler, messages>>
vars == <<ringVars, kernelVars, batch, phase, tlsVars, textVars, panic>>

EndResults == {0, -104, -105}  \* end of stream, ECONNRESET, ENOBUFS

Min2(a, b) == IF a <= b THEN a ELSE b

\* Plaintext bytes that rustls has once it was given count wire bytes
PlainOf(count) == (count \div REC_LEN) * REC_PLAIN

Running == panic = "none"
cqe == Head(cq)
buf == br.bufs[cqe.bid]

-----------------------------------------------------------------------------
Init ==
  /\ br = new_buffer_group /\ khead = 0
  /\ mem = [a \in Slots |-> [plain |-> FALSE, start |-> 0, len |-> 0]]
  /\ recv = "prepared" /\ cq = <<>> /\ got = 0
  /\ batch = 0 /\ phase = "submit"
  /\ piece = 0 /\ plain = 0 /\ given = 0 /\ last = [first |-> 0, len |-> 0]
  /\ handler = NewHandler /\ messages = <<>>
  /\ panic = "none"

(***************************************************************************)
(* The kernel (external).                                                  *)
(***************************************************************************)
KernelRecv(n) ==
  /\ Running /\ recv = "armed" /\ khead # br.tail /\ got + n <= MAX_BYTES
  /\ LET slot == br.bufs[SlotIndex(khead)] IN
       /\ n <= slot.len
       /\ mem' = [mem EXCEPT ![slot.addr] = [plain |-> FALSE, start |-> got, len |-> n]]
       /\ cq' = Append(cq, [res |-> n, buffer |-> TRUE, bid |-> slot.bid])
  /\ khead' = (khead + 1) % TAIL_MOD
  /\ got' = got + n
  /\ UNCHANGED <<br, recv, batch, phase, tlsVars, textVars, panic>>

\* The flags of a completion without a buffer are 0, and so is its "bid".
KernelEnd(res) ==
  /\ Running /\ recv = "armed"
  /\ res = -105 <=> khead = br.tail
  /\ recv' = "ended"
  /\ cq' = Append(cq, [res |-> res, buffer |-> FALSE, bid |-> 0])
  /\ UNCHANGED <<ringVars, got, batch, phase, tlsVars, textVars, panic>>

(***************************************************************************)
(* The loop.                                                               *)
(***************************************************************************)
Submit ==
  /\ Running /\ phase = "submit"
  /\ recv' = IF recv = "prepared" THEN "armed" ELSE recv
  /\ phase' = "peek"
  /\ UNCHANGED <<ringVars, cq, got, batch, tlsVars, textVars, panic>>

SubmitFails ==
  /\ Running /\ phase = "submit"
  /\ panic' = "syscall"
  /\ UNCHANGED <<ringVars, kernelVars, batch, phase, tlsVars, textVars>>

\* io_uring_peek_batch_cqe; with no completion the loop starts over.
Peek ==
  /\ Running /\ phase = "peek"
  /\ batch' = Min2(Len(cq), BATCH)
  /\ phase' = IF batch' = 0 THEN "submit" ELSE "cqe"
  /\ UNCHANGED <<ringVars, kernelVars, tlsVars, textVars, panic>>

\* Faulty variant: the end of the stream is an empty buffer like any other.
FailureNegative(res) == IF res < 0 THEN "cqe error" ELSE "none"

\* The panic! or assertion that a completion's result runs into; an empty
\* slice also fails the assertion on read_tls.
Failure(res) == IF res < 0 THEN "cqe error" ELSE IF res = 0 THEN "res 0" ELSE "none"

\* Faulty variant: the buffer goes back when rustls has a copy of its bytes.
ReadTlsReturning ==
  /\ Running /\ phase = "cqe"
  /\ panic' = Failure(cqe.res)
  /\ IF panic' # "none" THEN UNCHANGED <<br, phase, given, last>>
     ELSE /\ last' = [first |-> IF mem[buf.addr].plain THEN -1 ELSE mem[buf.addr].start,
                      len |-> cqe.res]
          /\ given' = given + cqe.res
          /\ phase' = "drain"
          /\ br' = io_uring_buf_ring_advance(br, 1)
  /\ UNCHANGED <<khead, mem, kernelVars, batch, piece, plain, textVars>>

\* The buffer is found by its id and its bytes are handed to rustls.
ReadTls ==
  /\ Running /\ phase = "cqe"
  /\ panic' = Failure(cqe.res)
  /\ IF panic' # "none" THEN UNCHANGED <<phase, given, last>>
     ELSE /\ last' = [first |-> IF mem[buf.addr].plain THEN -1 ELSE mem[buf.addr].start,
                      len |-> cqe.res]
          /\ given' = given + cqe.res
          /\ phase' = "drain"
  /\ UNCHANGED <<ringVars, kernelVars, batch, piece, plain, textVars>>

\* rustls or the frame decoder refuses what it is given, or the peer has
\* closed the TLS session.
Refused ==
  /\ Running /\ phase \in {"cqe", "decode"}
  /\ panic' = "refused"
  /\ UNCHANGED <<ringVars, kernelVars, batch, phase, tlsVars, textVars>>

Remaining == PlainOf(given) - plain

\* reader().read_exact: plaintext overwrites the start of the buffer, never
\* past the bytes the completion brought.
ReadExact ==
  /\ Running /\ phase = "drain" /\ Remaining > 0
  /\ piece' = Min2(cqe.res, Remaining)
  /\ mem' = [mem EXCEPT ![buf.addr] = [plain |-> TRUE, start |-> plain, len |-> piece']]
  /\ plain' = plain + piece'
  /\ phase' = "decode"
  /\ UNCHANGED <<br, khead, kernelVars, batch, given, last, textVars, panic>>

\* add_data on what the buffer now holds; a byte of the wire there is -1.
Decode ==
  /\ Running /\ phase = "decode"
  /\ LET data == [j \in 1 .. piece |->
                    IF mem[buf.addr].plain THEN mem[buf.addr].start + j - 1 ELSE -1]
         ret == add_data(handler, data)
     IN /\ handler' = ret.handler
        /\ messages' = IF ret.closed THEN messages ELSE messages \o ret.strs
        /\ panic' = IF ret.closed THEN "closed" ELSE "none"
  /\ piece' = 0
  /\ phase' = "drain"
  /\ UNCHANGED <<ringVars, kernelVars, batch, plain, given, last>>

\* The plaintext is used up, and the buffer goes back to the kernel.
ReturnBuffer ==
  /\ Running /\ phase = "drain" /\ Remaining = 0
  /\ br' = io_uring_buf_ring_advance(
             io_uring_buf_ring_add(br, buf.addr, BUF_SIZE, cqe.bid, 0), 1)
  /\ phase' = "release"
  /\ UNCHANGED <<khead, mem, kernelVars, batch, tlsVars, textVars, panic>>

CqAdvance ==
  /\ Running /\ phase = "release"
  /\ cq' = Tail(cq)
  /\ batch' = batch - 1
  /\ phase' = IF batch' = 0 THEN "submit" ELSE "cqe"
  /\ UNCHANGED <<ringVars, recv, got, tlsVars, textVars, panic>>

Kernel == (\E n \in 1 .. BUF_SIZE : KernelRecv(n)) \/ (\E res \in EndResults : KernelEnd(res))

Loop ==
  \/ Submit \/ SubmitFails \/ Peek \/ ReadTls \/ Refused
  \/ ReadExact \/ Decode \/ ReturnBuffer \/ CqAdvance

Next == Kernel \/ Loop

Spec == Init /\ [][Next]_vars

-----------------------------------------------------------------------------
(***************************************************************************)
(* Properties.                                                             *)
(***************************************************************************)
TypeOK ==
  /\ br \in Ring /\ khead \in Tails
  /\ mem \in [Slots -> [plain : BOOLEAN, start : Nat, len : 0 .. BUF_SIZE]]
  /\ recv \in {"prepared", "armed", "ended"}
  /\ cq \in Seq([res : EndResults \cup 1 .. BUF_SIZE, buffer : BOOLEAN, bid : Slots])
  /\ batch \in 0 .. BATCH
  /\ phase \in {"submit", "peek", "cqe", "drain", "decode", "release"}
  /\ piece \in 0 .. BUF_SIZE /\ plain \in 0 .. PlainOf(got)
  /\ handler \in Handler /\ messages \in Seq(Seq(Nat))
  /\ panic \in {"none", "syscall", "cqe error", "res 0", "refused", "closed"}
  /\ got \in 0 .. MAX_BYTES /\ given \in 0 .. got

\* Every buffer is either offered to the kernel, once, or belongs to one
\* completion that is not yet done with, although no value stands for its
\* ownership and a completion without a buffer names buffer 0
\* (io_uring_probe.rs:156, 164, 201).
Holders(b) ==
  {<<"kernel", k>> : k \in {k \in 0 .. ((br.tail - khead) % TAIL_MOD) - 1 :
                              br.bufs[SlotIndex(khead + k)].bid = b}}
    \cup {<<"cqe", j>> : j \in {j \in DOMAIN cq : cq[j].buffer /\ cq[j].bid = b
                                                  /\ (phase = "release" => j > 1)}}
OneOwner == \A b \in Slots : \E h \in Holders(b) : Holders(b) = {h}

\* rustls is given the bytes of the wire as a stream, although the buffers
\* are overwritten with plaintext before they go back
\* (io_uring_probe.rs:177-183).
Stream == INSTANCE RecvStream
StreamSpec == Stream!Spec

\* The texts whose last frame ends within the first count bytes, each named
\* by that frame
Ends(f, count) == FRAMES[f].opcode = "Text" /\ FRAMES[f].fin /\ FrameStart[f + 1] <= count
EndedTexts(count) == {f \in 1 .. Len(FRAMES) : Ends(f, count)}

\* Frame f goes on with a message that an earlier frame began.
IsData(f) == FRAMES[f].opcode \in {"Text", "Binary"}
Continues(f) ==
  \E g \in 1 .. f - 1 :
    IsData(g) /\ ~FRAMES[g].fin /\ \A h \in g + 1 .. f - 1 : ~IsData(h)

\* Between two completions nothing is left undone: every text whose last frame
\* has arrived has been returned, once and in order, and a text of one frame
\* with all its bytes, however records, frames and buffers are cut
\* (io_uring_probe.rs:179-189, 423).  Of a text in several frames the property
\* asks only that something is returned: the code forgets the frames before
\* the last (io_uring_probe.rs:434), and nothing says what should become of them.
TextsDelivered ==
  phase \in {"submit", "peek", "cqe"} =>
    LET ended == EndedTexts(PlainOf(given)) IN
      /\ Len(messages) = Cardinality(ended)
      /\ \A f \in ended : ~Continues(f) =>
           messages[Cardinality({g \in ended : g <= f})] = Payload(f)
=============================================================================
