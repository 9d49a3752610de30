--------------------------- MODULE FirstProbeInv ---------------------------
(***************************************************************************)
(* The inductive invariant of FirstProbe.  Buffers circulate in one order: *)
(* from the head of the ring to the tail lie those the kernel may fill,    *)
(* and from the tail on, lap after lap, those that completions announce.   *)
(***************************************************************************)
EXTENDS FirstProbe

\* Completions in cq that announce a buffer; the first one's buffer has gone
\* back, or its bytes have been handed over
Buffers == IF recv = "ended" THEN Len(cq) - 1 ELSE Len(cq)
Back == IF phase = "release" THEN 1 ELSE 0
Read == IF phase \in {"drain", "decode", "release"} THEN 1 ELSE 0

RingInv ==
  /\ \A s \in Slots : br.bufs[s] = [addr |-> s, len |-> BUF_SIZE, bid |-> s]
  /\ ((br.tail - khead) % TAIL_MOD) + Buffers - Back = RING_POOL_SIZE

QueueInv ==
  /\ recv = "ended" => cq # <<>> /\ ~cq[Len(cq)].buffer /\ cq[Len(cq)].res \in EndResults
  /\ \A j \in 1 .. Buffers :
       /\ cq[j].buffer /\ cq[j].res \in 1 .. BUF_SIZE
       /\ j > Back => cq[j].bid = SlotIndex(br.tail + j - 1 - Back)
  /\ batch <= Len(cq)
  /\ phase \in {"submit", "peek"} <=> batch = 0
  /\ phase \in {"drain", "decode", "release"} => Buffers >= 1

\* The bytes not handed over yet are, in order, those of the buffers announced.
BytesInv ==
  /\ \A j \in Read + 1 .. Buffers :
       LET held == mem[cq[j].bid] IN
         /\ ~held.plain /\ held.start <= got
         /\ held.start + cq[j].res = IF j < Buffers THEN mem[cq[j + 1].bid].start ELSE got
  /\ given = IF Buffers = Read THEN got ELSE mem[cq[Read + 1].bid].start

\* Plaintext is in the buffer in hand only between two calls.
PieceInv ==
  /\ piece <= plain /\ plain <= PlainOf(given)
  /\ phase \notin {"drain", "decode"} => plain = PlainOf(given)
  /\ phase = "decode" => mem[cq[1].bid].plain /\ mem[cq[1].bid].start + piece = plain
  /\ phase # "decode" => piece = 0

\* The handler after the first count bytes: where its decoder is, and what it
\* has kept of the text under way
At(h, count) ==
  LET d == h.frame_decoder IN
    /\ d.frame \in 1 .. Len(FRAMES) + 1
    /\ IF d.frame = Len(FRAMES) + 1
       THEN d.part = "header" /\ count >= FrameStart[d.frame]
       ELSE \/ /\ d.part = "header" /\ d.left \in 1 .. HEADER_LEN
               /\ count = FrameStart[d.frame] + HEADER_LEN - d.left
            \/ /\ d.part = "payload" /\ d.left \in 0 .. FRAMES[d.frame].len
               /\ count = FrameStart[d.frame] + HEADER_LEN + FRAMES[d.frame].len - d.left
               /\ FRAMES[d.frame].opcode = "Text" =>
                    h.str_acc = Bytes(FrameStart[d.frame] + HEADER_LEN,
                                      FRAMES[d.frame].len - d.left)

\* A frame's end is told at once, when its last byte has come.
Between(h) == h.frame_decoder.part = "payload" => h.frame_decoder.left > 0

\* What the handler makes of the first count bytes: of each text that has
\* ended, its last frame (a Start forgets the frame before it).
Kept(count) ==
  LET texts[f \in 0 .. Len(FRAMES)] ==
        IF f = 0 THEN <<>>
        ELSE IF Ends(f, count) THEN Append(texts[f - 1], Payload(f)) ELSE texts[f - 1]
  IN texts[Len(FRAMES)]

HandlerInv ==
  IF panic = "closed" THEN phase = "drain"
  ELSE /\ At(handler, plain - piece) /\ Between(handler)
       /\ messages = Kept(plain - piece)

ProbeInv == TypeOK /\ RingInv /\ QueueInv /\ BytesInv /\ PieceInv /\ HandlerInv
=============================================================================
