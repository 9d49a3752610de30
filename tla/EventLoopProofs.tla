--------------------------- MODULE EventLoopProofs ---------------------------
(***************************************************************************)
(* Proofs about EventLoop and the modules it is built from, for every      *)
(* number of streams, ring size, batch size and width of the tags: tags    *)
(* unpack to what was packed, the completion ring is a queue, the loop     *)
(* handles completions once and in order through pointers that stay good,  *)
(* keeps a write's memory exactly as long as it is needed, and meets no    *)
(* panic about its own bookkeeping.                                        *)
(***************************************************************************)
EXTENDS EventLoopInv, RingLemmas, SequenceTheorems, FiniteSetTheorems

-----------------------------------------------------------------------------
(***************************************************************************)
(* The tags: unpacking returns what was packed, so two operations that     *)
(* differ in event, owner or request differ in their tags.                 *)
(***************************************************************************)

LEMMA Quotient ==
  ASSUME NEW n \in Nat \ {0}, NEW q \in Nat, NEW r \in 0 .. n - 1
  PROVE  (n * q + r) \div n = q
OBVIOUS

\* A product's remainder and an offset below the factor stay below it.
LEMMA BelowProduct ==
  ASSUME NEW n \in Nat \ {0}, NEW m \in Nat \ {0}, NEW o \in 0 .. m - 1, NEW r \in 0 .. n - 1
  PROVE  n * o + r \in 0 .. n * m - 1
<1>1. n * o \in Nat /\ n * m \in Nat
  OBVIOUS
<1>2. n * o + n <= n * m
  <2>1. o + 1 <= m /\ o + 1 \in Nat
    OBVIOUS
  <2>2. n * (o + 1) <= n * m
    BY <2>1
  <2>3. n * (o + 1) = n * o + n
    OBVIOUS
  <2> QED BY <2>2, <2>3
<1> QED BY <1>1, <1>2

LEMMA Units ==
  /\ REQ_MOD \in Nat \ {0} /\ OWNER_MOD \in Nat \ {0} /\ GAP \in Nat \ {0}
  /\ OWNER_UNIT \in Nat \ {0} /\ REQ_MOD <= OWNER_UNIT
  /\ EVENT_UNIT \in Nat \ {0}
<1>1. REQ_MOD \in Nat \ {0} /\ OWNER_MOD \in Nat \ {0} /\ GAP \in Nat \ {0}
  BY FieldAssumption
<1>2. OWNER_UNIT \in Nat \ {0} /\ REQ_MOD <= OWNER_UNIT
  BY <1>1 DEF OWNER_UNIT
<1> QED BY <1>1, <1>2 DEF EVENT_UNIT

\* What event, owner and req unpack is what from_parts packed (lib.rs:65-96).
THEOREM RoundTrip ==
  ASSUME NEW event \in Nat,
         NEW owner \in 0 .. OWNER_MOD - 1,
         NEW req \in 0 .. REQ_MOD - 1
  PROVE  LET data == from_parts(event, owner, req) IN
           event_of(data) = event /\ owner_of(data) = owner /\ req_of(data) = req
<1> DEFINE data == from_parts(event, owner, req)
           high == OWNER_MOD * event + owner
           low == OWNER_UNIT * owner + req
<1>1. owner \in Nat /\ req \in Nat /\ high \in Nat
  BY Units
<1>2. data = OWNER_UNIT * high + req
  <2>1. event * EVENT_UNIT = OWNER_UNIT * (OWNER_MOD * event)
    BY Units DEF EVENT_UNIT
  <2>2. OWNER_UNIT * high = OWNER_UNIT * (OWNER_MOD * event) + OWNER_UNIT * owner
    BY Units, <1>1
  <2> HIDE DEF high
  <2> QED BY <2>1, <2>2, <1>1, Units DEF from_parts
<1>3. req \in 0 .. OWNER_UNIT - 1
  BY Units
<1>4. data \div OWNER_UNIT = high
  <2> HIDE DEF data, high
  <2> QED BY <1>1, <1>2, <1>3, Units, Quotient
<1>5. owner_of(data) = owner
  BY <1>4, Units, Remainder DEF owner_of
<1>6. req_of(data) = req
  <2>1. GAP * high \in Nat
    BY <1>1, Units
  <2>2. OWNER_UNIT * high = REQ_MOD * (GAP * high)
    <3> HIDE DEF high
    <3> QED BY <1>1, Units DEF OWNER_UNIT
  <2>3. data = REQ_MOD * (GAP * high) + req
    BY <1>2, <2>2
  <2>4. (REQ_MOD * (GAP * high) + req) % REQ_MOD = req
    <3> DEFINE g == GAP * high
    <3> HIDE DEF g
    <3>1. (REQ_MOD * g + req) % REQ_MOD = req
      BY <2>1, Units, Remainder DEF g
    <3> QED BY <3>1 DEF g
  <2> QED BY <2>3, <2>4 DEF req_of
<1>7. event_of(data) = event
  <2>1. low \in 0 .. OWNER_UNIT * OWNER_MOD - 1
    BY Units, <1>3, BelowProduct
  <2>2. data = EVENT_UNIT * event + low
    BY Units, <1>1 DEF from_parts
  <2>3. low \in 0 .. EVENT_UNIT - 1
    BY <2>1 DEF EVENT_UNIT
  <2> HIDE DEF data, low
  <2> QED BY <2>2, <2>3, Units, Quotient DEF event_of
<1> QED BY <1>5, <1>6, <1>7

\* No two operations in flight share a tag unless they share event, owner and
\* request: a completion finds its stream and its pending send (net.rs:65).
THEOREM TagsDistinct ==
  ASSUME NEW e1 \in Nat, NEW o1 \in 0 .. OWNER_MOD - 1, NEW r1 \in 0 .. REQ_MOD - 1,
         NEW e2 \in Nat, NEW o2 \in 0 .. OWNER_MOD - 1, NEW r2 \in 0 .. REQ_MOD - 1,
         from_parts(e1, o1, r1) = from_parts(e2, o2, r2)
  PROVE  e1 = e2 /\ o1 = o2 /\ r1 = r2
BY RoundTrip

-----------------------------------------------------------------------------
(***************************************************************************)
(* The completion ring: ring and overflow list together lose nothing, keep *)
(* the order, and hand out pointers that stay good while more is posted.   *)
(***************************************************************************)

\* A completion ring of entries of E that holds no more than its size
Cq(E) ==
  {ring \in [cqes : [CqSlots -> E], khead : 0 .. CQ_MOD - 1, ktail : 0 .. CQ_MOD - 1,
           overflow : Seq(E)] : Ready(ring) <= CQ_SIZE}

\* The slot of the k-th oldest completion, and the completions in the ring
SlotOf(ring, k) == (ring.khead + k - 1) % CQ_SIZE
InRing(ring) == [k \in 1 .. Ready(ring) |-> ring.cqes[SlotOf(ring, k)]]

LEMMA CqFields ==
  ASSUME NEW E, NEW ring \in Cq(E)
  PROVE  ring \in [cqes : [CqSlots -> E], khead : 0 .. CQ_MOD - 1, ktail : 0 .. CQ_MOD - 1,
                 overflow : Seq(E)]
BY DEF Cq

LEMMA CqLaps == \E laps \in Nat \ {0} : CQ_MOD = laps * CQ_SIZE
<1>1. PICK laps \in 2 .. CQ_MOD : CQ_MOD = laps * CQ_SIZE
  BY CqAssumption
<1>2. laps \in Nat \ {0}
  BY <1>1, CqAssumption
<1> QED BY <1>1, <1>2

\* An offset from a wrapped head has the slot it has from the head.
LEMMA CqOffset ==
  ASSUME NEW c \in Nat, NEW d \in Nat
  PROVE  ((c % CQ_MOD) + d) % CQ_SIZE = (c + d) % CQ_SIZE
<1>1. \A n, k \in Nat \ {0} : ((c % (k * n)) + d) % n = (c + d) % n
  BY ModOffset
<1>2. PICK laps \in Nat \ {0} : CQ_MOD = laps * CQ_SIZE
  BY CqLaps
<1>3. CQ_SIZE \in Nat \ {0}
  BY CqAssumption
<1>4. ((c % (laps * CQ_SIZE)) + d) % CQ_SIZE = (c + d) % CQ_SIZE
  BY <1>1, <1>3
<1> QED BY <1>2, <1>4

LEMMA CqSizes ==
  CQ_SIZE \in Nat \ {0} /\ CQ_MOD \in Nat \ {0} /\ CQ_SIZE < CQ_MOD
<1>1. PICK laps \in 2 .. CQ_MOD : CQ_MOD = laps * CQ_SIZE
  BY CqAssumption
<1>2. CQ_SIZE \in Nat \ {0} /\ laps \in Nat \ {0} /\ laps >= 2
  BY <1>1, CqAssumption
<1>3. laps * CQ_SIZE >= 2 * CQ_SIZE
  BY <1>2
<1> QED BY <1>1, <1>2, <1>3, CqAssumption

LEMMA ReadyType ==
  ASSUME NEW E, NEW ring \in Cq(E)
  PROVE  Ready(ring) \in 0 .. CQ_SIZE
<1>1. ring.ktail - ring.khead \in Int
  BY CqFields, CqSizes
<1>2. (ring.ktail - ring.khead) % CQ_MOD \in Nat
  BY <1>1, CqSizes
<1> QED BY <1>2, CqSizes DEF Cq, Ready

\* The tail is as far from the head as there are completions, wrapped.
LEMMA TailOfReady ==
  ASSUME NEW E, NEW ring \in Cq(E)
  PROVE  ring.ktail = (ring.khead + Ready(ring)) % CQ_MOD
<1> DEFINE h == ring.khead
           t == ring.ktail
<1>1. h \in 0 .. CQ_MOD - 1 /\ t \in 0 .. CQ_MOD - 1 /\ CQ_MOD \in Nat \ {0}
  BY CqFields, CqSizes
<1>2. Ready(ring) = (t - h) % CQ_MOD
  BY DEF Ready
<1> HIDE DEF h, t
<1>3. CASE h <= t
  <2>1. t - h \in 0 .. CQ_MOD - 1 /\ t - h = CQ_MOD * 0 + (t - h)
    BY <1>1, <1>3
  <2>2. (t - h) % CQ_MOD = t - h
    BY <1>1, <2>1, ModSmall
  <2>3. h + (t - h) = t /\ t % CQ_MOD = t
    BY <1>1, ModSmall
  <2> QED BY <1>2, <2>2, <2>3 DEF h, t
<1>4. CASE t < h
  <2>1. /\ t - h + CQ_MOD \in 0 .. CQ_MOD - 1
        /\ t - h = CQ_MOD * (-1) + (t - h + CQ_MOD)
    BY <1>1, <1>4
  <2>2. (CQ_MOD * (-1) + (t - h + CQ_MOD)) % CQ_MOD = t - h + CQ_MOD
    BY <1>1, <2>1, IntRemainder
  <2>3. h + (t - h + CQ_MOD) = t + CQ_MOD /\ t \in Nat
    BY <1>1
  <2>4. (t + CQ_MOD) % CQ_MOD = t % CQ_MOD /\ t % CQ_MOD = t
    BY <1>1, <2>3, ModLap, ModSmall
  <2> QED BY <1>2, <2>1, <2>2, <2>3, <2>4 DEF h, t
<1> QED BY <1>1, <1>3, <1>4

LEMMA SlotOfType ==
  ASSUME NEW E, NEW ring \in Cq(E), NEW k \in Nat \ {0}
  PROVE  SlotOf(ring, k) \in CqSlots
<1>1. ring.khead + k - 1 \in Nat
  BY CqFields, CqSizes
<1> QED BY <1>1, CqSizes, Decompose DEF SlotOf, CqSlots

LEMMA InRingType ==
  ASSUME NEW E, NEW ring \in Cq(E)
  PROVE  /\ InRing(ring) \in Seq(E)
         /\ Len(InRing(ring)) = Ready(ring)
         /\ \A k \in 1 .. Ready(ring) : InRing(ring)[k] = ring.cqes[SlotOf(ring, k)]
<1>1. Ready(ring) \in Nat
  BY ReadyType
<1>2. \A k \in 1 .. Ready(ring) : ring.cqes[SlotOf(ring, k)] \in E
  BY <1>1, SlotOfType, CqFields
<1>3. InRing(ring) \in [1 .. Ready(ring) -> E]
  BY <1>2 DEF InRing
<1>4. InRing(ring) \in Seq(E) /\ Len(InRing(ring)) = Ready(ring)
  BY <1>1, <1>3
<1> QED BY <1>4 DEF InRing

LEMMA ContentsParts ==
  ASSUME NEW E, NEW ring \in Cq(E)
  PROVE  Contents(ring) = InRing(ring) \o ring.overflow
BY DEF Contents, InRing, SlotOf

LEMMA ContentsType ==
  ASSUME NEW E, NEW ring \in Cq(E)
  PROVE  /\ Contents(ring) \in Seq(E)
         /\ Len(Contents(ring)) = Ready(ring) + Len(ring.overflow)
         /\ \A k \in 1 .. Ready(ring) : Contents(ring)[k] = ring.cqes[SlotOf(ring, k)]
<1> DEFINE R == InRing(ring)
           o == ring.overflow
           r == Ready(ring)
           all == R \o o
<1>1. r \in Nat /\ o \in Seq(E) /\ Len(o) \in Nat
  BY ReadyType, CqFields
<1>2. R \in Seq(E) /\ Len(R) = r /\ \A k \in 1 .. r : R[k] = ring.cqes[SlotOf(ring, k)]
  BY InRingType
<1>3. Contents(ring) = all
  BY ContentsParts
<1> HIDE DEF R, o, r
<1>4. /\ all \in Seq(E)
      /\ Len(all) = Len(R) + Len(o)
      /\ \A k \in 1 .. Len(R) + Len(o) : all[k] = IF k <= Len(R) THEN R[k] ELSE o[k - Len(R)]
  BY <1>1, <1>2, ConcatProperties
<1> HIDE DEF all
<1>5. ASSUME NEW k \in 1 .. r
      PROVE  all[k] = ring.cqes[SlotOf(ring, k)]
  <2>1. k \in 1 .. Len(R) + Len(o) /\ k <= Len(R)
    BY <1>1, <1>2
  <2>2. all[k] = R[k]
    BY <1>4, <2>1
  <2> QED BY <1>2, <2>2
<1> QED BY <1>2, <1>3, <1>4, <1>5 DEF r, o

\* A completion put at the tail of a ring with room is the ring's newest.
LEMMA PutProperties ==
  ASSUME NEW E, NEW ring \in Cq(E), NEW cqe \in E, Ready(ring) < CQ_SIZE
  PROVE  /\ Put(ring, cqe) \in Cq(E)
         /\ Ready(Put(ring, cqe)) = Ready(ring) + 1
         /\ Put(ring, cqe).khead = ring.khead
         /\ Put(ring, cqe).overflow = ring.overflow
         /\ InRing(Put(ring, cqe)) = Append(InRing(ring), cqe)
<1> DEFINE r == Ready(ring)
           h == ring.khead
           p == Put(ring, cqe)
           s == SlotOf(ring, r + 1)
<1>1. /\ r \in 0 .. CQ_SIZE /\ r < CQ_SIZE
      /\ h \in 0 .. CQ_MOD - 1 /\ ring.ktail = (h + r) % CQ_MOD
  BY ReadyType, TailOfReady, CqFields
<1>2. ring.ktail % CQ_SIZE = s
  <2>1. PICK laps \in Nat \ {0} : CQ_MOD = laps * CQ_SIZE
    BY CqLaps
  <2>2. h + r \in Nat
    BY <1>1, CqSizes
  <2>3. ((h + r) % (laps * CQ_SIZE)) % CQ_SIZE = (h + r) % CQ_SIZE
    BY <2>2, CqSizes, ModMod
  <2>4. h + (r + 1) - 1 = h + r
    BY <1>1
  <2> QED BY <1>1, <2>1, <2>3, <2>4 DEF SlotOf
<1>3. s \in CqSlots
  BY <1>1, SlotOfType
<1> HIDE DEF s
<1>4. p = [cqes |-> [ring.cqes EXCEPT ![s] = cqe], khead |-> h,
           ktail |-> (ring.ktail + 1) % CQ_MOD, overflow |-> ring.overflow]
  <2>1. ring \in [cqes : [CqSlots -> E], khead : 0 .. CQ_MOD - 1, ktail : 0 .. CQ_MOD - 1,
               overflow : Seq(E)]
    BY CqFields
  <2>2. p = [ring EXCEPT !.cqes = [ring.cqes EXCEPT ![s] = cqe], !.ktail = (ring.ktail + 1) % CQ_MOD]
    BY <1>2 DEF Put
  <2> QED BY <2>1, <2>2
<1> HIDE DEF p, r, h
<1>5. /\ p.khead = h /\ p.overflow = ring.overflow
      /\ p.ktail = (ring.ktail + 1) % CQ_MOD
      /\ p.cqes = [ring.cqes EXCEPT ![s] = cqe]
  BY <1>4
<1>6. p.ktail = (h + (r + 1)) % CQ_MOD /\ p.ktail \in 0 .. CQ_MOD - 1
  <2>1. h + r \in Nat /\ h + r + 1 = h + (r + 1) /\ h + (r + 1) \in Nat
    BY <1>1, CqSizes
  <2>2. (((h + r) % CQ_MOD) + 1) % CQ_MOD = (h + r + 1) % CQ_MOD
    BY <2>1, CqSizes, ModStep
  <2> QED BY <1>1, <1>5, <2>1, <2>2, CqSizes, Decompose
<1>7. Ready(p) = r + 1
  <2>1. r + 1 \in 0 .. CQ_MOD - 1 /\ h \in Nat
    BY <1>1, CqSizes
  <2>2. (((h + (r + 1)) % CQ_MOD) - (h % CQ_MOD)) % CQ_MOD = r + 1
    BY <2>1, CqSizes, ModDistance
  <2>3. h % CQ_MOD = h
    BY <1>1, CqSizes, ModSmall
  <2>4. Ready(p) = (p.ktail - p.khead) % CQ_MOD
    BY DEF Ready
  <2> QED BY <1>5, <1>6, <2>2, <2>3, <2>4
<1>8. p \in Cq(E)
  <2>1. ring.cqes \in [CqSlots -> E] /\ ring.overflow \in Seq(E)
    BY CqFields
  <2>2. [ring.cqes EXCEPT ![s] = cqe] \in [CqSlots -> E]
    BY <1>3, <2>1
  <2>3. p \in [cqes : [CqSlots -> E], khead : 0 .. CQ_MOD - 1, ktail : 0 .. CQ_MOD - 1,
               overflow : Seq(E)]
    BY <1>1, <1>4, <1>5, <1>6, <2>1, <2>2
  <2>4. Ready(p) <= CQ_SIZE
    BY <1>1, <1>7, CqSizes
  <2> QED BY <2>3, <2>4 DEF Cq
<1>9. InRing(p) = Append(InRing(ring), cqe)
  <2>1. /\ InRing(ring) \in Seq(E) /\ Len(InRing(ring)) = r
        /\ \A k \in 1 .. r : InRing(ring)[k] = ring.cqes[SlotOf(ring, k)]
    BY InRingType DEF r
  <2> DEFINE a == Append(InRing(ring), cqe)
  <2>2. /\ a \in Seq(E) /\ Len(a) = r + 1 /\ a[r + 1] = cqe
        /\ \A k \in 1 .. r : a[k] = ring.cqes[SlotOf(ring, k)]
    BY <1>1, <2>1, AppendProperties
  <2> HIDE DEF a
  <2>3. /\ InRing(p) \in Seq(E) /\ Len(InRing(p)) = r + 1
        /\ \A k \in 1 .. r + 1 : InRing(p)[k] = p.cqes[SlotOf(p, k)]
    BY <1>7, <1>8, InRingType
  <2>4. \A k \in 1 .. r + 1 : SlotOf(p, k) = SlotOf(ring, k)
    BY <1>5 DEF SlotOf, h
  <2>5. ASSUME NEW k \in 1 .. r + 1
        PROVE  InRing(p)[k] = a[k]
    <3>1. CASE k = r + 1
      <4>1. p.cqes[s] = cqe
        BY <1>3, <1>5, CqFields
      <4> QED BY <2>2, <2>3, <2>4, <3>1, <4>1 DEF s, r
    <3>2. CASE k # r + 1
      <4>1. k \in 1 .. r
        BY <1>1, <3>2
      <4>2. SlotOf(ring, k) \in CqSlots
        BY <1>1, <4>1, SlotOfType
      <4>3. SlotOf(ring, k) # s
        <5>1. /\ r + 1 - k \in 1 .. CQ_SIZE - 1
              /\ h + k - 1 \in Nat
              /\ h + (r + 1) - 1 = h + k - 1 + (r + 1 - k)
          BY <1>1, <4>1, CqSizes
        <5>2. (h + k - 1 + (r + 1 - k)) % CQ_SIZE # (h + k - 1) % CQ_SIZE
          BY <5>1, CqSizes, ModDistinct
        <5> QED BY <5>1, <5>2 DEF SlotOf, s, r, h
      <4>4. p.cqes[SlotOf(ring, k)] = ring.cqes[SlotOf(ring, k)]
        BY <1>5, <4>2, <4>3, CqFields
      <4> QED BY <2>2, <2>3, <2>4, <4>1, <4>4
    <3> QED BY <3>1, <3>2
  <2>6. InRing(p) = a
    BY <2>2, <2>3, <2>5, SeqEqual
  <2> QED BY <2>6 DEF a
<1> QED BY <1>5, <1>7, <1>8, <1>9 DEF p, r, h

\* Posting a completion adds it behind all others.
LEMMA PostAppends ==
  ASSUME NEW E, NEW ring \in Cq(E), NEW cqe \in E
  PROVE  /\ Post(ring, cqe) \in Cq(E)
         /\ Contents(Post(ring, cqe)) = Append(Contents(ring), cqe)
         /\ Post(ring, cqe).khead = ring.khead
         /\ Ready(ring) <= Ready(Post(ring, cqe))
<1> DEFINE q == Post(ring, cqe)
           o == ring.overflow
           R == InRing(ring)
<1>1. o \in Seq(E) /\ R \in Seq(E) /\ Ready(ring) \in 0 .. CQ_SIZE
  BY CqFields, InRingType, ReadyType
<1>2. Contents(ring) = R \o o
  BY ContentsParts
<1>3. CASE HasRoom(ring)
  <2>1. Ready(ring) < CQ_SIZE /\ o = <<>> /\ q = Put(ring, cqe)
    BY <1>3 DEF HasRoom, Post
  <2>2. /\ q \in Cq(E) /\ Ready(q) = Ready(ring) + 1
        /\ q.khead = ring.khead /\ q.overflow = <<>>
        /\ InRing(q) = Append(R, cqe)
    BY <2>1, PutProperties
  <2> HIDE DEF q, R, o
  <2>3. Contents(q) = Append(R, cqe) \o <<>>
    BY <2>2, ContentsParts
  <2>4. Append(R, cqe) \in Seq(E)
    BY <1>1, AppendProperties
  <2>5. Append(R, cqe) \o <<>> = Append(R, cqe) /\ R \o <<>> = R
    BY <1>1, <2>4, ConcatEmptySeq
  <2> QED BY <1>1, <1>2, <2>1, <2>2, <2>3, <2>5, CqSizes DEF q
<1>4. CASE ~HasRoom(ring)
  <2>1. q = [ring EXCEPT !.overflow = Append(o, cqe)]
    BY <1>4 DEF Post
  <2>2. q = [cqes |-> ring.cqes, khead |-> ring.khead, ktail |-> ring.ktail,
             overflow |-> Append(o, cqe)]
    <3>1. ring \in [cqes : [CqSlots -> E], khead : 0 .. CQ_MOD - 1, ktail : 0 .. CQ_MOD - 1,
                 overflow : Seq(E)]
      BY CqFields
    <3> QED BY <2>1, <3>1
  <2> HIDE DEF q, R, o
  <2>3. /\ q.cqes = ring.cqes /\ q.khead = ring.khead /\ q.ktail = ring.ktail
        /\ q.overflow = Append(o, cqe)
    BY <2>2
  <2>4. Append(o, cqe) \in Seq(E)
    BY <1>1, AppendProperties
  <2>5. Ready(q) = Ready(ring) /\ InRing(q) = R
    BY <2>3 DEF Ready, InRing, SlotOf, R
  <2>6. q \in Cq(E)
    <3>1. q \in [cqes : [CqSlots -> E], khead : 0 .. CQ_MOD - 1, ktail : 0 .. CQ_MOD - 1,
                 overflow : Seq(E)]
      BY <2>2, <2>4, CqFields
    <3> QED BY <1>1, <2>5, <3>1 DEF Cq
  <2>7. Contents(q) = R \o Append(o, cqe)
    BY <2>3, <2>5, <2>6, ContentsParts
  <2>8. R \o Append(o, cqe) = Append(R \o o, cqe)
    <3>1. Append(o, cqe) = o \o <<cqe>> /\ <<cqe>> \in Seq(E) /\ R \o o \in Seq(E)
      BY <1>1, AppendIsConcat, ConcatProperties
    <3>2. (R \o o) \o <<cqe>> = R \o (o \o <<cqe>>)
      BY <1>1, <3>1, ConcatAssociative
    <3>3. Append(R \o o, cqe) = (R \o o) \o <<cqe>>
      BY <3>1, AppendIsConcat
    <3> QED BY <3>1, <3>2, <3>3
  <2> QED BY <1>1, <1>2, <2>3, <2>5, <2>6, <2>7, <2>8, CqSizes DEF q
<1> QED BY <1>3, <1>4

\* Moving an overflowed completion into the ring changes neither which
\* completions there are nor their order.
LEMMA FlushKeepsContents ==
  ASSUME NEW E, NEW ring \in Cq(E), CanFlush(ring)
  PROVE  /\ Flush(ring) \in Cq(E)
         /\ Contents(Flush(ring)) = Contents(ring)
         /\ Flush(ring).khead = ring.khead
         /\ Ready(ring) <= Ready(Flush(ring))
<1> DEFINE o == ring.overflow
           R == InRing(ring)
           p == Put(ring, Head(o))
           q == Flush(ring)
<1>1. /\ o \in Seq(E) /\ R \in Seq(E) /\ Ready(ring) \in 0 .. CQ_SIZE
      /\ o # <<>> /\ Ready(ring) < CQ_SIZE
  BY CqFields, InRingType, ReadyType DEF CanFlush
<1>2. Head(o) \in E /\ Tail(o) \in Seq(E)
  BY <1>1, HeadTailProperties
<1>3. /\ p \in Cq(E) /\ Ready(p) = Ready(ring) + 1
      /\ p.khead = ring.khead /\ InRing(p) = Append(R, Head(o))
  BY <1>1, <1>2, PutProperties
<1>4. q = [p EXCEPT !.overflow = Tail(o)]
  BY DEF Flush
<1> HIDE DEF p, q
<1>5. q = [cqes |-> p.cqes, khead |-> p.khead, ktail |-> p.ktail, overflow |-> Tail(o)]
  <2>1. p \in [cqes : [CqSlots -> E], khead : 0 .. CQ_MOD - 1, ktail : 0 .. CQ_MOD - 1,
               overflow : Seq(E)]
    BY <1>3, CqFields
  <2> QED BY <1>4, <2>1
<1> HIDE DEF o, R
<1>6. q.cqes = p.cqes /\ q.khead = p.khead /\ q.ktail = p.ktail /\ q.overflow = Tail(o)
  BY <1>5
<1>7. Ready(q) = Ready(p) /\ InRing(q) = InRing(p)
  BY <1>6 DEF Ready, InRing, SlotOf
<1>8. q \in Cq(E)
  <2>1. q \in [cqes : [CqSlots -> E], khead : 0 .. CQ_MOD - 1, ktail : 0 .. CQ_MOD - 1,
               overflow : Seq(E)]
    BY <1>2, <1>3, <1>5, CqFields
  <2>2. Ready(p) \in 0 .. CQ_SIZE
    BY <1>3, ReadyType
  <2> QED BY <1>7, <2>1, <2>2 DEF Cq
<1>9. Contents(q) = Append(R, Head(o)) \o Tail(o) /\ Contents(ring) = R \o o
  BY <1>3, <1>6, <1>7, <1>8, ContentsParts DEF R, o
<1>10. Append(R, Head(o)) \o Tail(o) = R \o o
  <2>1. Append(R, Head(o)) = R \o <<Head(o)>> /\ <<Head(o)>> \in Seq(E)
    BY <1>1, <1>2, AppendIsConcat
  <2>2. (R \o <<Head(o)>>) \o Tail(o) = R \o (<<Head(o)>> \o Tail(o))
    BY <1>1, <1>2, <2>1, ConcatAssociative
  <2>3. <<Head(o)>> \o Tail(o) = o
    BY <1>1
  <2> QED BY <2>1, <2>2, <2>3
<1>11. Ready(ring) <= Ready(q)
  BY <1>1, <1>3, <1>7, CqSizes
<1> QED BY <1>3, <1>6, <1>8, <1>9, <1>10, <1>11 DEF q

\* Releasing one entry takes away the oldest completion; the others stay
\* where they are.
THEOREM AdvanceDropsFirst ==
  ASSUME NEW E, NEW ring \in Cq(E), Ready(ring) > 0
  PROVE  /\ io_uring_cq_advance(ring, 1) \in Cq(E)
         /\ Contents(ring) # <<>>
         /\ Contents(io_uring_cq_advance(ring, 1)) = Tail(Contents(ring))
         /\ Ready(io_uring_cq_advance(ring, 1)) = Ready(ring) - 1
         /\ \A k \in Nat \ {0} : SlotOf(io_uring_cq_advance(ring, 1), k) = SlotOf(ring, k + 1)
<1> DEFINE q == io_uring_cq_advance(ring, 1)
           r == Ready(ring)
           h == ring.khead
           o == ring.overflow
           R == InRing(ring)
<1>1. /\ r \in 1 .. CQ_SIZE /\ h \in 0 .. CQ_MOD - 1 /\ h \in Nat
      /\ ring.ktail = (h + r) % CQ_MOD /\ o \in Seq(E)
  BY ReadyType, TailOfReady, CqFields, CqSizes
<1>2. q = [cqes |-> ring.cqes, khead |-> (h + 1) % CQ_MOD, ktail |-> ring.ktail, overflow |-> o]
  BY CqFields DEF io_uring_cq_advance
<1>3. R \in Seq(E) /\ Len(R) = r /\ \A k \in 1 .. r : R[k] = ring.cqes[SlotOf(ring, k)]
  BY InRingType
<1>4. Contents(ring) = R \o o
  BY ContentsParts
<1> HIDE DEF q, r, R, o
<1>5. /\ q.cqes = ring.cqes /\ q.khead = (h + 1) % CQ_MOD /\ q.ktail = ring.ktail
      /\ q.overflow = o
  BY <1>2
<1>6. Ready(q) = r - 1
  <2>1. r - 1 \in 0 .. CQ_MOD - 1 /\ h + 1 \in Nat /\ (h + 1) + (r - 1) = h + r
    BY <1>1, CqSizes
  <2>2. ((((h + 1) + (r - 1)) % CQ_MOD) - ((h + 1) % CQ_MOD)) % CQ_MOD = r - 1
    BY <2>1, CqSizes, ModDistance
  <2>3. Ready(q) = (q.ktail - q.khead) % CQ_MOD
    BY DEF Ready
  <2> QED BY <1>1, <1>5, <2>1, <2>2, <2>3
<1>7. ASSUME NEW k \in Nat \ {0}
      PROVE  SlotOf(q, k) = SlotOf(ring, k + 1)
  <2>2. PICK j \in Nat : k = j + 1
    <3>1. k - 1 \in Nat /\ k = (k - 1) + 1
      OBVIOUS
    <3> QED BY <3>1
  <2>3. PICK c \in Nat : c = h + 1
    BY <1>1
  <2>4. ((c % CQ_MOD) + j) % CQ_SIZE = (c + j) % CQ_SIZE
    BY CqOffset
  <2>5. c % CQ_MOD \in Nat
    BY CqSizes, Decompose
  <2>6. (c % CQ_MOD) + k - 1 = (c % CQ_MOD) + j /\ c + j = h + (k + 1) - 1
    BY <1>1, <2>2, <2>3, <2>5
  <2> QED BY <1>5, <2>3, <2>4, <2>6 DEF SlotOf
<1>8. q \in Cq(E)
  <2>1. (h + 1) % CQ_MOD \in 0 .. CQ_MOD - 1
    <3>1. h + 1 \in Nat
      BY <1>1
    <3> QED BY <3>1, CqSizes, Decompose
  <2>2. q \in [cqes : [CqSlots -> E], khead : 0 .. CQ_MOD - 1, ktail : 0 .. CQ_MOD - 1,
               overflow : Seq(E)]
    BY <1>1, <1>2, <2>1, CqFields
  <2>3. Ready(q) <= CQ_SIZE
    BY <1>1, <1>6, CqSizes
  <2> QED BY <2>2, <2>3 DEF Cq
<1>9. R # <<>> /\ Tail(R) \in Seq(E) /\ Len(Tail(R)) = r - 1
      /\ \A k \in 1 .. r - 1 : Tail(R)[k] = R[k + 1]
  <2>1. R # <<>>
    BY <1>1, <1>3
  <2> QED BY <1>3, <2>1, HeadTailProperties
<1>10. InRing(q) = Tail(R)
  <2>1. /\ InRing(q) \in Seq(E) /\ Len(InRing(q)) = r - 1
        /\ \A k \in 1 .. r - 1 : InRing(q)[k] = q.cqes[SlotOf(q, k)]
    BY <1>6, <1>8, InRingType
  <2>2. ASSUME NEW k \in 1 .. r - 1
        PROVE  InRing(q)[k] = Tail(R)[k]
    <3>1. k \in Nat \ {0} /\ k + 1 \in 1 .. r
      BY <1>1
    <3>2. SlotOf(q, k) = SlotOf(ring, k + 1)
      BY <1>7, <3>1
    <3> QED BY <1>3, <1>5, <1>9, <2>1, <3>1, <3>2
  <2> QED BY <1>9, <2>1, <2>2, SeqEqual
<1>11. Contents(q) = Tail(R) \o o
  BY <1>5, <1>8, <1>10, ContentsParts
<1>12. R \o o # <<>> /\ Tail(R \o o) = Tail(R) \o o
  <2>1. Head(R) \in E /\ R = <<Head(R)>> \o Tail(R) /\ <<Head(R)>> \in Seq(E)
    BY <1>3, <1>9, HeadTailProperties
  <2>2. (<<Head(R)>> \o Tail(R)) \o o = <<Head(R)>> \o (Tail(R) \o o)
    BY <1>1, <1>9, <2>1, ConcatAssociative
  <2>3. Tail(R) \o o \in Seq(E)
    BY <1>1, <1>9, ConcatProperties
  <2> DEFINE x == Head(R)
             y == Tail(R) \o o
  <2>4. R \o o = <<x>> \o y
    BY <2>1, <2>2
  <2>5. x \in E /\ y \in Seq(E)
    BY <2>1, <2>3
  <2> HIDE DEF x, y
  <2>6. <<x>> \o y # <<>> /\ Tail(<<x>> \o y) = y
    BY <2>5
  <2> QED BY <2>4, <2>6 DEF y
<1> QED BY <1>4, <1>6, <1>7, <1>8, <1>11, <1>12 DEF q, r

\* The pointers of a batch are those of the oldest completions.
LEMMA PeekType ==
  ASSUME NEW E, NEW ring \in Cq(E), NEW count \in Nat
  PROVE  /\ io_uring_peek_batch_cqe(ring, count) \in Seq(CqSlots)
         /\ Len(io_uring_peek_batch_cqe(ring, count)) = Min2(Ready(ring), count)
         /\ \A k \in 1 .. Min2(Ready(ring), count) :
              io_uring_peek_batch_cqe(ring, count)[k] = SlotOf(ring, k)
<1> DEFINE n == Min2(Ready(ring), count)
           b == io_uring_peek_batch_cqe(ring, count)
<1>1. Ready(ring) \in 0 .. CQ_SIZE
  BY ReadyType
<1>2. n \in Nat
  BY <1>1, CqSizes DEF Min2
<1>3. b = [k \in 1 .. n |-> SlotOf(ring, k)]
  BY DEF io_uring_peek_batch_cqe, SlotOf
<1> HIDE DEF n, b
<1>4. \A k \in 1 .. n : SlotOf(ring, k) \in CqSlots
  BY <1>2, SlotOfType
<1>5. b \in [1 .. n -> CqSlots]
  BY <1>3, <1>4
<1> QED BY <1>2, <1>3, <1>5 DEF n, b

-----------------------------------------------------------------------------
(***************************************************************************)
(* The loop: types, the batch, and the order of completions.               *)
(***************************************************************************)

SqType ==
  [sqes : [SqIndices -> Sqe], sqe_tail : 0 .. SQ_MOD - 1, khead : 0 .. SQ_MOD - 1]

LEMMA TagType ==
  ASSUME NEW event \in Events, NEW i \in Owners, NEW req \in 0 .. REQ_MOD - 1
  PROVE  from_parts(event, i, req) \in Tag
<1>1. /\ OWNER_UNIT \in Nat \ {0} /\ OWNER_MOD \in Nat \ {0} /\ EVENT_UNIT \in Nat \ {0}
      /\ req \in 0 .. OWNER_UNIT - 1
  BY Units
<1>2. i \in 0 .. OWNER_MOD - 1
  BY LoopAssumption, Units DEF Owners
<1>3. OWNER_UNIT * i + req \in 0 .. OWNER_UNIT * OWNER_MOD - 1
  BY <1>1, <1>2, BelowProduct
<1>4. PICK low \in 0 .. EVENT_UNIT - 1 : low = i * OWNER_UNIT + req
  <2>1. OWNER_UNIT * i = i * OWNER_UNIT
    BY <1>1, <1>2
  <2> QED BY <1>3, <2>1 DEF EVENT_UNIT
<1>5. from_parts(event, i, req) = event * EVENT_UNIT + low
  <2>1. i * OWNER_UNIT \in Int /\ event * EVENT_UNIT \in Int
    BY <1>1, <1>2 DEF Events, Send, MultishortRecv
  <2> QED BY <1>1, <1>4, <2>1 DEF from_parts
<1>6. event = 0 \/ event = 1
  BY DEF Events, Send, MultishortRecv
<1>7. event * EVENT_UNIT + low \in 0 .. 2 * EVENT_UNIT - 1
  BY <1>1, <1>6
<1> QED BY <1>5, <1>7 DEF Tag

LEMMA LoopSizes ==
  /\ SQ_ENTRIES \in Nat \ {0} /\ SQ_MOD \in Nat \ {0}
  /\ STREAMS \in Nat \ {0} /\ 0 \in Owners
  /\ 0 \in Tag /\ RING_POOL_SIZE \in Nat \ {0} /\ SEND_LEN \in Nat \ {0}
  /\ MAX_WRITES \in Nat /\ MAX_RECVS \in Nat
  /\ REQ_MOD \in Nat \ {0} /\ BATCH \in Nat \ {0}
<1>1. SQ_MOD # 0
  BY SqAssumption
<1> QED BY <1>1, SqAssumption, LoopAssumption, Sizes, Units DEF Owners, Tag

LEMMA ZeroSqeType == ZeroSqe \in Sqe
BY LoopSizes DEF ZeroSqe, Sqe

LEMMA NextSqeType ==
  ASSUME NEW ring \in SqType
  PROVE  NextSqe(ring) \in Sqe
<1>1. ring.sqe_tail \in Nat /\ ring.sqes \in [SqIndices -> Sqe]
  BY LoopSizes DEF SqType
<1>2. ring.sqe_tail % SQ_ENTRIES \in SqIndices
  BY <1>1, LoopSizes, Decompose DEF SqIndices
<1>3. PICK sqe \in Sqe : sqe = ring.sqes[ring.sqe_tail % SQ_ENTRIES]
  BY <1>1, <1>2
<1>4. NextSqe(ring) = [sqe EXCEPT !.flags = {}, !.ioprio = {}, !.msg_flags = {}, !.buf_group = 0]
  BY <1>3 DEF NextSqe, io_uring_initialize_sqe
<1> QED BY <1>4, LoopSizes DEF Sqe

LEMMA PutSqeType ==
  ASSUME NEW ring \in SqType, NEW sqe \in Sqe
  PROVE  PutSqe(ring, sqe) \in SqType
<1>1. ring.sqe_tail \in Nat /\ ring.sqes \in [SqIndices -> Sqe] /\ ring.khead \in 0 .. SQ_MOD - 1
  BY LoopSizes DEF SqType
<1>2. PICK k \in SqIndices : k = ring.sqe_tail % SQ_ENTRIES
  BY <1>1, LoopSizes, Decompose DEF SqIndices
<1>3. PICK t \in 0 .. SQ_MOD - 1 : t = (ring.sqe_tail + 1) % SQ_MOD
  <2>1. ring.sqe_tail + 1 \in Nat
    BY <1>1
  <2> QED BY <2>1, LoopSizes, Decompose
<1>4. PutSqe(ring, sqe) = [sqes |-> [ring.sqes EXCEPT ![k] = sqe], sqe_tail |-> t, khead |-> ring.khead]
  <2>1. ring \in [sqes : [SqIndices -> Sqe], sqe_tail : 0 .. SQ_MOD - 1, khead : 0 .. SQ_MOD - 1]
    BY DEF SqType
  <2>2. PutSqe(ring, sqe) = [ring EXCEPT !.sqes = [ring.sqes EXCEPT ![k] = sqe], !.sqe_tail = t]
    BY <1>2, <1>3 DEF PutSqe
  <2> QED BY <2>1, <2>2
<1>5. [ring.sqes EXCEPT ![k] = sqe] \in [SqIndices -> Sqe]
  BY <1>1
<1> QED BY <1>1, <1>4, <1>5 DEF SqType

LEMMA PreparedType ==
  ASSUME NEW ring \in SqType
  PROVE  PreparedCount(ring) \in Nat /\ PreparedOps(ring) \subseteq Sqe
<1>1. ring.sqes \in [SqIndices -> Sqe] /\ ring.khead \in Nat /\ ring.sqe_tail \in Nat
  BY LoopSizes DEF SqType
<1>2. PreparedCount(ring) \in Nat
  BY <1>1, LoopSizes DEF PreparedCount
<1>3. ASSUME NEW k \in 1 .. PreparedCount(ring)
      PROVE  ring.sqes[(ring.khead + k - 1) % SQ_ENTRIES] \in Sqe
  <2>1. ring.khead + k - 1 \in Nat
    BY <1>1, <1>2
  <2>2. (ring.khead + k - 1) % SQ_ENTRIES \in SqIndices
    BY <2>1, LoopSizes, Decompose DEF SqIndices
  <2> QED BY <1>1, <2>2
<1> QED BY <1>2, <1>3 DEF PreparedOps

-----------------------------------------------------------------------------
(***************************************************************************)
(* The completion ring as EventLoop has it.                                *)
(***************************************************************************)

CqType ==
  [cqes : [CqSlots -> CqEntry], khead : 0 .. CQ_MOD - 1, ktail : 0 .. CQ_MOD - 1,
   overflow : Seq(CqEntry)]

LEMMA RingOfInv ==
  ASSUME BatchInv
  PROVE  cq \in Cq(CqEntry)
BY DEF BatchInv, TypeOK, CqInv, Cq

\* While a completion is handled it is the oldest in the ring.
LEMMA BatchInRing ==
  ASSUME BatchInv, phase \in {"handle", "completed", "read"}
  PROVE  /\ cqe_buf # <<>> /\ Ready(cq) > 0 /\ Contents(cq) # <<>>
         /\ cqe_buf[1] = SlotOf(cq, 1)
         /\ Contents(cq)[1] = cq.cqes[SlotOf(cq, 1)]
         /\ Head(Contents(cq)) = Contents(cq)[1]
         /\ Contents(cq)[1] \in CqEntry
<1>1. cq \in Cq(CqEntry)
  BY RingOfInv
<1>2. cqe_buf # <<>> /\ cqe_buf \in Seq(CqSlots) /\ Len(cqe_buf) <= Ready(cq)
  BY DEF BatchInv, PhaseInv, TypeOK, CqInv, BatchFresh
<1>3. Len(cqe_buf) \in Nat /\ Len(cqe_buf) > 0 /\ 1 \in DOMAIN cqe_buf
  BY <1>2
<1>4. Ready(cq) \in 0 .. CQ_SIZE /\ CQ_SIZE \in Nat
  BY <1>1, ReadyType, CqSizes
<1>5. Ready(cq) > 0 /\ 1 \in 1 .. Ready(cq)
  BY <1>2, <1>3, <1>4
<1>6. /\ Contents(cq) \in Seq(CqEntry)
      /\ Len(Contents(cq)) = Ready(cq) + Len(cq.overflow)
      /\ Contents(cq)[1] = cq.cqes[SlotOf(cq, 1)]
  BY <1>1, <1>5, ContentsType
<1>7. Len(cq.overflow) \in Nat
  BY <1>1, CqFields
<1>8. Len(Contents(cq)) > 0
  BY <1>4, <1>5, <1>6, <1>7
<1>9. Contents(cq) # <<>> /\ Head(Contents(cq)) = Contents(cq)[1] /\ Contents(cq)[1] \in CqEntry
  BY <1>6, <1>8
<1>10. cqe_buf[1] = SlotOf(cq, 1)
  BY <1>3 DEF BatchInv, CqInv, BatchFresh, SlotOf
<1> QED BY <1>2, <1>5, <1>6, <1>9, <1>10

\* A step that adds completions, or moves them, without touching the head or
\* the oldest one, leaves the batch good.
LEMMA BatchUndisturbed ==
  ASSUME BatchInv, UNCHANGED loopVars,
         cq' \in Cq(CqEntry), cq'.khead = cq.khead, Ready(cq) <= Ready(cq'),
         Contents(cq) # <<>> => Contents(cq')[1] = Contents(cq)[1]
  PROVE  CqInv'
<1>1. Ready(cq') \in 0 .. CQ_SIZE /\ Ready(cq) \in 0 .. CQ_SIZE /\ CQ_SIZE \in Nat
  BY RingOfInv, ReadyType, CqSizes
<1>2. Len(cqe_buf) \in Nat /\ Len(cqe_buf) <= Ready(cq)
  BY DEF BatchInv, TypeOK, CqInv, BatchFresh
<1>3. Len(cqe_buf') <= Ready(cq') /\ Ready(cq') <= CQ_SIZE
  BY <1>1, <1>2 DEF loopVars
<1>4. \A k \in DOMAIN cqe_buf' : cqe_buf'[k] = (cq'.khead + k - 1) % CQ_SIZE
  BY DEF BatchInv, CqInv, BatchFresh, loopVars
<1>5. phase' \in {"completed", "read"} => Contents(cq')[1] = Contents(cq)[1]
  BY BatchInRing DEF loopVars
<1>6. phase' \in {"completed", "read"} =>
        completion' = [ptr |-> cqe_buf'[1], user_data |-> Contents(cq')[1].user_data]
  BY <1>5 DEF BatchInv, CqInv, BatchFresh, loopVars
<1>7. phase' = "completed" => Contents(cq')[1].res >= 0
  BY <1>5 DEF BatchInv, CqInv, loopVars
<1> QED BY <1>3, <1>4, <1>6, <1>7 DEF CqInv, BatchFresh

\* The kernel posts cqe.
LEMMA AfterPost ==
  ASSUME BatchInv, NEW cqe \in CqEntry, cq' = Post(cq, cqe), UNCHANGED loopVars
  PROVE  /\ cq' \in CqType /\ CqInv'
         /\ Unforgotten \in Seq(CqEntry)
         /\ Unforgotten' = Append(Unforgotten, cqe)
<1>1. cq \in Cq(CqEntry) /\ Contents(cq) \in Seq(CqEntry)
  BY RingOfInv, ContentsType
<1>2. /\ cq' \in Cq(CqEntry) /\ Contents(cq') = Append(Contents(cq), cqe)
      /\ cq'.khead = cq.khead /\ Ready(cq) <= Ready(cq')
  BY <1>1, PostAppends
<1>3. cq' \in CqType
  BY <1>2, CqFields DEF CqType
<1> DEFINE C == Contents(cq)
<1> HIDE DEF C
<1>4. C \in Seq(CqEntry) /\ Contents(cq') = Append(C, cqe)
  BY <1>1, <1>2 DEF C
<1>5. C # <<>> => Append(C, cqe)[1] = C[1] /\ Tail(Append(C, cqe)) = Append(Tail(C), cqe)
  BY <1>4
<1>6. CqInv'
  <2>1. Contents(cq) # <<>> => Contents(cq')[1] = Contents(cq)[1]
    BY <1>4, <1>5 DEF C
  <2> QED BY <1>2, <2>1, BatchUndisturbed
<1>7. CASE phase = "read"
  <2>1. C # <<>>
    BY <1>7, BatchInRing DEF C
  <2>2. Unforgotten = Tail(C) /\ Unforgotten' = Tail(Contents(cq'))
    BY <1>7 DEF Unforgotten, C, loopVars
  <2> QED BY <1>3, <1>4, <1>5, <1>6, <2>1, <2>2
<1>8. CASE phase # "read"
  <2>1. Unforgotten = C /\ Unforgotten' = Contents(cq')
    BY <1>8 DEF Unforgotten, C, loopVars
  <2> QED BY <1>3, <1>4, <1>6, <2>1
<1> QED BY <1>7, <1>8

\* The kernel moves an overflowed completion into the ring.
LEMMA AfterFlush ==
  ASSUME BatchInv, KernelFlush
  PROVE  cq' \in CqType /\ CqInv' /\ Unforgotten' = Unforgotten
<1>1. cq \in Cq(CqEntry)
  BY RingOfInv
<1>2. cq' = Flush(cq) /\ CanFlush(cq) /\ UNCHANGED loopVars
  BY DEF KernelFlush
<1>3. /\ cq' \in Cq(CqEntry) /\ Contents(cq') = Contents(cq)
      /\ cq'.khead = cq.khead /\ Ready(cq) <= Ready(cq')
  BY <1>1, <1>2, FlushKeepsContents
<1>4. cq' \in CqType
  BY <1>3, CqFields DEF CqType
<1>5. CqInv'
  BY <1>2, <1>3, BatchUndisturbed
<1> QED BY <1>2, <1>3, <1>4, <1>5 DEF Unforgotten, loopVars

\* The program releases the oldest completion.
LEMMA AfterAdvance ==
  ASSUME BatchInv, CqAdvance
  PROVE  cq' \in CqType /\ cqe_buf' \in Seq(CqSlots) /\ CqInv' /\ Unforgotten' = Unforgotten
<1>1. cq \in Cq(CqEntry) /\ phase = "read"
  BY RingOfInv DEF CqAdvance
<1>2. cqe_buf # <<>> /\ Ready(cq) > 0
  BY <1>1, BatchInRing
<1>3. cq' = io_uring_cq_advance(cq, 1) /\ cqe_buf' = Tail(cqe_buf)
  BY DEF CqAdvance
<1>4. /\ cq' \in Cq(CqEntry) /\ Contents(cq') = Tail(Contents(cq))
      /\ Ready(cq') = Ready(cq) - 1
      /\ \A k \in Nat \ {0} : SlotOf(cq', k) = SlotOf(cq, k + 1)
  BY <1>1, <1>2, <1>3, AdvanceDropsFirst
<1>5. cq' \in CqType
  BY <1>4, CqFields DEF CqType
<1>6. cqe_buf \in Seq(CqSlots) /\ Len(cqe_buf) <= Ready(cq)
  BY DEF BatchInv, TypeOK, CqInv, BatchFresh
<1>7. /\ cqe_buf' \in Seq(CqSlots) /\ Len(cqe_buf') = Len(cqe_buf) - 1
      /\ \A k \in 1 .. Len(cqe_buf') : cqe_buf'[k] = cqe_buf[k + 1]
  BY <1>2, <1>3, <1>6
<1>8. Ready(cq') \in 0 .. CQ_SIZE /\ Ready(cq) \in 0 .. CQ_SIZE /\ CQ_SIZE \in Nat
  BY <1>1, <1>4, ReadyType, CqSizes
<1>9. ASSUME NEW k \in DOMAIN cqe_buf'
      PROVE  cqe_buf'[k] = (cq'.khead + k - 1) % CQ_SIZE
  <2>1. k \in Nat \ {0} /\ k \in 1 .. Len(cqe_buf') /\ k + 1 \in DOMAIN cqe_buf
    BY <1>6, <1>7
  <2>2. cqe_buf[k + 1] = SlotOf(cq, k + 1)
    BY <2>1 DEF BatchInv, CqInv, BatchFresh, SlotOf
  <2>3. SlotOf(cq', k) = SlotOf(cq, k + 1)
    BY <1>4, <2>1
  <2> QED BY <1>7, <2>1, <2>2, <2>3 DEF SlotOf
<1>10. Len(cqe_buf') <= Ready(cq')
  BY <1>4, <1>6, <1>7, <1>8
<1>11. phase' \in {"top", "handle"}
  BY DEF CqAdvance
<1>12. CqInv'
  BY <1>8, <1>9, <1>10, <1>11 DEF CqInv, BatchFresh
<1> QED BY <1>1, <1>4, <1>5, <1>7, <1>11, <1>12 DEF Unforgotten

-----------------------------------------------------------------------------
(***************************************************************************)
(* The steps of the loop.                                                  *)
(***************************************************************************)

\* The fields of TypeOK, in the form the steps use
LEMMA Types ==
  ASSUME TypeOK
  PROVE  /\ sq \in SqType /\ cq \in CqType
         /\ phase \in Phases /\ at \in Owners /\ pinged \in BOOLEAN
         /\ cqe_buf \in Seq(CqSlots) /\ completion \in [ptr : CqSlots, user_data : Tag]
         /\ send_id \in [Owners -> 0 .. REQ_MOD - 1]
         /\ pending_sent = [i \in Owners |-> pending_sent[i]]
         /\ \A i \in Owners : pending_sent[i] \in [DOMAIN pending_sent[i] -> BLOCKS]
         /\ heap \in [BLOCKS -> 0 .. MAX_WRITES]
         /\ sends \subseteq Sqe /\ recvs \subseteq Sqe /\ open \subseteq Owners
         /\ taken \in CqEntry /\ handled \in Nat
         /\ writes \in 0 .. MAX_WRITES /\ arrivals \in 0 .. MAX_RECVS
BY DEF TypeOK, SqType, CqType

\* A step that leaves the rings' completions and the batch alone
LEMMA BatchIdle ==
  ASSUME BatchInv, UNCHANGED <<cq, cqe_buf, completion>>,
         phase' \notin {"completed", "read"} \/ UNCHANGED phase
  PROVE  CqInv'
BY DEF BatchInv, CqInv, BatchFresh

LEMMA AdvanceKeeps ==
  ASSUME NEW next \in {"top", "submit"}, BatchInv, Advance(next),
         UNCHANGED cqe_buf, phase \in {"arm", "ping"}
  PROVE  at' \in Owners /\ phase' \in Phases /\ PhaseInv' /\ phase' \notin {"completed", "read"}
<1>1. at \in Owners /\ cqe_buf = <<>>
  BY DEF BatchInv, TypeOK, PhaseInv
<1>2. CASE at + 1 < STREAMS
  BY <1>1, <1>2, LoopSizes DEF Advance, PhaseInv, Phases, Owners
<1>3. CASE ~(at + 1 < STREAMS)
  BY <1>1, <1>3, LoopSizes DEF Advance, PhaseInv, Phases
<1> QED BY <1>2, <1>3

LEMMA ArmStep ==
  ASSUME BatchInv, Arm
  PROVE  BatchInv'
<1>1. TypeOK /\ UNCHANGED <<cq, pinged, cqe_buf, completion, netVars, kernelVars, taken, handled>>
  BY DEF BatchInv, Arm
<1>2. CASE SqFull(sq)
  BY <1>1, <1>2, BatchIdle
     DEF Arm, BatchInv, TypeOK, PhaseInv, netVars, kernelVars
<1>3. CASE ~SqFull(sq)
  <2>1. Advance("top") /\ phase = "arm"
    BY <1>3 DEF Arm
  <2>2. at' \in Owners /\ phase' \in Phases /\ PhaseInv' /\ phase' \notin {"completed", "read"}
    BY <1>1, <2>1, AdvanceKeeps
  <2>3. CqInv'
    BY <1>1, <2>2, BatchIdle
  <2>4. sq' \in SqType
    <3>1. PICK tag \in Tag : tag = from_parts(MultishortRecv, at, RECV_ID(at))
      <4>1. at \in Owners /\ MultishortRecv \in Events
        BY <1>1, Types DEF Events
      <4>2. RECV_ID(at) \in 0 .. REQ_MOD - 1
        <5>1. PICK c \in Nat : c = 1200 + at
          BY <4>1, LoopSizes DEF Owners
        <5>2. c % REQ_MOD \in 0 .. REQ_MOD - 1
          BY LoopSizes, Decompose
        <5> QED BY <5>1, <5>2 DEF RECV_ID
      <4> QED BY <4>1, <4>2, TagType
    <3>2. PICK sqe \in Sqe : sqe = NextSqe(sq)
      BY <1>1, Types, NextSqeType
    <3>3. PICK op \in Sqe : op = multishot_recv([sqe EXCEPT !.user_data = tag], at, {}, at)
      <4>1. at \in Owners
        BY <1>1, Types
      <4> QED BY <4>1 DEF multishot_recv, Sqe
    <3>4. sq' = PutSqe(sq, op)
      BY <1>3, <3>1, <3>2, <3>3 DEF Arm, io_uring_sqe_set_data
    <3> QED BY <1>1, <3>4, Types, PutSqeType
  <2> QED BY <1>1, <2>2, <2>3, <2>4 DEF BatchInv, TypeOK, SqType, netVars, kernelVars
<1> QED BY <1>2, <1>3

LEMMA WriteStep ==
  ASSUME BatchInv, NEW b \in BLOCKS, Write(b)
  PROVE  BatchInv'
<1>1. /\ TypeOK /\ phase = "ping" /\ writes < MAX_WRITES
      /\ UNCHANGED <<cq, cqe_buf, completion, kernelVars, taken, handled>>
  BY DEF BatchInv, Write
<1>2. CASE SqFull(sq)
  BY <1>1, <1>2, BatchIdle
     DEF Write, BatchInv, TypeOK, PhaseInv, netVars, kernelVars
<1>3. CASE ~SqFull(sq)
  <2> DEFINE key == from_parts(Send, at, send_id[at])
  <2>1. /\ at \in Owners /\ send_id \in [Owners -> 0 .. REQ_MOD - 1]
        /\ writes \in 0 .. MAX_WRITES
        /\ heap \in [BLOCKS -> 0 .. MAX_WRITES]
        /\ pending_sent = [i \in Owners |-> pending_sent[i]]
        /\ \A i \in Owners : pending_sent[i] \in [DOMAIN pending_sent[i] -> BLOCKS]
    BY <1>1, Types
  <2>2. key \in Tag
    BY <2>1, TagType DEF Events
  <2>3. /\ Advance("submit") /\ pinged' = TRUE /\ writes' = writes + 1
        /\ send_id' = [send_id EXCEPT ![at] = NextId(@)]
        /\ pending_sent' = [pending_sent EXCEPT ![at] = Insert(@, key, b)]
        /\ heap' = [Drop(heap, pending_sent[at], key) EXCEPT ![b] = writes']
    BY <1>3 DEF Write
  <2>4. at' \in Owners /\ phase' \in Phases /\ PhaseInv' /\ phase' \notin {"completed", "read"}
    BY <1>1, <2>3, AdvanceKeeps
  <2>5. CqInv'
    BY <1>1, <2>4, BatchIdle
  <2>6. writes' \in 0 .. MAX_WRITES
    BY <1>1, <2>1, <2>3, LoopSizes
  <2>7. sq' \in SqType
    <3>1. PICK sqe \in Sqe : sqe = NextSqe(sq)
      BY <1>1, Types, NextSqeType
    <3>2. PICK op \in Sqe :
            op = [io_uring_sqe_set_data(prep_send(sq, at, b, SEND_LEN, {"MSG_WAITALL"}), key)
                    EXCEPT !.data = writes']
      BY <2>1, <2>2, <2>6, <3>1 DEF prep_send, send, io_uring_sqe_set_data, Sqe
    <3>3. sq' = PutSqe(sq, op)
      BY <1>3, <3>2 DEF Write
    <3> QED BY <1>1, <3>3, Types, PutSqeType
  <2>8. send_id' \in [Owners -> 0 .. REQ_MOD - 1]
    <3>1. send_id[at] + 1 \in Nat
      BY <2>1, LoopSizes
    <3>2. NextId(send_id[at]) \in 0 .. REQ_MOD - 1
      BY <3>1, LoopSizes, Decompose DEF NextId
    <3> QED BY <2>1, <2>3, <3>2
  <2>9. /\ pending_sent' = [i \in Owners |-> pending_sent'[i]]
        /\ \A i \in Owners : pending_sent'[i] \in [DOMAIN pending_sent'[i] -> BLOCKS]
    <3>1. pending_sent' = [i \in Owners |-> IF i = at THEN Insert(pending_sent[at], key, b)
                                            ELSE pending_sent[i]]
      BY <2>1, <2>3
    <3>2. Insert(pending_sent[at], key, b) \in [DOMAIN pending_sent[at] \cup {key} -> BLOCKS]
      BY <2>1 DEF Insert
    <3>3. Insert(pending_sent[at], key, b)
            \in [DOMAIN Insert(pending_sent[at], key, b) -> BLOCKS]
      BY <3>2
    <3> HIDE DEF key
    <3> QED BY <2>1, <3>1, <3>3
  <2>10. heap' \in [BLOCKS -> 0 .. MAX_WRITES]
    <3>1. Drop(heap, pending_sent[at], key) \in [BLOCKS -> 0 .. MAX_WRITES]
      BY <2>1, LoopSizes DEF Drop
    <3> QED BY <2>3, <2>6, <3>1
  <2> QED BY <1>1, <2>3, <2>4, <2>5, <2>6, <2>7, <2>8, <2>9, <2>10
          DEF BatchInv, TypeOK, SqType, kernelVars
<1> QED BY <1>2, <1>3

LEMMA SubmitStep ==
  ASSUME BatchInv, Submit
  PROVE  BatchInv'
<1>1. /\ TypeOK /\ phase = "submit" /\ phase' = "peek"
      /\ UNCHANGED <<cq, at, pinged, cqe_buf, completion, netVars, open, arrivals, taken, handled>>
  BY DEF BatchInv, Submit
<1>2. sq' \in SqType
  <2>1. sq \in SqType
    BY <1>1, Types
  <2>2. sq' = [sqes |-> sq.sqes, sqe_tail |-> sq.sqe_tail, khead |-> sq.sqe_tail]
    BY <2>1 DEF Submit, Consumed, SqType
  <2> QED BY <2>1, <2>2 DEF SqType
<1>3. sends' \subseteq Sqe /\ recvs' \subseteq Sqe
  <2>1. PreparedOps(sq) \subseteq Sqe
    BY <1>1, Types, PreparedType
  <2>2. sends \subseteq Sqe /\ recvs \subseteq Sqe
    BY <1>1, Types
  <2> QED BY <2>1, <2>2 DEF Submit
<1>4. CqInv' /\ PhaseInv'
  BY <1>1, BatchIdle DEF BatchInv, PhaseInv
<1> QED BY <1>1, <1>2, <1>3, <1>4 DEF BatchInv, TypeOK, SqType, Phases, netVars

\* Steps that touch nothing but where the loop is
LEMMA PlainStep ==
  ASSUME BatchInv, Top \/ SkipWrite \/ SyscallFails \/ ProtocolError
  PROVE  BatchInv'
<1>1. TypeOK /\ UNCHANGED <<sq, cq, cqe_buf, completion, netVars, kernelVars, taken, handled>>
  BY DEF BatchInv, Top, SkipWrite, SyscallFails, ProtocolError, loopVars
<1>2. CASE Top
  BY <1>1, <1>2, BatchIdle DEF Top, BatchInv, TypeOK, PhaseInv, Phases, netVars, kernelVars
<1>3. CASE SkipWrite
  <2>1. at' \in Owners /\ phase' \in Phases /\ PhaseInv' /\ phase' \notin {"completed", "read"}
    BY <1>1, <1>3, AdvanceKeeps DEF SkipWrite
  <2>2. CqInv'
    BY <1>1, <2>1, BatchIdle
  <2> QED BY <1>1, <1>3, <2>1, <2>2 DEF SkipWrite, BatchInv, TypeOK, netVars, kernelVars
<1>4. CASE SyscallFails \/ ProtocolError
  <2>1. UNCHANGED <<phase, at, pinged>>
    BY <1>4 DEF SyscallFails, ProtocolError, loopVars
  <2> QED BY <1>1, <2>1, BatchIdle DEF BatchInv, TypeOK, PhaseInv, netVars, kernelVars
<1> QED BY <1>2, <1>3, <1>4

\* A batch of count completions is what peeking finds.
LEMMA PeekedBatch ==
  ASSUME BatchInv, NEW count \in Nat \ {0}, UNCHANGED cq,
         cqe_buf' = io_uring_peek_batch_cqe(cq, count),
         phase' \notin {"completed", "read"}
  PROVE  /\ CqInv' /\ cqe_buf' \in Seq(CqSlots)
         /\ cqe_buf' = <<>> <=> Ready(cq) = 0
<1>1. cq \in Cq(CqEntry) /\ Ready(cq) \in 0 .. CQ_SIZE /\ CQ_SIZE \in Nat
  BY RingOfInv, ReadyType, CqSizes
<1>2. /\ cqe_buf' \in Seq(CqSlots)
      /\ Len(cqe_buf') = Min2(Ready(cq), count)
      /\ \A k \in 1 .. Min2(Ready(cq), count) : cqe_buf'[k] = SlotOf(cq, k)
  BY <1>1, PeekType
<1>3. Min2(Ready(cq), count) <= Ready(cq) /\ (Min2(Ready(cq), count) = 0 <=> Ready(cq) = 0)
  BY <1>1 DEF Min2
<1>4. \A k \in DOMAIN cqe_buf' : cqe_buf'[k] = (cq.khead + k - 1) % CQ_SIZE
  BY <1>2 DEF SlotOf
<1>5. CqInv'
  BY <1>1, <1>2, <1>3, <1>4 DEF CqInv, BatchFresh
<1>6. cqe_buf' = <<>> <=> Len(cqe_buf') = 0
  BY <1>2
<1> QED BY <1>2, <1>3, <1>5, <1>6

LEMMA CollectStep ==
  ASSUME BatchInv, Peek \/ Wait
  PROVE  BatchInv'
<1>1. /\ TypeOK /\ UNCHANGED <<sq, cq, at, pinged, completion, netVars, kernelVars, taken, handled>>
      /\ at = 0 /\ cqe_buf = <<>>
  BY DEF BatchInv, Peek, Wait, PhaseInv
<1>2. CASE Peek
  <2>1. CqInv' /\ cqe_buf' \in Seq(CqSlots)
    BY <1>1, <1>2, PeekedBatch, LoopSizes DEF Peek
  <2> QED BY <1>1, <1>2, <2>1 DEF Peek, BatchInv, TypeOK, PhaseInv, Phases, netVars, kernelVars
<1>3. CASE Wait /\ phase' = "handle"
  <2>1. Ready(cq) > 0 /\ cqe_buf' = io_uring_peek_batch_cqe(cq, 1)
    BY <1>3 DEF Wait
  <2>2. CqInv' /\ cqe_buf' \in Seq(CqSlots) /\ cqe_buf' # <<>>
    BY <1>1, <1>3, <2>1, PeekedBatch
  <2> QED BY <1>1, <1>3, <2>2 DEF BatchInv, TypeOK, PhaseInv, Phases, netVars, kernelVars
<1>4. CASE Wait /\ phase' # "handle"
  <2>1. phase' = "top" /\ UNCHANGED cqe_buf
    BY <1>4 DEF Wait
  <2>2. CqInv'
    BY <1>1, <2>1, BatchIdle
  <2> QED BY <1>1, <2>1, <2>2 DEF BatchInv, TypeOK, PhaseInv, Phases, netVars, kernelVars
<1> QED BY <1>2, <1>3, <1>4

LEMMA FromRawEventStep ==
  ASSUME BatchInv, RawEvent
  PROVE  BatchInv'
<1> PICK lookup : FromRawEvent(lookup)
  BY DEF RawEvent
<1>1. /\ TypeOK /\ phase = "handle"
      /\ UNCHANGED <<sq, cq, at, pinged, cqe_buf, netVars, kernelVars, taken, handled>>
  BY DEF BatchInv, FromRawEvent
<1>2. CASE UNCHANGED <<completion, phase>>
  <2>1. CqInv'
    BY <1>1, <1>2, BatchIdle
  <2> QED BY <1>1, <1>2, <2>1 DEF BatchInv, TypeOK, PhaseInv, netVars, kernelVars
<1>3. CASE ~UNCHANGED <<completion, phase>>
  <2>1. /\ cqe_buf # <<>> /\ cqe_buf[1] = SlotOf(cq, 1)
        /\ Contents(cq)[1] = cq.cqes[SlotOf(cq, 1)]
        /\ Contents(cq)[1] \in CqEntry
    BY <1>1, BatchInRing
  <2>2. Head(cqe_buf) = cqe_buf[1] /\ cqe_buf[1] \in CqSlots
    BY <1>1, <2>1, Types
  <2>3. PICK cqe \in CqEntry : cqe = Contents(cq)[1]
    BY <2>1
  <2>4. /\ panic' = (IF cqe.res < 0 THEN "cqe error" ELSE lookup)
        /\ panic' = "none"
        /\ completion' = [ptr |-> cqe_buf[1], user_data |-> cqe.user_data]
        /\ phase' = "completed"
    BY <1>3, <2>1, <2>2, <2>3 DEF FromRawEvent
  <2>5. cqe.res >= 0 /\ cqe.user_data \in Tag
    <3>1. cqe.res \in Int /\ cqe.user_data \in Tag
      BY DEF CqEntry, EOF, ECONNRESET, ENOBUFS, EPIPE
    <3>2. ~(cqe.res < 0)
      BY <2>4
    <3> QED BY <3>1, <3>2
  <2>6. CqInv'
    BY <1>1, <2>3, <2>4, <2>5 DEF BatchInv, CqInv, BatchFresh
  <2>7. completion' \in [ptr : CqSlots, user_data : Tag]
    BY <2>2, <2>4, <2>5
  <2> QED BY <1>1, <2>1, <2>4, <2>6, <2>7
          DEF BatchInv, TypeOK, PhaseInv, Phases, netVars, kernelVars
<1> QED BY <1>2, <1>3

LEMMA OnCompletionStep ==
  ASSUME BatchInv, OnCompletion
  PROVE  BatchInv'
<1>1. /\ TypeOK /\ phase = "completed"
      /\ UNCHANGED <<sq, cq, at, pinged, cqe_buf, completion, send_id, writes, kernelVars>>
  BY DEF BatchInv, OnCompletion
<1>2. CASE UNCHANGED <<phase, pending_sent, heap, taken, handled>>
  <2>1. CqInv'
    BY <1>1, <1>2, BatchIdle
  <2> QED BY <1>1, <1>2, <2>1 DEF BatchInv, TypeOK, PhaseInv, netVars, kernelVars
<1>3. CASE ~UNCHANGED <<phase, pending_sent, heap, taken, handled>>
  <2> DEFINE data == completion.user_data
             owner == owner_of(data)
             after == Remove(pending_sent[owner], heap, data)
  <2>1. /\ phase' = "read" /\ taken' = cq.cqes[completion.ptr] /\ handled' = handled + 1
        /\ CompletionFailure(data, cq.cqes[completion.ptr]) = "none"
        /\ \/ /\ pending_sent' = [pending_sent EXCEPT ![owner] = after[1]]
              /\ heap' = after[2]
           \/ UNCHANGED <<pending_sent, heap>>
    BY <1>3 DEF OnCompletion
  <2>2. completion = [ptr |-> cqe_buf[1], user_data |-> Contents(cq)[1].user_data]
    BY <1>1 DEF BatchInv, CqInv, BatchFresh
  <2>3. taken' \in CqEntry /\ handled' \in Nat /\ cqe_buf # <<>>
    BY <1>1, <2>1, <2>2, BatchInRing, Types
  <2>4. owner \in Owners
    BY <2>1 DEF CompletionFailure
  <2>5. /\ pending_sent = [i \in Owners |-> pending_sent[i]]
        /\ \A i \in Owners : pending_sent[i] \in [DOMAIN pending_sent[i] -> BLOCKS]
        /\ heap \in [BLOCKS -> 0 .. MAX_WRITES]
    BY <1>1, Types
  <2> HIDE DEF data, owner
  <2>6. /\ pending_sent' = [i \in Owners |-> pending_sent'[i]]
        /\ \A i \in Owners : pending_sent'[i] \in [DOMAIN pending_sent'[i] -> BLOCKS]
    <3>1. after[1] = [k \in DOMAIN pending_sent[owner] \ {data} |-> pending_sent[owner][k]]
      BY DEF Remove
    <3>2. after[1] \in [DOMAIN pending_sent[owner] \ {data} -> BLOCKS]
      BY <2>4, <2>5, <3>1
    <3>3. after[1] \in [DOMAIN after[1] -> BLOCKS]
      BY <3>2
    <3> HIDE DEF after
    <3> QED BY <2>1, <2>4, <2>5, <3>3
  <2>7. heap' \in [BLOCKS -> 0 .. MAX_WRITES]
    <3>1. Drop(heap, pending_sent[owner], data) \in [BLOCKS -> 0 .. MAX_WRITES]
      BY <2>5, LoopSizes DEF Drop
    <3>2. after[2] = Drop(heap, pending_sent[owner], data)
      BY DEF Remove
    <3> HIDE DEF after
    <3> QED BY <2>1, <2>5, <3>1, <3>2
  <2>8. CqInv'
    BY <1>1, <2>1, <2>2 DEF BatchInv, CqInv, BatchFresh
  <2> QED BY <1>1, <2>1, <2>3, <2>6, <2>7, <2>8
          DEF BatchInv, TypeOK, PhaseInv, Phases, kernelVars
<1> QED BY <1>2, <1>3

LEMMA CqAdvanceStep ==
  ASSUME BatchInv, CqAdvance
  PROVE  BatchInv'
<1>1. cq' \in CqType /\ cqe_buf' \in Seq(CqSlots) /\ CqInv'
  BY AfterAdvance
<1>2. /\ TypeOK /\ phase' \in {"top", "handle"} /\ completion' = NoCompletion
      /\ (cqe_buf' # <<>> <=> phase' = "handle") /\ at = 0
      /\ UNCHANGED <<sq, at, pinged, netVars, kernelVars, taken, handled>>
  BY DEF BatchInv, CqAdvance, PhaseInv
<1>3. NoCompletion \in [ptr : CqSlots, user_data : Tag]
  BY LoopSizes, CqSizes DEF NoCompletion, CqSlots
<1> QED BY <1>1, <1>2, <1>3 DEF BatchInv, TypeOK, CqType, PhaseInv, Phases, netVars, kernelVars

\* Whatever the kernel does but flush posts one completion.
LEMMA PostedEntry ==
  ASSUME BatchInv, Outgoing \/ Incoming, ~KernelFlush
  PROVE  /\ \E cqe \in CqEntry : cq' = Post(cq, cqe) /\ UNCHANGED <<loopVars, taken, handled>>
         /\ sends' \subseteq sends /\ recvs' \subseteq recvs /\ open' \subseteq open
         /\ arrivals' \in 0 .. MAX_RECVS
<1>1. sends \subseteq Sqe /\ recvs \subseteq Sqe /\ arrivals \in 0 .. MAX_RECVS
  BY Types DEF BatchInv
<1>2. ASSUME NEW op \in Sqe, NEW res \in {EOF, ECONNRESET, ENOBUFS, EPIPE} \cup 0 .. SEND_LEN \cup 1 .. BUF_SIZE
      PROVE  Cqe(op, res) \in CqEntry
  BY LoopSizes, Sizes DEF Cqe, CqEntry, Sqe
<1>3. CASE \E op \in sends, res \in {EPIPE} \cup 0 .. SEND_LEN : KernelSend(op, res)
  BY <1>1, <1>2, <1>3 DEF KernelSend
<1>4. CASE \E op \in recvs, n \in 1 .. BUF_SIZE, bid \in Slots : KernelRecv(op, n, bid)
  <2>1. PICK op \in recvs, n \in 1 .. BUF_SIZE, bid \in Slots : KernelRecv(op, n, bid)
    BY <1>4
  <2>2. PICK more \in BOOLEAN : more = (op.ioprio = {"MULTISHOT"} /\ HasRoom(cq))
    OBVIOUS
  <2>3. [Cqe(op, n) EXCEPT !.buffer = TRUE, !.bid = bid, !.more = more] \in CqEntry
    <3>1. Cqe(op, n) \in CqEntry
      BY <1>1, <1>2, <2>1
    <3> QED BY <2>1, <3>1 DEF CqEntry
  <2>4. /\ cq' = Post(cq, [Cqe(op, n) EXCEPT !.buffer = TRUE, !.bid = bid, !.more = more])
        /\ arrivals < MAX_RECVS /\ arrivals' = arrivals + 1
        /\ recvs' \subseteq recvs /\ UNCHANGED <<loopVars, taken, handled, sends, open>>
    BY <2>1, <2>2 DEF KernelRecv
  <2> QED BY <1>1, <2>3, <2>4, LoopSizes
<1>5. CASE \E op \in recvs, res \in {EOF, ECONNRESET, ENOBUFS} : KernelEnd(op, res)
  BY <1>1, <1>2, <1>5 DEF KernelEnd
<1> QED BY <1>3, <1>4, <1>5 DEF Outgoing, Incoming

LEMMA KernelStep ==
  ASSUME BatchInv, Kernel
  PROVE  BatchInv'
<1>1. TypeOK /\ PhaseInv /\ UNCHANGED <<sq, loopVars, netVars, taken, handled>>
  BY DEF BatchInv, Kernel, Outgoing, Incoming, KernelSend, KernelFlush, KernelRecv, KernelEnd
<1>2. PhaseInv'
  BY <1>1 DEF PhaseInv, loopVars
<1>3. /\ cq' \in CqType /\ CqInv'
      /\ sends' \subseteq sends /\ recvs' \subseteq recvs /\ open' \subseteq open
      /\ arrivals' \in 0 .. MAX_RECVS
  <2>1. CASE KernelFlush
    <3>1. arrivals \in 0 .. MAX_RECVS
      BY <1>1, Types
    <3> QED BY <2>1, <3>1, AfterFlush DEF KernelFlush, kernelVars
  <2>2. CASE ~KernelFlush
    <3>1. PICK cqe \in CqEntry : cq' = Post(cq, cqe)
      BY <2>2, PostedEntry DEF Kernel
    <3>2. cq' \in CqType /\ CqInv'
      BY <1>1, <3>1, AfterPost
    <3> QED BY <2>2, <3>2, PostedEntry DEF Kernel
  <2> QED BY <2>1, <2>2
<1>4. TypeOK'
  BY <1>1, <1>3 DEF TypeOK, CqType, loopVars, netVars
<1> QED BY <1>2, <1>3, <1>4 DEF BatchInv

LEMMA InitBatch ==
  ASSUME Init
  PROVE  BatchInv
<1>1. Unset \in CqEntry /\ NoCompletion \in [ptr : CqSlots, user_data : Tag]
  BY LoopSizes, Sizes, CqSizes DEF Unset, NoCompletion, CqEntry, CqSlots, EOF
<1>2. cq \in CqType
  BY <1>1, CqSizes DEF Init, EmptyCq, CqType, CqSlots
<1>3. sq \in SqType
  BY ZeroSqeType, LoopSizes DEF Init, EmptySq, SqType
<1>4. Ready(cq) = 0
  BY CqSizes DEF Init, EmptyCq, Ready
<1>5. TypeOK
  <2>1. /\ phase \in Phases /\ at \in Owners /\ pinged \in BOOLEAN
        /\ cqe_buf \in Seq(CqSlots)
        /\ sends \subseteq Sqe /\ recvs \subseteq Sqe /\ open \subseteq Owners
        /\ writes \in 0 .. MAX_WRITES /\ arrivals \in 0 .. MAX_RECVS
    BY LoopSizes DEF Init, Phases
  <2>2. completion \in [ptr : CqSlots, user_data : Tag] /\ taken \in CqEntry /\ handled \in Nat
    BY <1>1 DEF Init
  <2>3. send_id \in [Owners -> 0 .. REQ_MOD - 1] /\ heap \in [BLOCKS -> 0 .. MAX_WRITES]
    BY LoopSizes, LoopAssumption DEF Init
  <2>4. /\ pending_sent = [i \in Owners |-> pending_sent[i]]
        /\ \A i \in Owners : pending_sent[i] \in [DOMAIN pending_sent[i] -> BLOCKS]
    <3>1. <<>> \in [DOMAIN <<>> -> BLOCKS]
      OBVIOUS
    <3>2. pending_sent = [i \in Owners |-> <<>>]
      BY DEF Init
    <3> QED BY <3>1, <3>2
  <2> QED BY <1>2, <1>3, <2>1, <2>2, <2>3, <2>4 DEF TypeOK, CqType, SqType
<1>6. CqInv /\ PhaseInv
  BY <1>4, CqSizes DEF Init, CqInv, BatchFresh, PhaseInv
<1> QED BY <1>5, <1>6 DEF BatchInv

LEMMA BatchStep ==
  ASSUME BatchInv, [Next]_vars
  PROVE  BatchInv'
<1>1. CASE Kernel
  BY <1>1, KernelStep
<1>2. CASE Between
  BY <1>2, ArmStep, PlainStep, WriteStep, SubmitStep, CollectStep DEF Between
<1>3. CASE RawEvent \/ OnCompletion \/ CqAdvance \/ ProtocolError
  BY <1>3, FromRawEventStep, OnCompletionStep, CqAdvanceStep, PlainStep
<1>4. CASE UNCHANGED vars
  <2>1. UNCHANGED <<cq, cqe_buf, completion>> /\ UNCHANGED phase
    BY <1>4 DEF vars, loopVars
  <2>2. CqInv'
    BY <2>1, BatchIdle
  <2> QED BY <1>4, <2>2 DEF BatchInv, TypeOK, PhaseInv, vars, loopVars, netVars, kernelVars
<1> QED BY <1>1, <1>2, <1>3, <1>4 DEF Next, Loop

-----------------------------------------------------------------------------
(***************************************************************************)
(* The results.                                                            *)
(***************************************************************************)

\* A step of the loop or the kernel is one of the abstract queue, or none.
LEMMA FifoStep ==
  ASSUME BatchInv, [Next]_vars
  PROVE  [Fifo!Next]_(Fifo!vars)
<1>1. CASE \E cqe \in CqEntry : cq' = Post(cq, cqe) /\ UNCHANGED <<loopVars, taken>>
  <2>1. PICK cqe \in CqEntry : cq' = Post(cq, cqe) /\ UNCHANGED <<loopVars, taken>>
    BY <1>1
  <2>2. Unforgotten \in Seq(CqEntry) /\ Unforgotten' = Append(Unforgotten, cqe)
    BY <2>1, AfterPost
  <2>3. PICK queue \in Seq(CqEntry) : queue = Unforgotten
    BY <2>2
  <2>4. /\ Len(Append(queue, cqe)) > Len(queue)
        /\ SubSeq(Append(queue, cqe), 1, Len(queue)) = queue
    BY <2>1, <2>3, AppendProperties
  <2> QED BY <2>1, <2>2, <2>3, <2>4 DEF Fifo!Next, Fifo!Posted
<1>2. CASE UNCHANGED <<Unforgotten, taken>>
  BY <1>2 DEF Fifo!vars
<1>3. CASE KernelFlush
  BY <1>2, <1>3, AfterFlush DEF KernelFlush
<1>4. CASE CqAdvance
  BY <1>2, <1>4, AfterAdvance DEF CqAdvance
<1>5. CASE OnCompletion
  <2>1. CASE UNCHANGED <<phase, taken>>
    BY <1>2, <1>5, <2>1 DEF OnCompletion, Unforgotten
  <2>2. CASE phase' = "read" /\ taken' = cq.cqes[completion.ptr]
    <3>1. phase = "completed" /\ UNCHANGED cq
      BY <1>5 DEF OnCompletion
    <3>2. /\ Contents(cq) # <<>> /\ cqe_buf[1] = SlotOf(cq, 1)
          /\ Head(Contents(cq)) = cq.cqes[SlotOf(cq, 1)]
      BY <3>1, BatchInRing
    <3>3. completion.ptr = cqe_buf[1]
      BY <3>1 DEF BatchInv, CqInv, BatchFresh
    <3>4. Unforgotten = Contents(cq) /\ Unforgotten' = Tail(Contents(cq))
      BY <2>2, <3>1 DEF Unforgotten
    <3> QED BY <2>2, <3>2, <3>3, <3>4 DEF Fifo!Next, Fifo!Handled
  <2> QED BY <1>5, <2>1, <2>2 DEF OnCompletion
<1>6. CASE Between \/ RawEvent \/ ProtocolError
  <2>1. \/ UNCHANGED <<cq, taken>> /\ phase # "read" /\ phase' # "read"
        \/ UNCHANGED <<cq, phase, taken>>
    BY <1>6 DEF Between, Arm, Top, Write, SkipWrite, Submit, SyscallFails, Peek, Wait,
                RawEvent, FromRawEvent, ProtocolError, Advance, loopVars
  <2> QED BY <1>2, <2>1 DEF Unforgotten
<1>7. CASE UNCHANGED vars
  BY <1>2, <1>7 DEF vars, loopVars, Unforgotten
<1>8. CASE Outgoing \/ Incoming
  <2>1. CASE KernelFlush
    BY <1>3, <2>1
  <2>2. CASE ~KernelFlush
    BY <1>1, <1>8, <2>2, PostedEntry
  <2> QED BY <2>1, <2>2
<1> QED BY <1>3, <1>4, <1>5, <1>6, <1>7, <1>8 DEF Next, Kernel, Loop

\* The variables keep their types, and the batch stays good.
THEOREM BatchInductive == Spec => []BatchInv
<1>1. Init => BatchInv
  BY InitBatch
<1>2. BatchInv /\ [Next]_vars => BatchInv'
  BY BatchStep
<1> QED BY <1>1, <1>2, PTL DEF Spec

\* The variables of the event loop have their types.
THEOREM LoopTypes == Spec => []TypeOK
<1>1. BatchInv => TypeOK
  BY DEF BatchInv
<1> QED BY <1>1, BatchInductive, PTL

\* The pointers of a batch stay good, however many completions the kernel
\* posts while its first ones are handled and released (ping_pong.rs:161, 188).
THEOREM BatchesStayFresh == Spec => []BatchFresh
<1>1. BatchInv => BatchFresh
  BY DEF BatchInv, CqInv
<1> QED BY <1>1, BatchInductive, PTL

\* Completions are handled once, as posted, in the order posted.
THEOREM ImplementsFifo == Spec => InOrder
<1>1. Init => Fifo!Init
  <2> SUFFICES ASSUME Init PROVE Unforgotten = <<>>
    BY DEF Fifo!Init
  <2>1. Ready(cq) = 0 /\ cq.overflow = <<>>
    BY CqSizes DEF Init, EmptyCq, Ready
  <2>2. Contents(cq) = <<>>
    BY <2>1 DEF Contents
  <2> QED BY <2>2 DEF Init, Unforgotten
<1>2. BatchInv /\ [Next]_vars => [Fifo!Next]_(Fifo!vars)
  BY FifoStep
<1> QED BY <1>1, <1>2, BatchInductive, PTL DEF Spec, InOrder, Fifo!Spec

-----------------------------------------------------------------------------
(***************************************************************************)
(* The sending side: a write's memory and tag are kept exactly as long as  *)
(* they are needed, operations carry their own arguments, and no panic is  *)
(* about the program's own bookkeeping.                                    *)
(***************************************************************************)

-----------------------------------------------------------------------------
(***************************************************************************)
(* The submission ring.                                                    *)
(***************************************************************************)

LEMMA SqSizes == SQ_ENTRIES < SQ_MOD /\ 2 * STREAMS <= SQ_ENTRIES
<1>1. PICK laps \in 2 .. SQ_MOD : SQ_MOD = laps * SQ_ENTRIES
  BY SqAssumption
<1>2. SQ_ENTRIES \in Nat \ {0} /\ laps \in Nat \ {0} /\ laps >= 2
  BY <1>1, SqAssumption
<1>3. laps * SQ_ENTRIES >= 2 * SQ_ENTRIES
  BY <1>2
<1> QED BY <1>1, <1>2, <1>3, LoopAssumption

LEMMA SqFields ==
  ASSUME NEW ring \in SqType
  PROVE  /\ ring.sqes \in [SqIndices -> Sqe]
         /\ ring.sqe_tail \in 0 .. SQ_MOD - 1 /\ ring.khead \in 0 .. SQ_MOD - 1
         /\ PreparedCount(ring) \in 0 .. SQ_MOD - 1
         /\ ring.sqe_tail = (ring.khead + PreparedCount(ring)) % SQ_MOD
<1> DEFINE h == ring.khead
           t == ring.sqe_tail
<1>1. ring.sqes \in [SqIndices -> Sqe] /\ t \in 0 .. SQ_MOD - 1 /\ h \in 0 .. SQ_MOD - 1
  BY DEF SqType
<1> HIDE DEF h, t
<1>2. (t - h) % SQ_MOD \in 0 .. SQ_MOD - 1 /\ t = (h + ((t - h) % SQ_MOD)) % SQ_MOD
  BY <1>1, LoopSizes, ModTail
<1> QED BY <1>1, <1>2 DEF PreparedCount, h, t

\* The entry at the tail is the one after all those prepared.
LEMMA TailSlot ==
  ASSUME NEW ring \in SqType
  PROVE  ring.sqe_tail % SQ_ENTRIES = (ring.khead + PreparedCount(ring)) % SQ_ENTRIES
<1>1. PICK laps \in Nat \ {0} : SQ_MOD = laps * SQ_ENTRIES
  <2>1. PICK laps \in 2 .. SQ_MOD : SQ_MOD = laps * SQ_ENTRIES
    BY SqAssumption
  <2>2. laps \in Nat \ {0}
    BY <2>1, SqAssumption
  <2> QED BY <2>1, <2>2
<1>2. PICK c \in Nat : c = ring.khead + PreparedCount(ring)
  BY SqFields, LoopSizes
<1>3. (c % (laps * SQ_ENTRIES)) % SQ_ENTRIES = c % SQ_ENTRIES
  BY LoopSizes, ModMod
<1>4. ring.sqe_tail = c % SQ_MOD
  BY <1>2, SqFields
<1> QED BY <1>1, <1>2, <1>3, <1>4

\* io_uring_get_sqe finds room while fewer entries are prepared than there are.
LEMMA RoomToPrepare ==
  ASSUME NEW ring \in SqType, PreparedCount(ring) < SQ_ENTRIES
  PROVE  ~SqFull(ring)
<1> DEFINE h == ring.khead
           t == ring.sqe_tail
           n == (t - h) % SQ_MOD
<1>1. h \in 0 .. SQ_MOD - 1 /\ t \in 0 .. SQ_MOD - 1 /\ n \in 0 .. SQ_MOD - 1
      /\ n < SQ_ENTRIES
  BY SqFields DEF PreparedCount
<1> HIDE DEF h, t, n
<1>2. n + 1 < SQ_MOD /\ n + 1 <= SQ_ENTRIES
  BY <1>1, SqSizes, LoopSizes
<1>3. (((t + 1) % SQ_MOD) - h) % SQ_MOD = n + 1
  BY <1>1, <1>2, LoopSizes, ModNext DEF n
<1> QED BY <1>1, <1>2, <1>3, LoopSizes DEF SqFull, h, t

\* The prepared entry joins those that are already prepared.
LEMMA PutPrepares ==
  ASSUME NEW ring \in SqType, NEW sqe \in Sqe, PreparedCount(ring) < SQ_ENTRIES
  PROVE  /\ PreparedOps(PutSqe(ring, sqe)) = PreparedOps(ring) \cup {sqe}
         /\ PreparedCount(PutSqe(ring, sqe)) = PreparedCount(ring) + 1
<1> DEFINE h == ring.khead
           t == ring.sqe_tail
           n == PreparedCount(ring)
           s == t % SQ_ENTRIES
           p == PutSqe(ring, sqe)
           slot(k) == (h + k - 1) % SQ_ENTRIES
<1>1. /\ h \in 0 .. SQ_MOD - 1 /\ t \in 0 .. SQ_MOD - 1 /\ n \in 0 .. SQ_MOD - 1
      /\ n < SQ_ENTRIES /\ ring.sqes \in [SqIndices -> Sqe]
  BY SqFields
<1>2. s = (h + n) % SQ_ENTRIES
  BY TailSlot
<1>3. s \in SqIndices
  <2>1. t \in Nat
    BY <1>1, LoopSizes
  <2> HIDE DEF t
  <2>2. t % SQ_ENTRIES \in 0 .. SQ_ENTRIES - 1
    BY <2>1, LoopSizes, Decompose
  <2> QED BY <2>2 DEF SqIndices
<1>4. n = (t - h) % SQ_MOD
  BY DEF PreparedCount
<1>5. p = [sqes |-> [ring.sqes EXCEPT ![s] = sqe], sqe_tail |-> (t + 1) % SQ_MOD, khead |-> h]
  <2>1. ring \in [sqes : [SqIndices -> Sqe], sqe_tail : 0 .. SQ_MOD - 1, khead : 0 .. SQ_MOD - 1]
    BY DEF SqType
  <2>2. p = [ring EXCEPT !.sqes = [ring.sqes EXCEPT ![s] = sqe], !.sqe_tail = (t + 1) % SQ_MOD]
    BY DEF PutSqe
  <2> QED BY <2>1, <2>2
<1> HIDE DEF h, t, n, s, p
<1>6. p.sqes = [ring.sqes EXCEPT ![s] = sqe] /\ p.sqe_tail = (t + 1) % SQ_MOD /\ p.khead = h
  BY <1>5
<1>7. PreparedCount(p) = n + 1
  <2>1. n + 1 < SQ_MOD
    BY <1>1, SqSizes, LoopSizes
  <2>2. (((t + 1) % SQ_MOD) - h) % SQ_MOD = ((t - h) % SQ_MOD) + 1
    BY <1>1, <1>4, <2>1, LoopSizes, ModNext
  <2> QED BY <1>4, <1>6, <2>2 DEF PreparedCount
<1>8. \A k \in 1 .. n : slot(k) \in SqIndices /\ slot(k) # s
  <2> TAKE k \in 1 .. n
  <2>1. PICK c \in Nat : c = h + k - 1
    BY <1>1
  <2>2. c % SQ_ENTRIES \in 0 .. SQ_ENTRIES - 1
    BY LoopSizes, Decompose
  <2>3. PICK e \in 1 .. SQ_ENTRIES - 1 : e = n + 1 - k
    BY <1>1, LoopSizes
  <2>4. (c + e) % SQ_ENTRIES # c % SQ_ENTRIES
    BY LoopSizes, ModDistinct
  <2>5. c + e = h + n
    BY <1>1, <2>1, <2>3
  <2> QED BY <1>2, <2>1, <2>2, <2>4, <2>5 DEF SqIndices
<1>9. slot(n + 1) = s
  <2>1. h + (n + 1) - 1 = h + n
    BY <1>1
  <2> QED BY <1>2, <2>1
<1>10. /\ \A k \in 1 .. n : p.sqes[slot(k)] = ring.sqes[slot(k)]
       /\ p.sqes[slot(n + 1)] = sqe
  BY <1>1, <1>3, <1>6, <1>8, <1>9
<1>11. /\ PreparedOps(p) = {p.sqes[slot(k)] : k \in 1 .. n + 1}
       /\ PreparedOps(ring) = {ring.sqes[slot(k)] : k \in 1 .. n}
  BY <1>6, <1>7 DEF PreparedOps, h, n
<1> HIDE DEF slot
<1>12. 1 .. n + 1 = (1 .. n) \cup {n + 1}
  BY <1>1
<1>13. {p.sqes[slot(k)] : k \in 1 .. n + 1} = {ring.sqes[slot(k)] : k \in 1 .. n} \cup {sqe}
  BY <1>10, <1>12
<1> QED BY <1>7, <1>11, <1>13 DEF p, n

LEMMA NonePrepared ==
  ASSUME NEW ring \in SqType
  PROVE  /\ PreparedCount(ring) = 0 => PreparedOps(ring) = {}
         /\ PreparedCount(Consumed(ring)) = 0
<1>1. PreparedCount(ring) = 0 => PreparedOps(ring) = {}
  BY DEF PreparedOps
<1>2. ring.sqe_tail \in Nat
  BY SqFields, LoopSizes
<1>3. Consumed(ring) = [sqes |-> ring.sqes, sqe_tail |-> ring.sqe_tail, khead |-> ring.sqe_tail]
  BY DEF Consumed, SqType
<1>4. (ring.sqe_tail - ring.sqe_tail) % SQ_MOD = 0
  BY <1>2, LoopSizes
<1> QED BY <1>1, <1>3, <1>4 DEF PreparedCount

\* The prepared entries, field by field
LEMMA InitializedSqe ==
  ASSUME NEW sqe \in Sqe
  PROVE  io_uring_initialize_sqe(sqe) =
           [opcode |-> sqe.opcode, fd |-> sqe.fd, addr |-> sqe.addr, len |-> sqe.len,
            flags |-> {}, ioprio |-> {}, msg_flags |-> {}, buf_group |-> 0,
            user_data |-> sqe.user_data, data |-> sqe.data]
<1> DEFINE r == io_uring_initialize_sqe(sqe)
<1>1. r \in Sqe
  BY LoopSizes DEF Sqe, io_uring_initialize_sqe
<1>2. /\ r.opcode = sqe.opcode /\ r.fd = sqe.fd /\ r.addr = sqe.addr /\ r.len = sqe.len
      /\ r.flags = {} /\ r.ioprio = {} /\ r.msg_flags = {} /\ r.buf_group = 0
      /\ r.user_data = sqe.user_data /\ r.data = sqe.data
  BY DEF Sqe, io_uring_initialize_sqe
<1> HIDE DEF r
<1> QED BY <1>1, <1>2 DEF Sqe, r

LEMMA ReceiveSqe ==
  ASSUME NEW sqe \in Sqe, NEW tag \in Tag, NEW i \in Owners
  PROVE  multishot_recv(io_uring_sqe_set_data(sqe, tag), i, {}, i) =
           [opcode |-> "RECV", fd |-> i, addr |-> sqe.addr, len |-> sqe.len,
            flags |-> {"BUFFER_SELECT"}, ioprio |-> {"MULTISHOT"}, msg_flags |-> {},
            buf_group |-> i, user_data |-> tag, data |-> sqe.data]
<1> DEFINE r == multishot_recv(io_uring_sqe_set_data(sqe, tag), i, {}, i)
<1>1. r \in Sqe
  BY LoopSizes DEF Sqe, multishot_recv, io_uring_sqe_set_data
<1>2. /\ r.opcode = "RECV" /\ r.fd = i /\ r.addr = sqe.addr /\ r.len = sqe.len
      /\ r.flags = {"BUFFER_SELECT"} /\ r.ioprio = {"MULTISHOT"} /\ r.msg_flags = {}
      /\ r.buf_group = i /\ r.user_data = tag /\ r.data = sqe.data
  BY DEF Sqe, multishot_recv, io_uring_sqe_set_data
<1> HIDE DEF r
<1>3. r = [opcode |-> "RECV", fd |-> i, addr |-> sqe.addr, len |-> sqe.len,
           flags |-> {"BUFFER_SELECT"}, ioprio |-> {"MULTISHOT"}, msg_flags |-> {},
           buf_group |-> i, user_data |-> tag, data |-> sqe.data]
  BY <1>1, <1>2 DEF Sqe
<1> QED BY <1>3 DEF r

LEMMA SendSqe ==
  ASSUME NEW sqe \in Sqe, NEW tag \in Tag, NEW i \in Owners, NEW b \in BLOCKS,
         NEW n \in 0 .. MAX_WRITES
  PROVE  [io_uring_sqe_set_data(send(sqe, i, b, SEND_LEN, {"MSG_WAITALL"}), tag)
            EXCEPT !.data = n] =
           [opcode |-> "SEND", fd |-> i, addr |-> b, len |-> SEND_LEN,
            flags |-> sqe.flags, ioprio |-> sqe.ioprio, msg_flags |-> {"MSG_WAITALL"},
            buf_group |-> sqe.buf_group, user_data |-> tag, data |-> n]
<1> DEFINE r == [io_uring_sqe_set_data(send(sqe, i, b, SEND_LEN, {"MSG_WAITALL"}), tag)
                   EXCEPT !.data = n]
<1>1. r \in Sqe
  BY LoopSizes DEF Sqe, send, io_uring_sqe_set_data
<1>2. /\ r.opcode = "SEND" /\ r.fd = i /\ r.addr = b /\ r.len = SEND_LEN
      /\ r.flags = sqe.flags /\ r.ioprio = sqe.ioprio /\ r.msg_flags = {"MSG_WAITALL"}
      /\ r.buf_group = sqe.buf_group /\ r.user_data = tag /\ r.data = n
  BY DEF Sqe, send, io_uring_sqe_set_data
<1> HIDE DEF r
<1>3. r = [opcode |-> "SEND", fd |-> i, addr |-> b, len |-> SEND_LEN,
           flags |-> sqe.flags, ioprio |-> sqe.ioprio, msg_flags |-> {"MSG_WAITALL"},
           buf_group |-> sqe.buf_group, user_data |-> tag, data |-> n]
  BY <1>1, <1>2 DEF Sqe
<1> QED BY <1>3 DEF r

-----------------------------------------------------------------------------
(***************************************************************************)
(* Completions of sends in the queue of unhandled completions.             *)
(***************************************************************************)

LEMMA DoneAppend ==
  ASSUME NEW E, NEW queue \in Seq(E), NEW cqe \in E
  PROVE  /\ event_of(cqe.user_data) # Send =>
              /\ DoneTags(Append(queue, cqe)) = DoneTags(queue)
              /\ DoneOnce(queue) => DoneOnce(Append(queue, cqe))
         /\ event_of(cqe.user_data) = Send =>
              /\ DoneTags(Append(queue, cqe)) = DoneTags(queue) \cup {cqe.user_data}
              /\ DoneOnce(queue) /\ cqe.user_data \notin DoneTags(queue) =>
                   DoneOnce(Append(queue, cqe))
<1> DEFINE more == Append(queue, cqe)
           n == Len(queue)
<1>1. /\ n \in Nat /\ DOMAIN queue = 1 .. n /\ DOMAIN more = 1 .. n + 1
      /\ \A k \in 1 .. n : more[k] = queue[k]
      /\ more[n + 1] = cqe
  BY AppendProperties
<1> HIDE DEF more
<1>2. 1 .. n + 1 = (1 .. n) \cup {n + 1} /\ n + 1 \notin 1 .. n
  BY <1>1
<1> HIDE DEF n
<1>3. /\ \A k \in 1 .. n : IsDone(more, k) <=> IsDone(queue, k)
      /\ IsDone(more, n + 1) <=> event_of(cqe.user_data) = Send
  BY <1>1 DEF IsDone
<1>4. CASE event_of(cqe.user_data) # Send
  <2>1. DoneTags(more) = DoneTags(queue)
    BY <1>1, <1>2, <1>3, <1>4 DEF DoneTags
  <2>2. DoneOnce(queue) => DoneOnce(more)
    BY <1>1, <1>2, <1>3, <1>4 DEF DoneOnce, IsDone
  <2> QED BY <1>4, <2>1, <2>2 DEF more
<1>5. CASE event_of(cqe.user_data) = Send
  <2>1. DoneTags(more) = DoneTags(queue) \cup {cqe.user_data}
    BY <1>1, <1>2, <1>3, <1>5 DEF DoneTags
  <2>2. ASSUME DoneOnce(queue), cqe.user_data \notin DoneTags(queue)
        PROVE  DoneOnce(more)
    <3>1. \A k \in 1 .. n : IsDone(queue, k) => queue[k].user_data # cqe.user_data
      BY <1>1, <2>2 DEF DoneTags
    <3> QED BY <1>1, <1>2, <1>3, <2>2, <3>1 DEF DoneOnce, IsDone
  <2> QED BY <1>5, <2>1, <2>2 DEF more
<1> QED BY <1>4, <1>5

LEMMA DoneTail ==
  ASSUME NEW E, NEW queue \in Seq(E), queue # <<>>, DoneOnce(queue)
  PROVE  /\ DoneOnce(Tail(queue))
         /\ event_of(queue[1].user_data) # Send => DoneTags(Tail(queue)) = DoneTags(queue)
         /\ event_of(queue[1].user_data) = Send =>
              /\ queue[1].user_data \in DoneTags(queue)
              /\ DoneTags(Tail(queue)) = DoneTags(queue) \ {queue[1].user_data}
              /\ \A k \in DOMAIN Tail(queue) : Tail(queue)[k].user_data # queue[1].user_data
<1> DEFINE rest == Tail(queue)
           n == Len(queue)
<1>1. /\ n \in Nat /\ n >= 1 /\ DOMAIN queue = 1 .. n /\ DOMAIN rest = 1 .. n - 1
      /\ \A k \in 1 .. n - 1 : rest[k] = queue[k + 1]
  BY HeadTailProperties
<1> HIDE DEF rest, n
<1>2. /\ \A k \in 1 .. n - 1 : k + 1 \in 1 .. n /\ k + 1 # 1
      /\ \A k \in 1 .. n : k # 1 => \E j \in 1 .. n - 1 : k = j + 1
      /\ \A j, k \in 1 .. n - 1 : j + 1 = k + 1 => j = k
      /\ 1 \in 1 .. n
  <2>1. ASSUME NEW k \in 1 .. n, k # 1
        PROVE  \E j \in 1 .. n - 1 : k = j + 1
    <3>1. k - 1 \in 1 .. n - 1 /\ k = (k - 1) + 1
      BY <1>1, <2>1
    <3> QED BY <3>1
  <2> QED BY <1>1, <2>1
<1>3. \A k \in 1 .. n - 1 : IsDone(rest, k) <=> IsDone(queue, k + 1)
  BY <1>1 DEF IsDone
<1>4. DoneOnce(rest)
  <2>1. ASSUME NEW j \in 1 .. n - 1, NEW k \in 1 .. n - 1,
               rest[j].user_data = rest[k].user_data, IsDone(rest, j)
        PROVE  j = k
    <3>1. queue[j + 1].user_data = queue[k + 1].user_data /\ IsDone(queue, j + 1)
      BY <1>1, <1>3, <2>1
    <3>2. j + 1 = k + 1
      BY <1>1, <1>2, <3>1 DEF DoneOnce
    <3> QED BY <1>2, <3>2
  <2> QED BY <1>1, <2>1 DEF DoneOnce
<1>5. ASSUME event_of(queue[1].user_data) # Send
      PROVE  DoneTags(rest) = DoneTags(queue)
  <2>1. ~IsDone(queue, 1)
    BY <1>5 DEF IsDone
  <2>2. DoneTags(rest) \subseteq DoneTags(queue)
    BY <1>1, <1>2, <1>3 DEF DoneTags
  <2>3. ASSUME NEW d \in DoneTags(queue)
        PROVE  d \in DoneTags(rest)
    <3>1. PICK k \in 1 .. n : IsDone(queue, k) /\ d = queue[k].user_data
      BY <1>1 DEF DoneTags
    <3>2. PICK j \in 1 .. n - 1 : k = j + 1
      BY <1>2, <2>1, <3>1
    <3> QED BY <1>1, <1>3, <3>1, <3>2 DEF DoneTags
  <2> QED BY <2>2, <2>3
<1>6. ASSUME event_of(queue[1].user_data) = Send
      PROVE  /\ queue[1].user_data \in DoneTags(queue)
             /\ DoneTags(rest) = DoneTags(queue) \ {queue[1].user_data}
             /\ \A k \in DOMAIN rest : rest[k].user_data # queue[1].user_data
  <2>1. IsDone(queue, 1)
    BY <1>6 DEF IsDone
  <2>2. \A k \in 1 .. n : k # 1 => queue[k].user_data # queue[1].user_data
    BY <1>1, <1>2, <2>1 DEF DoneOnce
  <2>3. \A k \in 1 .. n - 1 : rest[k].user_data # queue[1].user_data
    BY <1>1, <1>2, <2>2
  <2>4. DoneTags(rest) \subseteq DoneTags(queue) \ {queue[1].user_data}
    BY <1>1, <1>2, <1>3, <2>3 DEF DoneTags
  <2>5. ASSUME NEW d \in DoneTags(queue), d # queue[1].user_data
        PROVE  d \in DoneTags(rest)
    <3>1. PICK k \in 1 .. n : IsDone(queue, k) /\ d = queue[k].user_data
      BY <1>1 DEF DoneTags
    <3>2. PICK j \in 1 .. n - 1 : k = j + 1
      BY <1>2, <2>5, <3>1
    <3> QED BY <1>1, <1>3, <3>1, <3>2 DEF DoneTags
  <2>6. queue[1].user_data \in DoneTags(queue)
    BY <1>1, <1>2, <2>1 DEF DoneTags
  <2> QED BY <1>1, <2>3, <2>4, <2>5, <2>6
<1> QED BY <1>4, <1>5, <1>6 DEF rest

-----------------------------------------------------------------------------
(***************************************************************************)
(* Tags and what they pin.                                                 *)
(***************************************************************************)

LEMMA OwnersFit == \A i \in Owners : i \in 0 .. OWNER_MOD - 1
BY LoopAssumption, Units DEF Owners

LEMMA RecvTags ==
  ASSUME NEW i \in Owners
  PROVE  /\ event_of(RecvTag(i)) = MultishortRecv /\ owner_of(RecvTag(i)) = i
         /\ req_of(RecvTag(i)) = RECV_ID(i)
         /\ RecvTag(i) \in Tag
<1>1. RECV_ID(i) \in 0 .. REQ_MOD - 1
  <2>1. PICK c \in Nat : c = 1200 + i
    BY LoopSizes DEF Owners
  <2>2. c % REQ_MOD \in 0 .. REQ_MOD - 1
    BY LoopSizes, Decompose
  <2> QED BY <2>1, <2>2 DEF RECV_ID
<1>2. MultishortRecv \in Nat /\ MultishortRecv \in Events /\ i \in 0 .. OWNER_MOD - 1
  BY OwnersFit DEF MultishortRecv, Events
<1> QED BY <1>1, <1>2, RoundTrip, TagType DEF RecvTag

LEMMA SendTagParts ==
  ASSUME NEW i \in Owners, NEW r \in 0 .. REQ_MOD - 1
  PROVE  /\ event_of(from_parts(Send, i, r)) = Send /\ owner_of(from_parts(Send, i, r)) = i
         /\ req_of(from_parts(Send, i, r)) = r
         /\ from_parts(Send, i, r) \in Tag
<1>1. Send \in Nat /\ Send \in Events /\ i \in 0 .. OWNER_MOD - 1
  BY OwnersFit DEF Send, Events
<1> QED BY <1>1, RoundTrip, TagType

LEMMA PendingFacts ==
  ASSUME TypeOK, PendingInv
  PROVE  /\ \A i \in Owners : \A d \in DOMAIN pending_sent[i] :
              d \in Pending /\ owner_of(d) = i /\ BlockOf(d) = pending_sent[i][d]
         /\ \A d \in Pending :
              /\ d \in Tag /\ event_of(d) = Send /\ owner_of(d) \in Owners
              /\ d \in DOMAIN pending_sent[owner_of(d)] /\ BlockOf(d) \in BLOCKS
<1>1. \A i \in Owners : pending_sent[i] \in [DOMAIN pending_sent[i] -> BLOCKS]
  BY Types
<1>2. \A i \in Owners : \A d \in DOMAIN pending_sent[i] :
        d \in Tag /\ owner_of(d) = i /\ event_of(d) = Send
  BY DEF PendingInv
<1>3. ASSUME NEW i \in Owners, NEW d \in DOMAIN pending_sent[i]
      PROVE  d \in Pending /\ owner_of(d) = i /\ BlockOf(d) = pending_sent[i][d]
  BY <1>2 DEF Pending, BlockOf
<1>4. ASSUME NEW d \in Pending
      PROVE  /\ d \in Tag /\ event_of(d) = Send /\ owner_of(d) \in Owners
             /\ d \in DOMAIN pending_sent[owner_of(d)] /\ BlockOf(d) \in BLOCKS
  <2>1. PICK i \in Owners : d \in DOMAIN pending_sent[i]
    BY DEF Pending
  <2>2. owner_of(d) = i /\ d \in Tag /\ event_of(d) = Send
    BY <1>2, <2>1
  <2> QED BY <1>1, <2>1, <2>2 DEF BlockOf
<1> QED BY <1>3, <1>4

LEMMA RecvNotPending ==
  ASSUME TypeOK, PendingInv, NEW i \in Owners
  PROVE  RecvTag(i) \notin Pending
<1>1. event_of(RecvTag(i)) # Send
  BY RecvTags DEF Send, MultishortRecv
<1> QED BY <1>1, PendingFacts

\* Operations with one tag, or of one write, are one.
LEMMA SendsDistinct ==
  ASSUME TypeOK, PendingInv, HeapInv,
         NEW o, NEW p, IsSend(o), IsSend(p)
  PROVE  /\ o.user_data = p.user_data => o = p
         /\ o.data = p.data => o = p
         /\ o.opcode = "SEND" /\ o.data = heap[BlockOf(o.user_data)] /\ o.data # 0
<1>1. o = SendOf(o.user_data) /\ p = SendOf(p.user_data)
  BY DEF IsSend
<1>2. /\ o.opcode = "SEND"
      /\ o.data = heap[BlockOf(o.user_data)] /\ p.data = heap[BlockOf(p.user_data)]
  BY <1>1 DEF SendOf
<1>3. /\ o.user_data \in Pending /\ p.user_data \in Pending
      /\ BlockOf(o.user_data) \in BLOCKS /\ BlockOf(p.user_data) \in BLOCKS
  BY PendingFacts DEF IsSend
<1>4. heap[BlockOf(o.user_data)] # 0
  BY <1>3 DEF PendingInv
<1>5. o.data = p.data => o.user_data = p.user_data
  <2> HAVE o.data = p.data
  <2>1. BlockOf(o.user_data) = BlockOf(p.user_data)
    BY <1>2, <1>3, <1>4 DEF HeapInv
  <2> QED BY <1>3, <2>1 DEF PendingInv
<1> QED BY <1>1, <1>2, <1>4, <1>5

\* The parts of LoopInv about tags, memory and operations
MemoryInv == PendingInv /\ HeapInv /\ IdInv /\ OpsInv /\ CompletionsInv /\ StageInv

LEMMA MemoryQuiet ==
  ASSUME MemoryInv, UNCHANGED <<sq, netVars, sends, recvs, Unforgotten>>
  PROVE  MemoryInv'
<1>1. UNCHANGED Pending /\ \A d : BlockOf(d)' = BlockOf(d)
  BY DEF Pending, BlockOf, netVars
<1>2. PendingInv' /\ HeapInv' /\ IdInv'
  BY <1>1 DEF MemoryInv, PendingInv, HeapInv, IdInv, netVars
<1>3. \A op : (IsSend(op)' <=> IsSend(op)) /\ (IsRecv(op)' <=> IsRecv(op))
  BY <1>1 DEF IsSend, IsRecv, SendOf, RecvOf, netVars
<1>4. OpsInv'
  BY <1>3 DEF MemoryInv, OpsInv
<1>5. CompletionsInv'
  BY <1>1 DEF MemoryInv, CompletionsInv, Expected
<1>6. StageInv'
  BY <1>1 DEF MemoryInv, StageInv
<1> QED BY <1>2, <1>4, <1>5, <1>6 DEF MemoryInv

LEMMA ExpectedAppend ==
  ASSUME NEW queue \in Seq(CqEntry), NEW cqe \in CqEntry, Expected(cqe),
         \A k \in DOMAIN queue : Expected(queue[k])
  PROVE  \A k \in DOMAIN Append(queue, cqe) : Expected(Append(queue, cqe)[k])
<1>1. /\ Len(queue) \in Nat /\ DOMAIN queue = 1 .. Len(queue)
      /\ DOMAIN Append(queue, cqe) = 1 .. Len(queue) + 1
      /\ \A k \in 1 .. Len(queue) : Append(queue, cqe)[k] = queue[k]
      /\ Append(queue, cqe)[Len(queue) + 1] = cqe
  BY AppendProperties
<1>2. 1 .. Len(queue) + 1 = (1 .. Len(queue)) \cup {Len(queue) + 1}
  BY <1>1
<1> QED BY <1>1, <1>2

\* A receive is prepared.
LEMMA ArmMemory ==
  ASSUME MemoryInv, UNCHANGED <<netVars, sends, recvs, Unforgotten>>,
         NEW i \in Owners, PreparedOps(sq') = PreparedOps(sq) \cup {RecvOf(i)}
  PROVE  MemoryInv'
<1>1. UNCHANGED Pending /\ \A d : BlockOf(d)' = BlockOf(d)
  BY DEF Pending, BlockOf, netVars
<1>2. PendingInv' /\ HeapInv' /\ IdInv'
  BY <1>1 DEF MemoryInv, PendingInv, HeapInv, IdInv, netVars
<1>3. \A op : (IsSend(op)' <=> IsSend(op)) /\ (IsRecv(op)' <=> IsRecv(op))
  BY <1>1 DEF IsSend, IsRecv, SendOf, RecvOf, netVars
<1>4. IsRecv(RecvOf(i)) /\ RecvOf(i).opcode # "SEND"
  BY DEF IsRecv, RecvOf
<1>5. OpsInv'
  BY <1>3, <1>4 DEF MemoryInv, OpsInv
<1>6. CompletionsInv'
  BY <1>1 DEF MemoryInv, CompletionsInv, Expected
<1>7. TagsOf(PreparedOps(sq')) = TagsOf(PreparedOps(sq))
  BY <1>4 DEF TagsOf
<1>8. StageInv'
  BY <1>1, <1>7 DEF MemoryInv, StageInv
<1> QED BY <1>2, <1>5, <1>6, <1>8 DEF MemoryInv

\* What was prepared is submitted.
LEMMA SubmitMemory ==
  ASSUME MemoryInv, UNCHANGED <<netVars, Unforgotten>>, PreparedOps(sq') = {},
         sends' = sends \cup {op \in PreparedOps(sq) : op.opcode = "SEND"},
         recvs' = recvs \cup {op \in PreparedOps(sq) : op.opcode = "RECV"}
  PROVE  MemoryInv'
<1>1. UNCHANGED Pending /\ \A d : BlockOf(d)' = BlockOf(d)
  BY DEF Pending, BlockOf, netVars
<1>2. PendingInv' /\ HeapInv' /\ IdInv'
  BY <1>1 DEF MemoryInv, PendingInv, HeapInv, IdInv, netVars
<1>3. \A op : (IsSend(op)' <=> IsSend(op)) /\ (IsRecv(op)' <=> IsRecv(op))
  BY <1>1 DEF IsSend, IsRecv, SendOf, RecvOf, netVars
<1>4. \A op : /\ IsSend(op) => op.opcode = "SEND"
              /\ IsRecv(op) => op.opcode = "RECV"
  <2> TAKE op
  <2>1. IsSend(op) => op.opcode = "SEND"
    <3> HAVE IsSend(op)
    <3>1. op = SendOf(op.user_data)
      BY DEF IsSend
    <3> QED BY <3>1 DEF SendOf
  <2>2. IsRecv(op) => op.opcode = "RECV"
    <3> HAVE IsRecv(op)
    <3>1. op = RecvOf(op.fd)
      BY DEF IsRecv
    <3> QED BY <3>1 DEF RecvOf
  <2> QED BY <2>1, <2>2
<1>5. OpsInv'
  <2>1. \A op \in PreparedOps(sq) :
          /\ op.opcode = "SEND" => IsSend(op)
          /\ op.opcode = "RECV" => IsRecv(op)
    BY <1>4 DEF MemoryInv, OpsInv
  <2> QED BY <1>3, <2>1 DEF MemoryInv, OpsInv
<1>6. CompletionsInv'
  BY <1>1 DEF MemoryInv, CompletionsInv, Expected
<1>7. TagsOf(PreparedOps(sq')) = {} /\ TagsOf(sends') = TagsOf(sends) \cup TagsOf(PreparedOps(sq))
  BY DEF TagsOf
<1>8. StageInv'
  BY <1>1, <1>7 DEF MemoryInv, StageInv
<1> QED BY <1>2, <1>5, <1>6, <1>8 DEF MemoryInv

\* A send completes.
LEMMA SentMemory ==
  ASSUME TypeOK, MemoryInv, UNCHANGED <<sq, netVars, recvs>>,
         NEW op \in sends, sends' = sends \ {op}, NEW res,
         Unforgotten \in Seq(CqEntry), Cqe(op, res) \in CqEntry,
         Unforgotten' = Append(Unforgotten, Cqe(op, res))
  PROVE  MemoryInv'
<1> DEFINE d == op.user_data
           cqe == Cqe(op, res)
           queue == Unforgotten
<1>1. UNCHANGED Pending /\ \A e : BlockOf(e)' = BlockOf(e)
  BY DEF Pending, BlockOf, netVars
<1>2. PendingInv' /\ HeapInv' /\ IdInv'
  BY <1>1 DEF MemoryInv, PendingInv, HeapInv, IdInv, netVars
<1>3. \A o : (IsSend(o)' <=> IsSend(o)) /\ (IsRecv(o)' <=> IsRecv(o))
  BY <1>1 DEF IsSend, IsRecv, SendOf, RecvOf, netVars
<1>4. OpsInv'
  BY <1>3 DEF MemoryInv, OpsInv
<1>5. IsSend(op) /\ d \in Pending /\ event_of(d) = Send /\ cqe.user_data = d
  <2>1. IsSend(op)
    BY DEF MemoryInv, OpsInv
  <2> QED BY <2>1, PendingFacts DEF IsSend, Cqe, MemoryInv
<1>6. d \in TagsOf(sends) /\ TagsOf(sends') = TagsOf(sends) \ {d}
  <2>1. \A o \in sends : IsSend(o) /\ o.opcode = "SEND" /\ (o.user_data = d => o = op)
    BY <1>5, SendsDistinct DEF MemoryInv, OpsInv
  <2> QED BY <2>1 DEF TagsOf
<1>7. d \notin DoneTags(queue) /\ d \notin TagsOf(PreparedOps(sq)) /\ DoneOnce(queue)
  BY <1>6 DEF MemoryInv, StageInv
<1>8. DoneTags(Append(queue, cqe)) = DoneTags(queue) \cup {d} /\ DoneOnce(Append(queue, cqe))
  BY <1>5, <1>7, DoneAppend
<1>9. StageInv'
  BY <1>1, <1>6, <1>7, <1>8 DEF MemoryInv, StageInv
<1>10. CompletionsInv'
  <2>1. \A e : Expected(e)' <=> Expected(e)
    BY <1>1 DEF Expected
  <2>2. Expected(cqe)
    BY <1>5 DEF Expected
  <2>3. \A k \in DOMAIN queue : Expected(queue[k])
    BY DEF MemoryInv, CompletionsInv
  <2>4. \A k \in DOMAIN Append(queue, cqe) : Expected(Append(queue, cqe)[k])
    BY <2>2, <2>3, ExpectedAppend
  <2> QED BY <2>1, <2>4 DEF CompletionsInv
<1> QED BY <1>2, <1>4, <1>9, <1>10 DEF MemoryInv

\* A receive completes, or ends.
LEMMA ReceivedMemory ==
  ASSUME TypeOK, MemoryInv, UNCHANGED <<sq, netVars, sends>>,
         NEW op \in recvs, recvs' \subseteq recvs, NEW cqe \in CqEntry,
         cqe.user_data = op.user_data, cqe.res > 0 => cqe.buffer,
         Unforgotten \in Seq(CqEntry),
         Unforgotten' = Append(Unforgotten, cqe)
  PROVE  MemoryInv'
<1> DEFINE d == op.user_data
           queue == Unforgotten
<1>1. UNCHANGED Pending /\ \A e : BlockOf(e)' = BlockOf(e)
  BY DEF Pending, BlockOf, netVars
<1>2. PendingInv' /\ HeapInv' /\ IdInv'
  BY <1>1 DEF MemoryInv, PendingInv, HeapInv, IdInv, netVars
<1>3. \A o : (IsSend(o)' <=> IsSend(o)) /\ (IsRecv(o)' <=> IsRecv(o))
  BY <1>1 DEF IsSend, IsRecv, SendOf, RecvOf, netVars
<1>4. OpsInv'
  BY <1>3 DEF MemoryInv, OpsInv
<1>5. PICK i \in Owners : d = RecvTag(i) /\ event_of(d) # Send
  <2>1. IsRecv(op)
    BY DEF MemoryInv, OpsInv
  <2>2. op.fd \in Owners /\ op = RecvOf(op.fd)
    BY <2>1 DEF IsRecv
  <2>3. d = RecvTag(op.fd)
    BY <2>2 DEF RecvOf, RecvTag
  <2> QED BY <2>2, <2>3, RecvTags DEF Send, MultishortRecv
<1>6. DoneTags(Append(queue, cqe)) = DoneTags(queue) /\ DoneOnce(Append(queue, cqe))
  <2>1. DoneOnce(queue)
    BY DEF MemoryInv, StageInv
  <2> QED BY <1>5, <2>1, DoneAppend
<1>7. StageInv'
  BY <1>1, <1>6 DEF MemoryInv, StageInv
<1>8. CompletionsInv'
  <2>1. \A e : Expected(e)' <=> Expected(e)
    BY <1>1 DEF Expected
  <2>2. Expected(cqe)
    BY <1>5 DEF Expected, RecvTag
  <2>3. \A k \in DOMAIN queue : Expected(queue[k])
    BY DEF MemoryInv, CompletionsInv
  <2>4. \A k \in DOMAIN Append(queue, cqe) : Expected(Append(queue, cqe)[k])
    BY <2>2, <2>3, ExpectedAppend
  <2> QED BY <2>1, <2>4 DEF CompletionsInv
<1> QED BY <1>2, <1>4, <1>7, <1>8 DEF MemoryInv

\* The number of the next write's id has not been used: a stream has given out
\* fewer ids than there are.
LEMMA FreshId ==
  ASSUME TypeOK, IdInv, writes < MAX_WRITES, NEW i \in Owners
  PROVE  from_parts(Send, i, send_id[i]) \notin DOMAIN pending_sent[i]
<1>1. PICK count \in [Owners -> 0 .. writes] : \A k \in Owners :
        /\ send_id[k] = SendId(count[k])
        /\ \A d \in DOMAIN pending_sent[k] :
             \E n \in 0 .. count[k] - 1 : d = from_parts(Send, k, SendId(n))
  BY DEF IdInv
<1>2. PICK m \in 0 .. writes : m = count[i]
  BY <1>1
<1>3. /\ writes \in Nat /\ m < REQ_MOD /\ REQ_MOD \in Nat \ {0} /\ FIRST_SEND_ID \in Nat
  <2>1. writes \in 0 .. MAX_WRITES
    BY Types
  <2>2. MAX_WRITES \in Nat /\ MAX_WRITES <= REQ_MOD /\ REQ_MOD \in Nat \ {0}
    BY LoopSizes, LoopAssumption
  <2>3. FIRST_SEND_ID \in Nat
    BY <2>2, LoopAssumption
  <2> QED BY <1>2, <2>1, <2>2, <2>3
<1>4. \A n \in 0 .. m : SendId(n) \in 0 .. REQ_MOD - 1
  <2> TAKE n \in 0 .. m
  <2>1. PICK c \in Nat : c = FIRST_SEND_ID + n
    BY <1>2, <1>3
  <2>2. c % REQ_MOD \in 0 .. REQ_MOD - 1
    BY <1>3, Decompose
  <2> QED BY <2>1, <2>2 DEF SendId
<1>5. \A n \in 0 .. m - 1 : SendId(n) # SendId(m)
  <2> TAKE n \in 0 .. m - 1
  <2>1. PICK c \in Nat : c = FIRST_SEND_ID + n
    BY <1>2, <1>3
  <2>2. PICK e \in 1 .. REQ_MOD - 1 : e = m - n
    BY <1>2, <1>3
  <2>3. (c + e) % REQ_MOD # c % REQ_MOD
    BY <1>3, ModDistinct
  <2>4. c + e = FIRST_SEND_ID + m
    BY <1>2, <1>3, <2>1, <2>2
  <2> QED BY <2>1, <2>3, <2>4 DEF SendId
<1>6. ASSUME from_parts(Send, i, send_id[i]) \in DOMAIN pending_sent[i]
      PROVE  FALSE
  <2>1. PICK n \in 0 .. m - 1 : from_parts(Send, i, SendId(m)) = from_parts(Send, i, SendId(n))
    BY <1>1, <1>2, <1>6
  <2>2. SendId(n) \in 0 .. REQ_MOD - 1 /\ SendId(m) \in 0 .. REQ_MOD - 1
    BY <1>2, <1>3, <1>4, <2>1
  <2>3. SendId(m) = SendId(n)
    BY <2>1, <2>2, SendTagParts
  <2> QED BY <1>5, <2>1, <2>3
<1> QED BY <1>6

\* The next id is that of the next write of the stream.
LEMMA NextSendId ==
  ASSUME NEW n \in Nat
  PROVE  NextId(SendId(n)) = SendId(n + 1)
<1>1. PICK c \in Nat : c = FIRST_SEND_ID + n
  BY LoopAssumption, LoopSizes
<1>2. ((c % REQ_MOD) + 1) % REQ_MOD = (c + 1) % REQ_MOD
  BY LoopSizes, ModStep
<1>3. c + 1 = FIRST_SEND_ID + (n + 1)
  BY <1>1, LoopAssumption, LoopSizes
<1> QED BY <1>1, <1>2, <1>3 DEF NextId, SendId

\* What a write does to the tables
WriteTables(b, key) ==
  /\ key = from_parts(Send, at, send_id[at])
  /\ writes' = writes + 1
  /\ send_id' = [send_id EXCEPT ![at] = NextId(@)]
  /\ pending_sent' = [pending_sent EXCEPT ![at] = Insert(@, key, b)]
  /\ heap' = [Drop(heap, pending_sent[at], key) EXCEPT ![b] = writes']

LEMMA WriteEffect ==
  ASSUME TypeOK, PendingInv, HeapInv, IdInv, writes < MAX_WRITES,
         NEW b \in BLOCKS, heap[b] = 0, NEW key, WriteTables(b, key)
  PROVE  /\ key \in Tag /\ event_of(key) = Send /\ owner_of(key) = at /\ at \in Owners
         /\ key \notin Pending
         /\ pending_sent' = [i \in Owners |-> IF i = at THEN Insert(pending_sent[at], key, b)
                                              ELSE pending_sent[i]]
         /\ DOMAIN pending_sent'[at] = DOMAIN pending_sent[at] \cup {key}
         /\ heap' = [heap EXCEPT ![b] = writes']
         /\ Pending' = Pending \cup {key}
         /\ BlockOf(key)' = b
         /\ \A d \in Pending : BlockOf(d)' = BlockOf(d) /\ BlockOf(d) # b
<1>1. /\ at \in Owners /\ send_id \in [Owners -> 0 .. REQ_MOD - 1]
      /\ heap \in [BLOCKS -> 0 .. MAX_WRITES]
      /\ pending_sent = [i \in Owners |-> pending_sent[i]]
  BY Types
<1>2. key \in Tag /\ event_of(key) = Send /\ owner_of(key) = at
  BY <1>1, SendTagParts DEF WriteTables
<1>3. key \notin DOMAIN pending_sent[at]
  BY <1>1, FreshId DEF WriteTables
<1>4. key \notin Pending
  BY <1>2, <1>3, PendingFacts
<1>5. heap' = [heap EXCEPT ![b] = writes']
  <2>1. Drop(heap, pending_sent[at], key) = heap
    BY <1>1, <1>3 DEF Drop
  <2> QED BY <2>1 DEF WriteTables
<1>6. pending_sent' = [i \in Owners |-> IF i = at THEN Insert(pending_sent[at], key, b)
                                        ELSE pending_sent[i]]
  BY <1>1 DEF WriteTables
<1>7. /\ DOMAIN pending_sent'[at] = DOMAIN pending_sent[at] \cup {key}
      /\ pending_sent'[at][key] = b
      /\ \A d \in DOMAIN pending_sent[at] : pending_sent'[at][d] = pending_sent[at][d]
      /\ \A i \in Owners \ {at} : pending_sent'[i] = pending_sent[i]
  BY <1>1, <1>3, <1>6 DEF Insert
<1>8. Pending' = Pending \cup {key}
  BY <1>1, <1>7 DEF Pending
<1>9. BlockOf(key)' = b
  BY <1>2, <1>7 DEF BlockOf
<1>10. ASSUME NEW d \in Pending
       PROVE  BlockOf(d)' = BlockOf(d) /\ BlockOf(d) # b
  <2>1. owner_of(d) \in Owners /\ d \in DOMAIN pending_sent[owner_of(d)]
    BY PendingFacts
  <2>2. pending_sent'[owner_of(d)][d] = pending_sent[owner_of(d)][d]
    BY <1>1, <1>7, <2>1
  <2>3. heap[BlockOf(d)] # 0
    BY PendingFacts DEF PendingInv
  <2> QED BY <2>2, <2>3 DEF BlockOf
<1> QED BY <1>1, <1>2, <1>4, <1>5, <1>6, <1>7, <1>8, <1>9, <1>10

\* A send is prepared.
LEMMA WriteMemory ==
  ASSUME TypeOK, MemoryInv, writes < MAX_WRITES, UNCHANGED <<sends, recvs, Unforgotten>>,
         NEW b \in BLOCKS, heap[b] = 0, NEW key, WriteTables(b, key),
         NEW new, new = SendOf(key)', PreparedOps(sq') = PreparedOps(sq) \cup {new}
  PROVE  MemoryInv'
<1>1. PendingInv /\ HeapInv /\ IdInv
  BY DEF MemoryInv
<1>2. /\ key \in Tag /\ event_of(key) = Send /\ owner_of(key) = at /\ at \in Owners
      /\ key \notin Pending
      /\ pending_sent' = [i \in Owners |-> IF i = at THEN Insert(pending_sent[at], key, b)
                                           ELSE pending_sent[i]]
      /\ DOMAIN pending_sent'[at] = DOMAIN pending_sent[at] \cup {key}
      /\ heap' = [heap EXCEPT ![b] = writes']
      /\ Pending' = Pending \cup {key}
      /\ BlockOf(key)' = b
      /\ \A d \in Pending : BlockOf(d)' = BlockOf(d) /\ BlockOf(d) # b
  BY <1>1, WriteEffect
<1>3. heap \in [BLOCKS -> 0 .. MAX_WRITES] /\ writes \in Nat /\ writes' = writes + 1
  BY Types, LoopSizes DEF WriteTables
<1>4. /\ heap'[b] = writes + 1
      /\ \A c \in BLOCKS : c # b => heap'[c] = heap[c]
      /\ \A c \in BLOCKS : heap[c] \in Nat /\ heap[c] <= writes
  BY <1>1, <1>2, <1>3 DEF HeapInv
<1>5. PendingInv'
  <2>1. \A i \in Owners : \A d \in DOMAIN pending_sent'[i] :
          d \in Tag /\ owner_of(d) = i /\ event_of(d) = Send
    BY <1>1, <1>2 DEF PendingInv
  <2>2. \A d, e \in Pending' : BlockOf(d)' = BlockOf(e)' => d = e
    BY <1>1, <1>2 DEF PendingInv
  <2>3. \A c \in BLOCKS : heap'[c] # 0 <=> \E d \in Pending' : BlockOf(d)' = c
    <3> TAKE c \in BLOCKS
    <3>1. CASE c = b
      <4>1. heap'[b] # 0
        BY <1>3, <1>4
      <4> QED BY <1>2, <3>1, <4>1
    <3>2. CASE c # b
      <4>1. heap'[c] = heap[c]
        BY <1>4, <3>2
      <4>2. (\E d \in Pending' : BlockOf(d)' = c) <=> (\E d \in Pending : BlockOf(d) = c)
        BY <1>2, <3>2
      <4> QED BY <1>1, <4>1, <4>2 DEF PendingInv
    <3> QED BY <3>1, <3>2
  <2> QED BY <2>1, <2>2, <2>3 DEF PendingInv
<1>6. HeapInv'
  BY <1>1, <1>3, <1>4 DEF HeapInv
<1>7. IdInv'
  <2>1. PICK count \in [Owners -> 0 .. writes] : \A k \in Owners :
          /\ send_id[k] = SendId(count[k])
          /\ \A d \in DOMAIN pending_sent[k] :
               \E n \in 0 .. count[k] - 1 : d = from_parts(Send, k, SendId(n))
    BY <1>1 DEF IdInv
  <2> DEFINE more == [count EXCEPT ![at] = @ + 1]
  <2>2. more \in [Owners -> 0 .. writes']
    BY <1>2, <1>3, <2>1
  <2>3. count[at] \in Nat /\ more[at] = count[at] + 1 /\ \A k \in Owners \ {at} : more[k] = count[k]
    BY <1>2, <1>3, <2>1
  <2> HIDE DEF more
  <2>4. send_id \in [Owners -> 0 .. REQ_MOD - 1]
    BY Types
  <2>5. ASSUME NEW k \in Owners
        PROVE  /\ send_id'[k] = SendId(more[k])
               /\ \A d \in DOMAIN pending_sent'[k] :
                    \E n \in 0 .. more[k] - 1 : d = from_parts(Send, k, SendId(n))
    <3>1. CASE k # at
      <4>1. send_id'[k] = send_id[k] /\ pending_sent'[k] = pending_sent[k]
        BY <1>2, <2>4, <3>1 DEF WriteTables
      <4> QED BY <2>1, <2>3, <3>1, <4>1
    <3>2. CASE k = at
      <4>1. send_id'[at] = SendId(count[at] + 1)
        <5>1. send_id'[at] = NextId(send_id[at])
          BY <1>2, <2>4 DEF WriteTables
        <5> QED BY <1>2, <2>1, <2>3, <5>1, NextSendId
      <4>2. key = from_parts(Send, at, SendId(count[at]))
        BY <1>2, <2>1 DEF WriteTables
      <4>3. \A d \in DOMAIN pending_sent'[at] :
              \E n \in 0 .. count[at] : d = from_parts(Send, at, SendId(n))
        <5> TAKE d \in DOMAIN pending_sent'[at]
        <5>1. CASE d = key
          <6>1. count[at] \in 0 .. count[at]
            BY <2>3
          <6> QED BY <4>2, <5>1, <6>1
        <5>2. CASE d # key
          <6>1. PICK n \in 0 .. count[at] - 1 : d = from_parts(Send, at, SendId(n))
            BY <1>2, <2>1, <5>2
          <6>2. n \in 0 .. count[at]
            BY <2>3
          <6> QED BY <6>1, <6>2
        <5> QED BY <5>1, <5>2
      <4>4. more[at] - 1 = count[at]
        BY <2>3
      <4> QED BY <2>3, <3>2, <4>1, <4>3, <4>4
    <3> QED BY <3>1, <3>2
  <2> QED BY <2>2, <2>5 DEF IdInv
<1>8. \A op : (IsSend(op) => IsSend(op)') /\ (IsRecv(op) => IsRecv(op)')
  <2> TAKE op
  <2>1. IsRecv(op) => IsRecv(op)'
    BY DEF IsRecv, RecvOf
  <2>2. ASSUME IsSend(op)
        PROVE  IsSend(op)'
    <3>1. PICK d \in Pending : d = op.user_data /\ op = SendOf(d)
      BY <2>2 DEF IsSend
    <3>2. BlockOf(d) \in BLOCKS /\ BlockOf(d)' = BlockOf(d) /\ BlockOf(d) # b
      BY <1>1, <1>2, PendingFacts
    <3>3. heap'[BlockOf(d)] = heap[BlockOf(d)]
      BY <1>4, <3>2
    <3>4. SendOf(d)' = SendOf(d)
      BY <3>2, <3>3 DEF SendOf
    <3> QED BY <1>2, <3>1, <3>4 DEF IsSend
  <2> QED BY <2>1, <2>2
<1>9. IsSend(new)' /\ new.opcode = "SEND" /\ new.user_data = key
  <2>1. new.opcode = "SEND" /\ new.user_data = key
    BY DEF SendOf
  <2> QED BY <1>2, <2>1 DEF IsSend
<1>10. OpsInv'
  BY <1>8, <1>9 DEF MemoryInv, OpsInv
<1>11. CompletionsInv'
  BY <1>2 DEF MemoryInv, CompletionsInv, Expected
<1>12. TagsOf(PreparedOps(sq')) = TagsOf(PreparedOps(sq)) \cup {key}
  BY <1>9 DEF TagsOf
<1>13. StageInv'
  <2>1. /\ Pending = TagsOf(PreparedOps(sq)) \cup TagsOf(sends) \cup DoneTags(Unforgotten)
        /\ TagsOf(PreparedOps(sq)) \cap TagsOf(sends) = {}
        /\ TagsOf(PreparedOps(sq)) \cap DoneTags(Unforgotten) = {}
        /\ TagsOf(sends) \cap DoneTags(Unforgotten) = {}
        /\ DoneOnce(Unforgotten)
    BY DEF MemoryInv, StageInv
  <2>2. TagsOf(sends)' = TagsOf(sends) /\ DoneTags(Unforgotten)' = DoneTags(Unforgotten)
        /\ DoneOnce(Unforgotten)'
    BY <2>1
  <2> QED BY <1>2, <1>12, <2>1, <2>2 DEF StageInv
<1> QED BY <1>5, <1>6, <1>7, <1>10, <1>11, <1>13 DEF MemoryInv

\* The entries that follow the oldest
LEMMA RestOf ==
  ASSUME NEW queue \in Seq(CqEntry), queue # <<>>
  PROVE  /\ Tail(queue) \in Seq(CqEntry)
         /\ \A k \in DOMAIN Tail(queue) : k + 1 \in DOMAIN queue /\ Tail(queue)[k] = queue[k + 1]
BY HeadTailProperties

\* The completion of a receive is handled.
LEMMA ForgetRecv ==
  ASSUME MemoryInv, UNCHANGED <<sq, netVars, sends, recvs>>,
         Unforgotten \in Seq(CqEntry), Unforgotten # <<>>, Unforgotten' = Tail(Unforgotten),
         event_of(Unforgotten[1].user_data) # Send
  PROVE  MemoryInv'
<1> DEFINE queue == Unforgotten
<1>1. UNCHANGED Pending /\ \A d : BlockOf(d)' = BlockOf(d)
  BY DEF Pending, BlockOf, netVars
<1>2. PendingInv' /\ HeapInv' /\ IdInv'
  BY <1>1 DEF MemoryInv, PendingInv, HeapInv, IdInv, netVars
<1>3. \A op : (IsSend(op)' <=> IsSend(op)) /\ (IsRecv(op)' <=> IsRecv(op))
  BY <1>1 DEF IsSend, IsRecv, SendOf, RecvOf, netVars
<1>4. OpsInv'
  BY <1>3 DEF MemoryInv, OpsInv
<1>5. CompletionsInv'
  <2>1. \A k \in DOMAIN Tail(queue) : Expected(Tail(queue)[k])
    BY RestOf DEF MemoryInv, CompletionsInv
  <2> QED BY <1>1, <2>1 DEF CompletionsInv, Expected
<1>6. StageInv'
  <2>1. DoneTags(Tail(queue)) = DoneTags(queue) /\ DoneOnce(Tail(queue))
    BY DoneTail DEF MemoryInv, StageInv
  <2> QED BY <1>1, <2>1 DEF MemoryInv, StageInv
<1> QED BY <1>2, <1>4, <1>5, <1>6 DEF MemoryInv

\* What the removal of the tag data does to the tables
RemoveTables(data) ==
  LET after == Remove(pending_sent[owner_of(data)], heap, data) IN
    /\ pending_sent' = [pending_sent EXCEPT ![owner_of(data)] = after[1]]
    /\ heap' = after[2]

LEMMA RemoveEffect ==
  ASSUME TypeOK, PendingInv, NEW data \in Pending, RemoveTables(data)
  PROVE  /\ Pending' = Pending \ {data}
         /\ \A i \in Owners : DOMAIN pending_sent'[i] = DOMAIN pending_sent[i] \ {data}
         /\ \A d \in Pending' : BlockOf(d)' = BlockOf(d) /\ BlockOf(d) # BlockOf(data)
         /\ \A b \in BLOCKS : heap'[b] = IF b = BlockOf(data) THEN 0 ELSE heap[b]
<1> DEFINE owner == owner_of(data)
<1>1. /\ owner \in Owners /\ data \in DOMAIN pending_sent[owner]
      /\ pending_sent = [i \in Owners |-> pending_sent[i]]
      /\ heap \in [BLOCKS -> 0 .. MAX_WRITES]
  BY PendingFacts, Types
<1>2. /\ pending_sent'[owner] = [k \in DOMAIN pending_sent[owner] \ {data} |-> pending_sent[owner][k]]
      /\ \A i \in Owners \ {owner} : pending_sent'[i] = pending_sent[i]
  BY <1>1 DEF RemoveTables, Remove
<1>3. heap' = Drop(heap, pending_sent[owner], data)
  BY DEF RemoveTables, Remove
<1> HIDE DEF owner
<1>4. ASSUME NEW i \in Owners
      PROVE  DOMAIN pending_sent'[i] = DOMAIN pending_sent[i] \ {data}
  <2>1. CASE i = owner
    BY <1>2, <2>1
  <2>2. CASE i # owner
    <3>1. data \notin DOMAIN pending_sent[i]
      BY <2>2, PendingFacts DEF owner
    <3> QED BY <1>2, <2>2, <3>1
  <2> QED BY <2>1, <2>2
<1>5. Pending' = Pending \ {data}
  BY <1>4 DEF Pending
<1>6. ASSUME NEW d \in Pending'
      PROVE  BlockOf(d)' = BlockOf(d) /\ BlockOf(d) # BlockOf(data)
  <2>1. d \in Pending /\ d # data
    BY <1>5
  <2>2. owner_of(d) \in Owners /\ d \in DOMAIN pending_sent[owner_of(d)]
    BY <2>1, PendingFacts
  <2>3. pending_sent'[owner_of(d)][d] = pending_sent[owner_of(d)][d]
    BY <1>2, <2>1, <2>2
  <2>4. BlockOf(d) # BlockOf(data)
    BY <2>1 DEF PendingInv
  <2> QED BY <2>3, <2>4 DEF BlockOf
<1>7. \A b \in BLOCKS : heap'[b] = IF b = BlockOf(data) THEN 0 ELSE heap[b]
  BY <1>1, <1>3 DEF Drop, BlockOf, owner
<1> QED BY <1>4, <1>5, <1>6, <1>7

\* The completion of a send is handled, and its memory given up.
LEMMA ForgetSend ==
  ASSUME TypeOK, MemoryInv, UNCHANGED <<sq, send_id, writes, sends, recvs>>,
         Unforgotten \in Seq(CqEntry), Unforgotten # <<>>, Unforgotten' = Tail(Unforgotten),
         NEW data \in Pending, data = Unforgotten[1].user_data, RemoveTables(data)
  PROVE  MemoryInv'
<1> DEFINE queue == Unforgotten
<1>1. PendingInv /\ HeapInv /\ IdInv
  BY DEF MemoryInv
<1>2. /\ Pending' = Pending \ {data}
      /\ \A i \in Owners : DOMAIN pending_sent'[i] = DOMAIN pending_sent[i] \ {data}
      /\ \A d \in Pending' : BlockOf(d)' = BlockOf(d) /\ BlockOf(d) # BlockOf(data)
      /\ \A b \in BLOCKS : heap'[b] = IF b = BlockOf(data) THEN 0 ELSE heap[b]
  BY <1>1, RemoveEffect
<1>3. event_of(data) = Send
  BY <1>1, PendingFacts
<1>4. PendingInv'
  <2>1. \A i \in Owners : \A d \in DOMAIN pending_sent'[i] :
          d \in Tag /\ owner_of(d) = i /\ event_of(d) = Send
    BY <1>1, <1>2 DEF PendingInv
  <2>2. \A d, e \in Pending' : BlockOf(d)' = BlockOf(e)' => d = e
    BY <1>1, <1>2 DEF PendingInv
  <2>3. \A b \in BLOCKS : heap'[b] # 0 <=> \E d \in Pending' : BlockOf(d)' = b
    <3> TAKE b \in BLOCKS
    <3>1. CASE b = BlockOf(data)
      BY <1>2, <3>1
    <3>2. CASE b # BlockOf(data)
      <4>1. heap'[b] # 0 <=> \E d \in Pending : BlockOf(d) = b
        BY <1>1, <1>2, <3>2 DEF PendingInv
      <4> QED BY <1>2, <3>2, <4>1
    <3> QED BY <3>1, <3>2
  <2> QED BY <2>1, <2>2, <2>3 DEF PendingInv
<1>5. HeapInv'
  <2>1. writes \in Nat
    BY Types, LoopSizes
  <2> QED BY <1>1, <1>2, <2>1 DEF HeapInv
<1>6. IdInv'
  BY <1>1, <1>2 DEF IdInv
<1>7. \A op : /\ IsRecv(op) => IsRecv(op)'
              /\ IsSend(op) /\ op.user_data # data => IsSend(op)'
  <2> TAKE op
  <2>1. IsRecv(op) => IsRecv(op)'
    BY DEF IsRecv, RecvOf
  <2>2. ASSUME IsSend(op), op.user_data # data
        PROVE  IsSend(op)'
    <3>1. PICK d \in Pending' : d = op.user_data /\ op = SendOf(d)
      BY <1>2, <2>2 DEF IsSend
    <3>2. BlockOf(d) \in BLOCKS /\ BlockOf(d)' = BlockOf(d) /\ BlockOf(d) # BlockOf(data)
      BY <1>1, <1>2, <3>1, PendingFacts
    <3>3. heap'[BlockOf(d)] = heap[BlockOf(d)]
      BY <1>2, <3>2
    <3>4. SendOf(d)' = SendOf(d)
      BY <3>2, <3>3 DEF SendOf
    <3> QED BY <3>1, <3>4 DEF IsSend
  <2> QED BY <2>1, <2>2
<1>8. /\ data \in DoneTags(queue)
      /\ DoneTags(Tail(queue)) = DoneTags(queue) \ {data}
      /\ DoneOnce(Tail(queue))
      /\ \A k \in DOMAIN Tail(queue) : Tail(queue)[k].user_data # data
  BY <1>3, DoneTail DEF MemoryInv, StageInv
<1>9. data \notin TagsOf(PreparedOps(sq)) /\ data \notin TagsOf(sends)
  BY <1>8 DEF MemoryInv, StageInv
<1>10. OpsInv'
  <2>1. ASSUME NEW op, IsSend(op)
        PROVE  op.opcode = "SEND"
    <3>1. op = SendOf(op.user_data)
      BY <2>1 DEF IsSend
    <3> QED BY <3>1 DEF SendOf
  <2>2. \A op \in PreparedOps(sq) \cup sends : IsSend(op) => op.user_data # data
    BY <1>9, <2>1 DEF TagsOf
  <2> QED BY <1>7, <2>2 DEF MemoryInv, OpsInv
<1>11. CompletionsInv'
  <2>1. \A k \in DOMAIN Tail(queue) : Expected(Tail(queue)[k])
    BY RestOf DEF MemoryInv, CompletionsInv
  <2>2. \A cqe : Expected(cqe) /\ cqe.user_data # data => Expected(cqe)'
    BY <1>2 DEF Expected
  <2> QED BY <1>8, <2>1, <2>2 DEF CompletionsInv
<1>12. StageInv'
  <2>1. /\ Pending = TagsOf(PreparedOps(sq)) \cup TagsOf(sends) \cup DoneTags(queue)
        /\ TagsOf(PreparedOps(sq)) \cap TagsOf(sends) = {}
        /\ TagsOf(PreparedOps(sq)) \cap DoneTags(queue) = {}
        /\ TagsOf(sends) \cap DoneTags(queue) = {}
    BY DEF MemoryInv, StageInv
  <2>2. /\ TagsOf(PreparedOps(sq))' = TagsOf(PreparedOps(sq)) /\ TagsOf(sends)' = TagsOf(sends)
        /\ DoneTags(Unforgotten)' = DoneTags(queue) \ {data} /\ DoneOnce(Unforgotten)'
    BY <1>8
  <2> QED BY <1>2, <1>9, <2>1, <2>2 DEF StageInv
<1> QED BY <1>4, <1>5, <1>6, <1>10, <1>11, <1>12 DEF MemoryInv

-----------------------------------------------------------------------------
(***************************************************************************)
(* The steps.                                                              *)
(***************************************************************************)

\* The oldest completion, while it is handled
LEMMA InHand ==
  ASSUME LoopInv, phase = "completed"
  PROVE  /\ Unforgotten = Contents(cq) /\ Unforgotten \in Seq(CqEntry) /\ Unforgotten # <<>>
         /\ completion.user_data = Unforgotten[1].user_data
         /\ cq.cqes[completion.ptr] = Unforgotten[1]
         /\ Expected(Unforgotten[1]) /\ Unforgotten[1].res >= 0 /\ Unforgotten[1].res \in Int
<1>1. BatchInv /\ CqInv /\ CompletionsInv
  BY DEF LoopInv, BatchInv
<1>2. Unforgotten = Contents(cq)
  BY DEF Unforgotten
<1>3. Contents(cq) \in Seq(CqEntry)
  BY <1>1, RingOfInv, ContentsType
<1>4. /\ Contents(cq) # <<>> /\ cqe_buf[1] = SlotOf(cq, 1)
      /\ Contents(cq)[1] = cq.cqes[SlotOf(cq, 1)] /\ Contents(cq)[1] \in CqEntry
  BY <1>1, BatchInRing
<1>5. completion = [ptr |-> cqe_buf[1], user_data |-> Contents(cq)[1].user_data]
  BY <1>1 DEF CqInv, BatchFresh
<1>6. 1 \in DOMAIN Contents(cq)
  BY <1>3, <1>4
<1>7. Expected(Contents(cq)[1])
  BY <1>1, <1>2, <1>6 DEF CompletionsInv
<1>8. Contents(cq)[1].res >= 0
  BY <1>1 DEF CqInv
<1>9. Contents(cq)[1].res \in Int
  BY <1>4, LoopSizes DEF CqEntry, EOF, ECONNRESET, ENOBUFS, EPIPE
<1> QED BY <1>2, <1>3, <1>4, <1>5, <1>7, <1>8, <1>9

\* No completion is one that the program does not expect.
LEMMA NoSurprise ==
  ASSUME LoopInv, phase = "completed"
  PROVE  /\ CompletionFailure(completion.user_data, cq.cqes[completion.ptr])
              \in {"none", "res 0", "short send"}
         /\ event_of(completion.user_data) = Send /\
              CompletionFailure(completion.user_data, cq.cqes[completion.ptr]) = "none"
              => completion.user_data \in Pending
<1> DEFINE data == completion.user_data
           cqe == Unforgotten[1]
<1>1. /\ data = cqe.user_data /\ cq.cqes[completion.ptr] = cqe
      /\ Expected(cqe) /\ cqe.res >= 0 /\ cqe.res \in Int
  BY InHand
<1>2. TypeOK /\ PendingInv
  BY DEF LoopInv, BatchInv
<1> HIDE DEF data, cqe
<1>3. CASE data \in Pending
  <2>1. /\ owner_of(data) \in Owners /\ event_of(data) = Send
        /\ data \in DOMAIN pending_sent[owner_of(data)]
    BY <1>2, <1>3, PendingFacts
  <2> QED BY <1>1, <1>3, <2>1 DEF CompletionFailure, Events, data
<1>4. CASE data \notin Pending
  <2>1. PICK i \in Owners : data = RecvTag(i) /\ (cqe.res > 0 => cqe.buffer)
    BY <1>1, <1>4 DEF Expected, RecvTag
  <2>2. /\ event_of(data) = MultishortRecv /\ owner_of(data) = i /\ req_of(data) = RECV_ID(i)
    BY <2>1, RecvTags
  <2>3. CompletionFailure(data, cqe) \in {"none", "res 0"}
    BY <1>1, <2>1, <2>2 DEF CompletionFailure, Events, Send, MultishortRecv
  <2>4. event_of(data) # Send
    BY <2>2 DEF Send, MultishortRecv
  <2>5. CompletionFailure(data, cq.cqes[completion.ptr]) = CompletionFailure(data, cqe)
    BY <1>1
  <2> QED BY <2>3, <2>4, <2>5 DEF data
<1> QED BY <1>3, <1>4

LEMMA InitLoop ==
  ASSUME Init
  PROVE  LoopInv
<1>1. BatchInv
  BY InitBatch
<1>2. Unforgotten = <<>>
  <2>1. Ready(cq) = 0 /\ cq.overflow = <<>>
    BY CqSizes DEF Init, EmptyCq, Ready
  <2>2. Contents(cq) = <<>>
    BY <2>1 DEF Contents
  <2> QED BY <2>2 DEF Init, Unforgotten
<1>3. PreparedCount(sq) = 0 /\ PreparedOps(sq) = {}
  <2>1. PreparedCount(sq) = 0
    BY LoopSizes DEF Init, EmptySq, PreparedCount
  <2> QED BY <2>1 DEF PreparedOps
<1>4. SqInv
  <2>1. \A k \in SqIndices : ~(k < at)
    BY LoopSizes DEF Init, SqIndices
  <2> QED BY <1>3, <2>1 DEF Init, EmptySq, SqInv
<1>5. \A i \in Owners : pending_sent[i] = <<>> /\ DOMAIN pending_sent[i] = {}
  BY DEF Init
<1>6. Pending = {}
  BY <1>5 DEF Pending
<1>7. PendingInv /\ HeapInv
  BY <1>5, <1>6, LoopSizes DEF Init, PendingInv, HeapInv
<1>8. IdInv
  <2>1. SendId(0) = FIRST_SEND_ID
    BY LoopAssumption, LoopSizes DEF SendId
  <2>2. [i \in Owners |-> 0] \in [Owners -> 0 .. writes]
    BY DEF Init
  <2> QED BY <1>5, <2>1, <2>2 DEF Init, IdInv
<1>9. OpsInv /\ CompletionsInv
  BY <1>2, <1>3 DEF Init, OpsInv, CompletionsInv
<1>10. StageInv
  BY <1>2, <1>3, <1>6 DEF Init, StageInv, TagsOf, DoneTags, DoneOnce
<1> QED BY <1>1, <1>4, <1>7, <1>8, <1>9, <1>10 DEF LoopInv, ExpectedPanics, Init

\* What a step of each action has to keep, besides BatchInv
LoopKept == ExpectedPanics /\ SqInv /\ MemoryInv

LEMMA LoopParts ==
  /\ LoopInv <=> BatchInv /\ LoopKept
  /\ LoopInv => TypeOK /\ sq \in SqType
BY Types DEF LoopInv, BatchInv, LoopKept, MemoryInv

LEMMA ArmKeeps ==
  ASSUME LoopInv, Arm
  PROVE  /\ LoopKept'
         /\ at \in Owners /\ PreparedOps(sq') = PreparedOps(sq) \cup {RecvOf(at)}
         /\ UNCHANGED <<netVars, sends>>
<1>1. /\ phase = "arm" /\ UNCHANGED <<cq, netVars, kernelVars>>
      /\ TypeOK /\ sq \in SqType /\ SqInv /\ MemoryInv /\ ExpectedPanics
  BY LoopParts DEF Arm, LoopKept
<1>2. /\ at \in Owners /\ at \in Nat /\ at < STREAMS /\ STREAMS \in Nat
      /\ at < SQ_ENTRIES /\ at + 1 <= SQ_ENTRIES /\ at + 1 < SQ_MOD /\ at \in SqIndices
  <2>1. at \in Owners
    BY <1>1, Types
  <2> QED BY <2>1, LoopSizes, SqSizes DEF Owners, SqIndices
<1>3. /\ sq = [sqes |-> [k \in SqIndices |-> IF k < at THEN RecvOf(k) ELSE ZeroSqe],
               sqe_tail |-> at, khead |-> 0]
      /\ PreparedCount(sq) <= at /\ PreparedCount(sq) \in Nat
  BY <1>1, PreparedType DEF SqInv
<1>4. PreparedCount(sq) < SQ_ENTRIES
  BY <1>2, <1>3, LoopSizes
<1>5. ~SqFull(sq)
  BY <1>1, <1>4, RoomToPrepare
<1>6. at % SQ_ENTRIES = at /\ (at + 1) % SQ_MOD = at + 1
  <2>1. at \in 0 .. SQ_ENTRIES - 1
    BY <1>2, LoopSizes
  <2>2. PICK c \in 0 .. SQ_MOD - 1 : c = at + 1
    BY <1>2, LoopSizes
  <2>3. c % SQ_MOD = c
    BY LoopSizes, ModSmall
  <2> QED BY <2>1, <2>2, <2>3, LoopSizes, ModSmall
<1>7. NextSqe(sq) = ZeroSqe
  <2>1. sq.sqes[at] = ZeroSqe /\ sq.sqe_tail = at
    BY <1>2, <1>3
  <2>2. io_uring_initialize_sqe(ZeroSqe) = ZeroSqe
    BY ZeroSqeType, InitializedSqe DEF ZeroSqe
  <2> QED BY <1>6, <2>1, <2>2 DEF NextSqe
<1>8. sq' = PutSqe(sq, RecvOf(at)) /\ Advance("top") /\ UNCHANGED panic
  <2> DEFINE tag == from_parts(MultishortRecv, at, RECV_ID(at))
  <2>1. /\ sq' = PutSqe(sq, multishot_recv(io_uring_sqe_set_data(ZeroSqe, tag), at, {}, at))
        /\ Advance("top") /\ UNCHANGED panic
    BY <1>5, <1>7 DEF Arm
  <2>2. multishot_recv(io_uring_sqe_set_data(ZeroSqe, tag), at, {}, at) = RecvOf(at)
    <3>1. tag \in Tag
      BY <1>2, RecvTags DEF RecvTag
    <3>2. ZeroSqe.addr = NULL /\ ZeroSqe.len = 0 /\ ZeroSqe.data = 0
      BY DEF ZeroSqe
    <3> HIDE DEF tag
    <3>3. multishot_recv(io_uring_sqe_set_data(ZeroSqe, tag), at, {}, at) =
            [opcode |-> "RECV", fd |-> at, addr |-> NULL, len |-> 0,
             flags |-> {"BUFFER_SELECT"}, ioprio |-> {"MULTISHOT"}, msg_flags |-> {},
             buf_group |-> at, user_data |-> tag, data |-> 0]
      BY <1>2, <3>1, <3>2, ZeroSqeType, ReceiveSqe
    <3> QED BY <3>3 DEF RecvOf, tag
  <2> QED BY <2>1, <2>2
<1>9. RecvOf(at) \in Sqe
  <2>1. from_parts(MultishortRecv, at, RECV_ID(at)) \in Tag
    BY <1>2, RecvTags DEF RecvTag
  <2> QED BY <1>2, <2>1, LoopSizes DEF RecvOf, Sqe
<1>10. /\ PreparedOps(sq') = PreparedOps(sq) \cup {RecvOf(at)}
       /\ PreparedCount(sq') = PreparedCount(sq) + 1
  BY <1>1, <1>4, <1>8, <1>9, PutPrepares
<1>11. SqInv'
  <2>1. CASE at + 1 < STREAMS
    <3>1. at' = at + 1 /\ phase' = "arm"
      BY <1>1, <1>8, <2>1 DEF Advance
    <3>2. sq' = [sqes |-> [sq.sqes EXCEPT ![at] = RecvOf(at)], sqe_tail |-> at + 1, khead |-> 0]
      BY <1>3, <1>6, <1>8 DEF PutSqe
    <3>3. [sq.sqes EXCEPT ![at] = RecvOf(at)]
            = [k \in SqIndices |-> IF k < at + 1 THEN RecvOf(k) ELSE ZeroSqe]
      <4>1. \A k \in SqIndices : k \in Int
        BY DEF SqIndices
      <4>2. \A k \in SqIndices : (k < at + 1 <=> k < at \/ k = at)
        BY <1>2, <4>1
      <4>3. sq.sqes = [k \in SqIndices |-> IF k < at THEN RecvOf(k) ELSE ZeroSqe]
        BY <1>3
      <4> QED BY <1>2, <4>2, <4>3
    <3>4. PreparedCount(sq') <= at + 1
      BY <1>2, <1>3, <1>10
    <3>5. \A k : RecvOf(k)' = RecvOf(k)
      BY DEF RecvOf
    <3> QED BY <3>1, <3>2, <3>3, <3>4, <3>5 DEF SqInv
  <2>2. CASE ~(at + 1 < STREAMS)
    <3>1. phase' = "top"
      BY <1>8, <2>2 DEF Advance
    <3>2. PreparedCount(sq') <= STREAMS
      BY <1>2, <1>3, <1>10
    <3> QED BY <3>1, <3>2 DEF SqInv
  <2> QED BY <2>1, <2>2
<1>12. phase' \in {"arm", "top"}
  BY <1>1, <1>8 DEF Advance
<1>13. UNCHANGED <<netVars, sends, recvs, Unforgotten>>
  BY <1>1, <1>12 DEF Unforgotten, kernelVars
<1>14. MemoryInv'
  BY <1>1, <1>2, <1>10, <1>13, ArmMemory
<1> QED BY <1>1, <1>2, <1>8, <1>10, <1>11, <1>13, <1>14 DEF LoopKept, ExpectedPanics

LEMMA WriteKeeps ==
  ASSUME LoopInv, NEW b \in BLOCKS, Write(b)
  PROVE  /\ LoopKept'
         /\ writes' = writes + 1 /\ heap' = [heap EXCEPT ![b] = writes']
         /\ \E new : /\ new.opcode = "SEND" /\ new.data = writes'
                     /\ PreparedOps(sq') = PreparedOps(sq) \cup {new}
         /\ UNCHANGED sends
<1>1. /\ phase = "ping" /\ writes < MAX_WRITES /\ heap[b] = 0 /\ UNCHANGED <<cq, kernelVars>>
      /\ TypeOK /\ sq \in SqType /\ SqInv /\ MemoryInv /\ ExpectedPanics
  BY LoopParts DEF Write, LoopKept
<1>2. at \in Owners /\ at \in Nat /\ at < STREAMS /\ STREAMS \in Nat
  <2>1. at \in Owners
    BY <1>1, Types
  <2> QED BY <2>1, LoopSizes DEF Owners
<1>3. PreparedCount(sq) <= STREAMS + at /\ PreparedCount(sq) \in Nat
  BY <1>1, PreparedType DEF SqInv
<1>4. PreparedCount(sq) < SQ_ENTRIES
  BY <1>2, <1>3, SqSizes, LoopSizes
<1>5. ~SqFull(sq)
  BY <1>1, <1>4, RoomToPrepare
<1>17. PICK key : key = from_parts(Send, at, send_id[at])
  OBVIOUS
<1>6. WriteTables(b, key) /\ Advance("submit") /\ UNCHANGED panic
  BY <1>5, <1>17 DEF Write, WriteTables
<1>7. PendingInv /\ HeapInv /\ IdInv
  BY <1>1 DEF MemoryInv
<1>8. /\ key \in Tag /\ owner_of(key) = at /\ BlockOf(key)' = b
      /\ heap' = [heap EXCEPT ![b] = writes']
  BY <1>1, <1>6, <1>7, WriteEffect
<1>9. PICK new : new = SendOf(key)'
  OBVIOUS
<1>10. new = [opcode |-> "SEND", fd |-> at, addr |-> b, len |-> SEND_LEN,
              flags |-> {}, ioprio |-> {}, msg_flags |-> {"MSG_WAITALL"}, buf_group |-> 0,
              user_data |-> key, data |-> writes']
  <2>1. heap'[b] = writes'
    <3>1. heap \in [BLOCKS -> 0 .. MAX_WRITES]
      BY <1>1, Types
    <3> QED BY <1>8, <3>1
  <2>2. owner_of(key)' = at
    BY <1>8
  <2> QED BY <1>8, <1>9, <2>1, <2>2 DEF SendOf
<1>11. writes' \in 0 .. MAX_WRITES
  <2>1. writes \in 0 .. MAX_WRITES
    BY <1>1, Types
  <2> QED BY <1>1, <1>6, <2>1, LoopSizes DEF WriteTables
<1>12. sq' = PutSqe(sq, new) /\ new \in Sqe
  <2>1. PICK old \in Sqe : old = sq.sqes[sq.sqe_tail % SQ_ENTRIES]
    <3>1. sq.sqe_tail \in Nat /\ sq.sqes \in [SqIndices -> Sqe]
      BY <1>1, LoopSizes DEF SqType
    <3>2. sq.sqe_tail % SQ_ENTRIES \in SqIndices
      BY <3>1, LoopSizes, Decompose DEF SqIndices
    <3> QED BY <3>1, <3>2
  <2>2. PICK sqe \in Sqe : sqe = NextSqe(sq)
    BY <1>1, NextSqeType
  <2>3. sqe = [opcode |-> old.opcode, fd |-> old.fd, addr |-> old.addr, len |-> old.len,
               flags |-> {}, ioprio |-> {}, msg_flags |-> {}, buf_group |-> 0,
               user_data |-> old.user_data, data |-> old.data]
    BY <2>1, <2>2, InitializedSqe DEF NextSqe
  <2>4. sqe.flags = {} /\ sqe.ioprio = {} /\ sqe.buf_group = 0
    BY <2>3
  <2>5. [io_uring_sqe_set_data(send(sqe, at, b, SEND_LEN, {"MSG_WAITALL"}), key)
           EXCEPT !.data = writes'] = new
    <3>1. PICK n \in 0 .. MAX_WRITES : n = writes'
      BY <1>11
    <3>2. [io_uring_sqe_set_data(send(sqe, at, b, SEND_LEN, {"MSG_WAITALL"}), key)
             EXCEPT !.data = n] =
            [opcode |-> "SEND", fd |-> at, addr |-> b, len |-> SEND_LEN,
             flags |-> sqe.flags, ioprio |-> sqe.ioprio, msg_flags |-> {"MSG_WAITALL"},
             buf_group |-> sqe.buf_group, user_data |-> key, data |-> n]
      BY <1>2, <1>8, SendSqe
    <3> QED BY <1>10, <2>4, <3>1, <3>2
  <2>6. sq' = PutSqe(sq, new)
    BY <1>5, <1>17, <2>2, <2>5 DEF Write, prep_send
  <2>7. new \in Sqe
    BY <1>2, <1>8, <1>10, <1>11, LoopSizes DEF Sqe
  <2> QED BY <2>6, <2>7
<1>13. /\ PreparedOps(sq') = PreparedOps(sq) \cup {new}
       /\ PreparedCount(sq') = PreparedCount(sq) + 1
  BY <1>1, <1>4, <1>12, PutPrepares
<1>14. SqInv' /\ phase' \in {"ping", "submit"}
  <2>1. CASE at + 1 < STREAMS
    <3>1. at' = at + 1 /\ phase' = "ping"
      BY <1>1, <1>6, <2>1 DEF Advance
    <3>2. PreparedCount(sq') <= STREAMS + (at + 1)
      BY <1>2, <1>3, <1>13
    <3> QED BY <3>1, <3>2 DEF SqInv
  <2>2. CASE ~(at + 1 < STREAMS)
    <3>1. phase' = "submit"
      BY <1>6, <2>2 DEF Advance
    <3>2. PreparedCount(sq') <= 2 * STREAMS
      BY <1>2, <1>3, <1>13
    <3> QED BY <3>1, <3>2 DEF SqInv
  <2> QED BY <2>1, <2>2
<1>15. UNCHANGED <<sends, recvs, Unforgotten>>
  BY <1>1, <1>14 DEF Unforgotten, kernelVars
<1>16. MemoryInv'
  BY <1>1, <1>6, <1>9, <1>13, <1>15, WriteMemory
<1>18. writes' = writes + 1 /\ new.opcode = "SEND" /\ new.data = writes'
  BY <1>6, <1>10 DEF WriteTables
<1> QED BY <1>1, <1>6, <1>8, <1>13, <1>14, <1>15, <1>16, <1>18 DEF LoopKept, ExpectedPanics

LEMMA SubmitKeeps ==
  ASSUME LoopInv, Submit
  PROVE  LoopKept' /\ PreparedOps(sq') = {}
<1>1. /\ phase = "submit" /\ phase' = "peek" /\ UNCHANGED <<cq, at, netVars, panic>>
      /\ sq' = Consumed(sq) /\ sq \in SqType /\ MemoryInv /\ ExpectedPanics
      /\ sends' = sends \cup {op \in PreparedOps(sq) : op.opcode = "SEND"}
      /\ recvs' = recvs \cup {op \in PreparedOps(sq) : op.opcode = "RECV"}
  BY LoopParts DEF Submit, LoopKept
<1>2. PreparedCount(sq') = 0
  BY <1>1, NonePrepared
<1>3. PreparedOps(sq') = {}
  BY <1>2 DEF PreparedOps
<1>4. SqInv'
  BY <1>1, <1>2 DEF SqInv
<1>5. UNCHANGED Unforgotten
  BY <1>1 DEF Unforgotten
<1>6. MemoryInv'
  BY <1>1, <1>3, <1>5, SubmitMemory
<1> QED BY <1>1, <1>3, <1>4, <1>6 DEF LoopKept, ExpectedPanics

\* Steps that leave tags, memory and operations alone
LEMMA QuietKeeps ==
  ASSUME LoopInv,
         \/ Top \/ SkipWrite \/ SyscallFails \/ Peek \/ Wait \/ RawEvent
         \/ CqAdvance \/ ProtocolError \/ KernelFlush \/ UNCHANGED vars
  PROVE  LoopKept' /\ UNCHANGED <<sq, netVars, sends, recvs, Unforgotten>>
<1>1. BatchInv /\ TypeOK /\ PhaseInv /\ SqInv /\ MemoryInv /\ ExpectedPanics
  BY LoopParts DEF LoopKept, BatchInv
<1>2. UNCHANGED <<sq, netVars, sends, recvs>>
  BY DEF Top, SkipWrite, SyscallFails, Peek, Wait, RawEvent, FromRawEvent, CqAdvance, ProtocolError,
         KernelFlush, vars, kernelVars
<1>3. UNCHANGED Unforgotten
  <2>1. CASE CqAdvance
    BY <1>1, <2>1, AfterAdvance
  <2>2. CASE KernelFlush
    BY <1>1, <2>2, AfterFlush
  <2>3. CASE \/ Top \/ SkipWrite \/ SyscallFails \/ Peek \/ Wait \/ RawEvent
             \/ ProtocolError \/ UNCHANGED vars
    <3>1. \/ UNCHANGED cq /\ phase # "read" /\ phase' # "read"
          \/ UNCHANGED <<cq, phase>>
      BY <2>3 DEF Top, SkipWrite, SyscallFails, Peek, Wait, RawEvent, FromRawEvent, ProtocolError,
                  Advance, vars, loopVars
    <3> QED BY <3>1 DEF Unforgotten
  <2> QED BY <2>1, <2>2, <2>3
<1>4. MemoryInv'
  BY <1>1, <1>2, <1>3, MemoryQuiet
<1>5. ExpectedPanics'
  BY <1>1 DEF Top, SkipWrite, SyscallFails, Peek, Wait, RawEvent, FromRawEvent, CqAdvance, ProtocolError,
         KernelFlush, vars, ExpectedPanics, LookupFailures
<1>6. PreparedCount(sq) \in Nat /\ at \in Owners /\ at \in Nat /\ STREAMS \in Nat
  <2>1. at \in Owners
    BY <1>1, Types
  <2> QED BY <1>1, <2>1, Types, PreparedType, LoopSizes DEF Owners
<1>7. SqInv'
  <2>1. CASE Top
    <3>1. phase = "top" /\ at = 0 /\ phase' \in {"ping", "submit"} /\ UNCHANGED <<sq, at>>
      BY <1>1, <2>1 DEF Top, PhaseInv
    <3>2. PreparedCount(sq) <= STREAMS + 0 /\ PreparedCount(sq) <= 2 * STREAMS
      BY <1>1, <1>6, <3>1 DEF SqInv
    <3> QED BY <3>1, <3>2 DEF SqInv
  <2>2. CASE SkipWrite
    <3>1. phase = "ping" /\ UNCHANGED sq /\ Advance("submit")
      BY <2>2 DEF SkipWrite
    <3>2. PreparedCount(sq) <= STREAMS + at
      BY <1>1, <3>1 DEF SqInv
    <3>3. CASE at + 1 < STREAMS
      <4>1. at' = at + 1 /\ phase' = "ping"
        BY <3>1, <3>3 DEF Advance
      <4>2. PreparedCount(sq) <= STREAMS + (at + 1)
        BY <1>6, <3>2
      <4> QED BY <3>1, <4>1, <4>2 DEF SqInv
    <3>4. CASE ~(at + 1 < STREAMS)
      <4>1. phase' = "submit"
        BY <3>1, <3>4 DEF Advance
      <4>2. PreparedCount(sq) <= 2 * STREAMS
        <5>1. at < STREAMS
          <6>1. at \in Owners
            BY <1>6
          <6> QED BY <6>1, LoopSizes DEF Owners
        <5> QED BY <1>6, <3>2, <5>1
      <4> QED BY <3>1, <4>1, <4>2 DEF SqInv
    <3> QED BY <3>3, <3>4
  <2>3. CASE \/ Peek \/ Wait \/ CqAdvance \/ RawEvent
    <3>1. /\ phase \in {"peek", "wait", "read", "handle"}
          /\ phase' \in {"peek", "wait", "handle", "top", "completed"} /\ UNCHANGED sq
      BY <2>3 DEF Peek, Wait, CqAdvance, RawEvent, FromRawEvent
    <3>2. PreparedCount(sq) = 0
      BY <1>1, <3>1 DEF SqInv
    <3> QED BY <1>6, <3>1, <3>2 DEF SqInv
  <2>4. CASE \/ SyscallFails \/ ProtocolError \/ KernelFlush \/ UNCHANGED vars
    <3>1. UNCHANGED <<sq, phase, at>>
      BY <2>4 DEF SyscallFails, ProtocolError, KernelFlush, vars, loopVars
    <3>2. \A k : RecvOf(k)' = RecvOf(k)
      BY DEF RecvOf
    <3> QED BY <1>1, <3>1, <3>2 DEF SqInv
  <2> QED BY <2>1, <2>2, <2>3, <2>4
<1> QED BY <1>2, <1>3, <1>4, <1>5, <1>7 DEF LoopKept

\* A completion is handed to its stream.
LEMMA OnCompletionKeeps ==
  ASSUME LoopInv, OnCompletion
  PROVE  /\ LoopKept'
         /\ \/ UNCHANGED <<netVars, sq, sends, recvs>>
            \/ \E data \in Pending :
                 /\ RemoveTables(data)
                 /\ data \notin TagsOf(PreparedOps(sq)) /\ data \notin TagsOf(sends)
                 /\ UNCHANGED <<sq, send_id, writes, sends, recvs>>
<1>1. /\ phase = "completed" /\ UNCHANGED <<sq, cq, at, send_id, writes, kernelVars>>
      /\ TypeOK /\ SqInv /\ MemoryInv /\ ExpectedPanics
  BY LoopParts DEF OnCompletion, LoopKept
<1>2. PICK data : data = completion.user_data
  OBVIOUS
<1>3. /\ panic' \in {"none", "res 0", "short send"}
      /\ event_of(data) = Send /\ panic' = "none" => data \in Pending
  BY <1>1, <1>2, NoSurprise DEF OnCompletion
<1>4. ExpectedPanics'
  BY <1>3 DEF ExpectedPanics
<1>5. phase' \in {"completed", "read"} /\ SqInv'
  <2>1. phase' \in {"completed", "read"}
    BY <1>1 DEF OnCompletion
  <2> QED BY <1>1, <2>1 DEF SqInv
<1>6. /\ Unforgotten = Contents(cq) /\ Unforgotten \in Seq(CqEntry) /\ Unforgotten # <<>>
      /\ data = Unforgotten[1].user_data
  BY <1>1, <1>2, InHand
<1>7. CASE panic' # "none"
  <2>1. UNCHANGED <<netVars, sends, recvs, phase>>
    BY <1>1, <1>7 DEF OnCompletion, netVars, kernelVars
  <2>2. UNCHANGED Unforgotten
    BY <1>1, <2>1 DEF Unforgotten
  <2>3. MemoryInv'
    BY <1>1, <2>1, <2>2, MemoryQuiet
  <2> QED BY <1>1, <1>4, <1>5, <2>1, <2>3 DEF LoopKept
<1>8. CASE panic' = "none"
  <2>1. phase' = "read" /\ Unforgotten' = Tail(Unforgotten) /\ UNCHANGED <<sends, recvs>>
    BY <1>1, <1>6, <1>8 DEF OnCompletion, Unforgotten, kernelVars
  <2>2. CASE event_of(data) # Send
    <3>1. UNCHANGED netVars
      BY <1>1, <1>2, <1>8, <2>2 DEF OnCompletion, netVars
    <3>2. MemoryInv'
      BY <1>1, <1>6, <2>1, <2>2, <3>1, ForgetRecv
    <3> QED BY <1>1, <1>4, <1>5, <2>1, <3>1, <3>2 DEF LoopKept
  <2>3. CASE event_of(data) = Send
    <3>1. RemoveTables(data) /\ data \in Pending
      BY <1>2, <1>3, <1>8, <2>3 DEF OnCompletion, RemoveTables
    <3>2. MemoryInv'
      BY <1>1, <1>6, <2>1, <3>1, ForgetSend
    <3>3. data \in DoneTags(Unforgotten)
      BY <1>6, <2>3, DoneTail, <1>1 DEF MemoryInv, StageInv
    <3>4. data \notin TagsOf(PreparedOps(sq)) /\ data \notin TagsOf(sends)
      BY <1>1, <3>3 DEF MemoryInv, StageInv
    <3> QED BY <1>1, <1>4, <1>5, <2>1, <3>1, <3>2, <3>4 DEF LoopKept
  <2> QED BY <2>2, <2>3
<1> QED BY <1>7, <1>8

\* The kernel completes an operation.
LEMMA KernelKeeps ==
  ASSUME LoopInv, Outgoing \/ Incoming, ~KernelFlush
  PROVE  /\ LoopKept' /\ UNCHANGED <<sq, netVars>>
         /\ \/ UNCHANGED sends
            \/ \E op \in sends : sends' = sends \ {op}
<1>1. /\ TypeOK /\ BatchInv /\ SqInv /\ MemoryInv /\ ExpectedPanics
      /\ sends \subseteq Sqe /\ recvs \subseteq Sqe
  BY LoopParts, Types DEF LoopKept
<1>2. /\ UNCHANGED <<sq, loopVars, netVars, panic>>
  BY DEF Outgoing, Incoming, KernelSend, KernelRecv, KernelEnd, KernelFlush
<1>3. SqInv' /\ ExpectedPanics'
  <2>1. \A k : RecvOf(k)' = RecvOf(k)
    BY DEF RecvOf
  <2> QED BY <1>1, <1>2, <2>1 DEF SqInv, ExpectedPanics, loopVars
<1>4. ASSUME NEW op \in Sqe, NEW res \in {EOF, ECONNRESET, ENOBUFS, EPIPE} \cup 0 .. SEND_LEN \cup 1 .. BUF_SIZE
      PROVE  Cqe(op, res) \in CqEntry
  BY LoopSizes, Sizes DEF Cqe, CqEntry, Sqe
<1>5. CASE \E op \in sends, res \in {EPIPE} \cup 0 .. SEND_LEN : KernelSend(op, res)
  <2>1. PICK op \in sends, res \in {EPIPE} \cup 0 .. SEND_LEN : KernelSend(op, res)
    BY <1>5
  <2>2. /\ cq' = Post(cq, Cqe(op, res)) /\ sends' = sends \ {op} /\ UNCHANGED recvs
        /\ Cqe(op, res) \in CqEntry
    BY <1>1, <1>4, <2>1 DEF KernelSend
  <2>3. Unforgotten \in Seq(CqEntry) /\ Unforgotten' = Append(Unforgotten, Cqe(op, res))
    BY <1>1, <1>2, <2>2, AfterPost
  <2>4. MemoryInv'
    BY <1>1, <1>2, <2>1, <2>2, <2>3, SentMemory
  <2> QED BY <1>2, <1>3, <2>1, <2>2, <2>4 DEF LoopKept
<1>6. CASE \E op \in recvs, n \in 1 .. BUF_SIZE, bid \in Slots : KernelRecv(op, n, bid)
  <2>1. PICK op \in recvs, n \in 1 .. BUF_SIZE, bid \in Slots : KernelRecv(op, n, bid)
    BY <1>6
  <2>2. PICK more \in BOOLEAN : more = (op.ioprio = {"MULTISHOT"} /\ HasRoom(cq))
    OBVIOUS
  <2>3. PICK cqe : cqe = [Cqe(op, n) EXCEPT !.buffer = TRUE, !.bid = bid, !.more = more]
    OBVIOUS
  <2>4. cqe \in CqEntry /\ cqe.user_data = op.user_data /\ cqe.buffer
    <3>1. Cqe(op, n) \in CqEntry /\ Cqe(op, n).user_data = op.user_data
      <4>1. Cqe(op, n) \in CqEntry
        BY <1>1, <1>4, <2>1
      <4> QED BY <4>1 DEF Cqe
    <3> QED BY <2>1, <2>3, <3>1 DEF CqEntry
  <2>5. cq' = Post(cq, cqe) /\ recvs' \subseteq recvs /\ UNCHANGED sends
    BY <2>1, <2>2, <2>3 DEF KernelRecv
  <2>6. Unforgotten \in Seq(CqEntry) /\ Unforgotten' = Append(Unforgotten, cqe)
    BY <1>1, <1>2, <2>4, <2>5, AfterPost
  <2>7. MemoryInv'
    BY <1>1, <1>2, <2>1, <2>4, <2>5, <2>6, ReceivedMemory
  <2> QED BY <1>2, <1>3, <2>5, <2>7 DEF LoopKept
<1>7. CASE \E op \in recvs, res \in {EOF, ECONNRESET, ENOBUFS} : KernelEnd(op, res)
  <2>1. PICK op \in recvs, res \in {EOF, ECONNRESET, ENOBUFS} : KernelEnd(op, res)
    BY <1>7
  <2>2. PICK cqe \in CqEntry : cqe = Cqe(op, res)
    BY <1>1, <1>4, <2>1
  <2>3. /\ cq' = Post(cq, cqe) /\ recvs' = recvs \ {op} /\ UNCHANGED sends
        /\ cqe.user_data = op.user_data
    BY <2>1, <2>2 DEF KernelEnd, Cqe
  <2>4. ~(cqe.res > 0)
    BY <2>1, <2>2 DEF Cqe, EOF, ECONNRESET, ENOBUFS
  <2>5. Unforgotten \in Seq(CqEntry) /\ Unforgotten' = Append(Unforgotten, cqe)
    BY <1>1, <1>2, <2>3, AfterPost
  <2>6. MemoryInv'
    BY <1>1, <1>2, <2>1, <2>3, <2>4, <2>5, ReceivedMemory
  <2> QED BY <1>2, <1>3, <2>3, <2>6 DEF LoopKept
<1> QED BY <1>5, <1>6, <1>7 DEF Outgoing, Incoming

LEMMA LoopStep ==
  ASSUME LoopInv, [Next]_vars
  PROVE  LoopInv'
<1>1. BatchInv'
  BY BatchStep DEF LoopInv
<1>2. LoopKept'
  <2>1. CASE Arm
    BY <2>1, ArmKeeps
  <2>2. CASE \E b \in BLOCKS : Write(b)
    BY <2>2, WriteKeeps
  <2>3. CASE Submit
    BY <2>3, SubmitKeeps
  <2>4. CASE OnCompletion
    BY <2>4, OnCompletionKeeps
  <2>5. CASE (Outgoing \/ Incoming) /\ ~KernelFlush
    BY <2>5, KernelKeeps
  <2>6. CASE \/ Top \/ SkipWrite \/ SyscallFails \/ Peek \/ Wait \/ RawEvent
             \/ CqAdvance \/ ProtocolError \/ KernelFlush \/ UNCHANGED vars
    BY <2>6, QuietKeeps
  <2> QED BY <2>1, <2>2, <2>3, <2>4, <2>5, <2>6 DEF Next, Kernel, Loop, Between
<1>3. LoopInv' <=> BatchInv' /\ LoopKept'
  BY DEF LoopInv, LoopKept, MemoryInv
<1> QED BY <1>1, <1>2, <1>3

-----------------------------------------------------------------------------
(***************************************************************************)
(* The results.                                                            *)
(***************************************************************************)

\* The tables, the rings and the kernel agree on every send, always.
THEOREM LoopInductive == Spec => []LoopInv
<1>1. Init => LoopInv
  BY InitLoop
<1>2. LoopInv /\ [Next]_vars => LoopInv'
  BY LoopStep
<1> QED BY <1>1, <1>2, PTL DEF Spec

\* The submission ring never overflows, every completion finds its owner, and
\* on_completion knows what it is told of (ring.rs:38, net.rs:65, 77,
\* ping_pong.rs:167).
THEOREM OnlyExpectedPanics == Spec => []ExpectedPanics
<1>1. LoopInv => ExpectedPanics
  BY DEF LoopInv
<1> QED BY <1>1, LoopInductive, PTL

\* The operations, and among them the sends
SendOps == {op \in Ops : op.opcode = "SEND"}

LEMMA OpsKinds ==
  ASSUME LoopInv
  PROVE  /\ \A op \in Ops : IsSend(op) \/ IsRecv(op)
         /\ \A op : IsSend(op) => op.opcode = "SEND"
         /\ \A op : IsRecv(op) => op.opcode = "RECV"
         /\ \A op \in SendOps : IsSend(op)
         /\ SendOps = {op \in PreparedOps(sq) \cup sends : op.opcode = "SEND"}
<1>1. OpsInv
  BY DEF LoopInv
<1>2. \A op \in Ops : IsSend(op) \/ IsRecv(op)
  BY <1>1 DEF OpsInv, Ops
<1>3. ASSUME NEW op, IsSend(op)
      PROVE  op.opcode = "SEND"
  <2>1. op = SendOf(op.user_data)
    BY <1>3 DEF IsSend
  <2> QED BY <2>1 DEF SendOf
<1>4. ASSUME NEW op, IsRecv(op)
      PROVE  op.opcode = "RECV"
  <2>1. op = RecvOf(op.fd)
    BY <1>4 DEF IsRecv
  <2> QED BY <2>1 DEF RecvOf
<1>5. SendOps = {op \in PreparedOps(sq) \cup sends : op.opcode = "SEND"}
  BY <1>1, <1>4 DEF SendOps, Ops, OpsInv
<1> QED BY <1>2, <1>3, <1>4, <1>5 DEF SendOps

\* An operation carries its own arguments and nothing that an earlier use of
\* its ring entry left behind (ring.rs:79, op.rs:60, 71).
THEOREM OperationsClean == Spec => []CleanOps
<1>1. ASSUME LoopInv, NEW op \in Ops
      PROVE  (op.opcode = "SEND" /\ CleanSend(op)) \/ (op.opcode = "RECV" /\ CleanRecv(op))
  <2>1. TypeOK /\ PendingInv
    BY <1>1 DEF LoopInv, BatchInv
  <2>2. CASE IsSend(op)
    <3>1. op = SendOf(op.user_data) /\ event_of(op.user_data) = Send
      BY <2>1, <2>2, PendingFacts DEF IsSend
    <3> QED BY <3>1 DEF SendOf, CleanSend
  <2>3. CASE IsRecv(op)
    <3>1. op = RecvOf(op.fd)
      BY <2>3 DEF IsRecv
    <3> QED BY <3>1 DEF RecvOf, CleanRecv
  <2> QED BY <1>1, <2>2, <2>3, OpsKinds
<1>2. LoopInv => CleanOps
  BY <1>1 DEF CleanOps
<1> QED BY <1>2, LoopInductive, PTL

\* The memory that an operation points at still holds what it is to send
\* (net.rs:176, 193).
THEOREM MemoryStaysAlive == Spec => []MemoryAlive
<1>1. ASSUME LoopInv, NEW op \in Ops, op.opcode = "SEND"
      PROVE  heap[op.addr] = op.data
  <2>1. op = SendOf(op.user_data)
    BY <1>1, OpsKinds DEF IsSend, SendOps
  <2> QED BY <2>1 DEF SendOf
<1>2. LoopInv => MemoryAlive
  BY <1>1 DEF MemoryAlive
<1> QED BY <1>2, LoopInductive, PTL

\* pending_sent has exactly the sends prepared, in the kernel or completed, and
\* the memory in use is exactly what it pins (net.rs:65, 193).
THEOREM PendingIsExact == Spec => []PendingExact
<1>1. ASSUME LoopInv, NEW i \in Owners
      PROVE  DOMAIN pending_sent[i] = SendTags(i)
  <2>1. TypeOK /\ PendingInv /\ StageInv
    BY <1>1 DEF LoopInv, BatchInv
  <2>2. \A d : d \in DOMAIN pending_sent[i]
                 <=> d \in Pending /\ owner_of(d) = i /\ event_of(d) = Send
    BY <2>1, PendingFacts
  <2>3. {op.user_data : op \in SendOps} = TagsOf(PreparedOps(sq)) \cup TagsOf(sends)
    BY <1>1, OpsKinds DEF TagsOf
  <2>4. \A d : /\ event_of(d) = Send
               => (d \in {Unforgotten[k].user_data : k \in DOMAIN Unforgotten}
                     <=> d \in DoneTags(Unforgotten))
    BY DEF DoneTags, IsDone
  <2>5. \A d : d \in SendTags(i)
                 <=> /\ \/ d \in {op.user_data : op \in SendOps}
                        \/ d \in {Unforgotten[k].user_data : k \in DOMAIN Unforgotten}
                     /\ event_of(d) = Send /\ owner_of(d) = i
    BY DEF SendTags, SendOps
  <2> QED BY <2>1, <2>2, <2>3, <2>4, <2>5 DEF StageInv
<1>2. ASSUME LoopInv
      PROVE  {b \in BLOCKS : heap[b] # 0}
               = UNION {{pending_sent[i][d] : d \in DOMAIN pending_sent[i]} : i \in Owners}
  <2>1. TypeOK /\ PendingInv
    BY <1>2 DEF LoopInv, BatchInv
  <2>2. \A b \in BLOCKS : heap[b] # 0 <=> \E d \in Pending : BlockOf(d) = b
    BY <2>1 DEF PendingInv
  <2>3. \A b : (\E d \in Pending : BlockOf(d) = b)
                 <=> \E i \in Owners : \E d \in DOMAIN pending_sent[i] : pending_sent[i][d] = b
    BY <2>1, PendingFacts DEF Pending
  <2>4. \A d \in Pending : BlockOf(d) \in BLOCKS
    BY <2>1, PendingFacts
  <2> QED BY <2>2, <2>3, <2>4
<1>3. LoopInv => PendingExact
  BY <1>1, <1>2 DEF PendingExact
<1> QED BY <1>3, LoopInductive, PTL

(***************************************************************************)
(* The loop implements SendMemory.                                         *)
(***************************************************************************)

Kept == {heap[b] : b \in BLOCKS} \ {0}
Inflight == {op.data : op \in SendOps}

\* Neither a receive prepared nor one in the kernel is a send, before a step
\* and after it.
LEMMA SendsAlone ==
  /\ LoopInv => SendOps = {op \in PreparedOps(sq) \cup sends : op.opcode = "SEND"}
  /\ LoopInv' => SendOps' = {op \in PreparedOps(sq') \cup sends' : op.opcode = "SEND"}
<1>1. LoopInv => SendOps = {op \in PreparedOps(sq) \cup sends : op.opcode = "SEND"}
  BY OpsKinds
<1>2. LoopInv' => (SendOps = {op \in PreparedOps(sq) \cup sends : op.opcode = "SEND"})'
  BY <1>1, PTL
<1> QED BY <1>1, <1>2

\* Steps that leave the sends and the memory alone
LEMMA MemoryStutters ==
  ASSUME LoopInv, LoopInv', UNCHANGED <<netVars, sends>>,
         \/ UNCHANGED sq
         \/ \E i \in Owners : PreparedOps(sq') = PreparedOps(sq) \cup {RecvOf(i)}
  PROVE  UNCHANGED <<writes, Kept, Inflight>>
<1>1. UNCHANGED <<writes, Kept>>
  BY DEF netVars, Kept
<1>2. \A i : RecvOf(i).opcode # "SEND"
  BY DEF RecvOf
<1>3. /\ SendOps = {op \in PreparedOps(sq) \cup sends : op.opcode = "SEND"}
      /\ SendOps' = {op \in PreparedOps(sq') \cup sends' : op.opcode = "SEND"}
  BY SendsAlone
<1>4. SendOps' = SendOps
  BY <1>2, <1>3
<1> QED BY <1>1, <1>4 DEF Inflight

\* The memory of a write is kept and its send prepared.
LEMMA WriteImplements ==
  ASSUME LoopInv, LoopInv', NEW b \in BLOCKS, Write(b)
  PROVE  /\ writes' = writes + 1
         /\ Kept' = Kept \cup {writes'}
         /\ Inflight' = Inflight \cup {writes'}
<1>1. /\ TypeOK /\ heap[b] = 0
      /\ writes' = writes + 1 /\ heap' = [heap EXCEPT ![b] = writes'] /\ UNCHANGED sends
  BY WriteKeeps, LoopParts DEF Write
<1>2. heap \in [BLOCKS -> 0 .. MAX_WRITES] /\ writes' \in Nat \ {0}
  <2>1. heap \in [BLOCKS -> 0 .. MAX_WRITES] /\ writes \in 0 .. MAX_WRITES /\ MAX_WRITES \in Nat
    BY <1>1, Types, LoopSizes
  <2> QED BY <1>1, <2>1
<1>3. heap'[b] = writes' /\ \A c \in BLOCKS \ {b} : heap'[c] = heap[c]
  BY <1>1, <1>2
<1>4. Kept' = Kept \cup {writes'}
  BY <1>1, <1>2, <1>3 DEF Kept
<1>5. PICK new : /\ new.opcode = "SEND" /\ new.data = writes'
                 /\ PreparedOps(sq') = PreparedOps(sq) \cup {new}
  BY WriteKeeps
<1>6. SendOps' = SendOps \cup {new}
  BY <1>1, <1>5, SendsAlone
<1>7. Inflight' = Inflight \cup {writes'}
  BY <1>5, <1>6 DEF Inflight
<1> QED BY <1>1, <1>4, <1>7

\* The kernel is done with one send, and no other carries the same write.
LEMMA CompleteImplements ==
  ASSUME LoopInv, LoopInv', UNCHANGED <<sq, netVars>>,
         NEW op \in sends, sends' = sends \ {op}
  PROVE  op.data \in Inflight /\ Inflight' = Inflight \ {op.data} /\ UNCHANGED <<writes, Kept>>
<1>1. TypeOK /\ PendingInv /\ HeapInv /\ StageInv /\ IsSend(op) /\ op.opcode = "SEND"
  BY OpsKinds DEF LoopInv, BatchInv, OpsInv
<1>2. op \in SendOps
  BY <1>1, SendsAlone
<1>3. \A o \in SendOps : o.data = op.data => o = op
  BY <1>1, OpsKinds, SendsDistinct
<1>4. op \notin PreparedOps(sq)
  <2>1. op.user_data \in TagsOf(sends)
    BY <1>1 DEF TagsOf
  <2>2. op \in PreparedOps(sq) => op.user_data \in TagsOf(PreparedOps(sq))
    BY <1>1 DEF TagsOf
  <2> QED BY <1>1, <2>1, <2>2 DEF StageInv
<1>5. SendOps' = SendOps \ {op}
  BY <1>4, SendsAlone
<1>6. op.data \in Inflight /\ Inflight' = Inflight \ {op.data}
  BY <1>2, <1>3, <1>5 DEF Inflight
<1> QED BY <1>6 DEF netVars, Kept

\* A handled send's memory is given up, and no operation reads it.
LEMMA ForgetImplements ==
  ASSUME LoopInv, LoopInv', UNCHANGED <<sq, send_id, writes, sends, recvs>>,
         NEW data \in Pending, RemoveTables(data),
         data \notin TagsOf(PreparedOps(sq)), data \notin TagsOf(sends)
  PROVE  LET w == heap[BlockOf(data)] IN
           /\ w \in Kept \ Inflight /\ Kept' = Kept \ {w} /\ UNCHANGED <<writes, Inflight>>
<1> DEFINE w == heap[BlockOf(data)]
<1>1. TypeOK /\ PendingInv /\ HeapInv
  BY DEF LoopInv, BatchInv
<1>2. BlockOf(data) \in BLOCKS /\ w # 0
  BY <1>1, PendingFacts DEF PendingInv
<1>3. w \in Kept
  BY <1>2 DEF Kept
<1>4. w \notin Inflight
  <2>1. SUFFICES ASSUME NEW op \in SendOps, op.data = w PROVE FALSE
    BY DEF Inflight
  <2>2. /\ op.user_data \in Pending /\ op.data = heap[BlockOf(op.user_data)]
    BY OpsKinds DEF IsSend, SendOf, SendOps
  <2>3. BlockOf(op.user_data) \in BLOCKS
    BY <1>1, <2>2, PendingFacts
  <2>4. BlockOf(op.user_data) = BlockOf(data)
    BY <1>1, <1>2, <2>1, <2>2, <2>3 DEF HeapInv
  <2>5. op.user_data = data
    BY <1>1, <2>2, <2>4 DEF PendingInv
  <2>6. op \in PreparedOps(sq) \cup sends /\ op.opcode = "SEND"
    BY SendsAlone
  <2> QED BY <2>5, <2>6 DEF TagsOf
<1>5. Kept' = Kept \ {w}
  <2>1. \A b \in BLOCKS : heap'[b] = IF b = BlockOf(data) THEN 0 ELSE heap[b]
    BY <1>1, RemoveEffect
  <2>2. \A b \in BLOCKS : heap[b] = w => b = BlockOf(data)
    BY <1>1, <1>2 DEF HeapInv
  <2> HIDE DEF w
  <2>3. \A v : v \in Kept' <=> v \in Kept \ {w}
    <3>1. \A v : v \in Kept' <=> v # 0 /\ \E b \in BLOCKS : heap'[b] = v
      BY DEF Kept
    <3>2. \A v : v \in Kept <=> v # 0 /\ \E b \in BLOCKS : heap[b] = v
      BY DEF Kept
    <3>3. heap[BlockOf(data)] = w
      BY DEF w
    <3> QED BY <2>1, <2>2, <3>1, <3>2, <3>3
  <2> QED BY <2>3
<1>6. UNCHANGED Inflight
  BY SendsAlone DEF Inflight
<1> QED BY <1>3, <1>4, <1>5, <1>6

LEMMA MemoryStep ==
  ASSUME LoopInv, [Next]_vars
  PROVE  [Memory!Next]_(Memory!vars)
<1> USE DEF Memory!vars
<1>1. LoopInv'
  BY LoopStep
<1>2. Kept = {heap[b] : b \in BLOCKS} \ {0} /\ Inflight = {op.data : op \in SendOps}
  BY DEF Kept, Inflight
<1>3. CASE UNCHANGED <<writes, Kept, Inflight>>
  BY <1>3 DEF Kept, Inflight, SendOps
<1>4. CASE Arm
  <2>1. UNCHANGED <<writes, Kept, Inflight>>
    BY <1>1, <1>4, ArmKeeps, MemoryStutters
  <2> QED BY <1>3, <2>1
<1>5. CASE \E b \in BLOCKS : Write(b)
  <2>1. Memory!Write
    BY <1>1, <1>5, WriteImplements DEF Memory!Write, Kept, Inflight, SendOps
  <2> QED BY <2>1 DEF Memory!Next
<1>6. CASE Submit
  <2>1. /\ PreparedOps(sq') = {} /\ UNCHANGED netVars
        /\ sends' = sends \cup {op \in PreparedOps(sq) : op.opcode = "SEND"}
    BY <1>6, SubmitKeeps DEF Submit
  <2>2. SendOps' = SendOps
    BY <1>1, <2>1, SendsAlone
  <2>3. UNCHANGED <<writes, Kept, Inflight>>
    BY <2>1, <2>2 DEF Kept, Inflight, netVars
  <2> QED BY <1>3, <2>3
<1>7. CASE OnCompletion
  <2>1. CASE UNCHANGED <<netVars, sq, sends, recvs>>
    <3>1. UNCHANGED <<writes, Kept, Inflight>>
      BY <1>1, <2>1, MemoryStutters
    <3> QED BY <1>3, <3>1
  <2>2. CASE ~UNCHANGED <<netVars, sq, sends, recvs>>
    <3>1. PICK data \in Pending :
            /\ RemoveTables(data)
            /\ data \notin TagsOf(PreparedOps(sq)) /\ data \notin TagsOf(sends)
            /\ UNCHANGED <<sq, send_id, writes, sends, recvs>>
      BY <1>7, <2>2, OnCompletionKeeps
    <3>2. PICK w : /\ w \in Kept \ Inflight /\ Kept' = Kept \ {w}
                   /\ UNCHANGED <<writes, Inflight>>
      BY <1>1, <3>1, ForgetImplements
    <3>3. Memory!Forget(w) /\ w \in Kept
      BY <3>2 DEF Memory!Forget, Kept, Inflight, SendOps
    <3> QED BY <3>3 DEF Memory!Next, Kept
  <2> QED BY <2>1, <2>2
<1>8. CASE (Outgoing \/ Incoming) /\ ~KernelFlush
  <2>1. CASE UNCHANGED sends
    <3>1. UNCHANGED <<writes, Kept, Inflight>>
      BY <1>1, <1>8, <2>1, KernelKeeps, MemoryStutters
    <3> QED BY <1>3, <3>1
  <2>2. CASE \E op \in sends : sends' = sends \ {op}
    <3>1. PICK op \in sends : sends' = sends \ {op}
      BY <2>2
    <3>2. /\ op.data \in Inflight /\ Inflight' = Inflight \ {op.data}
          /\ UNCHANGED <<writes, Kept>>
      BY <1>1, <1>8, <3>1, KernelKeeps, CompleteImplements
    <3>3. Memory!Complete(op.data) /\ op.data \in Inflight
      BY <3>2 DEF Memory!Complete, Kept, Inflight, SendOps
    <3> QED BY <3>3 DEF Memory!Next, Inflight, SendOps
  <2> QED BY <1>8, <2>1, <2>2, KernelKeeps
<1>9. CASE \/ Top \/ SkipWrite \/ SyscallFails \/ Peek \/ Wait \/ RawEvent
           \/ CqAdvance \/ ProtocolError \/ KernelFlush \/ UNCHANGED vars
  <2>1. UNCHANGED <<writes, Kept, Inflight>>
    BY <1>1, <1>9, QuietKeeps, MemoryStutters
  <2> QED BY <1>3, <2>1
<1> QED BY <1>4, <1>5, <1>6, <1>7, <1>8, <1>9 DEF Next, Kernel, Loop, Between

\* A write's copy is kept from the write until its completion is handled, and
\* given up then, once, whatever order sends complete in.
THEOREM ImplementsSendMemory == Spec => SendMemorySpec
<1>1. Init => Memory!Init
  <2> SUFFICES ASSUME Init PROVE Memory!Init
    OBVIOUS
  <2>1. LoopInv
    BY InitLoop
  <2>2. PreparedOps(sq) = {} /\ sends = {} /\ writes = 0 /\ \A b \in BLOCKS : heap[b] = 0
    <3>1. PreparedCount(sq) = 0
      BY LoopSizes DEF Init, EmptySq, PreparedCount
    <3> QED BY <3>1 DEF Init, PreparedOps
  <2>3. SendOps = {}
    BY <2>1, <2>2, SendsAlone
  <2> QED BY <2>2, <2>3 DEF Memory!Init, SendOps
<1>2. LoopInv /\ [Next]_vars => [Memory!Next]_(Memory!vars)
  BY MemoryStep
<1> QED BY <1>1, <1>2, LoopInductive, PTL DEF Spec, SendMemorySpec, Memory!Spec
-----------------------------------------------------------------------------
(***************************************************************************)
(* Receives.  A stream's receive is lost only when the completion ring is  *)
(* full, so what can be outstanding must be counted: each completion that  *)
(* is not handled yet is given a place of its own among those that         *)
(* EnoughRoom counts.                                                      *)
(***************************************************************************)

\* The completions of queue with tag d
Marked(queue, d) == {k \in DOMAIN queue : queue[k].user_data = d}

LEMMA MarkedType ==
  ASSUME NEW E, NEW queue \in Seq(E), NEW d
  PROVE  /\ IsFiniteSet(Marked(queue, d)) /\ Cardinality(Marked(queue, d)) \in Nat
         /\ Marked(queue, d) \subseteq 1 .. Len(queue)
<1>1. Len(queue) \in Nat /\ DOMAIN queue = 1 .. Len(queue)
  OBVIOUS
<1>2. IsFiniteSet(1 .. Len(queue))
  BY <1>1, FS_Interval
<1>3. Marked(queue, d) \in SUBSET (1 .. Len(queue))
  BY <1>1 DEF Marked
<1> QED BY <1>2, <1>3, FS_Subset, FS_CardinalityType

LEMMA MarkedAppend ==
  ASSUME NEW E, NEW queue \in Seq(E), NEW cqe \in E, NEW d
  PROVE  /\ cqe.user_data # d => Marked(Append(queue, cqe), d) = Marked(queue, d)
         /\ cqe.user_data = d =>
              Cardinality(Marked(Append(queue, cqe), d)) = Cardinality(Marked(queue, d)) + 1
<1> DEFINE more == Append(queue, cqe)
           n == Len(queue)
<1>1. /\ n \in Nat /\ DOMAIN queue = 1 .. n /\ DOMAIN more = 1 .. n + 1
      /\ \A k \in 1 .. n : more[k] = queue[k]
      /\ more[n + 1] = cqe
  BY AppendProperties
<1> HIDE DEF more
<1>2. 1 .. n + 1 = (1 .. n) \cup {n + 1} /\ n + 1 \notin 1 .. n
  BY <1>1
<1> HIDE DEF n
<1>3. CASE cqe.user_data # d
  BY <1>1, <1>2, <1>3 DEF Marked, more
<1>4. CASE cqe.user_data = d
  <2>1. Marked(more, d) = Marked(queue, d) \cup {n + 1} /\ n + 1 \notin Marked(queue, d)
    BY <1>1, <1>2, <1>4 DEF Marked
  <2>2. Cardinality(Marked(queue, d) \cup {n + 1}) = Cardinality(Marked(queue, d)) + 1
    BY <2>1, MarkedType, FS_AddElement
  <2> QED BY <1>4, <2>1, <2>2 DEF more
<1> QED BY <1>3, <1>4

LEMMA MarkedTail ==
  ASSUME NEW E, NEW queue \in Seq(E), queue # <<>>, NEW d
  PROVE  Cardinality(Marked(Tail(queue), d)) <= Cardinality(Marked(queue, d))
<1> DEFINE rest == Tail(queue)
           n == Len(queue)
           f == [k \in Marked(rest, d) |-> k + 1]
<1>1. /\ n \in Nat /\ n >= 1 /\ DOMAIN queue = 1 .. n /\ DOMAIN rest = 1 .. n - 1
      /\ \A k \in 1 .. n - 1 : rest[k] = queue[k + 1]
  BY HeadTailProperties
<1> HIDE DEF rest, n
<1>2. /\ \A k \in Marked(rest, d) : k \in 1 .. n - 1 /\ rest[k].user_data = d
      /\ \A k \in 1 .. n : queue[k].user_data = d => k \in Marked(queue, d)
  BY <1>1 DEF Marked
<1>3. \A k \in Marked(rest, d) : k + 1 \in Marked(queue, d) /\ k \in Nat
  <2> SUFFICES ASSUME NEW k \in Marked(rest, d) PROVE k + 1 \in Marked(queue, d) /\ k \in Nat
    OBVIOUS
  <2>1. k \in 1 .. n - 1 /\ k + 1 \in 1 .. n
    BY <1>1, <1>2
  <2>2. queue[k + 1].user_data = d
    BY <1>1, <1>2, <2>1
  <2> QED BY <1>2, <2>1, <2>2
<1>4. f \in Injection(Marked(rest, d), Marked(queue, d))
  <2>1. f \in [Marked(rest, d) -> Marked(queue, d)]
    BY <1>3
  <2>2. \A j, k \in Marked(rest, d) : f[j] = f[k] => j = k
    BY <1>3
  <2> QED BY <2>1, <2>2 DEF Injection, IsInjective
<1>5. IsFiniteSet(Marked(queue, d))
  BY MarkedType
<1> HIDE DEF f
<1> QED BY <1>4, <1>5, FS_Injection DEF rest

\* How many completions with its tag come before the k-th
Before(queue, k) == {j \in 1 .. k - 1 : queue[j].user_data = queue[k].user_data}
Rank(queue, k) == Cardinality(Before(queue, k))

LEMMA RankType ==
  ASSUME NEW E, NEW queue \in Seq(E), NEW k \in 1 .. Len(queue)
  PROVE  Rank(queue, k) \in Nat /\ Rank(queue, k) < Cardinality(Marked(queue, queue[k].user_data))
<1> DEFINE M == Marked(queue, queue[k].user_data)
<1>1. Len(queue) \in Nat /\ DOMAIN queue = 1 .. Len(queue)
  OBVIOUS
<1>2. IsFiniteSet(M) /\ Cardinality(M) \in Nat
  BY MarkedType
<1>3. Before(queue, k) \subseteq M /\ k \in M /\ k \notin Before(queue, k)
  BY <1>1 DEF Before, Marked
<1> HIDE DEF M
<1>4. IsFiniteSet(Before(queue, k)) /\ Cardinality(Before(queue, k)) <= Cardinality(M)
      /\ Cardinality(Before(queue, k)) # Cardinality(M)
  BY <1>2, <1>3, FS_Subset
<1>5. Cardinality(Before(queue, k)) \in Nat
  BY <1>4, FS_CardinalityType
<1> QED BY <1>2, <1>4, <1>5 DEF Rank, M

LEMMA RankGrows ==
  ASSUME NEW E, NEW queue \in Seq(E), NEW j \in 1 .. Len(queue), NEW k \in 1 .. Len(queue),
         j < k, queue[j].user_data = queue[k].user_data
  PROVE  Rank(queue, j) # Rank(queue, k)
<1>1. Before(queue, j) \subseteq Before(queue, k) /\ j \in Before(queue, k) /\ j \notin Before(queue, j)
  BY DEF Before
<1>2. IsFiniteSet(Before(queue, k))
  <2>1. Before(queue, k) \subseteq Marked(queue, queue[k].user_data)
    BY DEF Before, Marked
  <2> QED BY <2>1, MarkedType, FS_Subset
<1> QED BY <1>1, <1>2, FS_Subset DEF Rank

\* The places: for the receives of a stream, and for the sends
Places == (Owners \X (0 .. RING_POOL_SIZE)) \cup ({-1} \X BLOCKS)

LEMMA PlacesCount ==
  ASSUME EnoughRoom
  PROVE  IsFiniteSet(Places) /\ Cardinality(Places) \in Nat /\ Cardinality(Places) < CQ_SIZE
<1> DEFINE A == Owners \X (0 .. RING_POOL_SIZE)
           B == {-1} \X BLOCKS
<1>1. STREAMS \in Nat /\ RING_POOL_SIZE \in Nat
  BY LoopSizes
<1>2. /\ IsFiniteSet(Owners) /\ Cardinality(Owners) = STREAMS
      /\ IsFiniteSet(0 .. RING_POOL_SIZE) /\ Cardinality(0 .. RING_POOL_SIZE) = RING_POOL_SIZE + 1
  <2>1. 0 \in Int /\ RING_POOL_SIZE \in Int /\ STREAMS - 1 \in Int /\ STREAMS > 0
    BY LoopSizes
  <2>2. IsFiniteSet(0 .. RING_POOL_SIZE) /\ Cardinality(0 .. RING_POOL_SIZE) = IF 0 > RING_POOL_SIZE THEN 0 ELSE RING_POOL_SIZE - 0 + 1
    BY <2>1, FS_Interval
  <2>3. /\ IsFiniteSet(0 .. STREAMS - 1)
        /\ Cardinality(0 .. STREAMS - 1) = IF 0 > STREAMS - 1 THEN 0 ELSE STREAMS - 1 - 0 + 1
    BY <2>1, FS_Interval
  <2> QED BY <1>1, <2>1, <2>2, <2>3 DEF Owners
<1>3. IsFiniteSet(A) /\ Cardinality(A) = STREAMS * (RING_POOL_SIZE + 1)
  BY <1>2, FS_Product
<1>4. IsFiniteSet(BLOCKS) /\ Cardinality(BLOCKS) \in Nat
  BY FS_CardinalityType DEF EnoughRoom
<1>5. IsFiniteSet(B) /\ Cardinality(B) = Cardinality(BLOCKS)
  <2>1. IsFiniteSet({-1}) /\ Cardinality({-1}) = 1
    BY FS_Singleton
  <2>2. IsFiniteSet(B) /\ Cardinality(B) = 1 * Cardinality(BLOCKS)
    BY <1>4, <2>1, FS_Product
  <2> QED BY <1>4, <2>2
<1>6. A \cap B = {}
  <2>1. -1 \notin Owners
    BY DEF Owners
  <2> QED BY <2>1
<1> HIDE DEF A, B
<1>7. /\ IsFiniteSet(A \cup B)
      /\ Cardinality(A \cup B) = Cardinality(A) + Cardinality(B) - Cardinality(A \cap B)
  BY <1>3, <1>5, FS_Union
<1>8. Cardinality(A \cap B) = 0
  BY <1>6, FS_EmptySet
<1>9. Cardinality(A) \in Nat
  BY <1>3, FS_CardinalityType
<1>10. Cardinality(A) + Cardinality(B) < CQ_SIZE
  BY <1>3, <1>5 DEF EnoughRoom
<1> QED BY <1>4, <1>5, <1>7, <1>8, <1>9, <1>10, CqSizes DEF Places, A, B

\* The place of the k-th completion not handled yet
Place(k) ==
  LET d == Unforgotten[k].user_data IN
    IF event_of(d) = Send THEN <<-1, BlockOf(d)>> ELSE <<owner_of(d), Rank(Unforgotten, k)>>

LEMMA PlaceParts ==
  ASSUME LoopInv, Unforgotten \in Seq(CqEntry), NEW k \in 1 .. Len(Unforgotten)
  PROVE  LET d == Unforgotten[k].user_data IN
           \/ /\ event_of(d) = Send /\ d \in Pending /\ d \in DoneTags(Unforgotten)
              /\ Place(k) = <<-1, BlockOf(d)>> /\ BlockOf(d) \in BLOCKS
           \/ \E i \in Owners :
                /\ event_of(d) # Send /\ d = RecvTag(i)
                /\ Place(k) = <<i, Rank(Unforgotten, k)>>
<1> DEFINE d == Unforgotten[k].user_data
<1>1. k \in DOMAIN Unforgotten /\ TypeOK /\ PendingInv
  BY DEF LoopInv, BatchInv
<1>2. Expected(Unforgotten[k])
  BY <1>1 DEF LoopInv, CompletionsInv
<1>3. CASE d \in Pending
  <2>1. event_of(d) = Send /\ BlockOf(d) \in BLOCKS
    BY <1>1, <1>3, PendingFacts
  <2>2. d \in DoneTags(Unforgotten)
    BY <1>1, <2>1 DEF DoneTags, IsDone
  <2> QED BY <1>3, <2>1, <2>2 DEF Place
<1>4. CASE \E i \in Owners : d = RecvTag(i)
  <2>1. PICK i \in Owners : d = RecvTag(i)
    BY <1>4
  <2>2. event_of(d) # Send /\ owner_of(d) = i
    BY <2>1, RecvTags DEF Send, MultishortRecv
  <2> QED BY <2>1, <2>2 DEF Place
<1> QED BY <1>2, <1>3, <1>4 DEF Expected, RecvTag

\* While an operation is with the kernel, the place of its completion is free.
LEMMA FewUnforgotten ==
  ASSUME LoopInv, AliveInv, EnoughRoom, Unforgotten \in Seq(CqEntry),
         NEW op \in sends \cup recvs
  PROVE  Len(Unforgotten) \in Nat /\ Len(Unforgotten) + 1 < CQ_SIZE
<1> DEFINE U == Unforgotten
           n == Len(U)
           free == IF op \in sends /\ IsSend(op) THEN <<-1, BlockOf(op.user_data)>> ELSE <<op.fd, RING_POOL_SIZE>>
           f == [k \in 1 .. n |-> Place(k)]
<1>1. n \in Nat /\ DOMAIN U = 1 .. n /\ RING_POOL_SIZE \in Nat
  BY LoopSizes
<1>2. TypeOK /\ PendingInv /\ StageInv /\ OpsInv
  BY DEF LoopInv, BatchInv
<1>3. \A d, e \in Pending : BlockOf(d) = BlockOf(e) => d = e
  BY <1>2 DEF PendingInv
<1>4. -1 \notin Owners
  BY DEF Owners
<1>5. ASSUME NEW i \in Owners, NEW k \in 1 .. n, U[k].user_data = RecvTag(i)
      PROVE  /\ Rank(U, k) \in 0 .. RING_POOL_SIZE
             /\ Receiving(i) => Rank(U, k) # RING_POOL_SIZE
  <2>1. RecvOf(i).user_data = RecvTag(i)
    BY DEF RecvOf, RecvTag
  <2>2. Unhandled(RecvOf(i)) = Marked(U, RecvTag(i))
    BY <2>1 DEF Unhandled, Marked
  <2>3. /\ Cardinality(Marked(U, RecvTag(i))) <= RING_POOL_SIZE + 1
        /\ Receiving(i) => Cardinality(Marked(U, RecvTag(i))) <= RING_POOL_SIZE
    BY <2>2 DEF AliveInv
  <2>4. Rank(U, k) \in Nat /\ Rank(U, k) < Cardinality(Marked(U, RecvTag(i)))
    BY <1>5, RankType
  <2>5. Cardinality(Marked(U, RecvTag(i))) \in Nat
    BY MarkedType
  <2> QED BY <1>1, <2>3, <2>4, <2>5
<1>6. free \in Places
  <2>1. CASE op \in sends
    <3>1. IsSend(op) /\ op.user_data \in Pending
      BY <1>2, <2>1 DEF OpsInv, IsSend
    <3>2. BlockOf(op.user_data) \in BLOCKS
      BY <1>2, <3>1, PendingFacts
    <3> QED BY <2>1, <3>1, <3>2 DEF Places
  <2>2. CASE op \notin sends
    <3>1. op.fd \in Owners /\ RING_POOL_SIZE \in 0 .. RING_POOL_SIZE
      BY <1>1, <1>2, <2>2 DEF OpsInv, IsRecv
    <3> QED BY <2>2, <3>1 DEF Places
  <2> QED BY <2>1, <2>2
<1>7. ASSUME NEW k \in 1 .. n
      PROVE  Place(k) \in Places /\ Place(k) # free
  <2> DEFINE d == U[k].user_data
  <2>1. CASE /\ event_of(d) = Send /\ d \in Pending /\ d \in DoneTags(U)
             /\ Place(k) = <<-1, BlockOf(d)>> /\ BlockOf(d) \in BLOCKS
    <3>1. Place(k) \in Places
      BY <2>1 DEF Places
    <3>2. CASE op \in sends
      <4>1. IsSend(op) /\ op.user_data \in Pending /\ op.opcode = "SEND"
        BY <1>2, <3>2 DEF OpsInv, IsSend, SendOf
      <4>2. op.user_data \in TagsOf(sends)
        BY <3>2, <4>1 DEF TagsOf
      <4>3. op.user_data # d
        BY <1>2, <2>1, <4>2 DEF StageInv
      <4>4. BlockOf(op.user_data) # BlockOf(d)
        BY <1>3, <2>1, <4>1, <4>3
      <4> QED BY <2>1, <3>1, <3>2, <4>1, <4>4
    <3>3. CASE op \notin sends
      <4>1. op.fd \in Owners
        BY <1>2, <3>3 DEF OpsInv, IsRecv
      <4>2. op.fd # -1
        BY <1>4, <4>1
      <4> QED BY <2>1, <3>1, <3>3, <4>2
    <3> QED BY <3>2, <3>3
  <2>2. CASE \E i \in Owners : /\ event_of(d) # Send /\ d = RecvTag(i)
                               /\ Place(k) = <<i, Rank(U, k)>>
    <3>1. PICK i \in Owners : d = RecvTag(i) /\ Place(k) = <<i, Rank(U, k)>>
      BY <2>2
    <3>2. Rank(U, k) \in 0 .. RING_POOL_SIZE /\ (Receiving(i) => Rank(U, k) # RING_POOL_SIZE)
      BY <1>5, <3>1
    <3>3. Place(k) \in Places
      BY <3>1, <3>2 DEF Places
    <3>4. CASE op \in sends
      <4>1. IsSend(op)
        BY <1>2, <3>4 DEF OpsInv
      <4>2. i # -1
        BY <1>4
      <4> QED BY <3>1, <3>3, <3>4, <4>1, <4>2
    <3>5. CASE op \notin sends
      <4>1. op = RecvOf(op.fd) /\ op \in recvs
        BY <1>2, <3>5 DEF OpsInv, IsRecv
      <4>2. op.fd = i => Rank(U, k) # RING_POOL_SIZE
        BY <3>2, <4>1 DEF Receiving
      <4> QED BY <3>1, <3>3, <3>5, <4>2
    <3> QED BY <3>4, <3>5
  <2> QED BY <2>1, <2>2, PlaceParts
<1>8. ASSUME NEW j \in 1 .. n, NEW k \in 1 .. n, j < k
      PROVE  Place(j) # Place(k)
  <2> DEFINE d == U[j].user_data
             e == U[k].user_data
  <2>1. CASE d = e
    <3>1. CASE event_of(d) = Send
      <4>1. IsDone(U, j)
        BY <3>1 DEF IsDone
      <4>2. j = k
        BY <1>1, <1>2, <2>1, <4>1 DEF StageInv, DoneOnce
      <4> QED BY <1>8, <4>2
    <3>2. CASE event_of(d) # Send
      <4>1. Rank(U, j) # Rank(U, k)
        BY <1>8, <2>1, RankGrows
      <4> QED BY <2>1, <3>2, <4>1 DEF Place
    <3> QED BY <3>1, <3>2
  <2>2. CASE d # e
    <3>1. \/ /\ event_of(d) = Send /\ d \in Pending /\ Place(j) = <<-1, BlockOf(d)>>
          \/ \E i \in Owners : d = RecvTag(i) /\ Place(j) = <<i, Rank(U, j)>>
      BY PlaceParts
    <3>2. \/ /\ event_of(e) = Send /\ e \in Pending /\ Place(k) = <<-1, BlockOf(e)>>
          \/ \E i \in Owners : e = RecvTag(i) /\ Place(k) = <<i, Rank(U, k)>>
      BY PlaceParts
    <3> HIDE DEF d, e
    <3> QED BY <1>3, <1>4, <2>2, <3>1, <3>2
  <2> QED BY <2>1, <2>2
<1>9. f \in Injection(1 .. n, Places \ {free})
  <2> HIDE DEF free, n
  <2>1. f \in [1 .. n -> Places \ {free}]
    BY <1>7
  <2>2. \A j, k \in 1 .. n : f[j] = f[k] => j = k
    <3> SUFFICES ASSUME NEW j \in 1 .. n, NEW k \in 1 .. n, j # k PROVE f[j] # f[k]
      OBVIOUS
    <3>1. j < k \/ k < j
      BY <1>1
    <3> QED BY <1>8, <3>1
  <2> QED BY <2>1, <2>2 DEF Injection, IsInjective
<1> HIDE DEF f, free
<1>10. /\ IsFiniteSet(Places \ {free})
       /\ Cardinality(Places \ {free}) = Cardinality(Places) - 1
  BY <1>6, PlacesCount, FS_RemoveElement
<1>11. Cardinality(1 .. n) <= Cardinality(Places \ {free})
  BY <1>9, <1>10, FS_Injection
<1>12. Cardinality(1 .. n) = n
  <2>1. Cardinality(1 .. n) = IF 1 > n THEN 0 ELSE n - 1 + 1
    BY <1>1, FS_Interval
  <2> QED BY <1>1, <2>1
<1> QED BY <1>1, <1>10, <1>11, <1>12, PlacesCount, CqSizes

\* The kernel always finds room.
LEMMA RoomToPost ==
  ASSUME LoopInv, AliveInv, EnoughRoom, NEW op \in sends \cup recvs
  PROVE  HasRoom(cq)
<1>1. cq \in Cq(CqEntry) /\ Contents(cq) \in Seq(CqEntry)
      /\ Len(Contents(cq)) = Ready(cq) + Len(cq.overflow)
  BY RingOfInv, ContentsType DEF LoopInv
<1>2. cq.overflow = <<>> /\ Len(cq.overflow) = 0
  BY DEF AliveInv
<1>3. /\ Unforgotten \in Seq(CqEntry) /\ Len(Unforgotten) \in Nat
      /\ Len(Contents(cq)) \in Nat /\ Len(Contents(cq)) <= Len(Unforgotten) + 1
  <2>1. CASE phase = "read"
    <3>1. Contents(cq) # <<>>
      BY <2>1, BatchInRing DEF LoopInv
    <3>2. Unforgotten = Tail(Contents(cq))
      BY <2>1 DEF Unforgotten
    <3> DEFINE C == Contents(cq)
    <3>3. C \in Seq(CqEntry) /\ C # <<>> /\ Unforgotten = Tail(C)
      BY <1>1, <3>1, <3>2
    <3> HIDE DEF C
    <3>4. Tail(C) \in Seq(CqEntry) /\ Len(Tail(C)) = Len(C) - 1 /\ Len(C) \in Nat /\ Len(C) >= 1
      BY <3>3
    <3>5. Unforgotten \in Seq(CqEntry) /\ Len(Unforgotten) = Len(C) - 1
      BY <3>3, <3>4
    <3> QED BY <3>4, <3>5 DEF C
  <2>2. CASE phase # "read"
    <3>1. Unforgotten = Contents(cq)
      BY <2>2 DEF Unforgotten
    <3> QED BY <1>1, <3>1
  <2> QED BY <2>1, <2>2
<1>4. Len(Unforgotten) + 1 < CQ_SIZE
  BY <1>3, FewUnforgotten
<1>5. Ready(cq) \in Nat
  BY <1>1, ReadyType
<1> QED BY <1>1, <1>2, <1>3, <1>4, <1>5, CqSizes DEF HasRoom

LEMMA UnhandledMarked ==
  ASSUME NEW i \in Owners
  PROVE  /\ Unhandled(RecvOf(i)) = Marked(Unforgotten, RecvTag(i))
         /\ Unhandled(RecvOf(i))' = Marked(Unforgotten', RecvTag(i))
         /\ RecvOf(i)' = RecvOf(i)
<1>1. RecvOf(i).user_data = RecvTag(i) /\ RecvOf(i)' = RecvOf(i)
  BY DEF RecvOf, RecvTag
<1> QED BY <1>1 DEF Unhandled, Marked

\* What is waiting for each stream, as numbers
LEMMA WaitingType ==
  ASSUME LoopInv, NEW i \in Owners
  PROVE  /\ Unforgotten \in Seq(CqEntry)
         /\ Cardinality(Marked(Unforgotten, RecvTag(i))) \in Nat
<1>1. Unforgotten \in Seq(CqEntry)
  <2>1. Contents(cq) \in Seq(CqEntry)
    BY RingOfInv, ContentsType DEF LoopInv
  <2>2. phase = "read" => Contents(cq) # <<>>
    BY BatchInRing DEF LoopInv
  <2> DEFINE C == Contents(cq)
  <2>3. C \in Seq(CqEntry) /\ (phase = "read" => C # <<>>)
    BY <2>1, <2>2
  <2>4. Unforgotten = IF phase = "read" THEN Tail(C) ELSE C
    BY DEF Unforgotten
  <2> HIDE DEF C
  <2>5. C # <<>> => Tail(C) \in Seq(CqEntry)
    BY <2>3
  <2> QED BY <2>3, <2>4, <2>5
<1> QED BY <1>1, MarkedType

\* An end announced stays announced while completions are only added.
LEMMA EndedKept ==
  ASSUME UNCHANGED Unforgotten
  PROVE  \A i \in Owners : Ended(i) => Ended(i)'
BY DEF Ended

LEMMA EndedAppend ==
  ASSUME Unforgotten \in Seq(CqEntry), NEW cqe \in CqEntry, Unforgotten' = Append(Unforgotten, cqe)
  PROVE  /\ \A i \in Owners : Ended(i) => Ended(i)'
         /\ \A i \in Owners : cqe.user_data = RecvTag(i) /\ cqe.res <= 0 => Ended(i)'
<1>1. /\ Len(Unforgotten') = Len(Unforgotten) + 1 /\ Unforgotten'[Len(Unforgotten) + 1] = cqe
      /\ \A k \in DOMAIN Unforgotten : k \in DOMAIN Unforgotten' /\ Unforgotten'[k] = Unforgotten[k]
      /\ Len(Unforgotten) + 1 \in DOMAIN Unforgotten'
  OBVIOUS
<1>2. ASSUME NEW i \in Owners, Ended(i)
      PROVE  Ended(i)'
  <2>1. PICK k \in DOMAIN Unforgotten : Unforgotten[k].user_data = RecvTag(i) /\ Unforgotten[k].res <= 0
    BY <1>2 DEF Ended
  <2>2. k \in DOMAIN Unforgotten' /\ Unforgotten'[k] = Unforgotten[k]
    BY <1>1, <2>1
  <2> QED BY <2>1, <2>2 DEF Ended
<1>3. ASSUME NEW i \in Owners, cqe.user_data = RecvTag(i), cqe.res <= 0
      PROVE  Ended(i)'
  BY <1>1, <1>3 DEF Ended
<1> QED BY <1>2, <1>3

\* A step that leaves the receives alone and adds nothing for a stream
LEMMA ReceivesKept ==
  ASSUME LoopInv, AliveInv, UNCHANGED recvs, cq'.overflow = <<>>,
         \A i \in Owners : Ended(i) => Ended(i)',
         phase' = "arm" <=> phase = "arm",
         \A i \in Owners : RecvOf(i) \in PreparedOps(sq') <=> RecvOf(i) \in PreparedOps(sq),
         \A i \in Owners :
           /\ Cardinality(Marked(Unforgotten', RecvTag(i))) \in Nat
           /\ Cardinality(Marked(Unforgotten', RecvTag(i)))
                <= Cardinality(Marked(Unforgotten, RecvTag(i)))
  PROVE  AliveInv'
<1>1. ASSUME NEW i \in Owners
      PROVE  /\ Cardinality(Unhandled(RecvOf(i)))' <= RING_POOL_SIZE + 1
             /\ Receiving(i)' \/ phase' = "arm" => Cardinality(Unhandled(RecvOf(i)))' <= RING_POOL_SIZE
             /\ RecvOf(i)' \in PreparedOps(sq') => recvs' = {}
             /\ phase' # "arm" => Receiving(i)' \/ Ended(i)'
  <2> DEFINE m == Cardinality(Marked(Unforgotten, RecvTag(i)))
             n == Cardinality(Marked(Unforgotten', RecvTag(i)))
  <2>1. /\ Cardinality(Unhandled(RecvOf(i))) = m /\ Cardinality(Unhandled(RecvOf(i)))' = n
        /\ RecvOf(i)' = RecvOf(i) /\ m \in Nat /\ n \in Nat /\ n <= m /\ RING_POOL_SIZE \in Nat
    BY UnhandledMarked, WaitingType, LoopSizes
  <2> HIDE DEF m, n
  <2>2. Receiving(i)' <=> Receiving(i)
    BY <2>1 DEF Receiving
  <2>3. /\ m <= RING_POOL_SIZE + 1
        /\ Receiving(i) \/ phase = "arm" => m <= RING_POOL_SIZE
        /\ RecvOf(i) \in PreparedOps(sq) => recvs = {}
        /\ phase # "arm" => Receiving(i) \/ Ended(i)
    BY <2>1 DEF AliveInv
  <2> QED BY <2>1, <2>2, <2>3
<1>2. phase' = "arm" => recvs' = {}
  BY DEF AliveInv
<1> QED BY <1>1, <1>2 DEF AliveInv

\* A receive is prepared; after the last one every stream has one.
LEMMA ArmAlive ==
  ASSUME LoopInv, AliveInv, Arm
  PROVE  AliveInv'
<1>1. /\ phase = "arm" /\ UNCHANGED <<cq, recvs>> /\ recvs = {}
      /\ at \in Owners /\ PreparedOps(sq') = PreparedOps(sq) \cup {RecvOf(at)}
      /\ cq.overflow = <<>>
  BY ArmKeeps DEF Arm, kernelVars, AliveInv
<1>2. UNCHANGED Unforgotten
  <2>1. phase' # "read"
    BY <1>1 DEF Arm, Advance
  <2> QED BY <1>1, <2>1 DEF Unforgotten
<1>3. phase' # "arm" => at + 1 >= STREAMS
  <2>1. UNCHANGED phase \/ Advance("top")
    BY DEF Arm
  <2>2. phase' # "arm" => ~(at + 1 < STREAMS)
    BY <1>1, <2>1 DEF Advance
  <2>3. at \in Nat /\ STREAMS \in Nat
    BY <1>1, LoopSizes DEF Owners
  <2> QED BY <2>2, <2>3
<1>4. ASSUME NEW i \in Owners, i < at
      PROVE  RecvOf(i) \in PreparedOps(sq)
  <2>1. /\ sq = [sqes |-> [k \in SqIndices |-> IF k < at THEN RecvOf(k) ELSE ZeroSqe],
                 sqe_tail |-> at, khead |-> 0]
    BY <1>1 DEF LoopInv, SqInv
  <2>2. /\ i \in Nat /\ at \in Nat /\ at < STREAMS /\ STREAMS \in Nat
        /\ at \in 0 .. SQ_MOD - 1 /\ i \in 0 .. SQ_ENTRIES - 1
    BY <1>1, <1>4, LoopSizes, SqSizes DEF Owners
  <2>3. PreparedCount(sq) = at
    <3>1. PreparedCount(sq) = (at - 0) % SQ_MOD
      BY <2>1 DEF PreparedCount
    <3>2. at - 0 = at /\ at % SQ_MOD = at
      BY <2>2, LoopSizes, ModSmall
    <3> QED BY <3>1, <3>2
  <2>4. i + 1 \in 1 .. at /\ 0 + (i + 1) - 1 = i /\ i % SQ_ENTRIES = i
    BY <1>4, <2>2, LoopSizes, ModSmall
  <2>5. sq.sqes[(sq.khead + (i + 1) - 1) % SQ_ENTRIES] = RecvOf(i)
    <3>1. sq.khead = 0 /\ i \in SqIndices
      BY <2>1, <2>2 DEF SqIndices
    <3>2. (sq.khead + (i + 1) - 1) % SQ_ENTRIES = i
      BY <2>4, <3>1
    <3> QED BY <1>4, <2>1, <3>1, <3>2
  <2> QED BY <2>3, <2>4, <2>5 DEF PreparedOps
<1>5. ASSUME NEW i \in Owners
      PROVE  /\ Cardinality(Unhandled(RecvOf(i)))' <= RING_POOL_SIZE + 1
             /\ Receiving(i)' \/ phase' = "arm" => Cardinality(Unhandled(RecvOf(i)))' <= RING_POOL_SIZE
             /\ RecvOf(i)' \in PreparedOps(sq') => recvs' = {}
             /\ phase' # "arm" => Receiving(i)' \/ Ended(i)'
  <2> DEFINE m == Cardinality(Marked(Unforgotten, RecvTag(i)))
  <2>1. /\ Cardinality(Unhandled(RecvOf(i))) = m /\ Cardinality(Unhandled(RecvOf(i)))' = m
        /\ RecvOf(i)' = RecvOf(i) /\ m \in Nat /\ RING_POOL_SIZE \in Nat
    BY <1>2, UnhandledMarked, WaitingType, LoopSizes
  <2> HIDE DEF m
  <2>2. m <= RING_POOL_SIZE
    BY <1>1, <2>1 DEF AliveInv
  <2>3. phase' # "arm" => Receiving(i)'
    <3>1. i < at \/ i = at \/ at + 1 < STREAMS
      BY <1>1, LoopSizes DEF Owners
    <3>2. phase' # "arm" => RecvOf(i) \in PreparedOps(sq')
      BY <1>1, <1>3, <1>4, <3>1, LoopSizes DEF Owners
    <3> QED BY <2>1, <3>2 DEF Receiving
  <2> QED BY <1>1, <2>1, <2>2, <2>3
<1> QED BY <1>1, <1>5 DEF AliveInv

\* The prepared receives go to the kernel.
LEMMA SubmitAlive ==
  ASSUME LoopInv, AliveInv, Submit
  PROVE  AliveInv'
<1>1. /\ phase = "submit" /\ phase' = "peek" /\ UNCHANGED cq
      /\ PreparedOps(sq') = {} /\ cq.overflow = <<>>
      /\ recvs' = recvs \cup {op \in PreparedOps(sq) : op.opcode = "RECV"}
  BY SubmitKeeps DEF Submit, AliveInv
<1>2. UNCHANGED Unforgotten
  BY <1>1 DEF Unforgotten
<1>3. ASSUME NEW i \in Owners
      PROVE  /\ Cardinality(Unhandled(RecvOf(i)))' <= RING_POOL_SIZE + 1
             /\ Receiving(i)' => Cardinality(Unhandled(RecvOf(i)))' <= RING_POOL_SIZE
             /\ Receiving(i)' \/ Ended(i)'
  <2>1. /\ Cardinality(Unhandled(RecvOf(i)))' = Cardinality(Unhandled(RecvOf(i)))
        /\ RecvOf(i)' = RecvOf(i) /\ RecvOf(i).opcode = "RECV"
    BY <1>2, UnhandledMarked DEF RecvOf
  <2>2. Receiving(i)' <=> Receiving(i)
    BY <1>1, <2>1 DEF Receiving
  <2>3. Ended(i) => Ended(i)'
    BY <1>2, EndedKept
  <2> QED BY <1>1, <2>1, <2>2, <2>3 DEF AliveInv
<1> QED BY <1>1, <1>3 DEF AliveInv

\* A completion with tag d is posted into a ring that has room.
LEMMA PostAlive ==
  ASSUME LoopInv, AliveInv, EnoughRoom, NEW op \in sends \cup recvs,
         NEW cqe \in CqEntry, cqe.user_data = op.user_data,
         cq' = Post(cq, cqe), UNCHANGED loopVars
  PROVE  /\ HasRoom(cq) /\ cq'.overflow = <<>>
         /\ \A i \in Owners : Ended(i) => Ended(i)'
         /\ \A i \in Owners : cqe.user_data = RecvTag(i) /\ cqe.res <= 0 => Ended(i)'
         /\ \A i \in Owners :
              LET m == Cardinality(Marked(Unforgotten, RecvTag(i)))
                  n == Cardinality(Marked(Unforgotten', RecvTag(i)))
              IN /\ m \in Nat /\ n \in Nat
                 /\ op \in sends => n = m
                 /\ op # RecvOf(i) => n = m
                 /\ op = RecvOf(i) => n = m + 1
<1>1. HasRoom(cq)
  BY RoomToPost
<1>2. cq'.overflow = <<>>
  <2>1. cq \in CqType /\ cq.overflow = <<>>
    BY Types DEF LoopInv, BatchInv, AliveInv
  <2>2. cq' = Put(cq, cqe)
    BY <1>1 DEF Post
  <2> QED BY <2>1, <2>2 DEF Put, CqType
<1>3. Unforgotten \in Seq(CqEntry) /\ Unforgotten' = Append(Unforgotten, cqe)
  BY AfterPost DEF LoopInv
<1>4. TypeOK /\ PendingInv /\ OpsInv
  BY DEF LoopInv, BatchInv
<1>5. ASSUME NEW i \in Owners
      PROVE  LET m == Cardinality(Marked(Unforgotten, RecvTag(i)))
                 n == Cardinality(Marked(Unforgotten', RecvTag(i)))
             IN /\ m \in Nat /\ n \in Nat
                /\ op \in sends => n = m
                /\ op # RecvOf(i) => n = m
                /\ op = RecvOf(i) => n = m + 1
  <2> DEFINE m == Cardinality(Marked(Unforgotten, RecvTag(i)))
             n == Cardinality(Marked(Unforgotten', RecvTag(i)))
  <2>1. /\ cqe.user_data # RecvTag(i) => n = m
        /\ cqe.user_data = RecvTag(i) => n = m + 1
        /\ m \in Nat
    BY <1>3, MarkedAppend, MarkedType
  <2>2. op \in sends => op.user_data # RecvTag(i) /\ op # RecvOf(i)
    <3>1. op \in sends => op.user_data \in Pending
      BY <1>4 DEF OpsInv, IsSend
    <3>2. RecvTag(i) \notin Pending /\ RecvOf(i).user_data = RecvTag(i)
      BY <1>4, RecvNotPending DEF RecvOf, RecvTag
    <3> QED BY <3>1, <3>2
  <2>3. op \notin sends => (op.user_data = RecvTag(i) <=> op = RecvOf(i))
    <3>1. op \notin sends => op.fd \in Owners /\ op = RecvOf(op.fd)
      BY <1>4 DEF OpsInv, IsRecv
    <3>2. \A j \in Owners : RecvOf(j).user_data = RecvTag(j) /\ owner_of(RecvTag(j)) = j
      BY RecvTags DEF RecvOf, RecvTag
    <3> QED BY <3>1, <3>2
  <2> HIDE DEF m, n
  <2>4. /\ m \in Nat /\ n \in Nat
        /\ op \in sends => n = m
        /\ op # RecvOf(i) => n = m
        /\ op = RecvOf(i) => n = m + 1
    BY <2>1, <2>2, <2>3
  <2> QED BY <2>4 DEF m, n
<1> QED BY <1>1, <1>2, <1>3, <1>5, EndedAppend

\* The kernel completes an operation: a send, a buffer's worth of data, or the
\* end of a receive, which is then not armed any more.
LEMMA KernelAlive ==
  ASSUME LoopInv, AliveInv, EnoughRoom, Outgoing \/ Incoming, ~KernelFlush
  PROVE  AliveInv'
<1>1. /\ UNCHANGED <<sq, loopVars>> /\ UNCHANGED phase
      /\ sends \subseteq Sqe /\ recvs \subseteq Sqe /\ OpsInv /\ RING_POOL_SIZE \in Nat /\ RING_POOL_SIZE >= 1
  <2>1. UNCHANGED <<sq, loopVars>> /\ UNCHANGED phase
    BY DEF Outgoing, Incoming, KernelSend, KernelRecv, KernelEnd, KernelFlush, loopVars
  <2> QED BY <2>1, LoopParts, Types, LoopSizes DEF LoopInv
<1>2. ASSUME NEW op \in Sqe, NEW res \in {EOF, ECONNRESET, ENOBUFS, EPIPE} \cup 0 .. SEND_LEN \cup 1 .. BUF_SIZE
      PROVE  Cqe(op, res) \in CqEntry /\ Cqe(op, res).user_data = op.user_data
  BY LoopSizes, Sizes DEF Cqe, CqEntry, Sqe
<1>3. CASE \E op \in sends, res \in {EPIPE} \cup 0 .. SEND_LEN : KernelSend(op, res)
  <2>1. PICK op \in sends, res \in {EPIPE} \cup 0 .. SEND_LEN : KernelSend(op, res)
    BY <1>3
  <2>2. PICK cqe \in CqEntry : cqe = Cqe(op, res) /\ cqe.user_data = op.user_data
    BY <1>1, <1>2, <2>1
  <2>3. cq' = Post(cq, cqe) /\ UNCHANGED recvs
    BY <2>1, <2>2 DEF KernelSend
  <2>4. /\ cq'.overflow = <<>>
        /\ \A i \in Owners : Ended(i) => Ended(i)'
        /\ \A i \in Owners :
             /\ Cardinality(Marked(Unforgotten, RecvTag(i))) \in Nat
             /\ Cardinality(Marked(Unforgotten', RecvTag(i)))
                  = Cardinality(Marked(Unforgotten, RecvTag(i)))
    BY <1>1, <2>1, <2>2, <2>3, PostAlive
  <2>5. \A i \in Owners :
          /\ Cardinality(Marked(Unforgotten', RecvTag(i))) \in Nat
          /\ Cardinality(Marked(Unforgotten', RecvTag(i)))
               <= Cardinality(Marked(Unforgotten, RecvTag(i)))
    BY <2>4
  <2> QED BY <1>1, <2>3, <2>4, <2>5, ReceivesKept
<1>4. ASSUME NEW op \in recvs, NEW cqe \in CqEntry, cqe.user_data = op.user_data,
             cq' = Post(cq, cqe),
             \/ UNCHANGED recvs /\ Cardinality(Unhandled(op)) < RING_POOL_SIZE
             \/ recvs' = recvs \ {op} /\ cqe.res <= 0
      PROVE  AliveInv'
  <2>1. /\ cq'.overflow = <<>>
        /\ \A i \in Owners : Ended(i) => Ended(i)'
        /\ \A i \in Owners : cqe.user_data = RecvTag(i) /\ cqe.res <= 0 => Ended(i)'
        /\ \A i \in Owners :
             LET m == Cardinality(Marked(Unforgotten, RecvTag(i)))
                 n == Cardinality(Marked(Unforgotten', RecvTag(i)))
             IN /\ m \in Nat /\ n \in Nat
                /\ op # RecvOf(i) => n = m
                /\ op = RecvOf(i) => n = m + 1
    BY <1>1, <1>4, PostAlive
  <2>2. op.fd \in Owners /\ op = RecvOf(op.fd)
    BY <1>1 DEF OpsInv, IsRecv
  <2>3. ASSUME NEW i \in Owners
        PROVE  /\ Cardinality(Unhandled(RecvOf(i)))' <= RING_POOL_SIZE + 1
               /\ Receiving(i)' \/ phase' = "arm" => Cardinality(Unhandled(RecvOf(i)))' <= RING_POOL_SIZE
               /\ RecvOf(i)' \in PreparedOps(sq') => recvs' = {}
               /\ phase' # "arm" => Receiving(i)' \/ Ended(i)'
    <3> DEFINE m == Cardinality(Marked(Unforgotten, RecvTag(i)))
               n == Cardinality(Marked(Unforgotten', RecvTag(i)))
    <3>1. /\ m \in Nat /\ n \in Nat
          /\ op # RecvOf(i) => n = m
          /\ op = RecvOf(i) => n = m + 1
      BY <2>1
    <3>2. /\ Cardinality(Unhandled(RecvOf(i))) = m /\ Cardinality(Unhandled(RecvOf(i)))' = n
          /\ RecvOf(i)' = RecvOf(i)
      BY UnhandledMarked
    <3> HIDE DEF m, n
    <3>3. /\ m <= RING_POOL_SIZE + 1
          /\ Receiving(i) => m <= RING_POOL_SIZE
          /\ RecvOf(i) \notin PreparedOps(sq)
          /\ phase # "arm"
          /\ Receiving(i) \/ Ended(i)
      <4>1. recvs # {}
        OBVIOUS
      <4> QED BY <3>2, <4>1 DEF AliveInv
    <3>4. CASE op = RecvOf(i)
      <4>1. Receiving(i) /\ m <= RING_POOL_SIZE
        BY <3>3, <3>4 DEF Receiving
      <4>2. CASE UNCHANGED recvs /\ Cardinality(Unhandled(op)) < RING_POOL_SIZE
        <5>1. m < RING_POOL_SIZE /\ n <= RING_POOL_SIZE
          BY <1>1, <3>1, <3>2, <3>4, <4>2
        <5>2. Receiving(i)' <=> Receiving(i)
          BY <1>1, <3>2, <4>2 DEF Receiving
        <5> QED BY <1>1, <3>1, <3>2, <3>3, <4>1, <5>1, <5>2
      <4>3. CASE recvs' = recvs \ {op} /\ cqe.res <= 0
        <5>1. ~Receiving(i)'
          BY <1>1, <3>2, <3>3, <3>4, <4>3 DEF Receiving
        <5>3. Ended(i)'
          <6>1. RecvOf(i).user_data = RecvTag(i)
            BY DEF RecvOf, RecvTag
          <6> QED BY <1>4, <2>1, <3>4, <4>3, <6>1
        <5>2. n <= RING_POOL_SIZE + 1
          BY <1>1, <3>1, <3>4, <4>1
        <5> QED BY <1>1, <3>2, <3>3, <5>1, <5>2, <5>3
      <4> QED BY <1>4, <4>2, <4>3
    <3>5. CASE op # RecvOf(i)
      <4>1. Receiving(i)' <=> Receiving(i)
        BY <1>1, <1>4, <3>2, <3>5 DEF Receiving
      <4>2. n = m /\ (Ended(i) => Ended(i)')
        BY <2>1, <3>1, <3>5
      <4> QED BY <1>1, <3>1, <3>2, <3>3, <3>5, <4>1, <4>2
    <3> QED BY <3>4, <3>5
  <2>4. phase' # "arm"
    <3>1. recvs # {}
      OBVIOUS
    <3> QED BY <1>1, <3>1 DEF AliveInv
  <2> QED BY <2>1, <2>3, <2>4 DEF AliveInv
<1>5. CASE \E op \in recvs, n \in 1 .. BUF_SIZE, bid \in Slots : KernelRecv(op, n, bid)
  <2>1. PICK op \in recvs, n \in 1 .. BUF_SIZE, bid \in Slots : KernelRecv(op, n, bid)
    BY <1>5
  <2>2. op.ioprio = {"MULTISHOT"}
    <3>1. op = RecvOf(op.fd)
      BY <1>1 DEF OpsInv, IsRecv
    <3> QED BY <3>1 DEF RecvOf
  <2>3. HasRoom(cq)
    BY RoomToPost
  <2>4. PICK more \in BOOLEAN : more = (op.ioprio = {"MULTISHOT"} /\ HasRoom(cq))
    OBVIOUS
  <2>5. PICK cqe : cqe = [Cqe(op, n) EXCEPT !.buffer = TRUE, !.bid = bid, !.more = more]
    OBVIOUS
  <2>6. cqe \in CqEntry /\ cqe.user_data = op.user_data
    <3>1. Cqe(op, n) \in CqEntry /\ Cqe(op, n).user_data = op.user_data
      BY <1>1, <1>2, <2>1
    <3> QED BY <2>1, <2>5, <3>1 DEF CqEntry
  <2>7. /\ cq' = Post(cq, cqe) /\ UNCHANGED recvs
        /\ Cardinality(Unhandled(op)) < RING_POOL_SIZE
    BY <2>1, <2>2, <2>3, <2>4, <2>5 DEF KernelRecv
  <2> QED BY <1>4, <2>6, <2>7
<1>6. CASE \E op \in recvs, res \in {EOF, ECONNRESET, ENOBUFS} : KernelEnd(op, res)
  <2>1. PICK op \in recvs, res \in {EOF, ECONNRESET, ENOBUFS} : KernelEnd(op, res)
    BY <1>6
  <2>2. PICK cqe \in CqEntry : cqe = Cqe(op, res) /\ cqe.user_data = op.user_data
    BY <1>1, <1>2, <2>1
  <2>3. /\ cq' = Post(cq, cqe) /\ recvs' = recvs \ {op}
    BY <2>1, <2>2 DEF KernelEnd
  <2>4. cqe.res <= 0
    <3>1. cqe.res = res
      BY <2>2 DEF Cqe
    <3> QED BY <3>1 DEF EOF, ECONNRESET, ENOBUFS
  <2> QED BY <1>4, <2>2, <2>3, <2>4
<1> QED BY <1>3, <1>5, <1>6 DEF Outgoing, Incoming

LEMMA InitAlive ==
  ASSUME Init
  PROVE  AliveInv
<1>1. LoopInv
  BY InitLoop
<1>2. Unforgotten = <<>> /\ cq.overflow = <<>> /\ phase = "arm" /\ recvs = {}
  <2>1. Ready(cq) = 0 /\ cq.overflow = <<>>
    BY CqSizes DEF Init, EmptyCq, Ready
  <2>2. Contents(cq) = <<>>
    BY <2>1 DEF Contents
  <2> QED BY <2>1, <2>2 DEF Init, Unforgotten
<1>3. ASSUME NEW i \in Owners
      PROVE  Cardinality(Unhandled(RecvOf(i))) = 0
  <2>1. Unhandled(RecvOf(i)) = {}
    BY <1>2 DEF Unhandled
  <2> QED BY <2>1, FS_EmptySet
<1> QED BY <1>2, <1>3, LoopSizes DEF AliveInv

\* The completion that announces an end stops the program when it is handled,
\* and so is never done with.
LEMMA EndedStops ==
  ASSUME LoopInv, OnCompletion, NEW i \in Owners, Ended(i)
  PROVE  Ended(i)'
<1>1. /\ UNCHANGED cq /\ phase = "completed" /\ phase' \in {"completed", "read"}
      /\ Unforgotten \in Seq(CqEntry)
  BY WaitingType DEF OnCompletion
<1>2. Unforgotten = Contents(cq) /\ Unforgotten # <<>>
  BY <1>1, InHand
<1>3. CASE phase' = "completed"
  <2>1. UNCHANGED Unforgotten
    BY <1>1, <1>3 DEF Unforgotten
  <2> QED BY <2>1, EndedKept
<1>4. CASE phase' = "read"
  <2> DEFINE U == Unforgotten
  <2>1. PICK k \in DOMAIN U : U[k].user_data = RecvTag(i) /\ U[k].res <= 0
    BY DEF Ended
  <2>2. U' = Tail(U)
    BY <1>1, <1>2, <1>4 DEF Unforgotten
  <2>3. k # 1
    <3>1. CompletionFailure(completion.user_data, cq.cqes[completion.ptr]) = "none"
      BY <1>1, <1>4 DEF OnCompletion
    <3>2. completion.user_data = U[1].user_data /\ cq.cqes[completion.ptr] = U[1]
      BY <1>1, <1>2, InHand
    <3>3. U[1].user_data = RecvTag(i) => U[1].res # 0
      <4>1. event_of(RecvTag(i)) # Send
        BY RecvTags DEF MultishortRecv, Send
      <4> QED BY <3>1, <3>2, <4>1 DEF CompletionFailure
    <3>4. U[1].res >= 0 /\ U[1].res \in Int
      BY <1>1, InHand
    <3> QED BY <2>1, <3>3, <3>4
  <2>4. k - 1 \in DOMAIN Tail(U) /\ Tail(U)[k - 1] = U[k]
    BY <1>1, <1>2, <2>1, <2>3
  <2> QED BY <2>1, <2>2, <2>4 DEF Ended
<1> QED BY <1>1, <1>3, <1>4

\* Steps that leave the receives alone
LEMMA RestAlive ==
  ASSUME LoopInv, AliveInv,
         \/ \E b \in BLOCKS : Write(b)
         \/ OnCompletion
         \/ Top \/ SkipWrite \/ SyscallFails \/ Peek \/ Wait \/ RawEvent
         \/ CqAdvance \/ ProtocolError \/ KernelFlush \/ UNCHANGED vars
  PROVE  AliveInv'
<1>1. /\ \A i \in Owners : Cardinality(Marked(Unforgotten, RecvTag(i))) \in Nat
      /\ Unforgotten \in Seq(CqEntry) /\ cq.overflow = <<>>
  BY WaitingType, LoopSizes DEF AliveInv
<1>2. UNCHANGED Unforgotten =>
        \A i \in Owners :
          /\ Cardinality(Marked(Unforgotten', RecvTag(i))) \in Nat
          /\ Cardinality(Marked(Unforgotten', RecvTag(i)))
               <= Cardinality(Marked(Unforgotten, RecvTag(i)))
  BY <1>1
<1>3. CASE \E b \in BLOCKS : Write(b)
  <2>1. PICK b \in BLOCKS : Write(b)
    BY <1>3
  <2>2. /\ UNCHANGED <<cq, recvs>> /\ phase = "ping" /\ phase' \in {"ping", "submit"}
    BY <2>1 DEF Write, Advance, kernelVars
  <2>3. UNCHANGED Unforgotten
    BY <2>2 DEF Unforgotten
  <2>4. PICK new : new.opcode = "SEND" /\ PreparedOps(sq') = PreparedOps(sq) \cup {new}
    BY <2>1, WriteKeeps
  <2>5. \A i \in Owners : RecvOf(i) \in PreparedOps(sq') <=> RecvOf(i) \in PreparedOps(sq)
    <3>1. \A i \in Owners : RecvOf(i).opcode = "RECV"
      BY DEF RecvOf
    <3> QED BY <2>4, <3>1
  <2> QED BY <1>1, <1>2, <2>2, <2>3, <2>5, EndedKept, ReceivesKept
<1>4. CASE OnCompletion
  <2>1. /\ UNCHANGED <<sq, cq, recvs>> /\ phase = "completed"
        /\ phase' \in {"completed", "read"}
    BY <1>4 DEF OnCompletion, kernelVars
  <2>2. Unforgotten = Contents(cq) /\ Unforgotten # <<>>
    BY <2>1, InHand
  <2>3. Unforgotten' = Unforgotten \/ Unforgotten' = Tail(Unforgotten)
    BY <2>1, <2>2 DEF Unforgotten
  <2>4. ASSUME NEW i \in Owners
        PROVE  /\ Cardinality(Marked(Unforgotten', RecvTag(i))) \in Nat
               /\ Cardinality(Marked(Unforgotten', RecvTag(i)))
                    <= Cardinality(Marked(Unforgotten, RecvTag(i)))
    <3>1. CASE Unforgotten' = Tail(Unforgotten)
      <4>1. Tail(Unforgotten) \in Seq(CqEntry)
        BY <1>1, <2>2
      <4>2. Cardinality(Marked(Tail(Unforgotten), RecvTag(i))) \in Nat
        BY <4>1, MarkedType
      <4>3. Cardinality(Marked(Tail(Unforgotten), RecvTag(i)))
              <= Cardinality(Marked(Unforgotten, RecvTag(i)))
        BY <1>1, <2>2, MarkedTail
      <4> QED BY <3>1, <4>2, <4>3
    <3>2. CASE UNCHANGED Unforgotten
      BY <1>2, <3>2
    <3> QED BY <2>3, <3>1, <3>2
  <2>5. ASSUME NEW i \in Owners, Ended(i)
        PROVE  Ended(i)'
    BY <1>4, <2>5, EndedStops
  <2> QED BY <1>1, <2>1, <2>4, <2>5, ReceivesKept
<1>5. CASE \/ Top \/ SkipWrite \/ SyscallFails \/ Peek \/ Wait \/ RawEvent
           \/ CqAdvance \/ ProtocolError \/ UNCHANGED vars
  <2>1. UNCHANGED <<sq, recvs, Unforgotten>>
    BY <1>5, QuietKeeps
  <2>2. phase' = "arm" <=> phase = "arm"
    BY <1>5 DEF Top, SkipWrite, SyscallFails, Peek, Wait, RawEvent, FromRawEvent, CqAdvance, ProtocolError,
                Advance, vars, loopVars, kernelVars
  <2>3. cq'.overflow = <<>>
    <3>1. CASE CqAdvance
      <4>1. cq \in CqType
        BY Types DEF LoopInv, BatchInv
      <4>2. cq' = [cq EXCEPT !.khead = (@ + 1) % CQ_MOD]
        BY <3>1 DEF CqAdvance, io_uring_cq_advance
      <4> QED BY <1>1, <4>1, <4>2 DEF CqType
    <3>2. CASE ~CqAdvance
      <4>1. UNCHANGED cq
        BY <1>5, <3>2 DEF Top, SkipWrite, SyscallFails, Peek, Wait, RawEvent, FromRawEvent, ProtocolError,
                          vars
      <4> QED BY <1>1, <4>1
    <3> QED BY <3>1, <3>2
  <2> QED BY <1>2, <2>1, <2>2, <2>3, EndedKept, ReceivesKept
<1>6. CASE KernelFlush
  BY <1>1, <1>6 DEF KernelFlush, CanFlush
<1> QED BY <1>3, <1>4, <1>5, <1>6

LEMMA AliveStep ==
  ASSUME LoopInv, AliveInv, EnoughRoom, [Next]_vars
  PROVE  AliveInv'
<1>1. CASE Arm
  BY <1>1, ArmAlive
<1>2. CASE Submit
  BY <1>2, SubmitAlive
<1>3. CASE (Outgoing \/ Incoming) /\ ~KernelFlush
  BY <1>3, KernelAlive
<1>4. CASE \/ \E b \in BLOCKS : Write(b)
           \/ OnCompletion
           \/ Top \/ SkipWrite \/ SyscallFails \/ Peek \/ Wait \/ RawEvent
           \/ CqAdvance \/ ProtocolError \/ KernelFlush \/ UNCHANGED vars
  BY <1>4, RestAlive
<1> QED BY <1>1, <1>2, <1>3, <1>4 DEF Next, Kernel, Loop, Between

\* With room for all that can be outstanding nothing overflows, and no stream
\* has more completions waiting than buffers, and one for its end.
THEOREM ReceivesInductive ==
  ASSUME EnoughRoom
  PROVE  Spec => []AliveInv
<1>1. Init => AliveInv
  BY InitAlive
<1>2. LoopInv /\ AliveInv /\ [Next]_vars => AliveInv'
  BY AliveStep
<1> QED BY <1>1, <1>2, LoopInductive, PTL DEF Spec

\* "read is polled by multishot recv" (net.rs:130): with room in the
\* completion ring for a completion of every buffer, every send and every
\* receive's end besides the one in hand, a stream has its receive until a
\* completion tells of its end, although nobody looks at IORING_CQE_F_MORE
\* (cqe.rs:20).
THEOREM ReceiveStaysArmed ==
  ASSUME EnoughRoom
  PROVE  Spec => []RecvAlive
<1>1. LoopInv /\ AliveInv => RecvAlive
  <2> SUFFICES ASSUME LoopInv, AliveInv, phase # "arm", NEW i \in Owners, ~Ended(i)
               PROVE  \E op \in Ops : op.opcode = "RECV" /\ op.fd = i
    BY DEF RecvAlive
  <2>1. RecvOf(i) \in PreparedOps(sq) \cup recvs
    BY DEF AliveInv, Receiving
  <2>2. RecvOf(i).opcode = "RECV" /\ RecvOf(i).fd = i
    BY DEF RecvOf
  <2> QED BY <2>1, <2>2 DEF Ops
<1> QED BY <1>1, LoopInductive, ReceivesInductive, PTL
=============================================================================
