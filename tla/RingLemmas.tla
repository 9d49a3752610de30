----------------------------- MODULE RingLemmas -----------------------------
(***************************************************************************)
(* Arithmetic of ring indices: what wrapping a counter at w, and reducing  *)
(* it to one of n slots, keeps of it.  Everything follows from the unique  *)
(* decomposition of a number into a quotient and a remainder.  Then        *)
(* induction over the natural numbers, as facts about sets of them, and    *)
(* what all proofs about buffer rings need of their slots and tails.       *)
(***************************************************************************)
EXTENDS BufRing, WellFoundedInduction, TLAPS

LEMMA Decompose ==
  ASSUME NEW n \in Nat \ {0}, NEW c \in Nat
  PROVE  /\ c \div n \in Nat
         /\ c % n \in 0 .. n - 1
         /\ c = n * (c \div n) + (c % n)
  OBVIOUS

LEMMA Remainder ==
  ASSUME NEW n \in Nat \ {0}, NEW q \in Nat, NEW r \in 0 .. n - 1
  PROVE  (n * q + r) % n = r
  OBVIOUS

\* A counter below the modulus is not changed by wrapping it.
LEMMA ModSmall ==
  ASSUME NEW n \in Nat \ {0}, NEW c \in 0 .. n - 1
  PROVE  c % n = c
  OBVIOUS

LEMMA ModLap ==
  ASSUME NEW n \in Nat \ {0}, NEW c \in Nat
  PROVE  (c + n) % n = c % n
<1> DEFINE q == c \div n
           r == c % n
<1>1. q \in Nat /\ r \in 0 .. n - 1 /\ c = n * q + r
  BY Decompose
<1> HIDE DEF q, r
<1>2. q + 1 \in Nat /\ c + n = n * (q + 1) + r
  BY <1>1
<1>3. (c + n) % n = r
  BY <1>1, <1>2, Remainder
<1> QED BY <1>3 DEF r

\* Wrapping may be done after every increment or once at the end.
LEMMA ModStep ==
  ASSUME NEW n \in Nat \ {0}, NEW c \in Nat
  PROVE  ((c % n) + 1) % n = (c + 1) % n
<1> DEFINE q == c \div n
           r == c % n
<1>1. q \in Nat /\ r \in 0 .. n - 1 /\ c = n * q + r
  BY Decompose
<1> HIDE DEF q, r
<1>2. CASE r + 1 = n
  <2>1. (c + 1) % n = 0
    <3>1. q + 1 \in Nat /\ 0 \in 0 .. n - 1 /\ c + 1 = n * (q + 1) + 0
      BY <1>1, <1>2
    <3> QED BY <3>1, Remainder
  <2>2. (r + 1) % n = 0
    <3>1. 0 \in 0 .. n - 1 /\ r + 1 = n * 1 + 0
      BY <1>1, <1>2
    <3> QED BY <3>1, Remainder
  <2> QED BY <2>1, <2>2 DEF r
<1>3. CASE r + 1 < n
  <2>1. r + 1 \in 0 .. n - 1 /\ c + 1 = n * q + (r + 1)
    BY <1>1, <1>3
  <2>2. (c + 1) % n = r + 1
    BY <1>1, <2>1, Remainder
  <2>3. (r + 1) % n = r + 1
    BY <2>1, ModSmall
  <2> QED BY <2>2, <2>3 DEF r
<1> QED BY <1>1, <1>2, <1>3

\* A counter that wraps at a multiple of n still knows its slot.
LEMMA ModMod ==
  ASSUME NEW n \in Nat \ {0}, NEW k \in Nat \ {0}, NEW c \in Nat
  PROVE  (c % (k * n)) % n = c % n
<1> DEFINE w == k * n
           q == c \div w
           r == c % w
<1>1. w \in Nat \ {0}
  OBVIOUS
<1> HIDE DEF w
<1>2. q \in Nat /\ r \in 0 .. w - 1 /\ c = w * q + r
  BY <1>1, Decompose
<1> DEFINE p == r \div n
           s == r % n
<1>3. r \in Nat
  BY <1>1, <1>2
<1> HIDE DEF q, r
<1>4. p \in Nat /\ s \in 0 .. n - 1 /\ r = n * p + s
  BY <1>3, Decompose
<1> HIDE DEF p, s
<1>5. k * q + p \in Nat
  BY <1>2, <1>4
<1>6. c = n * (k * q + p) + s
  BY <1>1, <1>2, <1>4 DEF w
<1>7. c % n = s
  BY <1>4, <1>5, <1>6, Remainder
<1> QED BY <1>7 DEF s, r, w

\* Two counters less than n apart have different slots.
LEMMA ModDistinct ==
  ASSUME NEW n \in Nat \ {0}, NEW c \in Nat, NEW e \in 1 .. n - 1
  PROVE  (c + e) % n # c % n
<1> DEFINE q == c \div n
           r == c % n
<1>1. q \in Nat /\ r \in 0 .. n - 1 /\ c = n * q + r
  BY Decompose
<1> HIDE DEF q, r
<1>2. CASE r + e < n
  <2>1. r + e \in 0 .. n - 1 /\ c + e = n * q + (r + e)
    BY <1>1, <1>2
  <2>2. (c + e) % n = r + e
    BY <1>1, <2>1, Remainder
  <2> QED BY <1>1, <2>2 DEF r
<1>3. CASE r + e >= n
  <2>1. q + 1 \in Nat /\ r + e - n \in 0 .. n - 1 /\ c + e = n * (q + 1) + (r + e - n)
    BY <1>1, <1>3
  <2>2. (c + e) % n = r + e - n
    BY <2>1, Remainder
  <2> QED BY <1>1, <2>2 DEF r
<1> QED BY <1>1, <1>2, <1>3

LEMMA IntRemainder ==
  ASSUME NEW n \in Nat \ {0}, NEW q \in Int, NEW r \in 0 .. n - 1
  PROVE  (n * q + r) % n = r
  OBVIOUS

\* The distance of two counters survives the wrap of both, if it is below it.
LEMMA ModDistance ==
  ASSUME NEW n \in Nat \ {0}, NEW c \in Nat, NEW d \in 0 .. n - 1
  PROVE  (((c + d) % n) - (c % n)) % n = d
<1> DEFINE e == c + d
           q == c \div n
           r == c % n
           p == e \div n
           s == e % n
<1>1. e \in Nat
  OBVIOUS
<1>2. q \in Nat /\ r \in 0 .. n - 1 /\ c = n * q + r
  BY Decompose
<1> HIDE DEF e
<1>3. p \in Nat /\ s \in 0 .. n - 1 /\ e = n * p + s
  BY <1>1, Decompose
<1> HIDE DEF p, q, r, s
<1>4. q - p \in Int /\ s - r = n * (q - p) + d
  BY <1>2, <1>3 DEF e
<1>5. (s - r) % n = d
  BY <1>4, IntRemainder
<1> QED BY <1>5 DEF s, r, e

\* A tail is as far from its head as it is ahead of it, wrapped.
LEMMA ModTail ==
  ASSUME NEW n \in Nat \ {0}, NEW h \in 0 .. n - 1, NEW t \in 0 .. n - 1
  PROVE  (t - h) % n \in 0 .. n - 1 /\ t = (h + ((t - h) % n)) % n
<1>1. CASE h <= t
  <2>1. t - h \in 0 .. n - 1
    BY <1>1
  <2>2. (t - h) % n = t - h
    BY <2>1, ModSmall
  <2>3. h + (t - h) = t /\ t % n = t
    BY ModSmall
  <2> QED BY <2>1, <2>2, <2>3
<1>2. CASE t < h
  <2>1. t - h + n \in 0 .. n - 1 /\ t - h = n * (-1) + (t - h + n)
    BY <1>2
  <2>2. (n * (-1) + (t - h + n)) % n = t - h + n
    BY <2>1, IntRemainder
  <2>3. h + (t - h + n) = t + n /\ t \in Nat
    OBVIOUS
  <2>4. (t + n) % n = t % n /\ t % n = t
    BY <2>3, ModLap, ModSmall
  <2> QED BY <2>1, <2>2, <2>3, <2>4
<1> QED BY <1>1, <1>2

\* A step of the tail takes it one further from the head.
LEMMA ModNext ==
  ASSUME NEW n \in Nat \ {0}, NEW h \in 0 .. n - 1, NEW t \in 0 .. n - 1,
         ((t - h) % n) + 1 < n
  PROVE  (((t + 1) % n) - h) % n = ((t - h) % n) + 1
<1> DEFINE r == (t - h) % n
<1>1. r \in 0 .. n - 1 /\ t = (h + r) % n
  BY ModTail
<1> HIDE DEF r
<1>2. r + 1 \in 0 .. n - 1
  BY <1>1 DEF r
<1>3. PICK c \in Nat : c = h + r
  BY <1>1
<1>4. ((c % n) + 1) % n = (c + 1) % n
  BY ModStep
<1>5. c + 1 = h + (r + 1) /\ h \in Nat
  BY <1>1, <1>3
<1>6. (((h + (r + 1)) % n) - (h % n)) % n = r + 1
  BY <1>2, <1>5, ModDistance
<1>7. h % n = h
  BY ModSmall
<1> QED BY <1>1, <1>3, <1>4, <1>5, <1>6, <1>7 DEF r

\* An offset from a counter that wraps at a multiple of n has the same slot.
LEMMA ModOffset ==
  ASSUME NEW n \in Nat \ {0}, NEW k \in Nat \ {0}, NEW c \in Nat, NEW d \in Nat
  PROVE  ((c % (k * n)) + d) % n = (c + d) % n
<1> DEFINE w == k * n
           q == c \div w
           r == c % w
<1>1. w \in Nat \ {0}
  OBVIOUS
<1> HIDE DEF w
<1>2. q \in Nat /\ r \in 0 .. w - 1 /\ c = w * q + r
  BY <1>1, Decompose
<1> HIDE DEF q, r
<1> DEFINE p == (r + d) \div n
           s == (r + d) % n
<1>3. r + d \in Nat
  BY <1>1, <1>2
<1>4. p \in Nat /\ s \in 0 .. n - 1 /\ r + d = n * p + s
  BY <1>3, Decompose
<1> HIDE DEF p, s
<1>5. k * q + p \in Nat
  BY <1>2, <1>4
<1>6. c + d = n * (k * q + p) + s
  BY <1>1, <1>2, <1>4 DEF w
<1>7. (c + d) % n = s
  BY <1>4, <1>5, <1>6, Remainder
<1> QED BY <1>7 DEF s, r, w

\* Any n consecutive counters reach every slot.
LEMMA ModCover ==
  ASSUME NEW n \in Nat \ {0}, NEW c \in Nat, NEW b \in 0 .. n - 1
  PROVE  \E d \in c .. c + n - 1 : d % n = b
<1> DEFINE q == c \div n
           r == c % n
<1>1. q \in Nat /\ r \in 0 .. n - 1 /\ c = n * q + r
  BY Decompose
<1> HIDE DEF q, r
<1>2. CASE r <= b
  <2>1. n * q + b \in c .. c + n - 1 /\ (n * q + b) % n = b
    BY <1>1, <1>2, Remainder
  <2> QED BY <2>1
<1>3. CASE b < r
  <2>1. q + 1 \in Nat
    BY <1>1
  <2>2. (n * (q + 1) + b) % n = b
    BY <2>1, Remainder
  <2>3. n * (q + 1) + b = n * q + n + b
    BY <1>1
  <2>4. n * q + n + b \in c .. c + n - 1
    <3> DEFINE m == n * q
    <3>1. m \in Nat /\ c = m + r
      BY <1>1
    <3> HIDE DEF m
    <3>2. m + n + b \in c .. c + n - 1
      BY <1>1, <1>3, <3>1
    <3> QED BY <3>2 DEF m
  <2> QED BY <2>2, <2>3, <2>4
<1> QED BY <1>1, <1>2, <1>3

-----------------------------------------------------------------------------
(***************************************************************************)
(* Induction.                                                              *)
(***************************************************************************)

LEMMA LeastNat ==
  ASSUME NEW S \in SUBSET Nat, S # {}
  PROVE  \E m \in S : \A k \in S : m <= k
<1> DEFINE R == OpToRel(<, Nat)
<1>1. IsWellFoundedOn(R, Nat)
  BY NatLessThanWellFounded
<1>2. \A x, y \in Nat : <<x, y>> \in R <=> x < y
  BY DEF OpToRel
<1> HIDE DEF R
<1>3. PICK m \in S : \A y \in S : ~(<<y, m>> \in R)
  BY <1>1, WFMin
<1>4. \A k \in S : k \in Nat
  OBVIOUS
<1>5. \A k \in S : ~(k < m)
  BY <1>2, <1>3, <1>4
<1> QED BY <1>4, <1>5, SMT

\* A set of numbers that has 0, and with a number below n the next, has all
\* numbers up to n.
LEMMA UpTo ==
  ASSUME NEW n \in Nat, NEW S, 0 \in S, \A k \in 1 .. n : k - 1 \in S => k \in S
  PROVE  \A k \in 0 .. n : k \in S
<1> DEFINE Bad == {k \in 0 .. n : k \notin S}
<1> SUFFICES ASSUME Bad # {} PROVE FALSE
  OBVIOUS
<1>1. PICK m \in Bad : \A k \in Bad : m <= k
  <2>1. Bad \in SUBSET Nat
    OBVIOUS
  <2> HIDE DEF Bad
  <2> QED BY <2>1, LeastNat
<1>2. m \in 1 .. n /\ m - 1 \in 0 .. n /\ m \notin S
  <2>1. m \in 0 .. n /\ m \notin S
    BY <1>1
  <2>2. m # 0
    BY <2>1
  <2> QED BY <2>1, <2>2
<1>3. m - 1 \in S
  BY <1>1, <1>2
<1> QED BY <1>2, <1>3

\* f is defined by its value at 0 and the step from a value to the next.
Stepwise(f, n, a, step) == f[0] = a /\ \A k \in 1 .. n : f[k] = step[<<k, f[k - 1]>>]

LEMMA ByRecursion ==
  ASSUME NEW n \in Nat, NEW S, NEW a \in S, NEW step \in [(1 .. n) \X S -> S]
  PROVE  \E f \in [0 .. n -> S] : Stepwise(f, n, a, step)
<1> DEFINE P(m) == \E f \in [0 .. m -> S] :
                     f[0] = a /\ \A k \in 1 .. m : f[k] = step[<<k, f[k - 1]>>]
           T == {m \in 0 .. n : P(m)}
<1>1. P(0)
  <2>1. [k \in 0 .. 0 |-> a] \in [0 .. 0 -> S] /\ 1 .. 0 = {} /\ [k \in 0 .. 0 |-> a][0] = a
    OBVIOUS
  <2> QED BY <2>1
<1>2. ASSUME NEW m \in 1 .. n, P(m - 1) PROVE P(m)
  <2>1. PICK f \in [0 .. m - 1 -> S] :
          f[0] = a /\ \A k \in 1 .. m - 1 : f[k] = step[<<k, f[k - 1]>>]
    BY <1>2
  <2> DEFINE g == [k \in 0 .. m |-> IF k < m THEN f[k] ELSE step[<<m, f[m - 1]>>]]
  <2>2. m - 1 \in 0 .. m - 1 /\ m \in Nat
    OBVIOUS
  <2>3. step[<<m, f[m - 1]>>] \in S
    BY <2>2
  <2>4. g \in [0 .. m -> S]
    BY <2>2, <2>3
  <2>5. g[0] = a
    BY <2>1, <2>2
  <2>6. ASSUME NEW k \in 1 .. m PROVE g[k] = step[<<k, g[k - 1]>>]
    <3>1. CASE k < m
      BY <2>1, <2>2, <3>1
    <3>2. CASE k = m
      <4>1. g[m] = step[<<m, f[m - 1]>>] /\ g[m - 1] = f[m - 1]
        BY <2>2
      <4> HIDE DEF g, P, T
      <4> QED BY <3>2, <4>1
    <3> QED BY <2>2, <3>1, <3>2
  <2> HIDE DEF g
  <2> QED BY <2>4, <2>5, <2>6
<1> HIDE DEF P
<1>3. 0 \in T /\ \A k \in 1 .. n : k - 1 \in T => k \in T
  BY <1>1, <1>2
<1> HIDE DEF T
<1>4. n \in T
  BY <1>3, UpTo
<1> QED BY <1>4 DEF T, P, Stepwise

-----------------------------------------------------------------------------
(***************************************************************************)
(* The slots and the tail of a buffer ring.                                *)
(***************************************************************************)
LEMMA Sizes ==
  /\ RING_POOL_SIZE \in Nat \ {0}
  /\ BUF_SIZE \in Nat \ {0}
  /\ TAIL_MOD \in Nat \ {0}
  /\ RING_POOL_SIZE < TAIL_MOD
  /\ 0 \in Slots /\ 0 \in Tails
<1>1. PICK laps \in 2 .. TAIL_MOD : TAIL_MOD = laps * RING_POOL_SIZE
  BY RingAssumption
<1>2. RING_POOL_SIZE \in Nat \ {0} /\ BUF_SIZE \in Nat \ {0} /\ TAIL_MOD \in Nat \ {0}
  BY RingAssumption
<1>3. RING_POOL_SIZE < TAIL_MOD
  BY <1>1, <1>2
<1> QED BY <1>2, <1>3 DEF Slots, Tails

LEMMA SlotType ==
  ASSUME NEW c \in Nat
  PROVE  SlotIndex(c) \in Slots
BY Sizes, Decompose DEF SlotIndex, Slots

LEMMA SlotLap ==
  ASSUME NEW c \in Nat
  PROVE  SlotIndex(c + RING_POOL_SIZE) = SlotIndex(c)
BY Sizes, ModLap DEF SlotIndex

LEMMA SlotSmall ==
  ASSUME NEW s \in Slots
  PROVE  SlotIndex(s) = s
BY Sizes, ModSmall DEF SlotIndex, Slots

LEMMA SlotDistinct ==
  ASSUME NEW c \in Nat, NEW d \in Nat, c < d, d - c < RING_POOL_SIZE
  PROVE  SlotIndex(c) # SlotIndex(d)
<1>1. d - c \in 1 .. RING_POOL_SIZE - 1 /\ d = c + (d - c)
  BY Sizes
<1>2. (c + (d - c)) % RING_POOL_SIZE # c % RING_POOL_SIZE
  BY <1>1, Sizes, ModDistinct
<1> QED BY <1>1, <1>2 DEF SlotIndex

\* The slot of a wrapped tail is the slot of the counter it stands for.
LEMMA SlotWrapped ==
  ASSUME NEW c \in Nat
  PROVE  SlotIndex(c % TAIL_MOD) = SlotIndex(c)
<1>1. PICK laps \in 2 .. TAIL_MOD : TAIL_MOD = laps * RING_POOL_SIZE
  BY RingAssumption
<1>2. laps \in Nat \ {0}
  BY <1>1, Sizes
<1>3. (c % (laps * RING_POOL_SIZE)) % RING_POOL_SIZE = c % RING_POOL_SIZE
  BY <1>2, Sizes, ModMod
<1> QED BY <1>1, <1>3 DEF SlotIndex

\* So is the slot at an offset from it.
LEMMA SlotOffset ==
  ASSUME NEW c \in Nat, NEW d \in Nat
  PROVE  SlotIndex((c % TAIL_MOD) + d) = SlotIndex(c + d)
<1>1. PICK laps \in 2 .. TAIL_MOD : TAIL_MOD = laps * RING_POOL_SIZE
  BY RingAssumption
<1>2. laps \in Nat \ {0}
  BY <1>1, Sizes
<1>3. \A n, k \in Nat \ {0} : ((c % (k * n)) + d) % n = (c + d) % n
  BY ModOffset
<1>4. ((c % (laps * RING_POOL_SIZE)) + d) % RING_POOL_SIZE = (c + d) % RING_POOL_SIZE
  BY <1>2, <1>3, Sizes
<1> QED BY <1>1, <1>4 DEF SlotIndex

LEMMA TailType ==
  ASSUME NEW c \in Nat
  PROVE  c % TAIL_MOD \in Tails
BY Sizes, Decompose DEF Tails

LEMMA TailStep ==
  ASSUME NEW c \in Nat
  PROVE  ((c % TAIL_MOD) + 1) % TAIL_MOD = (c + 1) % TAIL_MOD
BY Sizes, ModStep

\* The distance from a head to a tail
LEMMA HeadToTail ==
  ASSUME NEW h \in Tails, NEW t \in Tails
  PROVE  /\ (t - h) % TAIL_MOD \in 0 .. TAIL_MOD - 1
         /\ t = (h + ((t - h) % TAIL_MOD)) % TAIL_MOD
         /\ (t - h) % TAIL_MOD = 0 => h = t
         /\ \A d \in Nat : SlotIndex(t + d) = SlotIndex(h + ((t - h) % TAIL_MOD) + d)
<1> DEFINE n == (t - h) % TAIL_MOD
<1>1. h \in 0 .. TAIL_MOD - 1 /\ t \in 0 .. TAIL_MOD - 1 /\ TAIL_MOD \in Nat \ {0}
  BY Sizes DEF Tails
<1>2. n \in 0 .. TAIL_MOD - 1 /\ t = (h + n) % TAIL_MOD
  BY <1>1, ModTail
<1> HIDE DEF n
<1>3. n = 0 => h = t
  <2>1. h % TAIL_MOD = h
    BY <1>1, ModSmall
  <2>2. h + 0 = h
    BY <1>1
  <2> QED BY <1>2, <2>1, <2>2
<1>4. \A d \in Nat : SlotIndex(t + d) = SlotIndex(h + n + d)
  <2>1. h + n \in Nat
    BY <1>1, <1>2
  <2> QED BY <1>2, <2>1, SlotOffset
<1> QED BY <1>2, <1>3, <1>4 DEF n

\* It shrinks by one when the head moves, and grows by one when the tail does.
LEMMA HeadMoves ==
  ASSUME NEW h \in Tails, NEW t \in Tails, h # t
  PROVE  (t - ((h + 1) % TAIL_MOD)) % TAIL_MOD = ((t - h) % TAIL_MOD) - 1
<1> DEFINE n == (t - h) % TAIL_MOD
           d == n - 1
<1>1. h \in Nat /\ TAIL_MOD \in Nat \ {0}
  BY Sizes DEF Tails
<1>2. n \in 0 .. TAIL_MOD - 1 /\ n # 0 /\ t = (h + n) % TAIL_MOD
  BY HeadToTail
<1> HIDE DEF n
<1>3. d \in 0 .. TAIL_MOD - 1 /\ h + 1 \in Nat /\ h + 1 + d = h + n
  BY <1>1, <1>2
<1> HIDE DEF d
<1>4. (((h + 1 + d) % TAIL_MOD) - ((h + 1) % TAIL_MOD)) % TAIL_MOD = d
  BY <1>1, <1>3, ModDistance
<1> QED BY <1>2, <1>3, <1>4 DEF n, d

LEMMA TailMoves ==
  ASSUME NEW h \in Tails, NEW t \in Tails, ((t - h) % TAIL_MOD) + 1 < TAIL_MOD
  PROVE  (((t + 1) % TAIL_MOD) - h) % TAIL_MOD = ((t - h) % TAIL_MOD) + 1
<1>1. h \in 0 .. TAIL_MOD - 1 /\ t \in 0 .. TAIL_MOD - 1 /\ TAIL_MOD \in Nat \ {0}
  BY Sizes DEF Tails
<1> QED BY <1>1, ModNext
=============================================================================
