-------------------------- MODULE FirstProbeProofs --------------------------
(***************************************************************************)
(* Proofs about FirstProbe and its WebsocketHandler, for every pool, slice *)
(* and record size and every sequence of frames: ProbeInv is inductive,    *)
(* and with it a buffer has one owner, rustls is given the wire's bytes as *)
(* a stream, and every text is returned once, in order and in time.        *)
(***************************************************************************)
EXTENDS FirstProbeInv, RingLemmas, SequenceTheorems, FiniteSetTheorems

-----------------------------------------------------------------------------
(***************************************************************************)
(* The frames.                                                             *)
(***************************************************************************)

LEMMA FrameTypes ==
  /\ HEADER_LEN \in Nat /\ HEADER_LEN >= 1
  /\ Len(FRAMES) \in Nat
  /\ \A f \in 1 .. Len(FRAMES) :
       FRAMES[f].opcode \in Opcodes /\ FRAMES[f].fin \in BOOLEAN /\ FRAMES[f].len \in Nat
<1> DEFINE S == [opcode : Opcodes, fin : BOOLEAN, len : Nat]
<1>1. FRAMES \in Seq(S)
  BY FramesAssumption
<1>2. ASSUME NEW f \in 1 .. Len(FRAMES) PROVE FRAMES[f] \in S
  <2> HIDE DEF S
  <2> QED BY <1>1
<1>3. HEADER_LEN \in Nat /\ HEADER_LEN >= 1
  BY FramesAssumption
<1>4. Len(FRAMES) \in Nat
  <2> HIDE DEF S
  <2> QED BY <1>1
<1> QED BY <1>2, <1>3, <1>4

LEMMA FrameStarts ==
  /\ FrameStart \in [1 .. Len(FRAMES) + 1 -> Nat]
  /\ FrameStart[1] = 0
  /\ \A f \in 1 .. Len(FRAMES) : FrameStart[f + 1] = FrameStart[f] + HEADER_LEN + FRAMES[f].len
<1> DEFINE n == Len(FRAMES)
           step == [x \in (1 .. n) \X Nat |-> x[2] + HEADER_LEN + FRAMES[x[1]].len]
           Eq(g) == g = [f \in 1 .. n + 1 |->
                           IF f = 1 THEN 0 ELSE g[f - 1] + HEADER_LEN + FRAMES[f - 1].len]
<1>1. n \in Nat /\ step \in [(1 .. n) \X Nat -> Nat]
  BY FrameTypes
<1>2. \A k \in 1 .. n, s \in Nat : step[<<k, s>>] = s + HEADER_LEN + FRAMES[k].len
  OBVIOUS
<1> HIDE DEF step
<1>3. PICK h \in [0 .. n -> Nat] : h[0] = 0 /\ \A k \in 1 .. n : h[k] = step[<<k, h[k - 1]>>]
  <2> HIDE DEF n
  <2>1. 0 \in Nat
    OBVIOUS
  <2>2. \E h \in [0 .. n -> Nat] : Stepwise(h, n, 0, step)
    BY <1>1, <2>1, ByRecursion, Zenon
  <2> QED BY <2>2 DEF Stepwise
<1> DEFINE g == [f \in 1 .. n + 1 |-> h[f - 1]]
<1> HIDE DEF n
<1>4. Eq(g)
  <2>1. ASSUME NEW f \in 1 .. n + 1
        PROVE  g[f] = IF f = 1 THEN 0 ELSE g[f - 1] + HEADER_LEN + FRAMES[f - 1].len
    <3>1. CASE f = 1
      BY <1>1, <1>3, <3>1
    <3>2. CASE f # 1
      <4>1. f - 1 \in 1 .. n /\ f - 1 \in 1 .. n + 1 /\ (f - 1) - 1 \in 0 .. n
        BY <1>1, <3>2
      <4>2. h[f - 1] = h[(f - 1) - 1] + HEADER_LEN + FRAMES[f - 1].len
        BY <1>2, <1>3, <4>1
      <4> QED BY <3>2, <4>1, <4>2
    <3> QED BY <3>1, <3>2
  <2> QED BY <2>1
<1> HIDE DEF g
<1>5. Eq(FrameStart)
  <2>1. FrameStart = CHOOSE FS : Eq(FS)
    BY DEF FrameStart, n
  <2> HIDE DEF Eq
  <2> QED BY <1>4, <2>1
<1>6. \A f \in 1 .. n + 1 :
        FrameStart[f] = IF f = 1 THEN 0 ELSE FrameStart[f - 1] + HEADER_LEN + FRAMES[f - 1].len
  BY <1>5
<1>7. FrameStart[1] = 0
  BY <1>1, <1>6
<1>8. \A f \in 1 .. n : FrameStart[f + 1] = FrameStart[f] + HEADER_LEN + FRAMES[f].len
  <2> TAKE f \in 1 .. n
  <2>1. f + 1 \in 1 .. n + 1 /\ f + 1 # 1 /\ (f + 1) - 1 = f
    BY <1>1
  <2> QED BY <1>6, <2>1
<1>9. \A f \in 1 .. n + 1 : FrameStart[f] \in Nat
  <2> DEFINE S == {k \in 0 .. n : FrameStart[k + 1] \in Nat}
  <2>1. 0 \in S
    BY <1>1, <1>7
  <2>2. ASSUME NEW k \in 1 .. n, k - 1 \in S PROVE k \in S
    <3>1. (k - 1) + 1 = k /\ k \in 0 .. n
      BY <1>1
    <3> QED BY <1>8, <2>2, <3>1, FrameTypes DEF n
  <2> HIDE DEF S
  <2>3. \A k \in 0 .. n : k \in S
    BY <1>1, <2>1, <2>2, UpTo
  <2> TAKE f \in 1 .. n + 1
  <2>4. f - 1 \in S /\ (f - 1) + 1 = f
    BY <1>1, <2>3
  <2> QED BY <2>4 DEF S
<1>10. FrameStart \in [1 .. n + 1 -> Nat]
  <2> HIDE DEF Eq
  <2>1. FrameStart = [f \in 1 .. n + 1 |-> FrameStart[f]]
    BY <1>5 DEF Eq
  <2> QED BY <1>9, <2>1
<1> QED BY <1>7, <1>8, <1>10 DEF n

\* A later frame starts no earlier than the end of one before it.
LEMMA StartsMonotone ==
  ASSUME NEW f \in 1 .. Len(FRAMES) + 1, NEW g \in 1 .. Len(FRAMES) + 1, f <= g
  PROVE  FrameStart[f] <= FrameStart[g]
<1> DEFINE n == Len(FRAMES)
           S == {k \in 0 .. g - f : FrameStart[f] <= FrameStart[f + k]}
<1>1. n \in Nat /\ g - f \in Nat
  BY FrameTypes
<1>2. 0 \in S
  <2>1. f + 0 = f /\ FrameStart[f] \in Nat
    BY FrameStarts
  <2> QED BY <1>1, <2>1
<1>3. ASSUME NEW k \in 1 .. g - f, k - 1 \in S PROVE k \in S
  <2> DEFINE e == f + (k - 1)
  <2>1. e \in 1 .. n /\ e + 1 = f + k /\ k \in 0 .. g - f /\ e \in 1 .. n + 1
    BY <1>1
  <2>2. FrameStart[f] <= FrameStart[e]
    BY <1>3
  <2> HIDE DEF e
  <2>3. FrameStart[e + 1] = FrameStart[e] + HEADER_LEN + FRAMES[e].len
    BY <2>1, FrameStarts
  <2>4. FrameStart[f] \in Nat /\ FrameStart[e] \in Nat
    BY <2>1, FrameStarts
  <2> QED BY <2>1, <2>2, <2>3, <2>4, FrameTypes
<1>4. g - f \in S
  <2> DEFINE m == g - f
  <2>1. m \in Nat /\ 0 \in S /\ \A k \in 1 .. m : k - 1 \in S => k \in S
    BY <1>1, <1>2, <1>3
  <2>2. m \in 0 .. m
    BY <2>1
  <2> HIDE DEF m, S
  <2>3. \A k \in 0 .. m : k \in S
    BY <2>1, UpTo
  <2> QED BY <2>2, <2>3 DEF m
<1> QED BY <1>4 DEF S

LEMMA BytesType ==
  ASSUME NEW first \in Nat, NEW len \in Nat
  PROVE  /\ Bytes(first, len) \in Seq(Nat)
         /\ Len(Bytes(first, len)) = len
         /\ \A j \in 1 .. len : Bytes(first, len)[j] = first + j - 1
BY DEF Bytes

LEMMA BytesJoin ==
  ASSUME NEW first \in Nat, NEW m \in Nat, NEW n \in Nat
  PROVE  Bytes(first, m) \o Bytes(first + m, n) = Bytes(first, m + n)
<1> DEFINE a == Bytes(first, m)
           b == Bytes(first + m, n)
           c == Bytes(first, m + n)
<1>1. /\ a \in Seq(Nat) /\ Len(a) = m /\ \A j \in 1 .. m : a[j] = first + j - 1
      /\ b \in Seq(Nat) /\ Len(b) = n /\ \A j \in 1 .. n : b[j] = first + m + j - 1
      /\ c \in Seq(Nat) /\ Len(c) = m + n /\ \A j \in 1 .. m + n : c[j] = first + j - 1
  <2>1. first + m \in Nat /\ m + n \in Nat
    OBVIOUS
  <2> QED BY <2>1, BytesType
<1> HIDE DEF a, b, c
<1>2. /\ a \o b \in Seq(Nat) /\ Len(a \o b) = m + n
      /\ \A j \in 1 .. m + n : (a \o b)[j] = IF j <= m THEN a[j] ELSE b[j - m]
  BY <1>1, ConcatProperties
<1>3. \A j \in 1 .. m + n : (a \o b)[j] = c[j]
  <2> TAKE j \in 1 .. m + n
  <2>1. CASE j <= m
    BY <1>1, <1>2, <2>1
  <2>2. CASE j > m
    <3>1. j - m \in 1 .. n /\ first + m + (j - m) - 1 = first + j - 1
      BY <2>2
    <3> QED BY <1>1, <1>2, <2>2, <3>1
  <2>3. j <= m \/ j > m
    OBVIOUS
  <2> QED BY <2>1, <2>2, <2>3, Zenon
<1>4. a \o b = c
  BY <1>1, <1>2, <1>3, SeqEqual
<1> QED BY <1>4 DEF a, b, c

\* Cutting a slice
LEMMA BytesCut ==
  ASSUME NEW first \in Nat, NEW len \in Nat, NEW n \in 0 .. len
  PROVE  /\ SubSeq(Bytes(first, len), 1, n) = Bytes(first, n)
         /\ SubSeq(Bytes(first, len), n + 1, len) = Bytes(first + n, len - n)
<1> DEFINE c == Bytes(first, len)
           a == Bytes(first, n)
           b == Bytes(first + n, len - n)
<1>1. /\ c \in Seq(Nat) /\ Len(c) = len /\ \A j \in 1 .. len : c[j] = first + j - 1
      /\ a \in Seq(Nat) /\ Len(a) = n /\ \A j \in 1 .. n : a[j] = first + j - 1
      /\ b \in Seq(Nat) /\ Len(b) = len - n /\ \A j \in 1 .. len - n : b[j] = first + n + j - 1
  <2>1. first + n \in Nat /\ len - n \in Nat /\ n \in Nat
    OBVIOUS
  <2> QED BY <2>1, BytesType
<1> HIDE DEF a, b, c
<1>2. SubSeq(c, 1, n) = a
  <2>1. /\ SubSeq(c, 1, n) \in Seq(Nat) /\ Len(SubSeq(c, 1, n)) = n
        /\ \A j \in 1 .. n : SubSeq(c, 1, n)[j] = c[j]
    BY <1>1
  <2> QED BY <1>1, <2>1
<1>3. SubSeq(c, n + 1, len) = b
  <2>1. /\ SubSeq(c, n + 1, len) \in Seq(Nat) /\ Len(SubSeq(c, n + 1, len)) = len - n
        /\ \A j \in 1 .. len - n : SubSeq(c, n + 1, len)[j] = c[n + j]
    BY <1>1
  <2> QED BY <1>1, <2>1
<1> QED BY <1>2, <1>3 DEF a, b, c

-----------------------------------------------------------------------------
(***************************************************************************)
(* The texts of the first frames.                                          *)
(***************************************************************************)

IsText(f) == FRAMES[f].opcode = "Text" /\ FRAMES[f].fin

\* The texts of the first k frames
TextsOf[k \in 0 .. Len(FRAMES)] ==
  IF k = 0 THEN <<>>
  ELSE IF IsText(k) THEN Append(TextsOf[k - 1], Payload(k)) ELSE TextsOf[k - 1]

\* F[k] is the payloads of those of the first k frames that P picks.
Collects(F, P) ==
  F = [k \in 0 .. Len(FRAMES) |->
         IF k = 0 THEN <<>>
         ELSE IF P[k] THEN Append(F[k - 1], Payload(k)) ELSE F[k - 1]]

LEMMA PayloadType ==
  ASSUME NEW k \in 1 .. Len(FRAMES)
  PROVE  Payload(k) \in Seq(Nat)
<1>1. k \in 1 .. Len(FRAMES) + 1
  BY FrameTypes
<1>2. FrameStart[k] \in Nat /\ HEADER_LEN \in Nat /\ FRAMES[k].len \in Nat
  BY <1>1, FrameStarts, FrameTypes
<1>3. FrameStart[k] + HEADER_LEN \in Nat
  BY <1>2
<1> QED BY <1>2, <1>3, BytesType DEF Payload

LEMMA CollectsExists ==
  ASSUME NEW P \in [1 .. Len(FRAMES) -> BOOLEAN]
  PROVE  \E F : Collects(F, P)
<1> DEFINE n == Len(FRAMES)
           Texts2 == Seq(Seq(Nat))
           step == [x \in (1 .. n) \X Texts2 |->
                      IF P[x[1]] THEN Append(x[2], Payload(x[1])) ELSE x[2]]
<1>1. n \in Nat /\ \A k \in 1 .. n : Payload(k) \in Seq(Nat)
  BY FrameTypes, PayloadType
<1> HIDE DEF n
<1>2. step \in [(1 .. n) \X Texts2 -> Texts2] /\ <<>> \in Texts2
  BY <1>1
<1>3. \A k \in 1 .. n, s \in Texts2 :
        step[<<k, s>>] = IF P[k] THEN Append(s, Payload(k)) ELSE s
  OBVIOUS
<1> HIDE DEF step, Texts2
<1>4. PICK h \in [0 .. n -> Texts2] : h[0] = <<>> /\ \A k \in 1 .. n : h[k] = step[<<k, h[k - 1]>>]
  <2>1. \E h \in [0 .. n -> Texts2] : Stepwise(h, n, <<>>, step)
    BY <1>1, <1>2, ByRecursion, Zenon
  <2> QED BY <2>1 DEF Stepwise
<1>5. \A k \in 1 .. n : h[k] = IF P[k] THEN Append(h[k - 1], Payload(k)) ELSE h[k - 1]
  <2> TAKE k \in 1 .. n
  <2>1. k - 1 \in 0 .. n
    BY <1>1
  <2> QED BY <1>3, <1>4, <2>1
<1>6. ASSUME NEW k \in 0 .. n
      PROVE  h[k] = IF k = 0 THEN <<>>
                    ELSE IF P[k] THEN Append(h[k - 1], Payload(k)) ELSE h[k - 1]
  <2>1. k = 0 \/ (k # 0 /\ k \in 1 .. n)
    BY <1>1
  <2> QED BY <1>4, <1>5, <2>1, Zenon
<1>7. Collects(h, P)
  BY <1>4, <1>6 DEF Collects, n
<1> QED BY <1>7

LEMMA CollectsSteps ==
  ASSUME NEW P \in [1 .. Len(FRAMES) -> BOOLEAN], NEW F, Collects(F, P)
  PROVE  /\ \A k \in 0 .. Len(FRAMES) : F[k] \in Seq(Seq(Nat))
         /\ F[0] = <<>>
         /\ \A k \in 1 .. Len(FRAMES) :
              F[k] = IF P[k] THEN Append(F[k - 1], Payload(k)) ELSE F[k - 1]
<1> DEFINE n == Len(FRAMES)
<1>1. n \in Nat
  BY FrameTypes
<1>2. \A k \in 0 .. n :
        F[k] = IF k = 0 THEN <<>>
               ELSE IF P[k] THEN Append(F[k - 1], Payload(k)) ELSE F[k - 1]
  BY DEF Collects
<1> HIDE DEF n
<1>3. F[0] = <<>>
  BY <1>1, <1>2
<1>4. \A k \in 1 .. n : F[k] = IF P[k] THEN Append(F[k - 1], Payload(k)) ELSE F[k - 1]
  <2> TAKE k \in 1 .. n
  <2>1. k # 0 /\ k \in 0 .. n
    BY <1>1
  <2> QED BY <1>2, <2>1, Zenon
<1>5. \A k \in 0 .. n : F[k] \in Seq(Seq(Nat))
  <2> DEFINE S == {k \in 0 .. n : F[k] \in Seq(Seq(Nat))}
  <2>1. 0 \in S
    <3>1. <<>> \in Seq(Seq(Nat)) /\ 0 \in 0 .. n
      BY <1>1
    <3> QED BY <1>3, <3>1, Zenon
  <2>2. ASSUME NEW k \in 1 .. n, k - 1 \in S PROVE k \in S
    <3>1. k \in 0 .. n /\ F[k - 1] \in Seq(Seq(Nat)) /\ Payload(k) \in Seq(Nat)
      BY <1>1, <2>2, PayloadType DEF n
    <3>2. Append(F[k - 1], Payload(k)) \in Seq(Seq(Nat))
      BY <3>1
    <3>3. F[k] \in Seq(Seq(Nat))
      BY <1>4, <3>1, <3>2, Zenon
    <3> QED BY <3>1, <3>3
  <2> HIDE DEF S
  <2>3. \A k \in 0 .. n : k \in S
    BY <1>1, <2>1, <2>2, UpTo
  <2> QED BY <2>3 DEF S
<1> QED BY <1>3, <1>4, <1>5 DEF n

LEMMA TextsOfSteps ==
  /\ \A k \in 0 .. Len(FRAMES) : TextsOf[k] \in Seq(Seq(Nat))
  /\ TextsOf[0] = <<>>
  /\ \A k \in 1 .. Len(FRAMES) :
       TextsOf[k] = IF IsText(k) THEN Append(TextsOf[k - 1], Payload(k)) ELSE TextsOf[k - 1]
<1> DEFINE P == [k \in 1 .. Len(FRAMES) |-> IsText(k)]
           Eq(g) == g = [k \in 0 .. Len(FRAMES) |->
                           IF k = 0 THEN <<>>
                           ELSE IF IsText(k) THEN Append(g[k - 1], Payload(k)) ELSE g[k - 1]]
<1>1. P \in [1 .. Len(FRAMES) -> BOOLEAN]
  BY FrameTypes DEF IsText
<1>2. \A g : Eq(g) <=> Collects(g, P)
  <2> TAKE g
  <2>1. ASSUME NEW k \in 0 .. Len(FRAMES), k # 0 PROVE P[k] = IsText(k)
    BY <2>1, FrameTypes
  <2> HIDE DEF P
  <2>2. ASSUME NEW k \in 0 .. Len(FRAMES)
        PROVE  (IF k = 0 THEN <<>>
                ELSE IF IsText(k) THEN Append(g[k - 1], Payload(k)) ELSE g[k - 1])
             = (IF k = 0 THEN <<>>
                ELSE IF P[k] THEN Append(g[k - 1], Payload(k)) ELSE g[k - 1])
    BY <2>1, Zenon
  <2> QED BY <2>2, Zenon DEF Collects
<1>3. TextsOf = CHOOSE g : Eq(g)
  BY DEF TextsOf
<1> HIDE DEF P, Eq
<1>4. Collects(TextsOf, P)
  BY <1>1, <1>2, <1>3, CollectsExists
<1>5. /\ \A k \in 0 .. Len(FRAMES) : TextsOf[k] \in Seq(Seq(Nat))
      /\ TextsOf[0] = <<>>
      /\ \A k \in 1 .. Len(FRAMES) :
           TextsOf[k] = IF P[k] THEN Append(TextsOf[k - 1], Payload(k)) ELSE TextsOf[k - 1]
  BY <1>1, <1>4, CollectsSteps
<1> QED BY <1>5 DEF P

\* Kept goes through the frames one by one.
LEMMA KeptSteps ==
  ASSUME NEW count \in Nat
  PROVE  \E t : /\ Kept(count) = t[Len(FRAMES)]
                /\ \A k \in 0 .. Len(FRAMES) : t[k] \in Seq(Seq(Nat))
                /\ t[0] = <<>>
                /\ \A k \in 1 .. Len(FRAMES) :
                     t[k] = IF Ends(k, count) THEN Append(t[k - 1], Payload(k)) ELSE t[k - 1]
<1> DEFINE n == Len(FRAMES)
           P == [k \in 1 .. n |-> Ends(k, count)]
           Eq(g) == g = [k \in 0 .. n |->
                           IF k = 0 THEN <<>>
                           ELSE IF Ends(k, count) THEN Append(g[k - 1], Payload(k)) ELSE g[k - 1]]
           t == CHOOSE g : Eq(g)
<1>1. n \in Nat
  BY FrameTypes
<1>2. P \in [1 .. n -> BOOLEAN]
  <2>1. \A k \in 1 .. n : Ends(k, count) \in BOOLEAN
    BY DEF Ends
  <2> QED BY <2>1
<1>3. \A g : Eq(g) <=> Collects(g, P)
  <2> TAKE g
  <2>1. ASSUME NEW k \in 0 .. n, k # 0 PROVE P[k] = Ends(k, count)
    BY <1>1, <2>1
  <2> HIDE DEF P
  <2>2. ASSUME NEW k \in 0 .. n
        PROVE  (IF k = 0 THEN <<>>
                ELSE IF Ends(k, count) THEN Append(g[k - 1], Payload(k)) ELSE g[k - 1])
             = (IF k = 0 THEN <<>>
                ELSE IF P[k] THEN Append(g[k - 1], Payload(k)) ELSE g[k - 1])
    BY <2>1, Zenon
  <2> QED BY <2>2, Zenon DEF Collects
<1>4. Kept(count) = t[n]
  BY DEF Kept
<1>5. \A k \in 1 .. n : P[k] = Ends(k, count)
  OBVIOUS
<1> HIDE DEF P, Eq
<1>6. Collects(t, P)
  BY <1>2, <1>3, CollectsExists
<1> HIDE DEF t
<1>7. /\ \A k \in 0 .. n : t[k] \in Seq(Seq(Nat))
      /\ t[0] = <<>>
      /\ \A k \in 1 .. n : t[k] = IF P[k] THEN Append(t[k - 1], Payload(k)) ELSE t[k - 1]
  BY <1>2, <1>6, CollectsSteps
<1>8. \A k \in 1 .. n : t[k] = IF Ends(k, count) THEN Append(t[k - 1], Payload(k)) ELSE t[k - 1]
  BY <1>5, <1>7, Zenon
<1> QED BY <1>4, <1>7, <1>8

\* Kept has one text for each text that has ended, in their order, and its
\* last frame at its place.
LEMMA KeptInOrder ==
  ASSUME NEW count \in Nat
  PROVE  /\ Len(Kept(count)) = Cardinality(EndedTexts(count))
         /\ \A f \in EndedTexts(count) :
              Kept(count)[Cardinality({g \in EndedTexts(count) : g <= f})] = Payload(f)
<1> DEFINE n == Len(FRAMES)
           Before(k) == {g \in EndedTexts(count) : g <= k}
<1>1. n \in Nat
  BY FrameTypes
<1>2. PICK t : /\ Kept(count) = t[n]
               /\ \A k \in 0 .. n : t[k] \in Seq(Seq(Nat))
               /\ t[0] = <<>>
               /\ \A k \in 1 .. n :
                    t[k] = IF Ends(k, count) THEN Append(t[k - 1], Payload(k)) ELSE t[k - 1]
  BY KeptSteps
<1>3. \A k \in 1 .. n : k \in EndedTexts(count) <=> Ends(k, count)
  BY DEF EndedTexts
<1>4. EndedTexts(count) \subseteq 1 .. n
  BY DEF EndedTexts
<1>5. \A k \in 0 .. n : IsFiniteSet(Before(k)) /\ Cardinality(Before(k)) \in Nat
  <2> TAKE k \in 0 .. n
  <2>1. IsFiniteSet(1 .. n) /\ Before(k) \subseteq 1 .. n
    BY <1>1, <1>4, FS_Interval
  <2> QED BY <2>1, FS_Subset, FS_CardinalityType
<1> DEFINE Right(k) == /\ Len(t[k]) = Cardinality(Before(k))
                       /\ \A f \in Before(k) : t[k][Cardinality(Before(f))] = Payload(f)
           S == {k \in 0 .. n : Right(k)}
<1> HIDE DEF n
<1>6. 0 \in S
  <2>1. Before(0) = {}
    BY <1>1, <1>4
  <2>2. Cardinality(Before(0)) = 0
    BY <2>1, FS_EmptySet
  <2> QED BY <1>1, <1>2, <2>1, <2>2
<1>7. ASSUME NEW k \in 1 .. n, k - 1 \in S PROVE k \in S
  <2>1. k \in 0 .. n /\ k - 1 \in 0 .. n
    BY <1>1
  <2>2. t[k - 1] \in Seq(Seq(Nat)) /\ Right(k - 1)
    BY <1>2, <1>7, <2>1
  <2>3. CASE Ends(k, count)
    <3>1. t[k] = Append(t[k - 1], Payload(k)) /\ Payload(k) \in Seq(Nat)
      BY <1>2, <2>3, PayloadType DEF n
    <3>2. Before(k) = Before(k - 1) \cup {k} /\ k \notin Before(k - 1)
      BY <1>1, <1>3, <1>4, <2>3
    <3>3. Cardinality(Before(k)) = Cardinality(Before(k - 1)) + 1
      <4> HIDE DEF Before
      <4> QED BY <1>5, <2>1, <3>2, FS_AddElement
    <3>4. Len(t[k]) = Cardinality(Before(k))
      BY <2>2, <3>1, <3>3
    <3>5. ASSUME NEW f \in Before(k - 1)
          PROVE  t[k][Cardinality(Before(f))] = Payload(f)
      <4>1. f \in 1 .. n /\ f \in 0 .. n /\ Before(f) \subseteq Before(k - 1) /\ f \in Before(f)
        BY <1>1, <1>4
      <4>2. Cardinality(Before(f)) <= Cardinality(Before(k - 1))
        <5> HIDE DEF Before
        <5> QED BY <1>5, <2>1, <4>1, FS_Subset
      <4>3. Cardinality(Before(f)) # 0
        <5> HIDE DEF Before
        <5> QED BY <1>5, <4>1, FS_EmptySet
      <4>4. Cardinality(Before(f)) \in 1 .. Len(t[k - 1])
        <5> HIDE DEF Before
        <5> QED BY <1>5, <2>1, <2>2, <4>1, <4>2, <4>3
      <4>5. t[k][Cardinality(Before(f))] = t[k - 1][Cardinality(Before(f))]
        <5> HIDE DEF Before
        <5> QED BY <2>2, <3>1, <4>4
      <4>6. t[k - 1][Cardinality(Before(f))] = Payload(f)
        BY <2>2
      <4> QED BY <4>5, <4>6, Zenon
    <3>6. t[k][Cardinality(Before(k))] = Payload(k)
      <4> HIDE DEF Before
      <4> QED BY <1>5, <2>1, <2>2, <3>1, <3>3
    <3>7. \A f \in Before(k) : t[k][Cardinality(Before(f))] = Payload(f)
      <4> HIDE DEF Before
      <4> QED BY <3>2, <3>5, <3>6, Zenon
    <3> QED BY <2>1, <3>4, <3>7
  <2>4. CASE ~Ends(k, count)
    <3>1. t[k] = t[k - 1]
      BY <1>2, <2>4
    <3>2. Before(k) = Before(k - 1)
      BY <1>1, <1>3, <1>4, <2>4
    <3> HIDE DEF Before
    <3> QED BY <2>1, <2>2, <3>1, <3>2
  <2> QED BY <2>3, <2>4
<1>8. Right(n)
  <2> HIDE DEF S
  <2>1. \A k \in 0 .. n : k \in S
    BY <1>1, <1>6, <1>7, UpTo
  <2>2. n \in S
    BY <1>1, <2>1
  <2> USE DEF S
  <2> HIDE DEF Right
  <2> QED BY <2>2
<1>9. Before(n) = EndedTexts(count)
  BY <1>1, <1>4
<1> QED BY <1>2, <1>8, <1>9

\* When the decoder has come to frame f, the texts are those of the frames
\* before it.
LEMMA TextsSoFar ==
  ASSUME NEW f \in 1 .. Len(FRAMES) + 1, NEW count \in Nat,
         FrameStart[f] <= count,
         f <= Len(FRAMES) => count < FrameStart[f + 1]
  PROVE  Kept(count) = TextsOf[f - 1]
<1> DEFINE n == Len(FRAMES)
           P == [k \in 1 .. n |-> Ends(k, count)]
<1>1. n \in Nat
  BY FrameTypes
<1>2. P \in [1 .. n -> BOOLEAN]
  <2>1. \A k \in 1 .. n : Ends(k, count) \in BOOLEAN
    BY DEF Ends
  <2> QED BY <2>1
<1>3. PICK t : /\ Kept(count) = t[n] /\ t[0] = <<>>
               /\ \A k \in 1 .. n :
                    t[k] = IF Ends(k, count) THEN Append(t[k - 1], Payload(k)) ELSE t[k - 1]
  BY KeptSteps
<1>4. Kept(count) = t[n]
  BY <1>3
<1>5. \A k \in 1 .. n : P[k] = Ends(k, count)
  OBVIOUS
<1> HIDE DEF P
<1>6. t[0] = <<>> /\ \A k \in 1 .. n : t[k] = IF P[k] THEN Append(t[k - 1], Payload(k)) ELSE t[k - 1]
  BY <1>3, <1>5, Zenon
<1>7. \A k \in 1 .. n : P[k] = IF k < f THEN IsText(k) ELSE FALSE
  <2> TAKE k \in 1 .. n
  <2>1. P[k] = Ends(k, count)
    BY <1>5
  <2>2. k + 1 \in 1 .. n + 1 /\ FrameStart[k + 1] \in Nat /\ FrameStart[f] \in Nat
    BY <1>1, FrameStarts
  <2>3. CASE k < f
    <3>1. FrameStart[k + 1] <= FrameStart[f]
      BY <1>1, <2>2, <2>3, StartsMonotone
    <3>2. FrameStart[k + 1] <= count
      BY <2>2, <3>1
    <3>3. P[k] = IsText(k)
      BY <2>1, <3>2 DEF Ends, IsText
    <3> QED BY <2>3, <3>3, Zenon
  <2>4. CASE k >= f
    <3>1. f + 1 \in 1 .. n + 1 /\ f <= n
      BY <1>1, <2>4
    <3>2. FrameStart[f + 1] <= FrameStart[k + 1] /\ FrameStart[f + 1] \in Nat
      BY <1>1, <2>2, <2>4, <3>1, StartsMonotone, FrameStarts
    <3>3. ~(FrameStart[k + 1] <= count)
      BY <2>2, <3>1, <3>2
    <3>4. ~(k < f)
      BY <1>1, <2>4
    <3>5. ~Ends(k, count)
      BY <3>3, Zenon DEF Ends
    <3> HIDE DEF P
    <3>6. P[k] = FALSE
      BY <1>2, <2>1, <3>5, Zenon
    <3> QED BY <3>4, <3>6, Zenon
  <2>5. k < f \/ k >= f
    BY <1>1
  <2> QED BY <2>3, <2>4, <2>5, Zenon
<1> DEFINE S == {k \in 0 .. n : t[k] = IF k < f THEN TextsOf[k] ELSE TextsOf[f - 1]}
<1>8. 0 \in S
  BY <1>1, <1>6, TextsOfSteps
<1>9. ASSUME NEW k \in 1 .. n, k - 1 \in S PROVE k \in S
  <2>1. k \in 0 .. n /\ t[k - 1] = IF k - 1 < f THEN TextsOf[k - 1] ELSE TextsOf[f - 1]
    BY <1>1, <1>9
  <2>2. CASE k < f
    <3>1. t[k - 1] = TextsOf[k - 1]
      BY <1>1, <2>1, <2>2
    <3>2. t[k] = TextsOf[k]
      BY <1>6, <1>7, <2>2, <3>1, TextsOfSteps DEF n
    <3> QED BY <2>1, <2>2, <3>2
  <2>3. CASE k >= f
    <3>1. t[k - 1] = TextsOf[f - 1]
      <4>1. k = f \/ ~(k - 1 < f)
        BY <1>1, <2>3
      <4>2. CASE k = f
        BY <1>1, <2>1, <4>2
      <4> QED BY <2>1, <4>1, <4>2
    <3>2. t[k] = t[k - 1]
      <4>1. ~(k < f)
        BY <1>1, <2>3
      <4>2. ~P[k]
        BY <1>7, <4>1
      <4> QED BY <1>6, <4>2
    <3>3. ~(k < f)
      BY <1>1, <2>3
    <3> QED BY <2>1, <3>1, <3>2, <3>3
  <2> QED BY <1>1, <2>2, <2>3
<1>10. n \in S
  <2> HIDE DEF S, n
  <2>1. \A k \in 0 .. n : k \in S
    BY <1>1, <1>8, <1>9, UpTo
  <2> QED BY <1>1, <2>1
<1>11. n < f => f = n + 1
  BY <1>1
<1>12. t[n] = TextsOf[f - 1]
  <2>1. CASE n < f
    <3>1. f - 1 = n
      BY <1>1, <1>11, <2>1
    <3> QED BY <1>10, <2>1, <3>1
  <2> QED BY <1>10, <2>1
<1> QED BY <1>4, <1>12

-----------------------------------------------------------------------------
(***************************************************************************)
(* The loop of add_data.                                                   *)
(***************************************************************************)

Texts2 == Seq(Seq(Nat))
Rounds == [handler : Handler, data : Seq(Nat), strs : Texts2, closed : BOOLEAN]

\* What a round makes of its state once the decoder's answer is known
Went(st, decoder, acc, used, strs, closed) ==
  [handler |-> [frame_decoder |-> decoder, str_acc |-> acc],
   data    |-> SubSeq(st.data, used + 1, Len(st.data)),
   strs    |-> strs,
   closed  |-> closed]

\* st stands at byte here of a slice that ends before byte end; before are
\* the messages returned until then.
Follows(st, here, end, before) ==
  /\ st.data = Bytes(here, end - here)
  /\ At(st.handler, here)
  /\ before \o st.strs = TextsOf[st.handler.frame_decoder.frame - 1]

Measure(st) == Len(st.data) + Len(FRAMES) + 1 - st.handler.frame_decoder.frame
Idle(st) == Exhausted(DecoderAddData(st.handler.frame_decoder, st.data), st.data)

LEMMA HandlerTypes ==
  ASSUME NEW st \in Rounds
  PROVE  /\ st.handler \in Handler /\ st.data \in Seq(Nat) /\ st.strs \in Texts2
         /\ st.closed \in BOOLEAN
         /\ st.handler.frame_decoder \in Decoder /\ st.handler.str_acc \in Seq(Nat)
         /\ st.handler.frame_decoder.frame \in Nat \ {0}
         /\ st.handler.frame_decoder.part \in {"header", "payload"}
         /\ st.handler.frame_decoder.left \in Nat
         /\ Len(st.data) \in Nat
<1>1. st.handler \in Handler /\ st.data \in Seq(Nat) /\ st.strs \in Texts2 /\ st.closed \in BOOLEAN
  <2> HIDE DEF Handler, Texts2
  <2> QED BY DEF Rounds
<1>2. st.handler.frame_decoder \in Decoder /\ st.handler.str_acc \in Seq(Nat)
  BY <1>1 DEF Handler
<1> QED BY <1>1, <1>2 DEF Decoder

LEMMA WentTypes ==
  ASSUME NEW st \in Rounds, NEW decoder \in Decoder, NEW acc \in Seq(Nat),
         NEW used \in 0 .. Len(st.data), NEW strs \in Texts2, NEW closed \in BOOLEAN
  PROVE  Went(st, decoder, acc, used, strs, closed) \in Rounds
<1>1. st.data \in Seq(Nat) /\ Len(st.data) \in Nat
  BY HandlerTypes
<1>2. SubSeq(st.data, used + 1, Len(st.data)) \in Seq(Nat)
  BY <1>1
<1>3. [frame_decoder |-> decoder, str_acc |-> acc] \in Handler
  BY DEF Handler
<1> HIDE DEF Texts2
<1> QED BY <1>2, <1>3 DEF Went, Rounds

\* The decoder's answer, case by case
LEMMA DecoderAnswers ==
  ASSUME NEW d \in Decoder, NEW data \in Seq(Nat)
  PROVE  LET ret == DecoderAddData(d, data)
             n == IF d.left <= Len(data) THEN d.left ELSE Len(data) IN
         /\ d.frame > Len(FRAMES) => ret = [decoder |-> d, consumed_bytes |-> 0, event |-> "none"]
         /\ d.frame <= Len(FRAMES) /\ d.part = "header" /\ Len(data) < d.left =>
              ret = [decoder |-> [frame |-> d.frame, part |-> "header", left |-> d.left - Len(data)],
                     consumed_bytes |-> Len(data), event |-> "none"]
         /\ d.frame <= Len(FRAMES) /\ d.part = "header" /\ d.left <= Len(data) =>
              ret = [decoder |-> [frame |-> d.frame, part |-> "payload", left |-> FRAMES[d.frame].len],
                     consumed_bytes |-> d.left, event |-> "Start"]
         /\ d.frame <= Len(FRAMES) /\ d.part = "payload" /\ d.left = 0 =>
              ret = [decoder |-> [frame |-> d.frame + 1, part |-> "header", left |-> HEADER_LEN],
                     consumed_bytes |-> 0, event |-> "End"]
         /\ d.frame <= Len(FRAMES) /\ d.part = "payload" /\ d.left > 0 =>
              ret = [decoder |-> [frame |-> d.frame, part |-> "payload", left |-> d.left - n],
                     consumed_bytes |-> n,
                     event |-> IF n = 0 THEN "none" ELSE "PayloadChunk"]
<1> DEFINE len == Len(data)
           n == IF d.left <= len THEN d.left ELSE len
           ret == DecoderAddData(d, data)
           moved == [d EXCEPT !.left = @ - n]
<1>1. /\ d.frame \in Nat \ {0} /\ d.left \in Nat /\ d.part \in {"header", "payload"}
      /\ len \in Nat /\ Len(FRAMES) \in Nat /\ n \in Nat
  BY FrameTypes DEF Decoder
<1>2. d = [frame |-> d.frame, part |-> d.part, left |-> d.left]
  BY DEF Decoder
<1>3. moved = [frame |-> d.frame, part |-> d.part, left |-> d.left - n]
  <2> DEFINE f == d.frame
             q == d.part
             l == d.left
  <2>1. d = [frame |-> f, part |-> q, left |-> l]
    BY <1>2
  <2>2. moved = [d EXCEPT !.left = l - n]
    OBVIOUS
  <2>3. \A x : [d EXCEPT !.left = x] = [frame |-> f, part |-> q, left |-> x]
    <3> HIDE DEF f, q, l
    <3> QED BY <2>1
  <2> HIDE DEF moved
  <2> QED BY <2>2, <2>3
<1> HIDE DEF moved
<1>4. ASSUME d.frame > Len(FRAMES)
      PROVE  ret = [decoder |-> d, consumed_bytes |-> 0, event |-> "none"]
  BY <1>4 DEF DecoderAddData
<1>5. ASSUME d.frame <= Len(FRAMES)
      PROVE  ret =
        CASE d.part = "header" /\ n < d.left ->
               [decoder |-> moved, consumed_bytes |-> n, event |-> "none"]
          [] d.part = "header" /\ n = d.left ->
               [decoder |-> [frame |-> d.frame, part |-> "payload", left |-> FRAMES[d.frame].len],
                consumed_bytes |-> n, event |-> "Start"]
          [] d.part = "payload" /\ d.left = 0 ->
               [decoder |-> [frame |-> d.frame + 1, part |-> "header", left |-> HEADER_LEN],
                consumed_bytes |-> 0, event |-> "End"]
          [] OTHER ->
               [decoder |-> moved, consumed_bytes |-> n,
                event |-> IF n = 0 THEN "none" ELSE "PayloadChunk"]
  <2>1. ~(d.frame > Len(FRAMES))
    BY <1>1, <1>5
  <2> QED BY <2>1 DEF DecoderAddData, moved
<1> HIDE DEF ret
<1>6. ASSUME d.frame <= Len(FRAMES), d.part = "header", len < d.left
      PROVE  ret = [decoder |-> [frame |-> d.frame, part |-> "header", left |-> d.left - len],
                    consumed_bytes |-> len, event |-> "none"]
  <2>1. n = len /\ n < d.left /\ n # d.left
    BY <1>1, <1>6
  <2> HIDE DEF n, len
  <2>2. moved = [frame |-> d.frame, part |-> "header", left |-> d.left - len]
    BY <1>3, <1>6, <2>1
  <2>3. ret = [decoder |-> moved, consumed_bytes |-> n, event |-> "none"]
    BY <1>5, <1>6, <2>1
  <2> QED BY <2>1, <2>2, <2>3
<1>7. ASSUME d.frame <= Len(FRAMES), d.part = "header", d.left <= len
      PROVE  ret = [decoder |-> [frame |-> d.frame, part |-> "payload", left |-> FRAMES[d.frame].len],
                    consumed_bytes |-> d.left, event |-> "Start"]
  <2>1. n = d.left /\ ~(n < d.left)
    BY <1>1, <1>7
  <2> HIDE DEF n
  <2> QED BY <1>3, <1>5, <1>7, <2>1
<1>8. ASSUME d.frame <= Len(FRAMES), d.part = "payload", d.left = 0
      PROVE  ret = [decoder |-> [frame |-> d.frame + 1, part |-> "header", left |-> HEADER_LEN],
                    consumed_bytes |-> 0, event |-> "End"]
  <2>1. d.part # "header"
    BY <1>8
  <2> HIDE DEF n
  <2> QED BY <1>5, <1>8, <2>1
<1>9. ASSUME d.frame <= Len(FRAMES), d.part = "payload", d.left > 0
      PROVE  ret = [decoder |-> [frame |-> d.frame, part |-> "payload", left |-> d.left - n],
                    consumed_bytes |-> n,
                    event |-> IF n = 0 THEN "none" ELSE "PayloadChunk"]
  <2>1. d.part # "header" /\ d.left # 0
    BY <1>1, <1>9
  <2> HIDE DEF n
  <2> QED BY <1>3, <1>5, <1>9, <2>1
<1> QED BY <1>4, <1>6, <1>7, <1>8, <1>9 DEF ret

\* A round that is not the last: the decoder's answer decides it.
LEMMA RoundWent ==
  ASSUME NEW st \in Rounds, ~st.closed,
         NEW decoder \in Decoder, NEW used \in Nat, NEW event,
         DecoderAddData(st.handler.frame_decoder, st.data)
           = [decoder |-> decoder, consumed_bytes |-> used, event |-> event],
         event # "none" \/ used # 0
  PROVE  LET frame == FRAMES[st.handler.frame_decoder.frame]
             acc == Accumulated(st.handler.str_acc, frame, event, SubSeq(st.data, 1, used)) IN
         Round(st) = Went(st, decoder, acc, used,
                          IF event = "End" /\ frame.fin /\ frame.opcode = "Text"
                          THEN Append(st.strs, acc) ELSE st.strs,
                          event = "End" /\ frame.opcode = "ConnectionClose")
<1> DEFINE ret == DecoderAddData(st.handler.frame_decoder, st.data)
<1>1. ret.decoder = decoder /\ ret.consumed_bytes = used /\ ret.event = event
  OBVIOUS
<1>2. ~(st.closed \/ Exhausted(ret, st.data))
  BY <1>1 DEF Exhausted
<1> HIDE DEF ret
<1> QED BY <1>1, <1>2, Zenon DEF Round, Went, ret

\* What the cases below have in common
Keeps(st, here, end, before) ==
  /\ Round(st) \in Rounds
  /\ ~Idle(st)
  /\ \/ Round(st).closed
     \/ /\ \E next \in here .. end : Follows(Round(st), next, end, before)
        /\ Measure(Round(st)) < Measure(st)

LEMMA KeepsBy ==
  ASSUME NEW st \in Rounds, ~st.closed, ~Idle(st),
         NEW here \in Nat, NEW end \in Nat, here <= end, NEW before \in Texts2,
         Follows(st, here, end, before),
         NEW decoder \in Decoder, NEW acc \in Seq(Nat), NEW strs \in Texts2,
         NEW used \in 0 .. end - here, NEW closed \in BOOLEAN,
         Round(st) = Went(st, decoder, acc, used, strs, closed),
         closed \/ /\ At([frame_decoder |-> decoder, str_acc |-> acc], here + used)
                   /\ before \o strs = TextsOf[decoder.frame - 1]
                   /\ decoder.frame + used > st.handler.frame_decoder.frame
  PROVE  Keeps(st, here, end, before)
<1> DEFINE d == st.handler.frame_decoder
           r == Round(st)
<1>1. /\ st.data = Bytes(here, end - here) /\ Len(st.data) = end - here /\ end - here \in Nat
      /\ d.frame \in Nat /\ decoder.frame \in Nat /\ Len(FRAMES) \in Nat
  <2>1. end - here \in Nat
    OBVIOUS
  <2> QED BY <2>1, BytesType, HandlerTypes, FrameTypes DEF Follows, Decoder
<1>2. r \in Rounds
  BY <1>1, WentTypes
<1>3. r.closed = closed /\ r.handler = [frame_decoder |-> decoder, str_acc |-> acc] /\ r.strs = strs
  BY DEF Went
<1>4. r.data = Bytes(here + used, end - (here + used)) /\ Len(r.data) = end - here - used
  <2> DEFINE m == end - here
             first == here + used
  <2>1. r.data = SubSeq(st.data, used + 1, Len(st.data))
    BY DEF Went
  <2>2. first \in Nat /\ m \in Nat /\ used \in 0 .. m /\ m - used \in Nat /\ m - used = end - first
    OBVIOUS
  <2> HIDE DEF r
  <2>3. SubSeq(Bytes(here, m), used + 1, m) = Bytes(here + used, m - used)
    BY <2>2, BytesCut
  <2>4. r.data = Bytes(first, m - used)
    BY <1>1, <2>1, <2>3
  <2>5. Len(Bytes(first, m - used)) = m - used
    <3> HIDE DEF first, m
    <3> QED BY <2>2, BytesType
  <2> QED BY <2>2, <2>4, <2>5
<1>5. CASE closed
  BY <1>2, <1>3, <1>5 DEF Keeps
<1>6. CASE ~closed
  <2>1. here + used \in here .. end /\ r.handler.frame_decoder = decoder
    BY <1>3
  <2>2. Follows(r, here + used, end, before)
    BY <1>3, <1>4, <1>6, <2>1 DEF Follows
  <2>3. Measure(r) < Measure(st)
    <3>1. decoder.frame + used > d.frame
      BY <1>6
    <3>2. /\ Measure(r) = end - here - used + Len(FRAMES) + 1 - decoder.frame
          /\ Measure(st) = end - here + Len(FRAMES) + 1 - d.frame
      BY <1>1, <1>4, <2>1 DEF Measure
    <3> DEFINE x == decoder.frame
               y == d.frame
               l == Len(FRAMES)
               u == used
    <3>3. x \in Nat /\ y \in Nat /\ l \in Nat /\ u \in Nat /\ x + u > y
      BY <1>1, <3>1
    <3>4. /\ Measure(r) = end - here - u + l + 1 - x
          /\ Measure(st) = end - here + l + 1 - y
      BY <3>2
    <3> HIDE DEF r, x, y, l, u
    <3> QED BY <3>3, <3>4
  <2> QED BY <1>2, <2>1, <2>2, <2>3 DEF Keeps
<1> QED BY <1>5, <1>6

\* Where the decoder is, in a frame
LEMMA AtFrame ==
  ASSUME NEW h \in Handler, NEW here \in Nat, h.frame_decoder.frame <= Len(FRAMES), At(h, here)
  PROVE  LET d == h.frame_decoder IN
         /\ d.frame \in 1 .. Len(FRAMES) /\ d.frame # Len(FRAMES) + 1
         /\ d.frame + 1 \in 1 .. Len(FRAMES) + 1
         /\ FrameStart[d.frame] \in Nat /\ FRAMES[d.frame].len \in Nat
         /\ FrameStart[d.frame + 1] = FrameStart[d.frame] + HEADER_LEN + FRAMES[d.frame].len
         /\ d.part = "header" =>
              d.left \in 1 .. HEADER_LEN /\ here = FrameStart[d.frame] + HEADER_LEN - d.left
         /\ d.part = "payload" =>
              /\ d.left \in 0 .. FRAMES[d.frame].len
              /\ here = FrameStart[d.frame] + HEADER_LEN + FRAMES[d.frame].len - d.left
              /\ FRAMES[d.frame].opcode = "Text" =>
                   h.str_acc = Bytes(FrameStart[d.frame] + HEADER_LEN,
                                     FRAMES[d.frame].len - d.left)
<1> DEFINE d == h.frame_decoder
<1>1. d.frame \in 1 .. Len(FRAMES) + 1
  BY DEF At
<1>2. Len(FRAMES) \in Nat
  BY FrameTypes
<1>3. d.frame \in 1 .. Len(FRAMES) /\ d.frame # Len(FRAMES) + 1 /\ d.frame + 1 \in 1 .. Len(FRAMES) + 1
  BY <1>1, <1>2
<1>4. /\ FrameStart[d.frame] \in Nat /\ FRAMES[d.frame].len \in Nat
      /\ FrameStart[d.frame + 1] = FrameStart[d.frame] + HEADER_LEN + FRAMES[d.frame].len
  BY <1>1, <1>3, FrameTypes, FrameStarts
<1>5. \/ /\ d.part = "header" /\ d.left \in 1 .. HEADER_LEN
         /\ here = FrameStart[d.frame] + HEADER_LEN - d.left
      \/ /\ d.part = "payload" /\ d.left \in 0 .. FRAMES[d.frame].len
         /\ here = FrameStart[d.frame] + HEADER_LEN + FRAMES[d.frame].len - d.left
         /\ FRAMES[d.frame].opcode = "Text" =>
              h.str_acc = Bytes(FrameStart[d.frame] + HEADER_LEN,
                                FRAMES[d.frame].len - d.left)
  BY <1>3, Zenon DEF At
<1> HIDE DEF d
<1>6. "header" # "payload"
  OBVIOUS
<1> QED BY <1>3, <1>4, <1>5, <1>6, Zenon DEF d

\* Within a frame, or at its end
LEMMA AtBy ==
  ASSUME NEW f \in 1 .. Len(FRAMES), NEW acc \in Seq(Nat), NEW left \in Nat, NEW here \in Nat
  PROVE  /\ /\ left \in 1 .. HEADER_LEN
            /\ here = FrameStart[f] + HEADER_LEN - left
            => At([frame_decoder |-> [frame |-> f, part |-> "header", left |-> left],
                   str_acc |-> acc], here)
         /\ /\ left \in 0 .. FRAMES[f].len
            /\ here = FrameStart[f] + HEADER_LEN + FRAMES[f].len - left
            /\ FRAMES[f].opcode = "Text" =>
                 acc = Bytes(FrameStart[f] + HEADER_LEN, FRAMES[f].len - left)
            => At([frame_decoder |-> [frame |-> f, part |-> "payload", left |-> left],
                   str_acc |-> acc], here)
         /\ here = FrameStart[f + 1]
            => At([frame_decoder |-> [frame |-> f + 1, part |-> "header", left |-> HEADER_LEN],
                   str_acc |-> acc], here)
<1>1. Len(FRAMES) \in Nat /\ HEADER_LEN \in Nat /\ HEADER_LEN >= 1
  BY FrameTypes
<1>2. f \in 1 .. Len(FRAMES) + 1 /\ f # Len(FRAMES) + 1 /\ f + 1 \in 1 .. Len(FRAMES) + 1
  BY <1>1
<1>3. FrameStart[f] \in Nat /\ FrameStart[f + 1] \in Nat
  BY <1>2, FrameStarts
<1>4. ASSUME left \in 1 .. HEADER_LEN, here = FrameStart[f] + HEADER_LEN - left
      PROVE  At([frame_decoder |-> [frame |-> f, part |-> "header", left |-> left],
                 str_acc |-> acc], here)
  BY <1>2, <1>4 DEF At
<1>5. ASSUME left \in 0 .. FRAMES[f].len, here = FrameStart[f] + HEADER_LEN + FRAMES[f].len - left,
             FRAMES[f].opcode = "Text" =>
               acc = Bytes(FrameStart[f] + HEADER_LEN, FRAMES[f].len - left)
      PROVE  At([frame_decoder |-> [frame |-> f, part |-> "payload", left |-> left],
                 str_acc |-> acc], here)
  BY <1>2, <1>5 DEF At
<1>6. ASSUME here = FrameStart[f + 1]
      PROVE  At([frame_decoder |-> [frame |-> f + 1, part |-> "header", left |-> HEADER_LEN],
                 str_acc |-> acc], here)
  <2>1. HEADER_LEN \in 1 .. HEADER_LEN /\ here = FrameStart[f + 1] + HEADER_LEN - HEADER_LEN
        /\ here >= FrameStart[f + 1]
    BY <1>1, <1>3, <1>6
  <2> QED BY <1>2, <2>1 DEF At
<1> QED BY <1>4, <1>5, <1>6

LEMMA AppendJoin ==
  ASSUME NEW T, NEW s \in Seq(T), NEW t \in Seq(T), NEW e \in T
  PROVE  Append(s \o t, e) = s \o Append(t, e) /\ Append(t, e) \in Seq(T)
<1> DEFINE u == s \o t
           v == Append(t, e)
           a == Append(u, e)
           b == s \o v
           x == Len(s)
           y == Len(t)
<1>1. /\ u \in Seq(T) /\ Len(u) = x + y
      /\ \A j \in 1 .. x + y : u[j] = IF j <= x THEN s[j] ELSE t[j - x]
  BY ConcatProperties
<1>2. /\ v \in Seq(T) /\ Len(v) = y + 1 /\ v[y + 1] = e
      /\ \A j \in 1 .. y : v[j] = t[j]
  BY AppendProperties
<1> HIDE DEF u, v
<1>3. /\ a \in Seq(T) /\ Len(a) = Len(u) + 1 /\ a[Len(u) + 1] = e
      /\ \A j \in 1 .. Len(u) : a[j] = u[j]
  <2>1. u \in Seq(T)
    BY <1>1
  <2> QED BY <2>1, AppendProperties
<1>4. /\ b \in Seq(T) /\ Len(b) = x + Len(v)
      /\ \A j \in 1 .. x + Len(v) : b[j] = IF j <= x THEN s[j] ELSE v[j - x]
  BY <1>2, ConcatProperties
<1>5. x \in Nat /\ y \in Nat
  OBVIOUS
<1> HIDE DEF a, b, x, y
<1>6. Len(a) = x + y + 1 /\ Len(b) = x + y + 1
  BY <1>1, <1>2, <1>3, <1>4, <1>5
<1>7. ASSUME NEW j \in 1 .. x + y + 1 PROVE a[j] = b[j]
  <2>0. b[j] = IF j <= x THEN s[j] ELSE v[j - x]
    BY <1>2, <1>4, <1>5
  <2>1. CASE j <= x
    <3>1. a[j] = u[j] /\ u[j] = s[j]
      BY <1>1, <1>3, <1>5, <2>1
    <3> QED BY <2>0, <2>1, <3>1
  <2>2. CASE ~(j <= x) /\ j <= x + y
    <3>1. j - x \in 1 .. y /\ j \in 1 .. x + y
      BY <1>5, <2>2
    <3>2. a[j] = u[j] /\ u[j] = t[j - x] /\ v[j - x] = t[j - x]
      BY <1>1, <1>2, <1>3, <2>2, <3>1
    <3> QED BY <2>0, <2>2, <3>2
  <2>3. CASE j = x + y + 1
    <3>1. ~(j <= x) /\ j - x = y + 1
      BY <1>5, <2>3
    <3> QED BY <1>1, <1>2, <1>3, <2>0, <2>3, <3>1
  <2> QED BY <1>5, <2>1, <2>2, <2>3
<1>8. a = b
  <2>1. \A j \in 1 .. Len(a) : a[j] = b[j]
    BY <1>6, <1>7
  <2>2. a \in Seq(T) /\ b \in Seq(T) /\ Len(a) = Len(b)
    BY <1>3, <1>4, <1>6
  <2> QED BY <2>1, <2>2, SeqEqual
<1> QED BY <1>2, <1>8 DEF a, b, v, u

\* One round of add_data keeps step with the bytes of the slice.
LEMMA RoundKeeps ==
  ASSUME NEW st \in Rounds, ~st.closed, ~Idle(st),
         NEW here \in Nat, NEW end \in Nat, here <= end, NEW before \in Texts2,
         Follows(st, here, end, before)
  PROVE  Keeps(st, here, end, before)
<1> DEFINE d == st.handler.frame_decoder
           f == d.frame
           len == end - here
           ret == DecoderAddData(d, st.data)
           start == FrameStart[f] + HEADER_LEN
           size == FRAMES[f].len
<1>1. /\ st.handler \in Handler /\ st.data \in Seq(Nat) /\ st.strs \in Texts2
      /\ st.handler.str_acc \in Seq(Nat) /\ d \in Decoder
      /\ f \in Nat \ {0} /\ d.part \in {"header", "payload"} /\ d.left \in Nat
  BY HandlerTypes
<1>2. len \in Nat /\ st.data = Bytes(here, len) /\ Len(st.data) = len
  <2>1. len \in Nat
    OBVIOUS
  <2> QED BY <2>1, BytesType DEF Follows
<1>3. At(st.handler, here) /\ before \o st.strs = TextsOf[f - 1]
  BY DEF Follows
<1>4. Len(FRAMES) \in Nat /\ HEADER_LEN \in Nat /\ HEADER_LEN >= 1
  BY FrameTypes
<1>5. f <= Len(FRAMES)
  <2>1. CASE f > Len(FRAMES)
    <3>1. ret = [decoder |-> d, consumed_bytes |-> 0, event |-> "none"]
      BY <1>1, <2>1, DecoderAnswers
    <3> QED BY <3>1 DEF Idle, Exhausted
  <2> QED BY <1>1, <1>4, <2>1
<1>6. /\ f \in 1 .. Len(FRAMES) /\ size \in Nat /\ start \in Nat
      /\ FrameStart[f + 1] = start + size
      /\ FRAMES[f].opcode \in Opcodes /\ FRAMES[f].fin \in BOOLEAN
      /\ d.part = "header" => d.left \in 1 .. HEADER_LEN /\ here = start - d.left
      /\ d.part = "payload" =>
           /\ d.left \in 0 .. size /\ here = start + size - d.left
           /\ FRAMES[f].opcode = "Text" => st.handler.str_acc = Bytes(start, size - d.left)
  <2> DEFINE l == d.left
  <2>1. /\ f \in 1 .. Len(FRAMES)
        /\ FrameStart[f] \in Nat /\ size \in Nat
        /\ FrameStart[f + 1] = FrameStart[f] + HEADER_LEN + size
        /\ d.part = "header" => l \in 1 .. HEADER_LEN /\ here = FrameStart[f] + HEADER_LEN - l
        /\ d.part = "payload" =>
             /\ l \in 0 .. size /\ here = FrameStart[f] + HEADER_LEN + size - l
             /\ FRAMES[f].opcode = "Text" =>
                  st.handler.str_acc = Bytes(FrameStart[f] + HEADER_LEN, size - l)
    <3> HIDE DEF At, Bytes
    <3> QED BY <1>1, <1>3, <1>5, AtFrame
  <2>2. FRAMES[f].opcode \in Opcodes /\ FRAMES[f].fin \in BOOLEAN
    BY <2>1, FrameTypes
  <2>3. start \in Nat
    <3> HIDE DEF f
    <3> QED BY <1>4, <2>1
  <2>4. start = FrameStart[f] + HEADER_LEN
    OBVIOUS
  <2> HIDE DEF start, size, d, f, l
  <2>5. FrameStart[f + 1] = start + size
    BY <2>1, <2>4
  <2>6. d.part = "header" => l \in 1 .. HEADER_LEN /\ here = start - l
    <3> HAVE d.part = "header"
    <3> DEFINE fs == FrameStart[f]
    <3>1. l \in 1 .. HEADER_LEN /\ here = fs + HEADER_LEN - l /\ fs \in Nat
      BY <2>1
    <3> HIDE DEF fs
    <3>2. start = fs + HEADER_LEN
      BY <2>4 DEF fs
    <3> QED BY <1>4, <3>1, <3>2
  <2>7. d.part = "payload" =>
           /\ l \in 0 .. size /\ here = start + size - l
           /\ FRAMES[f].opcode = "Text" => st.handler.str_acc = Bytes(start, size - l)
    BY <2>1, <2>4
  <2>8. f \in 1 .. Len(FRAMES) /\ size \in Nat
    BY <2>1
  <2> QED BY <2>2, <2>3, <2>5, <2>6, <2>7, <2>8, Zenon DEF l
<1>11. size = FRAMES[f].len /\ start = FrameStart[f] + HEADER_LEN /\ len = end - here
  OBVIOUS
<1> HIDE DEF len, ret, start, size
\* What the cases add up
<1>12. ASSUME NEW l \in Nat, NEW n \in Nat, n <= l
       PROVE  /\ here = start - l => here + n = FrameStart[f] + HEADER_LEN - (l - n)
              /\ here = start - l /\ l <= HEADER_LEN => l - n \in 0 .. HEADER_LEN
              /\ l <= size => l - n \in 0 .. size
              /\ here = start + size - l =>
                   here + n = FrameStart[f] + HEADER_LEN + size - (l - n)
              /\ here + n \in Nat /\ l - n \in Nat
  <2> DEFINE fs == FrameStart[f]
  <2>1. start = fs + HEADER_LEN /\ start \in Nat /\ size \in Nat /\ HEADER_LEN \in Nat /\ fs \in Nat
    <3>1. fs \in Nat
      BY <1>6, FrameStarts
    <3> QED BY <1>4, <1>6, <1>11, <3>1
  <2> HIDE DEF fs
  <2>2. /\ here = start - l => here + n = fs + HEADER_LEN - (l - n)
        /\ here = start - l /\ l <= HEADER_LEN => l - n \in 0 .. HEADER_LEN
        /\ l <= size => l - n \in 0 .. size
        /\ here = start + size - l => here + n = fs + HEADER_LEN + size - (l - n)
        /\ here + n \in Nat /\ l - n \in Nat
    BY <1>12, <2>1
  <2> QED BY <2>2 DEF fs
<1>7. CASE d.part = "header" /\ len < d.left
  <2> DEFINE dec == [frame |-> f, part |-> "header", left |-> d.left - len]
  <2>1. ret = [decoder |-> dec, consumed_bytes |-> len, event |-> "none"]
    BY <1>1, <1>2, <1>5, <1>7, DecoderAnswers DEF ret
  <2>2. len # 0
    BY <2>1 DEF Idle, Exhausted, ret
  <2>3. dec \in Decoder
    BY <1>1, <1>2, <1>7 DEF Decoder
  <2>4. Accumulated(st.handler.str_acc, FRAMES[f], "none", SubSeq(st.data, 1, len))
          = st.handler.str_acc
    BY DEF Accumulated
  <2>5. Round(st) = Went(st, dec, st.handler.str_acc, len, st.strs, FALSE)
    BY <1>2, <2>1, <2>2, <2>3, <2>4, RoundWent DEF ret
  <2>6. At([frame_decoder |-> dec, str_acc |-> st.handler.str_acc], here + len)
    <3>1. d.left - len \in 1 .. HEADER_LEN /\ d.left - len \in Nat /\ here + len \in Nat
          /\ here + len = FrameStart[f] + HEADER_LEN - (d.left - len)
      <4> DEFINE l == d.left
      <4>1. l \in Nat /\ len <= l /\ l - len # 0 /\ l <= HEADER_LEN /\ here = start - l
        <5>1. l \in Nat /\ len < l /\ l \in 1 .. HEADER_LEN /\ here = start - l
          BY <1>1, <1>6, <1>7
        <5> HIDE DEF l
        <5> QED BY <1>2, <1>4, <5>1
      <4> HIDE DEF l
      <4>2. /\ here + len = FrameStart[f] + HEADER_LEN - (l - len)
            /\ l - len \in 0 .. HEADER_LEN /\ here + len \in Nat /\ l - len \in Nat
        BY <1>2, <1>12, <4>1
      <4> QED BY <4>1, <4>2 DEF l
    <3> QED BY <1>1, <1>6, <3>1, AtBy
  <2>7. dec.frame = f /\ f + len > f
    BY <1>1, <1>2, <2>2
  <2> HIDE DEF dec
  <2>8. len \in 0 .. end - here
    BY <1>2, <1>11
  <2> QED BY <1>1, <1>3, <2>3, <2>5, <2>6, <2>7, <2>8, KeepsBy
<1>8. CASE d.part = "header" /\ d.left <= len
  <2> DEFINE dec == [frame |-> f, part |-> "payload", left |-> size]
             acc == Accumulated(st.handler.str_acc, FRAMES[f], "Start", SubSeq(st.data, 1, d.left))
  <2>1. ret = [decoder |-> dec, consumed_bytes |-> d.left, event |-> "Start"]
    BY <1>1, <1>2, <1>5, <1>8, DecoderAnswers DEF ret, size
  <2>3. dec \in Decoder
    BY <1>1, <1>6 DEF Decoder
  <2>4. acc \in Seq(Nat) /\ (FRAMES[f].opcode = "Text" => acc = <<>>)
    BY <1>1 DEF Accumulated
  <2>5. Round(st) = Went(st, dec, acc, d.left, st.strs, FALSE)
    BY <1>1, <2>1, <2>3, RoundWent DEF ret
  <2>6. At([frame_decoder |-> dec, str_acc |-> acc], here + d.left)
    <3>1. size \in 0 .. FRAMES[f].len /\ here + d.left \in Nat
          /\ here + d.left = FrameStart[f] + HEADER_LEN + FRAMES[f].len - size
          /\ FRAMES[f].len - size = 0 /\ FrameStart[f] + HEADER_LEN = start
      <4> DEFINE l == d.left
      <4>1. l \in Nat /\ l <= l /\ here = start - l /\ FRAMES[f].len = size
        BY <1>1, <1>6, <1>8, <1>11
      <4> HIDE DEF l
      <4>2. here + l = FrameStart[f] + HEADER_LEN - (l - l) /\ here + l \in Nat
        BY <1>12, <4>1
      <4>3. start = FrameStart[f] + HEADER_LEN /\ start \in Nat /\ size \in Nat
        BY <1>6, <1>11
      <4>4. here + l = FrameStart[f] + HEADER_LEN + size - size /\ size \in 0 .. size /\ size - size = 0
        BY <4>1, <4>2, <4>3
      <4> QED BY <4>1, <4>2, <4>3, <4>4 DEF l
    <3>2. Bytes(start, 0) = <<>>
      BY <1>6, BytesType
    <3> HIDE DEF acc
    <3> QED BY <1>6, <2>4, <3>1, <3>2, AtBy
  <2>7. dec.frame = f /\ f + d.left > f /\ d.left \in 0 .. len
    BY <1>1, <1>2, <1>6, <1>8
  <2> HIDE DEF dec, acc
  <2> QED BY <1>1, <1>2, <1>3, <2>3, <2>4, <2>5, <2>6, <2>7, KeepsBy DEF len
<1>9. CASE d.part = "payload" /\ d.left = 0
  <2> DEFINE dec == [frame |-> f + 1, part |-> "header", left |-> HEADER_LEN]
             acc == st.handler.str_acc
             strs == IF FRAMES[f].fin /\ FRAMES[f].opcode = "Text"
                     THEN Append(st.strs, acc) ELSE st.strs
             closed == FRAMES[f].opcode = "ConnectionClose"
  <2>1. ret = [decoder |-> dec, consumed_bytes |-> 0, event |-> "End"]
    BY <1>1, <1>2, <1>5, <1>9, DecoderAnswers DEF ret
  <2>3. dec \in Decoder
    BY <1>1, <1>4 DEF Decoder
  <2>4. Accumulated(st.handler.str_acc, FRAMES[f], "End", SubSeq(st.data, 1, 0)) = acc
    BY DEF Accumulated
  <2>5. Round(st) = Went(st, dec, acc, 0, strs, closed)
    <3> HIDE DEF dec
    <3>1. 0 \in Nat /\ "End" # "none"
      OBVIOUS
    <3> QED BY <2>1, <2>3, <2>4, <3>1, RoundWent DEF ret
  <2>6. At([frame_decoder |-> dec, str_acc |-> acc], here + 0)
    <3>1. here + 0 = here /\ here = FrameStart[f + 1]
      BY <1>6, <1>9
    <3> QED BY <1>1, <1>6, <3>1, AtBy
  <2>7. dec.frame = f + 1 /\ f + 1 + 0 > f /\ dec.frame - 1 = f
    BY <1>1
  <2>8. strs \in Texts2 /\ before \o strs = TextsOf[f]
    <3>1. TextsOf[f] = IF IsText(f) THEN Append(TextsOf[f - 1], Payload(f)) ELSE TextsOf[f - 1]
      BY <1>6, TextsOfSteps
    <3>2. CASE FRAMES[f].fin /\ FRAMES[f].opcode = "Text"
      <4>1. acc = Payload(f)
        <5>1. size - d.left = size
          BY <1>6, <1>9
        <5> QED BY <1>6, <1>9, <3>2, <5>1 DEF Payload, start, size
      <4>2. TextsOf[f] = Append(before \o st.strs, acc)
        BY <1>3, <3>1, <3>2, <4>1, Zenon DEF IsText
      <4>3. Append(before \o st.strs, acc) = before \o Append(st.strs, acc)
            /\ Append(st.strs, acc) \in Texts2
        <5> DEFINE T == Seq(Nat)
        <5>1. before \in Seq(T) /\ st.strs \in Seq(T) /\ acc \in T
          BY <1>1 DEF Texts2
        <5> HIDE DEF T, acc
        <5>2. Append(before \o st.strs, acc) = before \o Append(st.strs, acc)
              /\ Append(st.strs, acc) \in Seq(T)
          BY <5>1, AppendJoin
        <5> QED BY <5>2 DEF Texts2, T
      <4> QED BY <3>2, <4>2, <4>3, Zenon
    <3>3. CASE ~(FRAMES[f].fin /\ FRAMES[f].opcode = "Text")
      BY <1>1, <1>3, <3>1, <3>3, Zenon DEF IsText
    <3> QED BY <3>2, <3>3
  <2>9. closed \in BOOLEAN /\ 0 \in 0 .. len
    BY <1>2
  <2> HIDE DEF dec, acc, strs, closed
  <2>10. acc \in Seq(Nat)
    BY <1>1 DEF acc
  <2> QED BY <1>1, <1>2, <1>3, <2>3, <2>5, <2>6, <2>7, <2>8, <2>9, <2>10, KeepsBy DEF len
<1>10. CASE d.part = "payload" /\ d.left # 0
  <2> DEFINE n == IF d.left <= len THEN d.left ELSE len
             dec == [frame |-> f, part |-> "payload", left |-> d.left - n]
             acc == Accumulated(st.handler.str_acc, FRAMES[f], "PayloadChunk", SubSeq(st.data, 1, n))
  <2>0. n \in Nat /\ n \in 0 .. len /\ n <= d.left /\ d.left > 0
    BY <1>1, <1>2, <1>10
  <2>1. ret = [decoder |-> dec, consumed_bytes |-> n,
               event |-> IF n = 0 THEN "none" ELSE "PayloadChunk"]
    BY <1>1, <1>2, <1>5, <1>10, <2>0, DecoderAnswers DEF ret
  <2> HIDE DEF n
  <2>2. n # 0
    BY <2>1 DEF Idle, Exhausted, ret
  <2>3. dec \in Decoder
    BY <1>1, <2>0 DEF Decoder
  <2>4. SubSeq(st.data, 1, n) = Bytes(here, n)
    <3> HIDE DEF Bytes
    <3>1. SubSeq(Bytes(here, len), 1, n) = Bytes(here, n)
      BY <1>2, <2>0, BytesCut
    <3> QED BY <1>2, <3>1
  <2>5. acc \in Seq(Nat)
    <3>1. Bytes(here, n) \in Seq(Nat)
      BY <2>0, BytesType
    <3>2. st.handler.str_acc \o Bytes(here, n) \in Seq(Nat)
      BY <1>1, <3>1
    <3>3. acc = IF FRAMES[f].opcode # "Text" THEN st.handler.str_acc
                ELSE st.handler.str_acc \o SubSeq(st.data, 1, n)
      BY DEF Accumulated
    <3> HIDE DEF acc
    <3> QED BY <1>1, <2>4, <3>2, <3>3
  <2>6. FRAMES[f].opcode = "Text" => acc = Bytes(start, size - (d.left - n))
    <3> HAVE FRAMES[f].opcode = "Text"
    <3>1. st.handler.str_acc = Bytes(start, size - d.left) /\ here = start + (size - d.left)
          /\ size - d.left \in Nat /\ (size - d.left) + n = size - (d.left - n)
      <4> DEFINE l == d.left
      <4>1. l \in 0 .. size /\ here = start + size - l /\ st.handler.str_acc = Bytes(start, size - l)
        BY <1>6, <1>10
      <4> HIDE DEF l
      <4>2. here = start + (size - l) /\ size - l \in Nat /\ (size - l) + n = size - (l - n)
        BY <1>6, <2>0, <4>1
      <4> QED BY <4>1, <4>2 DEF l
    <3>2. Bytes(start, size - d.left) \o Bytes(start + (size - d.left), n)
            = Bytes(start, (size - d.left) + n)
      BY <1>6, <2>0, <3>1, BytesJoin
    <3>3. acc = st.handler.str_acc \o SubSeq(st.data, 1, n)
      BY DEF Accumulated
    <3> HIDE DEF acc
    <3> QED BY <2>4, <3>1, <3>2, <3>3
  <2>7. Round(st) = Went(st, dec, acc, n, st.strs, FALSE)
    <3>1. ret = [decoder |-> dec, consumed_bytes |-> n, event |-> "PayloadChunk"]
      BY <2>1, <2>2
    <3>2. "PayloadChunk" # "End"
      OBVIOUS
    <3> HIDE DEF dec
    <3> QED BY <2>0, <2>2, <2>3, <3>1, <3>2, RoundWent DEF ret
  <2>8. At([frame_decoder |-> dec, str_acc |-> acc], here + n)
    <3>1. d.left - n \in 0 .. FRAMES[f].len /\ d.left - n \in Nat /\ here + n \in Nat
          /\ here + n = FrameStart[f] + HEADER_LEN + FRAMES[f].len - (d.left - n)
      <4> DEFINE l == d.left
      <4>1. l \in Nat /\ n <= l /\ here = start + size - l /\ l <= size /\ FRAMES[f].len = size
        BY <1>1, <1>6, <1>10, <1>11, <2>0
      <4> HIDE DEF l
      <4>2. /\ l - n \in 0 .. size /\ l - n \in Nat /\ here + n \in Nat
            /\ here + n = FrameStart[f] + HEADER_LEN + size - (l - n)
        BY <1>12, <2>0, <4>1
      <4> QED BY <4>1, <4>2 DEF l
    <3> HIDE DEF acc
    <3> QED BY <1>6, <2>5, <2>6, <3>1, AtBy DEF start, size
  <2>9. dec.frame = f /\ f + n > f
    BY <1>1, <2>0, <2>2
  <2> HIDE DEF dec, acc
  <2> QED BY <1>1, <1>2, <1>3, <2>0, <2>3, <2>5, <2>7, <2>8, <2>9, KeepsBy DEF len
<1> QED BY <1>1, <1>2, <1>7, <1>8, <1>9, <1>10

LEMMA RoundIdle ==
  ASSUME NEW st \in Rounds, Idle(st) \/ st.closed
  PROVE  Round(st) = st
<1>1. st.closed \/ Exhausted(DecoderAddData(st.handler.frame_decoder, st.data), st.data)
  BY DEF Idle
<1> QED BY <1>1, Zenon DEF Round

\* The decoder rests only at the end of the slice, or behind the last frame.
LEMMA IdleAtEnd ==
  ASSUME NEW st \in Rounds, Idle(st),
         NEW here \in Nat, NEW end \in Nat, here <= end, NEW before,
         Follows(st, here, end, before)
  PROVE  At(st.handler, end) /\ Between(st.handler)
<1> DEFINE d == st.handler.frame_decoder
           len == end - here
           ret == DecoderAddData(d, st.data)
<1>1. /\ st.handler \in Handler /\ st.data \in Seq(Nat) /\ d \in Decoder
      /\ d.frame \in Nat \ {0} /\ d.part \in {"header", "payload"} /\ d.left \in Nat
      /\ Len(FRAMES) \in Nat
  BY HandlerTypes, FrameTypes
<1>2. len \in Nat /\ Len(st.data) = len /\ At(st.handler, here)
  <2>1. len \in Nat
    OBVIOUS
  <2> QED BY <2>1, BytesType DEF Follows
<1>3. ret.event = "none" /\ ret.consumed_bytes = 0
  BY DEF Idle, Exhausted
<1> HIDE DEF ret, len
<1>4. CASE d.frame > Len(FRAMES)
  <2>1. d.frame = Len(FRAMES) + 1 /\ d.part = "header" /\ here >= FrameStart[d.frame]
        /\ d.frame \in 1 .. Len(FRAMES) + 1
    <3>1. d.frame = Len(FRAMES) + 1
      BY <1>1, <1>2, <1>4 DEF At
    <3> QED BY <1>2, <3>1 DEF At
  <2>2. end >= FrameStart[d.frame]
    BY <2>1, FrameStarts
  <2> QED BY <2>1, <2>2 DEF At, Between
<1>5. CASE d.frame <= Len(FRAMES)
  <2>1. d.part = "header" => d.left \in 1 .. HEADER_LEN
    BY <1>1, <1>2, <1>5, AtFrame
  <2>2. len = 0 /\ ~(d.part = "payload" /\ d.left = 0)
    <3>1. CASE d.part = "header" /\ len < d.left
      BY <1>1, <1>2, <1>3, <1>5, <3>1, DecoderAnswers DEF ret
    <3>2. CASE d.part = "header" /\ d.left <= len
      <4>1. ret.event = "Start"
        BY <1>1, <1>2, <1>5, <3>2, DecoderAnswers DEF ret
      <4> QED BY <1>3, <4>1
    <3>3. CASE d.part = "payload" /\ d.left = 0
      <4>1. ret.event = "End"
        BY <1>1, <1>2, <1>5, <3>3, DecoderAnswers DEF ret
      <4> QED BY <1>3, <4>1
    <3>4. CASE d.part = "payload" /\ d.left # 0
      <4>1. ret.consumed_bytes = IF d.left <= len THEN d.left ELSE len
        BY <1>1, <1>2, <1>5, <3>4, DecoderAnswers DEF ret
      <4> QED BY <1>1, <1>2, <1>3, <3>4, <4>1
    <3> QED BY <1>1, <1>2, <3>1, <3>2, <3>3, <3>4
  <2>3. here = end
    BY <2>2 DEF len
  <2>4. Between(st.handler)
    BY <1>1, <2>2 DEF Between
  <2> QED BY <1>2, <2>3, <2>4
<1> QED BY <1>1, <1>4, <1>5

\* Between two pieces the texts are those of the frames gone by.
LEMMA TextsAt ==
  ASSUME NEW h \in Handler, NEW count \in Nat, At(h, count), Between(h)
  PROVE  /\ Kept(count) = TextsOf[h.frame_decoder.frame - 1]
         /\ Kept(count) \in Texts2
<1> DEFINE d == h.frame_decoder
           f == d.frame
           fs == FrameStart[f]
<1>1. /\ d \in Decoder /\ f \in 1 .. Len(FRAMES) + 1 /\ f - 1 \in 0 .. Len(FRAMES)
      /\ d.part \in {"header", "payload"} /\ d.left \in Nat /\ Len(FRAMES) \in Nat
      /\ HEADER_LEN \in Nat /\ fs \in Nat
  <2>1. d \in Decoder
    BY DEF Handler
  <2>2. f \in 1 .. Len(FRAMES) + 1
    BY DEF At
  <2>3. fs \in Nat
    BY <2>2, FrameStarts
  <2>4. f - 1 \in 0 .. Len(FRAMES)
    BY <2>2, FrameTypes
  <2> QED BY <2>1, <2>2, <2>3, <2>4, FrameTypes DEF Decoder
<1>2. FrameStart[f] <= count /\ (f <= Len(FRAMES) => count < FrameStart[f + 1])
  <2>1. CASE f <= Len(FRAMES)
    <3> DEFINE l == d.left
               size == FRAMES[f].len
    <3>1. /\ FrameStart[f + 1] = fs + HEADER_LEN + size /\ size \in Nat /\ l \in Nat
          /\ d.part = "header" => l \in 1 .. HEADER_LEN /\ count = fs + HEADER_LEN - l
          /\ d.part = "payload" => l \in 0 .. size /\ count = fs + HEADER_LEN + size - l
      BY <1>1, <2>1, AtFrame
    <3>2. d.part = "payload" => l > 0
      BY DEF Between
    <3>3. d.part = "header" \/ d.part = "payload"
      BY <1>1
    <3>4. CASE d.part = "header"
      <4>1. l \in 1 .. HEADER_LEN /\ count = fs + HEADER_LEN - l
        BY <3>1, <3>4
      <4> DEFINE e == FrameStart[f + 1]
      <4>2. e = fs + HEADER_LEN + size /\ size \in Nat /\ fs \in Nat /\ HEADER_LEN \in Nat
        BY <1>1, <3>1
      <4>3. fs <= count /\ count < e
        <5> HIDE DEF l, size, fs, e, f
        <5> QED BY <4>1, <4>2
      <4> QED BY <4>3
    <3>5. CASE d.part = "payload"
      <4>1. l \in 0 .. size /\ count = fs + HEADER_LEN + size - l /\ l > 0
        BY <3>1, <3>2, <3>5
      <4> DEFINE e == FrameStart[f + 1]
      <4>2. e = fs + HEADER_LEN + size /\ size \in Nat /\ fs \in Nat /\ HEADER_LEN \in Nat
        BY <1>1, <3>1
      <4>3. fs <= count /\ count < e
        <5> HIDE DEF l, size, fs, e, f
        <5> QED BY <4>1, <4>2
      <4> QED BY <4>3
    <3> QED BY <3>3, <3>4, <3>5
  <2>2. CASE ~(f <= Len(FRAMES))
    <3>1. f = Len(FRAMES) + 1
      BY <1>1, <2>2
    <3> QED BY <1>1, <2>2, <3>1 DEF At
  <2> QED BY <2>1, <2>2
<1>3. Kept(count) = TextsOf[f - 1]
  BY <1>1, <1>2, TextsSoFar
<1>4. TextsOf[f - 1] \in Texts2
  BY <1>1, TextsOfSteps DEF Texts2
<1> QED BY <1>3, <1>4

\* add_data on a slice of the plaintext: unless a close frame ended in it, the
\* handler is left where the slice ends, and the texts it gave back are the
\* ones that ended in the slice.
LEMMA AddDataDelivers ==
  ASSUME NEW h \in Handler, NEW here \in Nat, NEW len \in Nat, At(h, here), Between(h)
  PROVE  LET ret == add_data(h, Bytes(here, len)) IN
         /\ ret.handler \in Handler /\ ret.strs \in Texts2 /\ ret.closed \in BOOLEAN
         /\ ~ret.closed => /\ At(ret.handler, here + len) /\ Between(ret.handler)
                           /\ Kept(here) \o ret.strs = Kept(here + len)
<1> DEFINE end == here + len
           data == Bytes(here, len)
           before == Kept(here)
           L == Len(FRAMES)
           K == Len(data) + L
           st0 == [handler |-> h, data |-> data, strs |-> <<>>, closed |-> FALSE]
           S == {st \in Rounds : st.closed \/ \E p \in here .. end : Follows(st, p, end, before)}
           step == [x \in (1 .. K) \X S |-> Round(x[2])]
           Done(st) == Idle(st) \/ st.closed
           Eq(g) == g = [k \in 0 .. K |-> IF k = 0 THEN st0 ELSE Round(g[k - 1])]
           rounds == CHOOSE g : Eq(g)
<1>1. /\ data \in Seq(Nat) /\ Len(data) = len /\ L \in Nat /\ K = len + L /\ K \in Nat
      /\ before = TextsOf[h.frame_decoder.frame - 1] /\ before \in Texts2
      /\ end \in Nat /\ here <= end /\ end - here = len
  <2>1. data \in Seq(Nat) /\ Len(data) = len
    BY BytesType
  <2>2. L \in Nat
    BY FrameTypes
  <2>3. K = len + L /\ K \in Nat
    <3> HIDE DEF data, L
    <3> QED BY <2>1, <2>2
  <2>4. before = TextsOf[h.frame_decoder.frame - 1] /\ before \in Texts2
    BY TextsAt
  <2>5. end \in Nat /\ here <= end /\ end - here = len
    OBVIOUS
  <2> QED BY <2>1, <2>2, <2>3, <2>4, <2>5
<1>2. h.frame_decoder \in Decoder /\ h.frame_decoder.frame \in 1 .. L + 1
  BY DEF Handler, At
<1>3. add_data(h, data) = rounds[K]
  BY DEF add_data
<1> HIDE DEF data, before, L, K, end
<1>4. st0 \in Rounds /\ st0 \in S
  <2>1. <<>> \in Texts2
    BY DEF Texts2
  <2>2. st0 \in Rounds
    BY <1>1, <2>1 DEF Rounds
  <2>3. before \o <<>> = before
    <3> DEFINE T == Seq(Nat)
    <3>1. before \in Seq(T)
      BY <1>1 DEF Texts2
    <3> HIDE DEF T
    <3> QED BY <3>1
  <2>4. Follows(st0, here, end, before)
    BY <1>1, <2>3 DEF Follows, data
  <2>5. here \in here .. end
    BY <1>1
  <2> QED BY <2>2, <2>4, <2>5
<1>5. ASSUME NEW st \in S
      PROVE  /\ Round(st) \in S
             /\ Done(st) => Round(st) = st
             /\ ~Done(st) /\ ~Done(Round(st)) => Measure(Round(st)) < Measure(st)
  <2>0. st \in Rounds
    OBVIOUS
  <2>1. CASE Done(st)
    BY <2>0, <2>1, RoundIdle
  <2>2. CASE ~Done(st)
    <3>1. PICK p \in here .. end : Follows(st, p, end, before)
      BY <2>2
    <3>2. p \in Nat /\ p <= end
      BY <1>1
    <3>3. Keeps(st, p, end, before)
      BY <1>1, <2>0, <2>2, <3>1, <3>2, RoundKeeps
    <3>4. \A next \in p .. end : next \in here .. end
      BY <1>1
    <3> HIDE DEF Idle, Measure
    <3>5. Round(st) \in S
      BY <3>3, <3>4 DEF Keeps
    <3> QED BY <2>2, <3>3, <3>5 DEF Keeps
  <2> QED BY <2>1, <2>2
<1>6. ASSUME NEW st \in S, ~st.closed
      PROVE  /\ Measure(st) \in Nat
             /\ Measure(st) = 0 => Idle(st)
  <2>1. PICK p \in here .. end : Follows(st, p, end, before)
    BY <1>6
  <2>2. /\ st.handler.frame_decoder \in Decoder /\ st.handler.frame_decoder.frame \in 1 .. L + 1
        /\ Len(st.data) \in Nat /\ st.data \in Seq(Nat)
    BY <2>1, HandlerTypes DEF Follows, At, L
  <2> DEFINE f == st.handler.frame_decoder.frame
             m == Len(st.data)
  <2>5. Measure(st) = m + L + 1 - f /\ f \in 1 .. L + 1 /\ m \in Nat
    BY <2>2 DEF Measure, L
  <2>3. Measure(st) \in Nat
    <3> HIDE DEF f, m
    <3> QED BY <1>1, <2>5
  <2>4. ASSUME Measure(st) = 0 PROVE Idle(st)
    <3>1. st.handler.frame_decoder.frame > Len(FRAMES)
      <4>1. f > L
        <5> HIDE DEF f, m
        <5> QED BY <1>1, <2>4, <2>5
      <4> QED BY <4>1 DEF L
    <3>2. DecoderAddData(st.handler.frame_decoder, st.data)
            = [decoder |-> st.handler.frame_decoder, consumed_bytes |-> 0, event |-> "none"]
      BY <2>2, <3>1, DecoderAnswers
    <3> QED BY <3>2 DEF Idle, Exhausted
  <2> QED BY <2>3, <2>4
<1>7. step \in [(1 .. K) \X S -> S] /\ \A k \in 1 .. K, st \in S : step[<<k, st>>] = Round(st)
  <2> HIDE DEF S
  <2> QED BY <1>5
<1> HIDE DEF S, st0, step
<1>8. PICK g \in [0 .. K -> S] : g[0] = st0 /\ \A k \in 1 .. K : g[k] = step[<<k, g[k - 1]>>]
  <2>1. \E g \in [0 .. K -> S] : Stepwise(g, K, st0, step)
    BY <1>1, <1>4, <1>7, ByRecursion, Zenon
  <2> QED BY <2>1 DEF Stepwise
<1>9. Eq(g)
  <2>1. ASSUME NEW k \in 0 .. K PROVE g[k] = IF k = 0 THEN st0 ELSE Round(g[k - 1])
    <3>1. CASE k = 0
      BY <1>8, <3>1
    <3>2. CASE k # 0
      <4>1. k \in 1 .. K /\ k - 1 \in 0 .. K
        BY <1>1, <3>2
      <4>2. g[k - 1] \in S
        BY <1>8, <4>1
      <4>3. g[k] = Round(g[k - 1])
        BY <1>7, <1>8, <4>1, <4>2
      <4> QED BY <3>2, <4>3
    <3> QED BY <3>1, <3>2
  <2> QED BY <1>8, <2>1
<1>10. Eq(rounds)
  <2> HIDE DEF Eq
  <2> QED BY <1>9
<1> HIDE DEF rounds
<1>11. rounds[0] = st0 /\ \A k \in 1 .. K : k - 1 \in 0 .. K /\ rounds[k] = Round(rounds[k - 1])
  <2>1. rounds[0] = st0
    BY <1>1, <1>10
  <2>2. ASSUME NEW k \in 1 .. K PROVE k - 1 \in 0 .. K /\ rounds[k] = Round(rounds[k - 1])
    <3>1. k \in 0 .. K /\ k # 0 /\ k - 1 \in 0 .. K
      BY <1>1
    <3> QED BY <1>10, <3>1
  <2> QED BY <2>1, <2>2
<1> DEFINE M0 == Measure(st0)
           Good == {k \in 0 .. K :
                      rounds[k] \in S /\ (Done(rounds[k]) \/ Measure(rounds[k]) + k <= M0)}
<1> HIDE DEF Eq
<1>12. M0 \in Nat /\ M0 <= K
  <2>1. M0 = len + L + 1 - h.frame_decoder.frame
    BY <1>1 DEF Measure, st0, L
  <2> HIDE DEF M0
  <2> QED BY <1>1, <1>2, <2>1
<1>13. 0 \in Good
  BY <1>1, <1>4, <1>11, <1>12
<1>14. ASSUME NEW k \in 1 .. K, k - 1 \in Good PROVE k \in Good
  <2> DEFINE a == rounds[k - 1]
             b == rounds[k]
  <2>1. a \in S /\ (Done(a) \/ Measure(a) + (k - 1) <= M0) /\ b = Round(a)
    BY <1>11, <1>14
  <2> HIDE DEF a, b, M0, Done
  <2>2. b \in S
    BY <1>5, <2>1
  <2>3. Done(b) \/ Measure(b) + k <= M0
    <3>1. CASE Done(a)
      BY <1>5, <2>1, <3>1
    <3>2. CASE ~Done(a) /\ ~Done(b)
      <4>1. Measure(b) < Measure(a) /\ Measure(a) + (k - 1) <= M0
        BY <1>5, <2>1, <3>2
      <4>2. Measure(a) \in Nat /\ Measure(b) \in Nat
        BY <1>6, <2>1, <2>2, <3>2 DEF Done
      <4> HIDE DEF Measure
      <4> QED BY <1>12, <4>1, <4>2
    <3> QED BY <3>1, <3>2
  <2>4. k \in 0 .. K
    BY <1>1
  <2> QED BY <2>2, <2>3, <2>4 DEF b
<1>15. rounds[K] \in S /\ Done(rounds[K])
  <2> HIDE DEF Good
  <2>1. \A k \in 0 .. K : k \in Good
    BY <1>1, <1>13, <1>14, UpTo
  <2>2. K \in Good
    BY <1>1, <2>1
  <2> DEFINE a == rounds[K]
  <2>3. a \in S /\ (Done(a) \/ Measure(a) + K <= M0)
    BY <2>2 DEF Good
  <2> HIDE DEF a, M0
  <2>4. ASSUME ~Done(a) PROVE FALSE
    <3>1. Measure(a) \in Nat /\ (Measure(a) = 0 => Idle(a)) /\ Measure(a) + K <= M0
      BY <1>6, <2>3, <2>4
    <3> HIDE DEF Measure, Idle
    <3>2. Measure(a) = 0
      BY <1>1, <1>12, <3>1
    <3> QED BY <2>4, <3>1, <3>2
  <2> QED BY <2>3, <2>4 DEF a
<1> DEFINE ret == rounds[K]
<1>16. ret \in Rounds
  BY <1>15 DEF S
<1>17. ASSUME ~ret.closed
       PROVE  At(ret.handler, end) /\ Between(ret.handler) /\ before \o ret.strs = Kept(end)
  <2>1. PICK p \in here .. end : Follows(ret, p, end, before)
    BY <1>15, <1>17 DEF S
  <2>2. p \in Nat /\ p <= end /\ Idle(ret)
    BY <1>1, <1>15, <1>17
  <2>3. At(ret.handler, end) /\ Between(ret.handler)
    BY <1>1, <1>16, <2>1, <2>2, IdleAtEnd
  <2>4. Kept(end) = TextsOf[ret.handler.frame_decoder.frame - 1]
    BY <1>1, <1>16, <2>3, TextsAt, HandlerTypes
  <2> QED BY <2>1, <2>3, <2>4 DEF Follows
<1>18. ret.handler \in Handler /\ ret.strs \in Texts2 /\ ret.closed \in BOOLEAN
  BY <1>16, HandlerTypes
<1> HIDE DEF ret
<1>19. add_data(h, Bytes(here, len)) = ret
  BY <1>3 DEF ret, data
<1> QED BY <1>17, <1>18, <1>19 DEF end, before

-----------------------------------------------------------------------------
(***************************************************************************)
(* The ring and the completions.                                           *)
(***************************************************************************)

Cqes == [res : EndResults \cup 1 .. BUF_SIZE, buffer : BOOLEAN, bid : Slots]
Offered == (br.tail - khead) % TAIL_MOD

LEMMA QueueTypes ==
  ASSUME TypeOK
  PROVE  /\ cq \in Seq(Cqes) /\ Len(cq) \in Nat
         /\ \A j \in 1 .. Len(cq) : cq[j] \in Cqes
         /\ \A j \in 1 .. Len(cq) : cq[j].bid \in Slots /\ cq[j].res \in Int
                                    /\ cq[j].buffer \in BOOLEAN
<1>1. cq \in Seq(Cqes)
  BY DEF TypeOK, Cqes
<1>2. Len(cq) \in Nat /\ \A j \in 1 .. Len(cq) : cq[j] \in Cqes
  <2> HIDE DEF Cqes
  <2> QED BY <1>1
<1>3. \A e \in Cqes : e.bid \in Slots /\ e.res \in Int /\ e.buffer \in BOOLEAN
  BY Sizes DEF Cqes, EndResults
<1> QED BY <1>1, <1>2, <1>3

LEMMA Counts ==
  ASSUME TypeOK, RingInv, QueueInv
  PROVE  /\ Buffers \in 0 .. Len(cq) /\ Back \in {0, 1} /\ Read \in {0, 1}
         /\ Back <= Read /\ Read <= Buffers
         /\ br.tail \in Tails /\ khead \in Tails /\ br.tail \in Nat /\ khead \in Nat
         /\ Offered \in Nat /\ Offered + Buffers - Back = RING_POOL_SIZE
         /\ recv = "ended" => Len(cq) = Buffers + 1
         /\ recv # "ended" => Len(cq) = Buffers
<1>1. Len(cq) \in Nat /\ cq \in Seq(Cqes)
  BY QueueTypes
<1>2. recv = "ended" => Len(cq) >= 1
  <2>1. cq # <<>> => Len(cq) >= 1
    <3> HIDE DEF Cqes
    <3> QED BY <1>1
  <2> QED BY <2>1 DEF QueueInv
<1>3. Buffers \in 0 .. Len(cq) /\ (recv = "ended" => Len(cq) = Buffers + 1)
      /\ (recv # "ended" => Len(cq) = Buffers)
  BY <1>1, <1>2 DEF Buffers
<1>4. Back \in {0, 1} /\ Read \in {0, 1} /\ Back <= Read
  BY DEF Back, Read
<1>5. Read <= Buffers
  BY <1>1, <1>3 DEF QueueInv, Read
<1>6. br.tail \in Tails /\ khead \in Tails
  BY DEF TypeOK, Ring
<1>7. br.tail \in Nat /\ khead \in Nat /\ Offered \in Nat
  <2>1. (br.tail - khead) % TAIL_MOD \in 0 .. TAIL_MOD - 1
    BY <1>6, HeadToTail
  <2>2. \A n \in Tails : n \in Nat
    BY Sizes DEF Tails
  <2> QED BY <1>6, <2>1, <2>2, Sizes DEF Offered
<1> QED BY <1>3, <1>4, <1>5, <1>6, <1>7 DEF RingInv, Offered

LEMMA BidsDiffer ==
  ASSUME TypeOK, RingInv, QueueInv
  PROVE  /\ \A j \in Back + 1 .. Buffers :
              cq[j].bid = SlotIndex(br.tail + j - 1 - Back) /\ cq[j].bid \in Slots
         /\ \A i, j \in Back + 1 .. Buffers : i # j => cq[i].bid # cq[j].bid
         /\ br.tail # khead => \A j \in Back + 1 .. Buffers : cq[j].bid # SlotIndex(khead)
         /\ br.tail # khead => SlotIndex(khead) = SlotIndex(br.tail + Buffers - Back)
<1> DEFINE P == RING_POOL_SIZE
           t == br.tail
           B == Buffers
           K == Back
           N == Offered
<1>1. /\ B \in Nat /\ K \in {0, 1} /\ t \in Tails /\ khead \in Tails /\ t \in Nat /\ khead \in Nat
      /\ N \in Nat /\ N + B - K = P /\ P \in Nat /\ K <= B /\ B <= Len(cq) /\ Len(cq) \in Nat
  BY Counts, Sizes, QueueTypes
<1>2. \A j \in K + 1 .. B : cq[j].bid = SlotIndex(t + j - 1 - K)
  BY <1>1 DEF QueueInv
<1>3. \A j \in K + 1 .. B : cq[j].bid \in Slots
  BY <1>1, QueueTypes
<1>4. \A d \in Nat : SlotIndex(t + d) = SlotIndex(khead + N + d)
  BY <1>1, HeadToTail DEF Offered
<1>5. t # khead => N # 0
  BY <1>1, HeadToTail DEF Offered
<1> HIDE DEF P, t, B, K, N
<1>6. ASSUME NEW i \in K + 1 .. B, NEW j \in K + 1 .. B, i < j PROVE cq[i].bid # cq[j].bid
  <2> DEFINE c == t + i - 1 - K
             d == t + j - 1 - K
  <2>1. c \in Nat /\ d \in Nat /\ c < d /\ d - c < P
    BY <1>1, <1>6
  <2>2. cq[i].bid = SlotIndex(c) /\ cq[j].bid = SlotIndex(d)
    BY <1>2
  <2> HIDE DEF c, d
  <2> QED BY <2>1, <2>2, SlotDistinct DEF P
<1>7. ASSUME NEW i \in K + 1 .. B, NEW j \in K + 1 .. B, i # j PROVE cq[i].bid # cq[j].bid
  <2>1. i < j \/ j < i
    BY <1>1, <1>7
  <2> QED BY <1>6, <2>1
<1>8. ASSUME t # khead, NEW j \in K + 1 .. B PROVE cq[j].bid # SlotIndex(khead)
  <2> DEFINE d == j - 1 - K
             e == khead + N + d
  <2>1. d \in Nat /\ e \in Nat /\ khead < e /\ e - khead < P /\ t + d = t + j - 1 - K
    BY <1>1, <1>5, <1>8
  <2>2. cq[j].bid = SlotIndex(e)
    BY <1>2, <1>4, <2>1
  <2> HIDE DEF e
  <2> QED BY <1>1, <2>1, <2>2, SlotDistinct DEF P
<1>9. SlotIndex(khead) = SlotIndex(t + B - K)
  <2>1. B - K \in Nat /\ t + B - K = t + (B - K) /\ khead + N + (B - K) = khead + P
    BY <1>1
  <2>2. SlotIndex(khead + P) = SlotIndex(khead)
    BY <1>1, SlotLap DEF P
  <2> QED BY <1>4, <2>1, <2>2
<1> QED BY <1>2, <1>3, <1>7, <1>8, <1>9 DEF t, B, K

\* Of the wire bytes, more make no less plaintext.
LEMMA PlainGrows ==
  ASSUME NEW a \in Nat, NEW b \in Nat, a <= b
  PROVE  PlainOf(a) \in Nat /\ PlainOf(b) \in Nat /\ PlainOf(a) <= PlainOf(b)
<1> DEFINE n == REC_LEN
           p == a \div n
           q == b \div n
<1>1. n \in Nat \ {0} /\ REC_PLAIN \in Nat
  BY ProbeAssumption
<1>2. p \in Nat /\ a % n \in 0 .. n - 1 /\ a = n * p + (a % n)
      /\ q \in Nat /\ b % n \in 0 .. n - 1 /\ b = n * q + (b % n)
  BY <1>1, Decompose
<1> HIDE DEF p, q, n
<1>3. p <= q
  <2>1. CASE q < p
    <3>1. PICK d \in Nat : p = q + 1 + d
      <4>1. p - q - 1 \in Nat /\ p = q + 1 + (p - q - 1)
        BY <1>2, <2>1
      <4> QED BY <4>1
    <3>2. n * p = n * q + n + n * d /\ n * d \in Nat
      BY <1>1, <1>2, <3>1
    <3>3. n * p \in Nat /\ n * q \in Nat
      BY <1>1, <1>2
    <3> DEFINE x == n * p
               y == n * q
               z == n * d
    <3>4. x = y + n + z /\ x \in Nat /\ y \in Nat /\ z \in Nat
      BY <3>2, <3>3
    <3>5. a = x + (a % n) /\ a % n \in 0 .. n - 1 /\ b = y + (b % n) /\ b % n \in 0 .. n - 1
      BY <1>2
    <3> DEFINE r == a % n
               u == b % n
    <3> HIDE DEF x, y, z, r, u
    <3>6. a = x + r /\ r \in 0 .. n - 1 /\ b = y + u /\ u \in 0 .. n - 1
      BY <3>5 DEF r, u
    <3> QED BY <1>1, <3>4, <3>6
  <2> QED BY <1>2, <2>1
<1>4. p * REC_PLAIN \in Nat /\ q * REC_PLAIN \in Nat /\ p * REC_PLAIN <= q * REC_PLAIN
  <2>1. PICK d \in Nat : q = p + d
    <3>1. q - p \in Nat /\ q = p + (q - p)
      BY <1>2, <1>3
    <3> QED BY <3>1
  <2>2. q * REC_PLAIN = p * REC_PLAIN + d * REC_PLAIN /\ d * REC_PLAIN \in Nat
        /\ p * REC_PLAIN \in Nat /\ q * REC_PLAIN \in Nat
    BY <1>1, <1>2, <2>1
  <2> QED BY <2>2
<1> QED BY <1>4 DEF PlainOf, p, q, n

-----------------------------------------------------------------------------
(***************************************************************************)
(* The inductive invariant.                                                *)
(***************************************************************************)

LEMMA InitProbeInv == Init => ProbeInv
<1> SUFFICES ASSUME Init PROVE ProbeInv
  OBVIOUS
<1>1. /\ br.bufs = [i \in Slots |-> [addr |-> i, len |-> BUF_SIZE, bid |-> i]]
      /\ br.tail = RING_POOL_SIZE /\ br \in Ring
  <2>1. br = [bufs |-> [i \in Slots |-> [addr |-> i, len |-> BUF_SIZE, bid |-> i]],
              tail |-> RING_POOL_SIZE % TAIL_MOD]
    <3>1. 0 + RING_POOL_SIZE = RING_POOL_SIZE
      BY Sizes
    <3> QED BY <3>1, Zenon DEF Init, new_buffer_group, io_uring_buf_ring_advance
  <2>2. RING_POOL_SIZE % TAIL_MOD = RING_POOL_SIZE /\ RING_POOL_SIZE \in Tails
    BY Sizes, ModSmall DEF Tails
  <2>3. [i \in Slots |-> [addr |-> i, len |-> BUF_SIZE, bid |-> i]] \in [Slots -> Slot]
    BY Sizes DEF Slot
  <2> QED BY <2>1, <2>2, <2>3 DEF Ring
<1>2. cq = <<>> /\ recv = "prepared" /\ phase = "submit" /\ khead = 0 /\ batch = 0
      /\ given = 0 /\ got = 0 /\ plain = 0 /\ piece = 0 /\ panic = "none"
      /\ handler = NewHandler /\ messages = <<>>
  BY DEF Init
<1>3. Buffers = 0 /\ Back = 0 /\ Read = 0
  BY <1>2 DEF Buffers, Back, Read
<1>4. PlainOf(0) \in Nat /\ PlainOf(0) = 0
  <2>1. 0 \div REC_LEN = 0
    BY ProbeAssumption
  <2> QED BY <2>1, ProbeAssumption DEF PlainOf
<1>5. handler \in Handler
  BY <1>2, FrameTypes DEF NewHandler, Handler, Decoder
<1>6. At(handler, 0) /\ Between(handler)
  <2>1. /\ handler.frame_decoder.frame = 1 /\ handler.frame_decoder.part = "header"
        /\ handler.frame_decoder.left = HEADER_LEN
    BY <1>2 DEF NewHandler
  <2>2. 1 \in 1 .. Len(FRAMES) + 1 /\ FrameStart[1] = 0
        /\ HEADER_LEN \in 1 .. HEADER_LEN /\ 0 = 0 + HEADER_LEN - HEADER_LEN
    BY FrameTypes, FrameStarts
  <2>3. Between(handler)
    BY <2>1 DEF Between
  <2>4. At(handler, 0)
    BY <2>1, <2>2 DEF At
  <2> QED BY <2>3, <2>4
<1>7. Kept(0) = <<>>
  <2>1. handler.frame_decoder.frame - 1 = 0
    BY <1>2 DEF NewHandler
  <2> QED BY <1>5, <1>6, <2>1, TextsAt, TextsOfSteps
<1>8. TypeOK
  <2>1. mem \in [Slots -> [plain : BOOLEAN, start : Nat, len : 0 .. BUF_SIZE]]
    BY Sizes DEF Init
  <2>2. <<>> \in Seq([res : EndResults \cup 1 .. BUF_SIZE, buffer : BOOLEAN, bid : Slots])
        /\ <<>> \in Seq(Seq(Nat))
    OBVIOUS
  <2>3. batch \in 0 .. BATCH /\ piece \in 0 .. BUF_SIZE /\ khead \in Tails
    BY <1>2, ProbeAssumption, Sizes
  <2>4. plain \in 0 .. PlainOf(got) /\ given \in 0 .. got /\ got \in 0 .. MAX_BYTES
    BY <1>2, <1>4, ProbeAssumption
  <2> QED BY <1>1, <1>2, <1>5, <2>1, <2>2, <2>3, <2>4 DEF TypeOK
<1>9. RingInv
  <2>1. RING_POOL_SIZE - 0 = RING_POOL_SIZE /\ RING_POOL_SIZE % TAIL_MOD = RING_POOL_SIZE
        /\ RING_POOL_SIZE + 0 - 0 = RING_POOL_SIZE
    BY Sizes, ModSmall
  <2>2. ((br.tail - khead) % TAIL_MOD) = RING_POOL_SIZE
    BY <1>1, <1>2, <2>1
  <2> QED BY <1>1, <1>3, <2>1, <2>2 DEF RingInv
<1>10. QueueInv /\ BytesInv
  BY <1>2, <1>3 DEF QueueInv, BytesInv
<1>11. PieceInv
  BY <1>2, <1>4 DEF PieceInv
<1>12. HandlerInv
  <2>1. plain - piece = 0
    BY <1>2
  <2> QED BY <1>2, <1>6, <1>7, <2>1 DEF HandlerInv
<1> QED BY <1>8, <1>9, <1>10, <1>11, <1>12 DEF ProbeInv

LEMMA SubmitInv ==
  ASSUME ProbeInv, Submit \/ SubmitFails \/ Peek \/ Refused
  PROVE  ProbeInv'
<1> USE DEF ProbeInv
<1>1. /\ UNCHANGED <<br, khead, mem, cq, got, piece, plain, given, last, handler, messages>>
      /\ (recv' = "ended") <=> (recv = "ended")
      /\ recv' \in {"prepared", "armed", "ended"} /\ panic = "none"
  BY DEF Submit, SubmitFails, Peek, Refused, ringVars, kernelVars, tlsVars, textVars, Running, TypeOK
<1>2. CASE Submit
  <2>1. phase = "submit" /\ phase' = "peek" /\ UNCHANGED <<batch, panic>>
    BY <1>2 DEF Submit
  <2>2. Buffers' = Buffers /\ Back' = Back /\ Read' = Read
    BY <1>1, <2>1 DEF Buffers, Back, Read
  <2>3. TypeOK'
    BY <1>1, <2>1 DEF TypeOK
  <2>4. RingInv' /\ QueueInv' /\ BytesInv' /\ PieceInv' /\ HandlerInv'
    BY <1>1, <2>1, <2>2 DEF RingInv, QueueInv, BytesInv, PieceInv, HandlerInv
  <2> QED BY <2>3, <2>4
<1>3. CASE SubmitFails \/ Refused
  <2>1. UNCHANGED <<batch, phase, recv>> /\ panic' \in {"syscall", "refused"}
    BY <1>3 DEF SubmitFails, Refused, kernelVars
  <2>2. Buffers' = Buffers /\ Back' = Back /\ Read' = Read
    BY <1>1, <2>1 DEF Buffers, Back, Read
  <2>3. TypeOK'
    BY <1>1, <2>1 DEF TypeOK
  <2>4. RingInv' /\ QueueInv' /\ BytesInv' /\ PieceInv'
    BY <1>1, <2>1, <2>2 DEF RingInv, QueueInv, BytesInv, PieceInv
  <2>5. HandlerInv'
    <3>1. panic' # "closed" /\ panic # "closed"
      BY <1>1, <2>1
    <3> QED BY <1>1, <2>1, <3>1 DEF HandlerInv
  <2> QED BY <2>3, <2>4, <2>5
<1>4. CASE Peek
  <2>0. Len(cq) \in Nat
    BY QueueTypes
  <2>1. /\ phase = "peek" /\ batch' = Min2(Len(cq), BATCH) /\ UNCHANGED <<panic, recv>>
        /\ phase' = IF batch' = 0 THEN "submit" ELSE "cqe"
    BY <1>4 DEF Peek, kernelVars
  <2>2. Buffers' = Buffers /\ Back' = Back /\ Read' = Read
    BY <1>1, <2>1 DEF Buffers, Back, Read
  <2>3. batch' \in 0 .. BATCH /\ batch' <= Len(cq')
    BY <1>1, <2>0, <2>1, ProbeAssumption DEF Min2
  <2>4. TypeOK'
    BY <1>1, <2>1, <2>3 DEF TypeOK
  <2>5. RingInv' /\ QueueInv' /\ BytesInv' /\ PieceInv' /\ HandlerInv'
    BY <1>1, <2>1, <2>2, <2>3 DEF RingInv, QueueInv, BytesInv, PieceInv, HandlerInv
  <2> QED BY <2>4, <2>5
<1> QED BY <1>2, <1>3, <1>4

LEMMA Numbers ==
  ASSUME TypeOK
  PROVE  /\ got \in Nat /\ given \in Nat /\ given <= got /\ piece \in Nat /\ plain \in Nat
         /\ batch \in Nat /\ piece <= BUF_SIZE
         /\ \A s \in Slots : mem[s].plain \in BOOLEAN /\ mem[s].start \in Nat
<1>1. got \in Nat /\ given \in Nat /\ given <= got
  <2>1. got \in 0 .. MAX_BYTES /\ MAX_BYTES \in Nat
    BY ProbeAssumption DEF TypeOK
  <2>2. given \in 0 .. got
    BY DEF TypeOK
  <2> QED BY <2>1, <2>2
<1>2. plain \in Nat
  <2>1. PlainOf(got) \in Nat /\ plain \in 0 .. PlainOf(got)
    BY <1>1, PlainGrows DEF TypeOK
  <2> QED BY <2>1
<1>3. piece \in Nat /\ batch \in Nat /\ piece <= BUF_SIZE
  <2>1. piece \in 0 .. BUF_SIZE /\ batch \in 0 .. BATCH
    BY DEF TypeOK
  <2> QED BY <2>1, Sizes, ProbeAssumption
<1>4. \A s \in Slots : mem[s].plain \in BOOLEAN /\ mem[s].start \in Nat
  BY DEF TypeOK
<1> QED BY <1>1, <1>2, <1>3, <1>4

\* A completion joins the others at the end.
LEMMA CqAppend ==
  ASSUME TypeOK, NEW e \in Cqes
  PROVE  /\ Append(cq, e) \in Seq(Cqes)
         /\ Len(Append(cq, e)) = Len(cq) + 1
         /\ Append(cq, e)[Len(cq) + 1] = e
         /\ \A j \in 1 .. Len(cq) : Append(cq, e)[j] = cq[j]
<1>1. cq \in Seq(Cqes)
  BY QueueTypes
<1> HIDE DEF Cqes
<1> QED BY <1>1, AppendProperties

LEMMA KernelRecvInv ==
  ASSUME ProbeInv, NEW n \in 1 .. BUF_SIZE, KernelRecv(n)
  PROVE  ProbeInv'
<1> USE DEF ProbeInv
<1> DEFINE s == SlotIndex(khead)
           e == [res |-> n, buffer |-> TRUE, bid |-> s]
           B == Buffers
           L == Len(cq)
<1>1. /\ B = L /\ L \in Nat /\ Back \in {0, 1} /\ Read \in {0, 1} /\ Back <= Read /\ Read <= B
      /\ br.tail \in Tails /\ khead \in Tails /\ br.tail \in Nat /\ khead \in Nat
      /\ Offered \in Nat /\ Offered + B - Back = RING_POOL_SIZE
      /\ recv = "armed" /\ br.tail # khead
      /\ got \in Nat /\ given \in Nat /\ n \in Nat /\ n >= 1 /\ n <= BUF_SIZE
      /\ got + n <= MAX_BYTES
  <2>1. recv = "armed" /\ br.tail # khead /\ got + n <= MAX_BYTES
    BY DEF KernelRecv
  <2>2. got \in Nat /\ given \in Nat /\ n \in Nat /\ n >= 1 /\ n <= BUF_SIZE
    BY Sizes, Numbers
  <2>3. Len(cq) \in Nat /\ B = L
    BY <2>1, Counts, QueueTypes
  <2> QED BY <2>1, <2>2, <2>3, Counts
<1>2. s \in Slots /\ br.bufs[s] = [addr |-> s, len |-> BUF_SIZE, bid |-> s]
  BY <1>1, SlotType DEF RingInv
<1>3. /\ mem' = [mem EXCEPT ![s] = [plain |-> FALSE, start |-> got, len |-> n]]
      /\ cq' = Append(cq, e)
      /\ khead' = (khead + 1) % TAIL_MOD /\ got' = got + n
      /\ UNCHANGED <<br, recv, batch, phase, piece, plain, given, last, handler, messages, panic>>
  BY <1>2 DEF KernelRecv, tlsVars, textVars
<1> HIDE DEF s, B, L
<1>4. e \in Cqes
  BY <1>1, <1>2, Sizes DEF Cqes
<1>5. /\ cq' \in Seq(Cqes) /\ Len(cq') = L + 1 /\ cq'[L + 1] = e
      /\ \A j \in 1 .. L : cq'[j] = cq[j]
  <2> HIDE DEF e
  <2> QED BY <1>3, <1>4, CqAppend DEF L
<1>6. Buffers' = L + 1 /\ Back' = Back /\ Read' = Read
  BY <1>1, <1>3, <1>5 DEF Buffers, Back, Read
<1>7. \A j \in Back + 1 .. L : cq[j].bid \in Slots /\ cq[j].bid # s
  BY <1>1, BidsDiffer DEF s, B
<1>8. mem'[s] = [plain |-> FALSE, start |-> got, len |-> n] /\ \A a \in Slots \ {s} : mem'[a] = mem[a]
  BY <1>2, <1>3 DEF TypeOK
<1>9. TypeOK'
  <2>1. khead' \in Tails
    BY <1>1, <1>3, TailType
  <2>2. mem' \in [Slots -> [plain : BOOLEAN, start : Nat, len : 0 .. BUF_SIZE]]
    <3> DEFINE M == [plain : BOOLEAN, start : Nat, len : 0 .. BUF_SIZE]
               m == [plain |-> FALSE, start |-> got, len |-> n]
    <3>1. m \in M
      BY <1>1
    <3>2. mem \in [Slots -> M] /\ mem' = [mem EXCEPT ![s] = m]
      BY <1>3 DEF TypeOK
    <3> HIDE DEF M, m
    <3>3. mem' \in [Slots -> M]
      BY <3>1, <3>2
    <3> QED BY <3>3 DEF M
  <2>3. plain \in 0 .. PlainOf(got') /\ given \in 0 .. got' /\ got' \in 0 .. MAX_BYTES
    <3>1. got' \in Nat /\ got <= got'
      BY <1>1, <1>3
    <3>2. PlainOf(got) \in Nat /\ PlainOf(got') \in Nat /\ PlainOf(got) <= PlainOf(got')
      BY <1>1, <3>1, PlainGrows
    <3>3. plain \in 0 .. PlainOf(got) /\ given \in 0 .. got
      BY DEF TypeOK
    <3>4. got' \in 0 .. MAX_BYTES
      BY <1>1, <1>3, <3>1, ProbeAssumption
    <3> DEFINE x == PlainOf(got)
               y == PlainOf(got')
    <3>5. x \in Nat /\ y \in Nat /\ x <= y /\ plain \in 0 .. x
      BY <3>2, <3>3
    <3> HIDE DEF x, y
    <3>6. plain \in 0 .. y /\ given \in 0 .. got'
      BY <1>1, <3>1, <3>3, <3>5
    <3> QED BY <3>4, <3>6 DEF y
  <2>4. cq' \in Seq([res : EndResults \cup 1 .. BUF_SIZE, buffer : BOOLEAN, bid : Slots])
    BY <1>5 DEF Cqes
  <2> QED BY <1>3, <2>1, <2>2, <2>3, <2>4 DEF TypeOK
<1>10. RingInv'
  <2>1. (br'.tail - khead') % TAIL_MOD = Offered - 1
    BY <1>1, <1>3, HeadMoves DEF Offered
  <2>2. (Offered - 1) + (L + 1) - Back = RING_POOL_SIZE
    BY <1>1, Sizes
  <2> QED BY <1>3, <1>6, <2>1, <2>2 DEF RingInv
<1>11. QueueInv'
  <2>1. \A j \in 1 .. L + 1 :
          /\ cq'[j].buffer /\ cq'[j].res \in 1 .. BUF_SIZE
          /\ j > Back => cq'[j].bid = SlotIndex(br.tail + j - 1 - Back)
    <3> TAKE j \in 1 .. L + 1
    <3>1. CASE j <= L
      <4>1. j \in 1 .. Buffers /\ cq'[j] = cq[j]
        BY <1>1, <1>5, <3>1 DEF B
      <4>2. /\ cq[j].buffer /\ cq[j].res \in 1 .. BUF_SIZE
            /\ j > Back => cq[j].bid = SlotIndex(br.tail + j - 1 - Back)
        BY <4>1 DEF QueueInv
      <4> QED BY <4>1, <4>2, Zenon
    <3>2. CASE j = L + 1
      <4>1. s = SlotIndex(br.tail + j - 1 - Back)
        <5>1. s = SlotIndex(br.tail + L - Back)
          BY <1>1, BidsDiffer DEF s, B
        <5>2. br.tail + j - 1 - Back = br.tail + L - Back
          BY <1>1, <3>2
        <5> QED BY <5>1, <5>2
      <4>2. cq'[j] = e /\ n \in 1 .. BUF_SIZE
        BY <1>5, <3>2
      <4>3. e.buffer /\ e.res = n /\ e.bid = s
        OBVIOUS
      <4> QED BY <4>1, <4>2, <4>3, Zenon
    <3> QED BY <1>1, <3>1, <3>2
  <2>2. batch' <= Len(cq')
    <3>1. batch <= L /\ batch \in 0 .. BATCH /\ BATCH \in Nat
      BY ProbeAssumption DEF QueueInv, TypeOK, L
    <3> QED BY <1>1, <1>3, <1>5, <3>1
  <2>3. phase \in {"drain", "decode", "release"} => L + 1 >= 1
    BY <1>1
  <2>4. phase' \in {"submit", "peek"} <=> batch' = 0
    BY <1>3 DEF QueueInv
  <2>5. recv' # "ended"
    BY <1>1, <1>3
  <2> QED BY <1>1, <1>3, <1>6, <2>1, <2>2, <2>3, <2>4, <2>5 DEF QueueInv
<1>12. BytesInv'
  <2>1. ASSUME NEW j \in Read + 1 .. L + 1
        PROVE  LET held == mem'[cq'[j].bid] IN
                 /\ ~held.plain /\ held.start <= got'
                 /\ held.start + cq'[j].res
                      = IF j < L + 1 THEN mem'[cq'[j + 1].bid].start ELSE got'
    <3>1. CASE j = L + 1
      <4>1. cq'[j] = e /\ mem'[e.bid] = [plain |-> FALSE, start |-> got, len |-> n]
        BY <1>5, <1>8, <3>1
      <4>2. ~(j < L + 1) /\ got <= got + n
        BY <1>1, <3>1
      <4>3. e.bid = s /\ e.res = n
        OBVIOUS
      <4> DEFINE held == mem'[cq'[j].bid]
      <4>4. held = [plain |-> FALSE, start |-> got, len |-> n] /\ cq'[j].res = n
        BY <4>1, <4>3
      <4>5. ~held.plain /\ held.start = got
        BY <4>4
      <4> HIDE DEF held
      <4>6. ~held.plain /\ held.start <= got' /\ held.start + cq'[j].res = got'
        BY <1>1, <1>3, <4>2, <4>4, <4>5
      <4> QED BY <4>2, <4>6 DEF held
    <3>2. CASE j <= L
      <4>1. j \in Back + 1 .. L /\ j \in Read + 1 .. L /\ j \in 1 .. L /\ cq'[j] = cq[j]
        BY <1>1, <1>5, <3>2
      <4>2. mem'[cq[j].bid] = mem[cq[j].bid]
        BY <1>7, <1>8, <4>1
      <4>3. LET held == mem[cq[j].bid] IN
              /\ ~held.plain /\ held.start <= got
              /\ held.start + cq[j].res = IF j < L THEN mem[cq[j + 1].bid].start ELSE got
        BY <1>1, <4>1 DEF BytesInv, B
      <4>4. mem[cq[j].bid].start \in Nat
        BY <1>7, <4>1 DEF TypeOK
      <4>5. mem[cq[j].bid].start <= got'
        <5> DEFINE x == mem[cq[j].bid].start
        <5>1. x \in Nat /\ x <= got
          BY <4>3, <4>4
        <5> HIDE DEF x
        <5>2. x <= got'
          BY <1>1, <1>3, <5>1
        <5> QED BY <5>2 DEF x
      <4>6. CASE j < L
        <5>1. j + 1 \in Back + 1 .. L /\ j + 1 \in 1 .. L /\ j < L + 1
          BY <1>1, <4>1, <4>6
        <5>2. mem'[cq'[j + 1].bid] = mem[cq[j + 1].bid]
          BY <1>5, <1>7, <1>8, <5>1
        <5> QED BY <4>1, <4>2, <4>3, <4>5, <4>6, <5>1, <5>2
      <4>7. CASE j = L
        <5>1. j < L + 1 /\ ~(j < L) /\ mem'[cq'[j + 1].bid].start = got
          BY <1>1, <1>5, <1>8, <4>7
        <5> QED BY <4>1, <4>2, <4>3, <4>5, <5>1
      <4> QED BY <1>1, <3>2, <4>6, <4>7
    <3> QED BY <1>1, <3>1, <3>2
  <2>2. given' = IF L + 1 = Read THEN got' ELSE mem'[cq'[Read + 1].bid].start
    <3>1. L + 1 # Read /\ given = IF L = Read THEN got ELSE mem[cq[Read + 1].bid].start
      BY <1>1 DEF BytesInv, B
    <3>2. CASE L = Read
      <4>1. cq'[Read + 1] = e /\ mem'[e.bid].start = got
        BY <1>5, <1>8, <3>2
      <4> QED BY <1>3, <3>1, <3>2, <4>1
    <3>3. CASE L # Read
      <4>1. Read + 1 \in Back + 1 .. L /\ Read + 1 \in 1 .. L
        BY <1>1, <3>3
      <4>2. mem'[cq'[Read + 1].bid] = mem[cq[Read + 1].bid]
        BY <1>5, <1>7, <1>8, <4>1
      <4> QED BY <1>3, <3>1, <3>3, <4>2
    <3> QED BY <3>2, <3>3
  <2> QED BY <1>6, <2>1, <2>2 DEF BytesInv
<1>13. PieceInv'
  <2>1. ASSUME phase = "decode"
        PROVE  mem'[cq'[1].bid] = mem[cq[1].bid]
    <3>1. 1 \in Back + 1 .. L /\ 1 \in 1 .. L
      BY <1>1, <2>1 DEF Back, Read
    <3> QED BY <1>5, <1>7, <1>8, <3>1
  <2> QED BY <1>3, <2>1 DEF PieceInv
<1>14. HandlerInv'
  BY <1>3 DEF HandlerInv
<1> QED BY <1>9, <1>10, <1>11, <1>12, <1>13, <1>14

LEMMA KernelEndInv ==
  ASSUME ProbeInv, NEW res \in EndResults, KernelEnd(res)
  PROVE  ProbeInv'
<1> USE DEF ProbeInv
<1> DEFINE e == [res |-> res, buffer |-> FALSE, bid |-> 0]
           L == Len(cq)
<1>1. Buffers = L /\ L \in Nat /\ Back \in {0, 1} /\ Read \in {0, 1} /\ Back <= Read /\ Read <= L
  BY Counts, QueueTypes DEF KernelEnd
<1>2. /\ recv = "armed" /\ recv' = "ended" /\ cq' = Append(cq, e)
      /\ UNCHANGED <<br, khead, mem, got, batch, phase, piece, plain, given, last,
                     handler, messages, panic>>
  BY DEF KernelEnd, ringVars, tlsVars, textVars
<1>3. e \in Cqes
  BY Sizes DEF Cqes
<1> HIDE DEF L
<1>4. /\ cq' \in Seq(Cqes) /\ Len(cq') = L + 1 /\ cq'[L + 1] = e
      /\ \A j \in 1 .. L : cq'[j] = cq[j]
  <2> HIDE DEF e
  <2> QED BY <1>2, <1>3, CqAppend DEF L
<1>5. Buffers' = L /\ Back' = Back /\ Read' = Read
  BY <1>1, <1>2, <1>4 DEF Buffers, Back, Read
<1>6. TypeOK'
  BY <1>2, <1>4 DEF TypeOK, Cqes
<1>7. RingInv'
  BY <1>1, <1>2, <1>5 DEF RingInv
<1>8. QueueInv'
  <2>1. \A j \in 1 .. L :
          /\ cq'[j].buffer /\ cq'[j].res \in 1 .. BUF_SIZE
          /\ j > Back => cq'[j].bid = SlotIndex(br.tail + j - 1 - Back)
    BY <1>1, <1>4 DEF QueueInv
  <2>2. batch' <= Len(cq')
    <3>1. batch <= L /\ batch \in 0 .. BATCH /\ BATCH \in Nat
      BY ProbeAssumption DEF QueueInv, TypeOK, L
    <3> QED BY <1>1, <1>2, <1>4, <3>1
  <2>3. cq' # <<>> /\ ~cq'[Len(cq')].buffer /\ cq'[Len(cq')].res \in EndResults
    <3>1. cq' # <<>>
      BY <1>1, <1>4
    <3> QED BY <1>4, <3>1
  <2> QED BY <1>1, <1>2, <1>5, <2>1, <2>2, <2>3 DEF QueueInv
<1>9. BytesInv'
  <2>1. \A j \in Read + 1 .. L : cq'[j] = cq[j] /\ (j < L => cq'[j + 1] = cq[j + 1])
    BY <1>1, <1>4
  <2>2. L # Read => cq'[Read + 1] = cq[Read + 1]
    BY <1>1, <1>4
  <2>3. ASSUME NEW j \in Read + 1 .. L
        PROVE  LET held == mem'[cq'[j].bid] IN
                 /\ ~held.plain /\ held.start <= got'
                 /\ held.start + cq'[j].res
                      = IF j < L THEN mem'[cq'[j + 1].bid].start ELSE got'
    BY <1>1, <1>2, <2>1 DEF BytesInv
  <2>4. given' = IF L = Read THEN got' ELSE mem'[cq'[Read + 1].bid].start
    BY <1>1, <1>2, <2>2 DEF BytesInv
  <2> QED BY <1>5, <2>3, <2>4 DEF BytesInv
<1>10. PieceInv'
  <2>1. phase = "decode" => cq'[1] = cq[1]
    BY <1>1, <1>4 DEF Read
  <2> QED BY <1>2, <2>1 DEF PieceInv
<1>11. HandlerInv'
  BY <1>2 DEF HandlerInv
<1> QED BY <1>6, <1>7, <1>8, <1>9, <1>10, <1>11

\* The completion in hand announces the buffer at the tail.
LEMMA InHand ==
  ASSUME ProbeInv, phase \in {"cqe", "drain", "decode", "release"}
  PROVE  /\ cq # <<>> /\ Len(cq) \in Nat /\ 1 <= Len(cq)
         /\ cqe = cq[1] /\ cqe.bid \in Slots /\ cqe.res \in Int
         /\ buf.addr = cqe.bid
         /\ phase # "cqe" \/ cqe.res > 0 => Buffers >= 1
         /\ Buffers >= 1 => cqe.res \in 1 .. BUF_SIZE /\ cqe.res \in Nat /\ cqe.res > 0
         /\ Buffers >= 1 /\ phase # "release" => cqe.bid = SlotIndex(br.tail)
<1> USE DEF ProbeInv
<1>1. Len(cq) \in Nat /\ cq \in Seq(Cqes)
  BY QueueTypes
<1>2. batch # 0 /\ batch <= Len(cq) /\ batch \in Nat
  BY Numbers DEF QueueInv
<1>3. 1 <= Len(cq) /\ cq # <<>> /\ Head(cq) = cq[1]
  <2>1. 1 <= Len(cq)
    BY <1>1, <1>2
  <2> HIDE DEF Cqes
  <2> QED BY <1>1, <2>1
<1>4. 1 \in 1 .. Len(cq)
  BY <1>1, <1>3
<1>5. cqe.bid \in Slots /\ cqe.res \in Int
  BY <1>3, <1>4, QueueTypes DEF cqe
<1>6. buf.addr = cqe.bid
  <2>1. br.bufs[cqe.bid] = [addr |-> cqe.bid, len |-> BUF_SIZE, bid |-> cqe.bid]
    BY <1>5 DEF RingInv
  <2> QED BY <2>1 DEF buf
<1>7. ASSUME phase # "cqe" \/ cqe.res > 0 PROVE Buffers >= 1
  <2>1. phase # "cqe" => Buffers >= 1
    BY DEF QueueInv
  <2>2. CASE cqe.res > 0
    <3>1. Buffers \in 0 .. Len(cq) /\ (recv = "ended" => Len(cq) = Buffers + 1)
          /\ (recv # "ended" => Len(cq) = Buffers)
      BY Counts
    <3>2. recv = "ended" => cq[Len(cq)].res \in EndResults
      BY DEF QueueInv
    <3>3. \A r \in EndResults : ~(r > 0)
      BY DEF EndResults
    <3>4. CASE recv = "ended" /\ Buffers = 0
      <4>1. Len(cq) = 1
        BY <3>1, <3>4
      <4>2. cqe.res \in EndResults
        BY <1>3, <3>2, <3>4, <4>1 DEF cqe
      <4> QED BY <2>2, <3>3, <4>2
    <3> QED BY <1>1, <1>3, <3>1, <3>4
  <2> QED BY <1>7, <2>1, <2>2
<1>8. ASSUME Buffers >= 1
      PROVE  /\ cqe.res \in 1 .. BUF_SIZE
             /\ phase # "release" => cqe.bid = SlotIndex(br.tail)
  <2>1. Buffers \in Nat /\ 1 \in 1 .. Buffers
    BY <1>1, <1>8, Counts
  <2>2. cq[1].res \in 1 .. BUF_SIZE
    BY <2>1 DEF QueueInv
  <2>3. ASSUME phase # "release" PROVE cq[1].bid = SlotIndex(br.tail)
    <3>1. Back = 0 /\ 1 > 0
      BY <2>3 DEF Back
    <3>2. cq[1].bid = SlotIndex(br.tail + 1 - 1 - 0)
      BY <2>1, <3>1 DEF QueueInv
    <3>3. br.tail + 1 - 1 - 0 = br.tail
      BY Counts
    <3> QED BY <3>2, <3>3
  <2> QED BY <1>3, <2>2, <2>3 DEF cqe
<1>9. Buffers >= 1 => cqe.res \in Nat /\ cqe.res > 0
  BY <1>8, Sizes
<1> QED BY <1>1, <1>3, <1>5, <1>6, <1>7, <1>8, <1>9 DEF cqe

\* ReadTls hands over the bytes that follow those handed over before.
LEMMA ReadTlsGives ==
  ASSUME ProbeInv, ReadTls, panic' = "none"
  PROVE  /\ Buffers >= 1 /\ phase = "cqe" /\ phase' = "drain" /\ panic = "none"
         /\ cqe.res \in Nat /\ cqe.res > 0
         /\ given' = given + cqe.res
         /\ last' = [first |-> given, len |-> cqe.res]
         /\ given' = IF 1 < Buffers THEN mem[cq[2].bid].start ELSE got
         /\ given' <= got /\ given' \in Nat
<1> USE DEF ProbeInv
<1>1. phase = "cqe" /\ panic = "none" /\ panic' = Failure(cqe.res)
  BY DEF ReadTls, Running
<1>2. /\ last' = [first |-> IF mem[buf.addr].plain THEN -1 ELSE mem[buf.addr].start,
                  len |-> cqe.res]
      /\ given' = given + cqe.res
      /\ phase' = "drain"
  BY DEF ReadTls
<1>3. cqe.res > 0
  <2>1. cqe.res \in Int
    BY <1>1, InHand
  <2> QED BY <1>1, <2>1 DEF Failure
<1>4. Buffers >= 1 /\ cqe.res \in Nat /\ cqe = cq[1] /\ cqe.bid \in Slots /\ buf.addr = cqe.bid
  BY <1>1, <1>3, InHand
<1>5. Read = 0 /\ Buffers \in Nat /\ 1 \in Read + 1 .. Buffers /\ Buffers # Read
  BY <1>1, <1>4, Counts, QueueTypes DEF Read
<1> DEFINE held == mem[cq[1].bid]
<1>6. /\ ~held.plain
      /\ held.start + cq[1].res = IF 1 < Buffers THEN mem[cq[2].bid].start ELSE got
  <2>1. 1 + 1 = 2
    OBVIOUS
  <2> QED BY <1>5, <2>1 DEF BytesInv
<1>7. given = held.start
  <2>1. Read + 1 = 1
    BY <1>5
  <2> QED BY <1>5, <2>1 DEF BytesInv
<1>8. given' <= got
  <2>1. CASE 1 < Buffers
    <3>1. 2 \in Read + 1 .. Buffers
      BY <1>5, <2>1
    <3>2. mem[cq[2].bid].start <= got
      BY <3>1 DEF BytesInv
    <3> QED BY <1>2, <1>4, <1>6, <1>7, <2>1, <3>2
  <2>2. CASE ~(1 < Buffers)
    BY <1>2, <1>4, <1>6, <1>7, <2>2, Numbers
  <2> QED BY <2>1, <2>2
<1>9. given' \in Nat
  BY <1>2, <1>4, Numbers
<1>10. last' = [first |-> given, len |-> cqe.res]
  BY <1>2, <1>4, <1>6, <1>7
<1> QED BY <1>1, <1>2, <1>3, <1>4, <1>6, <1>7, <1>8, <1>9, <1>10

LEMMA ReadTlsInv ==
  ASSUME ProbeInv, ReadTls
  PROVE  ProbeInv'
<1> USE DEF ProbeInv
<1>1. /\ phase = "cqe" /\ panic = "none" /\ panic' = Failure(cqe.res)
      /\ UNCHANGED <<br, khead, mem, recv, cq, got, batch, piece, plain, handler, messages>>
  BY DEF ReadTls, Running, ringVars, kernelVars, textVars
<1>2. Buffers' = Buffers /\ Back' = 0 /\ Back = 0 /\ Read = 0
      /\ Read' = IF panic' = "none" THEN 1 ELSE 0
  <2>1. panic' = "none" => phase' = "drain"
    BY DEF ReadTls
  <2>2. panic' # "none" => phase' = "cqe"
    BY <1>1 DEF ReadTls
  <2>3. phase' \in {"drain", "cqe"}
    BY <2>1, <2>2
  <2> QED BY <1>1, <2>1, <2>2, <2>3 DEF Buffers, Back, Read
<1>3. CASE panic' # "none"
  <2>1. UNCHANGED <<phase, given, last>>
    BY <1>3 DEF ReadTls
  <2>2. panic' \in {"cqe error", "res 0"}
    BY <1>1, <1>3 DEF Failure
  <2>3. TypeOK'
    BY <1>1, <2>1, <2>2 DEF TypeOK
  <2>4. RingInv' /\ QueueInv' /\ BytesInv' /\ PieceInv'
    BY <1>1, <1>2, <1>3, <2>1 DEF RingInv, QueueInv, BytesInv, PieceInv
  <2>5. HandlerInv'
    BY <1>1, <2>2 DEF HandlerInv
  <2> QED BY <2>3, <2>4, <2>5
<1>4. CASE panic' = "none"
  <2>1. /\ Buffers >= 1 /\ phase' = "drain" /\ cqe.res \in Nat /\ cqe.res > 0
        /\ given' = given + cqe.res /\ given' <= got /\ given' \in Nat
        /\ given' = IF 1 < Buffers THEN mem[cq[2].bid].start ELSE got
    BY <1>4, ReadTlsGives
  <2>2. Buffers \in Nat /\ given \in Nat
    BY Counts, Numbers, QueueTypes
  <2>3. TypeOK'
    <3>1. given' \in 0 .. got'
      BY <1>1, <2>1, Numbers
    <3> QED BY <1>1, <1>4, <2>1, <3>1 DEF TypeOK
  <2>4. RingInv' /\ QueueInv'
    BY <1>1, <1>2, <1>4, <2>1 DEF RingInv, QueueInv
  <2>5. BytesInv'
    <3>1. \A j \in 1 + 1 .. Buffers : j \in 0 + 1 .. Buffers
      BY <2>2
    <3>2. ASSUME NEW j \in 1 + 1 .. Buffers
          PROVE  LET held == mem'[cq'[j].bid] IN
                   /\ ~held.plain /\ held.start <= got'
                   /\ held.start + cq'[j].res
                        = IF j < Buffers THEN mem'[cq'[j + 1].bid].start ELSE got'
      BY <1>1, <1>2, <3>1 DEF BytesInv
    <3>3. given' = IF Buffers = 1 THEN got' ELSE mem'[cq'[1 + 1].bid].start
      <4>1. 1 + 1 = 2 /\ (Buffers = 1 <=> ~(1 < Buffers))
        BY <2>1, <2>2
      <4> QED BY <1>1, <2>1, <4>1
    <3> QED BY <1>2, <1>4, <3>2, <3>3 DEF BytesInv
  <2>6. PieceInv'
    <3>1. PlainOf(given) \in Nat /\ PlainOf(given') \in Nat /\ PlainOf(given) <= PlainOf(given')
      BY <2>1, <2>2, PlainGrows
    <3>2. plain = PlainOf(given) /\ piece <= plain /\ piece = 0
      BY <1>1 DEF PieceInv
    <3>3. plain <= PlainOf(given')
      BY <3>1, <3>2
    <3> QED BY <1>1, <2>1, <3>2, <3>3 DEF PieceInv
  <2>7. HandlerInv'
    BY <1>1, <1>4, <2>1 DEF HandlerInv
  <2> QED BY <2>3, <2>4, <2>5, <2>6, <2>7
<1> QED BY <1>3, <1>4

LEMMA ReadExactInv ==
  ASSUME ProbeInv, ReadExact
  PROVE  ProbeInv'
<1> USE DEF ProbeInv
<1> DEFINE s == cqe.bid
           m == [plain |-> TRUE, start |-> plain, len |-> piece']
<1>1. /\ phase = "drain" /\ panic = "none" /\ Remaining > 0
      /\ piece' = Min2(cqe.res, Remaining)
      /\ mem' = [mem EXCEPT ![buf.addr] = m]
      /\ plain' = plain + piece' /\ phase' = "decode"
      /\ UNCHANGED <<br, khead, recv, cq, got, batch, given, last, handler, messages, panic>>
  BY DEF ReadExact, Running, kernelVars, textVars
<1>2. /\ s \in Slots /\ buf.addr = s /\ cqe = cq[1] /\ Buffers >= 1
      /\ cqe.res \in 1 .. BUF_SIZE /\ cqe.res \in Nat /\ cqe.res > 0
  BY <1>1, InHand
<1>3. /\ Buffers' = Buffers /\ Back' = Back /\ Read' = Read /\ Back = 0 /\ Read = 1
      /\ Buffers \in Nat
  BY <1>1, Counts, QueueTypes DEF Buffers, Back, Read
<1>4. /\ PlainOf(given) \in Nat /\ PlainOf(got) \in Nat /\ PlainOf(given) <= PlainOf(got)
      /\ plain \in Nat /\ plain <= PlainOf(given) /\ piece = 0
  BY <1>1, PlainGrows, Numbers DEF PieceInv
<1>5. /\ piece' \in Nat /\ piece' > 0 /\ piece' <= BUF_SIZE
      /\ plain' \in Nat /\ plain' <= PlainOf(given) /\ piece' <= plain' /\ plain' - piece' = plain
  <2> DEFINE r == Remaining
             c == cqe.res
             x == PlainOf(given)
  <2>1. r = x - plain /\ r > 0 /\ x \in Nat /\ plain \in Nat
    BY <1>1, <1>4 DEF Remaining
  <2>2. c \in Nat /\ c > 0 /\ c <= BUF_SIZE /\ BUF_SIZE \in Nat
    BY <1>2, Sizes
  <2>3. piece' = Min2(c, r) /\ plain' = plain + piece'
    BY <1>1
  <2> HIDE DEF r, c, x
  <2>4. piece' \in Nat /\ piece' > 0 /\ piece' <= BUF_SIZE /\ piece' <= r
    BY <2>1, <2>2, <2>3 DEF Min2
  <2>5. plain' \in Nat /\ plain' <= x /\ piece' <= plain' /\ plain' - piece' = plain
    BY <2>1, <2>3, <2>4
  <2> QED BY <2>4, <2>5 DEF x
<1> HIDE DEF s
<1>6. mem'[s] = m /\ \A a \in Slots \ {s} : mem'[a] = mem[a]
  <2> HIDE DEF m
  <2> QED BY <1>1, <1>2 DEF TypeOK
<1>7. \A j \in 2 .. Buffers : cq[j].bid \in Slots /\ cq[j].bid # s
  <2>1. \A j \in 2 .. Buffers : j \in Back + 1 .. Buffers /\ j # 1
    BY <1>3
  <2>2. 1 \in Back + 1 .. Buffers
    BY <1>2, <1>3
  <2> QED BY <1>2, <2>1, <2>2, BidsDiffer DEF s
<1>8. TypeOK'
  <2>1. mem' \in [Slots -> [plain : BOOLEAN, start : Nat, len : 0 .. BUF_SIZE]]
    <3> DEFINE M == [plain : BOOLEAN, start : Nat, len : 0 .. BUF_SIZE]
    <3>1. m \in M
      BY <1>4, <1>5, Sizes
    <3>2. mem \in [Slots -> M]
      BY DEF TypeOK
    <3> HIDE DEF M, m
    <3>3. mem' \in [Slots -> M]
      BY <1>1, <3>1, <3>2
    <3> QED BY <3>3 DEF M
  <2>2. plain' \in 0 .. PlainOf(got') /\ piece' \in 0 .. BUF_SIZE
    <3>1. plain' \in 0 .. PlainOf(got) /\ piece' \in 0 .. BUF_SIZE
      <4> DEFINE x == PlainOf(given)
                 y == PlainOf(got)
      <4>1. x \in Nat /\ y \in Nat /\ x <= y /\ plain' \in Nat /\ plain' <= x
        BY <1>4, <1>5
      <4> HIDE DEF x, y
      <4>2. plain' \in 0 .. y
        BY <4>1
      <4> QED BY <1>5, <4>2, Sizes DEF y
    <3> QED BY <1>1, <3>1
  <2> QED BY <1>1, <2>1, <2>2 DEF TypeOK
<1>9. RingInv' /\ QueueInv'
  BY <1>1, <1>3 DEF RingInv, QueueInv
<1>10. BytesInv'
  <2>0. 1 + 1 = 2
    OBVIOUS
  <2>1. \A j \in 2 .. Buffers : mem'[cq[j].bid] = mem[cq[j].bid]
    BY <1>6, <1>7
  <2>2. ASSUME NEW j \in 2 .. Buffers
        PROVE  LET held == mem'[cq'[j].bid] IN
                 /\ ~held.plain /\ held.start <= got'
                 /\ held.start + cq'[j].res
                      = IF j < Buffers THEN mem'[cq'[j + 1].bid].start ELSE got'
    <3>1. j < Buffers => mem'[cq[j + 1].bid] = mem[cq[j + 1].bid]
      <4>1. j < Buffers => j + 1 \in 2 .. Buffers
        BY <1>3
      <4> QED BY <2>1, <4>1
    <3>2. LET held == mem[cq[j].bid] IN
            /\ ~held.plain /\ held.start <= got
            /\ held.start + cq[j].res = IF j < Buffers THEN mem[cq[j + 1].bid].start ELSE got
      BY <1>3, <2>0 DEF BytesInv
    <3> QED BY <1>1, <2>1, <3>1, <3>2
  <2>3. given' = IF Buffers = 1 THEN got' ELSE mem'[cq'[2].bid].start
    <3>1. Buffers # 1 => 2 \in 2 .. Buffers
      BY <1>2, <1>3
    <3>2. given = IF Buffers = 1 THEN got ELSE mem[cq[2].bid].start
      BY <1>3, <2>0 DEF BytesInv
    <3> QED BY <1>1, <2>1, <3>1, <3>2
  <2> QED BY <1>3, <2>0, <2>2, <2>3 DEF BytesInv
<1>11. PieceInv'
  <2>1. mem'[cq'[1].bid].plain /\ mem'[cq'[1].bid].start + piece' = plain'
    BY <1>1, <1>2, <1>6 DEF s
  <2> QED BY <1>1, <1>5, <2>1 DEF PieceInv
<1>12. HandlerInv'
  <2>1. plain - piece = plain
    BY <1>4
  <2>2. At(handler, plain) /\ Between(handler) /\ messages = Kept(plain)
    BY <1>1, <2>1 DEF HandlerInv
  <2> QED BY <1>1, <1>5, <2>2 DEF HandlerInv
<1> QED BY <1>8, <1>9, <1>10, <1>11, <1>12

LEMMA DecodeInv ==
  ASSUME ProbeInv, Decode
  PROVE  ProbeInv'
<1> USE DEF ProbeInv
<1> DEFINE data == [j \in 1 .. piece |->
                      IF mem[buf.addr].plain THEN mem[buf.addr].start + j - 1 ELSE -1]
           ret == add_data(handler, data)
           here == plain - piece
<1>1. /\ phase = "decode" /\ panic = "none" /\ phase' = "drain" /\ piece' = 0
      /\ handler' = ret.handler
      /\ messages' = IF ret.closed THEN messages ELSE messages \o ret.strs
      /\ panic' = IF ret.closed THEN "closed" ELSE "none"
      /\ UNCHANGED <<br, khead, mem, recv, cq, got, batch, plain, given, last>>
  BY DEF Decode, Running, ringVars, kernelVars
<1>2. Buffers' = Buffers /\ Back' = Back /\ Read' = Read
  BY <1>1 DEF Buffers, Back, Read
<1>3. /\ piece \in Nat /\ plain \in Nat /\ piece <= plain /\ here \in Nat /\ here + piece = plain
  <2>1. piece \in Nat /\ plain \in Nat /\ piece <= plain
    BY Numbers DEF PieceInv
  <2> QED BY <2>1
<1>4. data = Bytes(here, piece)
  <2> DEFINE held == mem[buf.addr]
  <2>1. buf.addr = cqe.bid /\ cqe = cq[1] /\ cqe.bid \in Slots
    BY <1>1, InHand
  <2>2. held.plain /\ held.start + piece = plain /\ held.start \in Nat
    BY <1>1, <2>1, Numbers DEF PieceInv
  <2> HIDE DEF held
  <2>3. held.start = here
    BY <1>3, <2>2
  <2> HIDE DEF here
  <2>4. data = [j \in 1 .. piece |-> held.start + j - 1]
    BY <2>2 DEF held
  <2> QED BY <2>3, <2>4 DEF Bytes
<1>5. At(handler, here) /\ Between(handler) /\ messages = Kept(here) /\ handler \in Handler
  BY <1>1 DEF HandlerInv, TypeOK
<1> HIDE DEF data, here
<1>6. /\ ret.handler \in Handler /\ ret.strs \in Texts2 /\ ret.closed \in BOOLEAN
      /\ ~ret.closed => /\ At(ret.handler, here + piece) /\ Between(ret.handler)
                        /\ Kept(here) \o ret.strs = Kept(here + piece)
  BY <1>3, <1>4, <1>5, AddDataDelivers
<1> HIDE DEF ret
<1>7. TypeOK'
  <2>1. messages' \in Seq(Seq(Nat))
    <3> DEFINE T == Seq(Nat)
    <3>1. messages \in Seq(T) /\ ret.strs \in Seq(T)
      BY <1>6 DEF TypeOK, Texts2
    <3> HIDE DEF T
    <3>2. messages' \in Seq(T)
      BY <1>1, <1>6, <3>1
    <3> QED BY <3>2 DEF T
  <2>2. piece' \in 0 .. BUF_SIZE /\ panic' \in {"none", "closed"}
    BY <1>1, <1>6, Sizes
  <2> HIDE DEF Handler
  <2> QED BY <1>1, <1>6, <2>1, <2>2 DEF TypeOK
<1>8. RingInv' /\ QueueInv' /\ BytesInv'
  BY <1>1, <1>2 DEF RingInv, QueueInv, BytesInv, Read
<1>9. PieceInv'
  <2>1. 0 <= plain /\ plain <= PlainOf(given)
    BY <1>3 DEF PieceInv
  <2> QED BY <1>1, <2>1 DEF PieceInv
<1>10. HandlerInv'
  <2>1. CASE ret.closed
    BY <1>1, <2>1 DEF HandlerInv
  <2>2. CASE ~ret.closed
    <3>1. plain' - piece' = here + piece
      BY <1>1, <1>3
    <3>2. handler' = ret.handler /\ messages' = Kept(here + piece) /\ panic' # "closed"
      BY <1>1, <1>5, <1>6, <2>2
    <3> QED BY <1>6, <2>2, <3>1, <3>2 DEF HandlerInv
  <2> QED BY <1>6, <2>1, <2>2
<1> QED BY <1>7, <1>8, <1>9, <1>10

LEMMA ReturnBufferInv ==
  ASSUME ProbeInv, ReturnBuffer
  PROVE  ProbeInv'
<1> USE DEF ProbeInv
<1> DEFINE t == br.tail
           s == SlotIndex(t)
           B == Buffers
<1>1. /\ phase = "drain" /\ panic = "none" /\ phase' = "release" /\ Remaining = 0
      /\ br' = io_uring_buf_ring_advance(
                 io_uring_buf_ring_add(br, buf.addr, BUF_SIZE, cqe.bid, 0), 1)
      /\ UNCHANGED <<khead, mem, recv, cq, got, batch, piece, plain, given, last,
                     handler, messages, panic>>
  BY DEF ReturnBuffer, Running, kernelVars, tlsVars, textVars
<1>2. cqe.bid = s /\ buf.addr = s /\ s \in Slots /\ cqe = cq[1] /\ B >= 1
  BY <1>1, InHand
<1>3. /\ Buffers' = B /\ Back' = 1 /\ Read' = 1 /\ Back = 0 /\ Read = 1 /\ B \in Nat
      /\ t \in Tails /\ khead \in Tails /\ t \in Nat /\ khead \in Nat
      /\ Offered \in Nat /\ Offered + B = RING_POOL_SIZE
  <2>1. /\ Buffers' = B /\ Back' = 1 /\ Read' = 1 /\ Back = 0 /\ Read = 1
    BY <1>1 DEF Buffers, Back, Read
  <2>2. B \in Nat
    BY Counts, QueueTypes
  <2> QED BY <2>1, <2>2, Counts
<1>4. br'.bufs = br.bufs /\ br'.tail = (t + 1) % TAIL_MOD /\ br' \in Ring
  <2>1. br \in Ring /\ t + 0 = t
    <3>1. br \in Ring
      BY DEF TypeOK
    <3>2. t + 0 = t
      <4>1. t \in Nat
        BY <1>3
      <4> HIDE DEF t
      <4> QED BY <4>1
    <3> QED BY <3>1, <3>2
  <2>2. br.bufs[s] = [addr |-> s, len |-> BUF_SIZE, bid |-> s]
    BY <1>2 DEF RingInv
  <2> DEFINE one == io_uring_buf_ring_add(br, buf.addr, BUF_SIZE, cqe.bid, 0)
  <2>3. one = [br EXCEPT !.bufs[s] = [addr |-> s, len |-> BUF_SIZE, bid |-> s]]
    BY <1>2, <2>1 DEF io_uring_buf_ring_add
  <2>4. one = br
    BY <1>2, <2>1, <2>2, <2>3 DEF Ring
  <2> HIDE DEF one
  <2>5. br' = [br EXCEPT !.tail = (t + 1) % TAIL_MOD]
    BY <1>1, <2>4 DEF io_uring_buf_ring_advance, one
  <2>6. (t + 1) % TAIL_MOD \in Tails
    BY <1>3, TailType
  <2> QED BY <2>1, <2>5, <2>6 DEF Ring
<1> HIDE DEF t, s, B
<1>5. TypeOK'
  BY <1>1, <1>4 DEF TypeOK
<1>6. RingInv'
  <2>1. Offered + 1 < TAIL_MOD
    BY <1>2, <1>3, <1>4, Sizes
  <2>2. (br'.tail - khead') % TAIL_MOD = Offered + 1
    <3>1. ((t - khead) % TAIL_MOD) + 1 < TAIL_MOD
      BY <2>1 DEF Offered, t
    <3>2. (((t + 1) % TAIL_MOD) - khead) % TAIL_MOD = ((t - khead) % TAIL_MOD) + 1
      BY <1>3, <3>1, TailMoves
    <3> QED BY <1>1, <1>4, <3>2 DEF Offered, t
  <2>3. (Offered + 1) + B - 1 = RING_POOL_SIZE
    BY <1>3
  <2> QED BY <1>3, <1>4, <2>2, <2>3 DEF RingInv
<1>7. QueueInv'
  <2>1. ASSUME NEW j \in 1 .. B, j > 1
        PROVE  cq'[j].bid = SlotIndex(br'.tail + j - 1 - 1)
    <3> DEFINE d == j - 2
    <3>1. cq[j].bid = SlotIndex(t + j - 1 - 0)
      <4>1. j > 0 /\ j \in 1 .. Buffers
        BY <2>1 DEF B
      <4> QED BY <1>3, <4>1 DEF QueueInv, t
    <3>2. d \in Nat /\ t + 1 \in Nat /\ t + j - 1 - 0 = t + 1 + d
          /\ br'.tail + j - 1 - 1 = ((t + 1) % TAIL_MOD) + d
      <4>1. br'.tail \in Nat
        BY <1>4, Sizes DEF Ring, Tails
      <4> QED BY <1>3, <1>4, <2>1, <4>1
    <3> HIDE DEF d
    <3>3. SlotIndex(((t + 1) % TAIL_MOD) + d) = SlotIndex(t + 1 + d)
      BY <3>2, SlotOffset
    <3> QED BY <1>1, <3>1, <3>2, <3>3
  <2>2. \A j \in 1 .. B : cq[j].buffer /\ cq[j].res \in 1 .. BUF_SIZE
    BY DEF QueueInv, B
  <2>3. \A j \in 1 .. B :
          /\ cq'[j].buffer /\ cq'[j].res \in 1 .. BUF_SIZE
          /\ j > 1 => cq'[j].bid = SlotIndex(br'.tail + j - 1 - 1)
    BY <1>1, <2>1, <2>2
  <2>4. /\ recv' = "ended" => cq' # <<>> /\ ~cq'[Len(cq')].buffer /\ cq'[Len(cq')].res \in EndResults
        /\ batch' <= Len(cq')
        /\ phase' \in {"submit", "peek"} <=> batch' = 0
    BY <1>1 DEF QueueInv
  <2> QED BY <1>2, <1>3, <2>3, <2>4 DEF QueueInv
<1>8. BytesInv'
  BY <1>1, <1>3 DEF BytesInv, B
<1>9. PieceInv'
  <2>1. plain <= PlainOf(given) /\ plain \in Nat /\ PlainOf(given) \in Nat /\ piece = 0
    BY <1>1, Numbers, PlainGrows DEF PieceInv
  <2>2. plain = PlainOf(given)
    BY <1>1, <2>1 DEF Remaining
  <2> QED BY <1>1, <2>1, <2>2 DEF PieceInv
<1>10. HandlerInv'
  BY <1>1 DEF HandlerInv
<1> QED BY <1>5, <1>6, <1>7, <1>8, <1>9, <1>10

LEMMA CqAdvanceInv ==
  ASSUME ProbeInv, CqAdvance
  PROVE  ProbeInv'
<1> USE DEF ProbeInv
<1> DEFINE B == Buffers
           L == Len(cq)
<1>1. /\ phase = "release" /\ panic = "none" /\ cq' = Tail(cq) /\ batch' = batch - 1
      /\ phase' = IF batch' = 0 THEN "submit" ELSE "cqe"
      /\ UNCHANGED <<br, khead, mem, recv, got, piece, plain, given, last,
                     handler, messages, panic>>
  BY DEF CqAdvance, Running, ringVars, tlsVars, textVars
<1>2. /\ cq # <<>> /\ L \in Nat /\ 1 <= L /\ B >= 1 /\ cq \in Seq(Cqes) /\ B \in 0 .. L /\ B \in Nat
      /\ recv = "ended" => L = B + 1
      /\ recv # "ended" => L = B
      /\ Back = 1 /\ Read = 1 /\ br.tail \in Nat
  <2>1. cq # <<>> /\ L \in Nat /\ 1 <= L /\ B >= 1 /\ cq \in Seq(Cqes)
    BY <1>1, InHand, QueueTypes
  <2>2. Back = 1 /\ Read = 1
    BY <1>1 DEF Back, Read
  <2>3. B \in 0 .. L /\ (recv = "ended" => L = B + 1) /\ (recv # "ended" => L = B) /\ br.tail \in Nat
    BY Counts
  <2> HIDE DEF Cqes
  <2> QED BY <2>1, <2>2, <2>3
<1> HIDE DEF B, L
<1>3. /\ cq' \in Seq(Cqes) /\ Len(cq') = L - 1
      /\ \A j \in 1 .. L - 1 : cq'[j] = cq[j + 1]
  <2> HIDE DEF Cqes
  <2> QED BY <1>1, <1>2 DEF L
<1>4. Buffers' = B - 1 /\ Back' = 0 /\ Read' = 0
  <2>1. Buffers' = B - 1
    BY <1>1, <1>2, <1>3 DEF Buffers
  <2>2. phase' \notin {"drain", "decode", "release"}
    BY <1>1
  <2> QED BY <2>1, <2>2 DEF Back, Read
<1>5. batch \in Nat /\ batch # 0 /\ batch <= L /\ batch' \in Nat /\ batch' <= BATCH
  <2>1. batch \in 0 .. BATCH /\ BATCH \in Nat
    BY ProbeAssumption DEF TypeOK
  <2>2. batch # 0 /\ batch <= L
    BY <1>1 DEF QueueInv, L
  <2> QED BY <1>1, <2>1, <2>2
<1>6. TypeOK'
  <2>1. batch' \in 0 .. BATCH
    BY <1>5, ProbeAssumption
  <2>2. cq' \in Seq([res : EndResults \cup 1 .. BUF_SIZE, buffer : BOOLEAN, bid : Slots])
    BY <1>3 DEF Cqes
  <2> QED BY <1>1, <2>1, <2>2 DEF TypeOK
<1>7. RingInv'
  <2>1. ((br.tail - khead) % TAIL_MOD) + B - 1 = RING_POOL_SIZE
    BY <1>2 DEF RingInv, B
  <2>2. ((br.tail - khead) % TAIL_MOD) + (B - 1) - 0 = RING_POOL_SIZE
    <3> DEFINE x == (br.tail - khead) % TAIL_MOD
    <3>1. x \in Nat
      BY Counts DEF Offered
    <3> HIDE DEF x
    <3> QED BY <1>2, <2>1, <3>1 DEF x
  <2> QED BY <1>1, <1>4, <2>2 DEF RingInv
<1>8. \A j \in 1 .. B - 1 : j + 1 \in 1 .. B /\ j + 1 > 1 /\ cq'[j] = cq[j + 1] /\ j \in 1 .. L - 1
  BY <1>2, <1>3
<1>9. QueueInv'
  <2>1. ASSUME NEW j \in 1 .. B - 1
        PROVE  /\ cq'[j].buffer /\ cq'[j].res \in 1 .. BUF_SIZE
               /\ cq'[j].bid = SlotIndex(br'.tail + j - 1 - 0)
    <3>1. /\ cq[j + 1].buffer /\ cq[j + 1].res \in 1 .. BUF_SIZE
          /\ cq[j + 1].bid = SlotIndex(br.tail + (j + 1) - 1 - 1)
      BY <1>2, <1>8 DEF QueueInv, B
    <3>2. br.tail + (j + 1) - 1 - 1 = br.tail + j - 1 - 0
      BY <1>2
    <3> QED BY <1>1, <1>8, <3>1, <3>2
  <2>2. recv' = "ended" => cq' # <<>> /\ ~cq'[Len(cq')].buffer /\ cq'[Len(cq')].res \in EndResults
    <3> HAVE recv' = "ended"
    <3>1. recv = "ended" /\ L = B + 1 /\ L - 1 \in 1 .. L - 1 /\ (L - 1) + 1 = L
      BY <1>1, <1>2
    <3>2. cq'[Len(cq')] = cq[L]
      BY <1>3, <3>1
    <3>3. cq' # <<>>
      BY <1>3, <3>1
    <3> QED BY <3>1, <3>2, <3>3 DEF QueueInv, L
  <2>3. batch' <= Len(cq')
    BY <1>1, <1>2, <1>3, <1>5
  <2>4. phase' \in {"submit", "peek"} <=> batch' = 0
    BY <1>1
  <2>5. phase' \notin {"drain", "decode", "release"}
    BY <1>1
  <2> QED BY <1>4, <2>1, <2>2, <2>3, <2>4, <2>5 DEF QueueInv
<1>10. BytesInv'
  <2>1. ASSUME NEW j \in 0 + 1 .. B - 1
        PROVE  LET held == mem'[cq'[j].bid] IN
                 /\ ~held.plain /\ held.start <= got'
                 /\ held.start + cq'[j].res
                      = IF j < B - 1 THEN mem'[cq'[j + 1].bid].start ELSE got'
    <3>1. j + 1 \in 1 + 1 .. B /\ cq'[j] = cq[j + 1] /\ (j + 1 < B <=> j < B - 1)
      BY <1>2, <1>8
    <3>2. j < B - 1 => cq'[j + 1] = cq[(j + 1) + 1]
      <4>1. j < B - 1 => j + 1 \in 1 .. B - 1
        BY <1>2
      <4> QED BY <1>8, <4>1
    <3>3. LET held == mem[cq[j + 1].bid] IN
            /\ ~held.plain /\ held.start <= got
            /\ held.start + cq[j + 1].res
                 = IF j + 1 < B THEN mem[cq[(j + 1) + 1].bid].start ELSE got
      BY <1>2, <3>1 DEF BytesInv, B
    <3> QED BY <1>1, <3>1, <3>2, <3>3
  <2>2. given' = IF B - 1 = 0 THEN got' ELSE mem'[cq'[0 + 1].bid].start
    <3>1. given = IF B = 1 THEN got ELSE mem[cq[1 + 1].bid].start
      BY <1>2 DEF BytesInv, B
    <3>2. (B - 1 = 0 <=> B = 1) /\ (B # 1 => 1 \in 1 .. B - 1) /\ 0 + 1 = 1
      BY <1>2
    <3>3. B # 1 => cq'[0 + 1] = cq[1 + 1]
      BY <1>8, <3>2
    <3> QED BY <1>1, <3>1, <3>2, <3>3
  <2> QED BY <1>4, <2>1, <2>2 DEF BytesInv
<1>11. PieceInv'
  BY <1>1 DEF PieceInv
<1>12. HandlerInv'
  BY <1>1 DEF HandlerInv
<1> QED BY <1>6, <1>7, <1>9, <1>10, <1>11, <1>12

LEMMA NextProbeInv == ProbeInv /\ [Next]_vars => ProbeInv'
<1> SUFFICES ASSUME ProbeInv, [Next]_vars PROVE ProbeInv'
  OBVIOUS
<1>1. CASE Kernel
  BY <1>1, KernelRecvInv, KernelEndInv DEF Kernel
<1>2. CASE Loop
  BY <1>2, SubmitInv, ReadTlsInv, ReadExactInv, DecodeInv, ReturnBufferInv, CqAdvanceInv DEF Loop
<1>3. CASE UNCHANGED vars
  <2>1. UNCHANGED <<br, khead, mem, recv, cq, batch, phase, piece, plain, handler, panic,
                    got, given, last, messages>>
    BY <1>3 DEF vars, ringVars, kernelVars, tlsVars, textVars
  <2>2. Buffers' = Buffers /\ Back' = Back /\ Read' = Read /\ TypeOK'
    BY <2>1 DEF ProbeInv, TypeOK, Buffers, Back, Read
  <2> QED BY <2>1, <2>2 DEF ProbeInv, RingInv, QueueInv, BytesInv, PieceInv, HandlerInv
<1> QED BY <1>1, <1>2, <1>3 DEF Next

-----------------------------------------------------------------------------
(***************************************************************************)
(* Owners.  From the kernel's head on, RING_POOL_SIZE buffers follow each  *)
(* other: first those offered, then those that completions announce.  A    *)
(* buffer is at one place of this row.                                     *)
(***************************************************************************)

LEMMA PlaceOfBuffer ==
  ASSUME NEW c \in Nat, NEW b \in Slots
  PROVE  \E d \in 0 .. RING_POOL_SIZE - 1 :
           \A e \in 0 .. RING_POOL_SIZE - 1 : SlotIndex(c + e) = b <=> e = d
<1> DEFINE P == RING_POOL_SIZE
<1>1. P \in Nat \ {0} /\ b \in 0 .. P - 1
  BY Sizes DEF Slots
<1> HIDE DEF P
<1>2. PICK n \in c .. c + P - 1 : n % P = b
  BY <1>1, ModCover
<1>3. PICK d \in 0 .. P - 1 : n = c + d
  <2>1. n - c \in 0 .. P - 1 /\ n = c + (n - c)
    BY <1>1
  <2> QED BY <2>1
<1>4. SlotIndex(c + d) = b
  BY <1>2, <1>3 DEF SlotIndex, P
<1>5. ASSUME NEW e \in 0 .. P - 1, SlotIndex(c + e) = b PROVE e = d
  <2>1. \A x, y \in 0 .. P - 1 : x < y => SlotIndex(c + x) # SlotIndex(c + y)
    <3> TAKE x, y \in 0 .. P - 1
    <3> HAVE x < y
    <3>1. c + x \in Nat /\ c + y \in Nat /\ c + x < c + y /\ (c + y) - (c + x) < P
      BY <1>1
    <3> QED BY <3>1, SlotDistinct DEF P
  <2>2. e < d \/ d < e \/ e = d
    BY <1>1
  <2> QED BY <1>4, <1>5, <2>1, <2>2
<1> QED BY <1>4, <1>5 DEF P

LEMMA OwnersInv ==
  ASSUME ProbeInv
  PROVE  OneOwner
<1> USE DEF ProbeInv
<1> SUFFICES ASSUME NEW b \in Slots
             PROVE  \E h \in Holders(b) : Holders(b) = {h}
  BY DEF OneOwner
<1> DEFINE P == RING_POOL_SIZE
           N == Offered
           B == Buffers
           K == Back
           L == Len(cq)
           IsKernel(k) == br.bufs[SlotIndex(khead + k)].bid = b
           IsCqe(j) == cq[j].buffer /\ cq[j].bid = b /\ (phase = "release" => j > 1)
<1>1. /\ N \in Nat /\ B \in 0 .. L /\ L \in Nat /\ K \in {0, 1} /\ N + B - K = P /\ P \in Nat \ {0}
      /\ khead \in Nat /\ br.tail \in Nat /\ br.tail \in Tails /\ khead \in Tails /\ K <= B
      /\ recv = "ended" => L = B + 1
      /\ recv # "ended" => L = B
  BY Counts, QueueTypes, Sizes
<1>2. Holders(b) = {<<"kernel", k>> : k \in {k \in 0 .. N - 1 : IsKernel(k)}}
                     \cup {<<"cqe", j>> : j \in {j \in 1 .. L : IsCqe(j)}}
  <2>1. DOMAIN cq = 1 .. L
    <3>1. cq \in Seq(Cqes)
      BY QueueTypes
    <3> HIDE DEF Cqes
    <3> QED BY <3>1
  <2> QED BY <2>1, Zenon DEF Holders, Offered
<1>3. PICK d \in 0 .. P - 1 : \A e \in 0 .. P - 1 : SlotIndex(khead + e) = b <=> e = d
  BY <1>1, PlaceOfBuffer
<1>4. ASSUME NEW k \in 0 .. N - 1
      PROVE  IsKernel(k) <=> k = d
  <2>1. k \in 0 .. P - 1 /\ khead + k \in Nat
    BY <1>1
  <2>2. br.bufs[SlotIndex(khead + k)].bid = SlotIndex(khead + k)
    <3> DEFINE s == SlotIndex(khead + k)
    <3>1. s \in Slots
      BY <2>1, SlotType
    <3> HIDE DEF s
    <3>2. br.bufs[s] = [addr |-> s, len |-> BUF_SIZE, bid |-> s]
      BY <3>1 DEF RingInv
    <3>3. br.bufs[s].bid = s
      BY <3>2
    <3> QED BY <3>3 DEF s
  <2> QED BY <1>3, <2>1, <2>2
<1>5. ASSUME NEW j \in 1 .. L
      PROVE  IsCqe(j) <=> (j \in K + 1 .. B /\ N + j - 1 - K = d)
  <2>1. (phase = "release" => j > 1) <=> j \in K + 1 .. L
    BY <1>1 DEF Back
  <2>2. cq[j].buffer <=> j \in 1 .. B
    <3>1. j \in 1 .. B => cq[j].buffer
      BY DEF QueueInv
    <3>2. j \notin 1 .. B => recv = "ended" /\ j = L
      BY <1>1
    <3>3. recv = "ended" => ~cq[L].buffer
      BY DEF QueueInv
    <3> QED BY <3>1, <3>2, <3>3
  <2>3. ASSUME j \in K + 1 .. B
        PROVE  cq[j].bid = b <=> N + j - 1 - K = d
    <3> DEFINE e == j - 1 - K
    <3>1. e \in Nat /\ N + e \in 0 .. P - 1 /\ br.tail + j - 1 - K = br.tail + e
          /\ khead + N + e = khead + (N + e) /\ N + e = N + j - 1 - K
      BY <1>1, <2>3
    <3>2. cq[j].bid = SlotIndex(br.tail + j - 1 - K)
      BY <2>3, BidsDiffer
    <3> HIDE DEF e
    <3>3. SlotIndex(br.tail + e) = SlotIndex(khead + N + e)
      BY <1>1, <3>1, HeadToTail DEF Offered
    <3>4. cq[j].bid = SlotIndex(khead + (N + e))
      BY <3>1, <3>2, <3>3
    <3> QED BY <1>3, <3>1, <3>4
  <2>4. j \in K + 1 .. B <=> (j \in K + 1 .. L /\ j \in 1 .. B)
    BY <1>1
  <2> QED BY <2>1, <2>2, <2>3, <2>4
<1> HIDE DEF N, B, K, L, P, IsKernel, IsCqe
<1>6. CASE d < N
  <2>1. d \in 0 .. N - 1
    BY <1>1, <1>6
  <2>2. {k \in 0 .. N - 1 : IsKernel(k)} = {d}
    BY <1>4, <2>1
  <2>3. {j \in 1 .. L : IsCqe(j)} = {}
    <3>1. ASSUME NEW j \in 1 .. L PROVE ~IsCqe(j)
      <4>1. j \in K + 1 .. B => N + j - 1 - K # d
        BY <1>1, <1>6
      <4> QED BY <1>5, <4>1
    <3> QED BY <3>1
  <2>4. Holders(b) = {<<"kernel", d>>}
    BY <1>2, <2>2, <2>3
  <2> QED BY <2>4
<1>7. CASE ~(d < N)
  <2> DEFINE i == d - N + 1 + K
  <2>1. i \in K + 1 .. B /\ i \in 1 .. L /\ N + i - 1 - K = d
    BY <1>1, <1>7
  <2>2. {k \in 0 .. N - 1 : IsKernel(k)} = {}
    <3>1. ASSUME NEW k \in 0 .. N - 1 PROVE ~IsKernel(k)
      BY <1>1, <1>4, <1>7
    <3> QED BY <3>1
  <2>3. {j \in 1 .. L : IsCqe(j)} = {i}
    <3>1. \A j \in 1 .. L : (N + j - 1 - K = d) => j = i
      BY <1>1
    <3> HIDE DEF i
    <3> QED BY <1>5, <2>1, <3>1
  <2> HIDE DEF i
  <2>4. Holders(b) = {<<"cqe", i>>}
    BY <1>2, <2>2, <2>3
  <2> QED BY <2>4
<1> QED BY <1>6, <1>7

-----------------------------------------------------------------------------
(***************************************************************************)
(* Theorems.                                                               *)
(***************************************************************************)

\* Whatever the kernel, the peer and rustls do, the loop keeps the row of
\* buffers, the bytes in them and the handler where the invariant says
\* (io_uring_probe.rs:118-214).
THEOREM ProbeInductive == Spec => []ProbeInv
BY InitProbeInv, NextProbeInv, PTL DEF Spec

\* The probe's state keeps its types (io_uring_probe.rs:118-214).
THEOREM ProbeTypes == Spec => []TypeOK
<1>1. ProbeInv => TypeOK
  BY DEF ProbeInv
<1> QED BY <1>1, ProbeInductive, PTL

\* No buffer is offered twice, announced twice or lost, for any pool size,
\* although nothing in the probe owns a buffer (io_uring_probe.rs:156, 201).
THEOREM BuffersOwnedOnce == Spec => []OneOwner
BY OwnersInv, ProbeInductive, PTL

\* Whenever the loop is between two completions, every text that has ended
\* has been returned, once and in order, and a text of one frame with all its
\* bytes, for every sequence of frames and however they are cut into records,
\* buffers and pieces (io_uring_probe.rs:179-189, 415-485).
THEOREM TextsReturned == Spec => []TextsDelivered
<1>1. ProbeInv => TextsDelivered
  <2> SUFFICES ASSUME ProbeInv, phase \in {"submit", "peek", "cqe"}
               PROVE  TextsDelivered
    BY DEF TextsDelivered
  <2> DEFINE ended == EndedTexts(PlainOf(given))
  <2>1. piece = 0 /\ plain = PlainOf(given) /\ plain \in Nat
    BY Numbers DEF ProbeInv, PieceInv
  <2>2. plain - piece = PlainOf(given) /\ PlainOf(given) \in Nat
    BY <2>1
  <2>3. panic # "closed"
    BY DEF ProbeInv, HandlerInv
  <2>4. messages = Kept(PlainOf(given))
    BY <2>2, <2>3 DEF ProbeInv, HandlerInv
  <2>5. /\ Len(messages) = Cardinality(ended)
        /\ \A f \in ended : messages[Cardinality({g \in ended : g <= f})] = Payload(f)
    BY <2>2, <2>4, KeptInOrder
  <2> QED BY <2>5 DEF TextsDelivered
<1> QED BY <1>1, ProbeInductive, PTL

\* A step of the probe is one of the stream's, or none.
LEMMA ProbeStreams == ProbeInv /\ [Next]_vars => [Stream!Next]_(Stream!vars)
<1> SUFFICES ASSUME ProbeInv, [Next]_vars PROVE [Stream!Next]_(Stream!vars)
  OBVIOUS
<1> USE DEF Stream!vars
<1>0. got \in Nat /\ given \in Nat
  BY Numbers DEF ProbeInv
<1>1. CASE \E n \in 1 .. BUF_SIZE : KernelRecv(n)
  <2>1. PICK n \in 1 .. BUF_SIZE : KernelRecv(n)
    BY <1>1
  <2>2. got' = got + n /\ UNCHANGED <<given, last>> /\ n \in Nat /\ n >= 1
    BY <2>1, Sizes DEF KernelRecv, tlsVars
  <2>3. Stream!Arrive
    BY <1>0, <2>2 DEF Stream!Arrive
  <2> QED BY <2>3 DEF Stream!Next
<1>2. CASE ReadTls
  <2>1. CASE panic' = "none"
    <3>1. /\ given' = given + cqe.res /\ cqe.res \in Nat /\ cqe.res > 0
          /\ last' = [first |-> given, len |-> cqe.res]
          /\ given' <= got /\ given' \in Nat /\ UNCHANGED got
      BY <1>2, <2>1, ReadTlsGives DEF ReadTls, kernelVars
    <3>2. given < given' /\ given' - given = cqe.res
      BY <1>0, <3>1
    <3>3. Stream!Deliver
      BY <3>1, <3>2 DEF Stream!Deliver
    <3> QED BY <3>3 DEF Stream!Next
  <2>2. CASE panic' # "none"
    BY <1>2, <2>2 DEF ReadTls, kernelVars
  <2> QED BY <2>1, <2>2
<1>3. CASE \E res \in EndResults : KernelEnd(res)
  BY <1>3 DEF KernelEnd, tlsVars
<1>4. CASE Submit \/ SubmitFails \/ Peek \/ Refused \/ ReadExact \/ Decode \/ ReturnBuffer \/ CqAdvance
  BY <1>4 DEF Submit, SubmitFails, Peek, Refused, ReadExact, Decode, ReturnBuffer, CqAdvance,
              kernelVars, tlsVars
<1>5. CASE UNCHANGED vars
  BY <1>5 DEF vars, kernelVars, tlsVars
<1> QED BY <1>1, <1>2, <1>3, <1>4, <1>5 DEF Next, Kernel, Loop

\* rustls is handed the bytes of the wire as a stream: each once, in order,
\* none of them overwritten by plaintext before (io_uring_probe.rs:177-183).
THEOREM FeedsStream == Spec => StreamSpec
<1>1. Init => Stream!Init
  BY DEF Init, Stream!Init
<1> QED BY <1>1, ProbeStreams, ProbeInductive, PTL DEF Spec, StreamSpec, Stream!Spec
=============================================================================
