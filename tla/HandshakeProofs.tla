--------------------------- MODULE HandshakeProofs ---------------------------
(***************************************************************************)
(* Proofs about the hand-over of a connection.  What the server has sent   *)
(* lies in four places that follow each other: used by a decoder, read     *)
(* ahead by ws, brought by the receive, and in the socket.  A server that  *)
(* only answers has sent nothing beyond the answer that ws reads, so       *)
(* nothing is read ahead when the new decoder takes over.                  *)
(***************************************************************************)
EXTENDS Handshake, SequenceTheorems, TLAPS

Byte == 0 .. MAX_BYTES - 1

\* seq has the bytes from offset first to before offset next.
Bytes(seq, first, next) ==
  /\ seq \in Seq(Byte)
  /\ first \in Nat /\ next = first + Len(seq)
  /\ \A k \in 1 .. Len(seq) : seq[k] = first + (k - 1)

\* Requests sent, at each stage before the loop
Asked ==
  /\ stage = "connect" => asks = 0
  /\ stage = "response" => (asks = 0 /\ unsent > 0) \/ (asks = 1 /\ unsent = 0)
  /\ stage = "subscribe" => asks = 1
  /\ stage = "reply" => (asks = 1 /\ unsent > 0) \/ (asks = 2 /\ unsent = 0)
  /\ stage = "switch" => asks \in 1 .. 2

\* How much a server that only answers has sent at each stage, if a decoder
\* has used the bytes before offset used
Answered(used) ==
  /\ stage = "connect" => used = 0 /\ sent = 0
  /\ stage = "response" => used = 0 /\ sent <= RESP_LEN /\ (unsent > 0 => sent = 0)
  /\ stage = "subscribe" => used = RESP_LEN /\ sent = RESP_LEN
  /\ stage = "reply" =>
       used = RESP_LEN /\ sent <= RESP_LEN + FRAME_LEN /\ (unsent > 0 => sent = RESP_LEN)
  /\ stage = "switch" => sent = used /\ used = Answers

\* used, read and came are the offsets at which the four places meet.
Meet(used, read, came) ==
  /\ Bytes(seen, 0, used) /\ Bytes(ahead, used, read)
  /\ Bytes(received, read, came) /\ Bytes(socket, came, sent)
  /\ Answered(used)
  /\ stage \in {"arm", "loop"} => nonblocking /\ read = used
  /\ stage \notin {"loop", "panic"} => came = read
  /\ stage \notin {"arm", "loop", "panic"} => ~nonblocking

HandshakeInv == TypeOK /\ Asked
HandOver == \E used, read, came \in Nat : Meet(used, read, came)

-----------------------------------------------------------------------------
LEMMA Lengths ==
  /\ REQ_LEN \in Nat /\ RESP_LEN \in Nat /\ FRAME_LEN \in Nat /\ CHUNK \in Nat
  /\ MAX_ASKS \in Nat /\ MAX_BYTES \in Nat /\ MAX_ASKS >= 2
  /\ REQ_LEN > 0 /\ RESP_LEN > 0 /\ FRAME_LEN > 0
BY HandshakeAssumption

LEMMA BytesEmpty ==
  ASSUME NEW f \in Nat
  PROVE  Bytes(<<>>, f, f)
<1>1. <<>> \in Seq(Byte) /\ Len(<<>>) = 0
  BY EmptySeq
<1> QED BY <1>1 DEF Bytes

LEMMA BytesType ==
  ASSUME NEW seq, NEW f, NEW n, Bytes(seq, f, n)
  PROVE  /\ seq \in Seq(Byte) /\ Len(seq) \in Nat /\ f \in Nat /\ n \in Nat
         /\ n = f + Len(seq) /\ (seq = <<>> <=> f = n)
<1>1. seq \in Seq(Byte) /\ Len(seq) \in Nat /\ f \in Nat /\ n = f + Len(seq)
  BY LenProperties DEF Bytes
<1>2. seq = <<>> <=> Len(seq) = 0
  BY <1>1, EmptySeq
<1> QED BY <1>1, <1>2

LEMMA BytesAppend ==
  ASSUME NEW seq, NEW f, NEW n, Bytes(seq, f, n), n < MAX_BYTES
  PROVE  Bytes(Append(seq, n), f, n + 1)
<1>1. seq \in Seq(Byte) /\ Len(seq) \in Nat /\ f \in Nat /\ n \in Nat /\ n = f + Len(seq)
  BY BytesType
<1>2. n \in Byte
  BY <1>1, Lengths DEF Byte
<1>3. /\ Append(seq, n) \in Seq(Byte) /\ Len(Append(seq, n)) = Len(seq) + 1
      /\ \A k \in 1 .. Len(seq) : Append(seq, n)[k] = seq[k]
      /\ Append(seq, n)[Len(seq) + 1] = n
  BY <1>1, <1>2, AppendProperties
<1>4. ASSUME NEW k \in 1 .. Len(seq) + 1
      PROVE  Append(seq, n)[k] = f + (k - 1)
  BY <1>1, <1>3 DEF Bytes
<1> QED BY <1>1, <1>3, <1>4 DEF Bytes

\* What is cut off at the front, and what is left
LEMMA BytesCut ==
  ASSUME NEW seq, NEW f, NEW n, Bytes(seq, f, n), NEW c \in 0 .. Len(seq)
  PROVE  Bytes(SubSeq(seq, 1, c), f, f + c) /\ Bytes(From(seq, c), f + c, n)
<1>1. seq \in Seq(Byte) /\ Len(seq) \in Nat /\ f \in Nat /\ n \in Nat /\ n = f + Len(seq)
  BY BytesType
<1>2. \A k \in 1 .. Len(seq) : seq[k] \in Byte /\ seq[k] = f + (k - 1)
  BY <1>1 DEF Bytes
<1>3. Bytes(SubSeq(seq, 1, c), f, f + c)
  <2>1. \A k \in 1 .. c : seq[k] \in Byte
    BY <1>1, <1>2
  <2>2. /\ SubSeq(seq, 1, c) \in Seq(Byte) /\ Len(SubSeq(seq, 1, c)) = c
        /\ \A k \in 1 .. (c - 1) + 1 : SubSeq(seq, 1, c)[k] = seq[(1 + k) - 1]
    BY <1>1, <2>1, SubSeqProperties
  <2>3. \A k \in 1 .. c : SubSeq(seq, 1, c)[k] = f + (k - 1)
    BY <1>1, <1>2, <2>2
  <2> QED BY <1>1, <2>2, <2>3 DEF Bytes
<1>4. Bytes(From(seq, c), f + c, n)
  <2>1. \A k \in c + 1 .. Len(seq) : seq[k] \in Byte
    BY <1>1, <1>2
  <2>2. /\ From(seq, c) \in Seq(Byte) /\ Len(From(seq, c)) = Len(seq) - c
        /\ \A k \in 1 .. (Len(seq) - (c + 1)) + 1 : From(seq, c)[k] = seq[((c + 1) + k) - 1]
    BY <1>1, <2>1, SubSeqProperties DEF From
  <2>3. \A k \in 1 .. Len(seq) - c : From(seq, c)[k] = (f + c) + (k - 1)
    BY <1>1, <1>2, <2>2
  <2> QED BY <1>1, <2>2, <2>3 DEF Bytes
<1> QED BY <1>3, <1>4

LEMMA BytesJoin ==
  ASSUME NEW a, NEW b, NEW f, NEW m, NEW n, Bytes(a, f, m), Bytes(b, m, n)
  PROVE  Bytes(a \o b, f, n)
<1>1. /\ a \in Seq(Byte) /\ Len(a) \in Nat /\ f \in Nat /\ m = f + Len(a)
      /\ b \in Seq(Byte) /\ Len(b) \in Nat /\ m \in Nat /\ n = m + Len(b)
  BY BytesType
<1>2. /\ a \o b \in Seq(Byte) /\ Len(a \o b) = Len(a) + Len(b)
      /\ \A k \in 1 .. Len(a) + Len(b) :
           (a \o b)[k] = IF k <= Len(a) THEN a[k] ELSE b[k - Len(a)]
  BY <1>1, ConcatProperties
<1>3. ASSUME NEW k \in 1 .. Len(a) + Len(b)
      PROVE  (a \o b)[k] = f + (k - 1)
  <2>1. CASE k <= Len(a)
    BY <1>1, <1>2, <2>1 DEF Bytes
  <2>2. CASE k > Len(a)
    <3>1. PICK j \in 1 .. Len(b) : j = k - Len(a)
      <4>1. PICK la \in Nat, lb \in Nat : la = Len(a) /\ lb = Len(b)
        BY <1>1
      <4>2. k \in Int /\ k <= la + lb /\ k > la
        BY <2>2, <4>1
      <4>3. k - la \in 1 .. lb
        BY <4>1, <4>2
      <4> QED BY <4>1, <4>3
    <3>2. b[j] = m + (j - 1)
      BY <3>1 DEF Bytes
    <3> QED BY <1>1, <1>2, <2>2, <3>1, <3>2
  <2> QED BY <1>1, <2>1, <2>2
<1> QED BY <1>1, <1>2, <1>3 DEF Bytes

-----------------------------------------------------------------------------
LEMMA InvInit ==
  ASSUME Init
  PROVE  HandshakeInv
<1>1. <<>> \in Seq(0 .. MAX_BYTES - 1)
  BY EmptySeq
<1>2. TypeOK
  <2>1. /\ subscribe \in SUBSCRIBES /\ stage \in Stages /\ unsent \in 0 .. REQ_LEN
        /\ asks \in 0 .. MAX_ASKS /\ sent \in 0 .. MAX_BYTES
    BY Lengths DEF Init, Stages
  <2>2. nonblocking \in BOOLEAN /\ (nonblocking <=> stage \in {"arm", "loop"})
    BY Zenon DEF Init
  <2>3. \A s \in {socket, ahead, received, seen} : s \in Seq(0 .. MAX_BYTES - 1)
    BY <1>1 DEF Init
  <2> QED BY <2>1, <2>2, <2>3 DEF TypeOK
<1>3. Asked
  BY DEF Init, Asked
<1> QED BY <1>2, <1>3 DEF HandshakeInv

LEMMA InvStep ==
  ASSUME HandshakeInv, [Next]_vars
  PROVE  HandshakeInv'
<1>1. /\ socket \in Seq(Byte) /\ ahead \in Seq(Byte) /\ received \in Seq(Byte) /\ seen \in Seq(Byte)
  BY DEF HandshakeInv, TypeOK, Byte
<1>2. ASSUME NEW s \in Seq(Byte), NEW c \in 0 .. Len(s)
      PROVE  SubSeq(s, 1, c) \in Seq(Byte) /\ From(s, c) \in Seq(Byte)
  <2>1. Len(s) \in Nat /\ \A k \in 1 .. Len(s) : s[k] \in Byte
    BY LenProperties
  <2> QED BY <2>1, SubSeqProperties DEF From
<1>3. \A a, b \in Seq(Byte) : a \o b \in Seq(Byte)
  BY ConcatProperties
<1>4. /\ subscribe \in SUBSCRIBES /\ stage \in Stages /\ unsent \in 0 .. REQ_LEN
      /\ asks \in 0 .. MAX_ASKS /\ nonblocking \in BOOLEAN /\ sent \in 0 .. MAX_BYTES
      /\ stage # "panic" => (nonblocking <=> stage \in {"arm", "loop"})
      /\ Asked
  BY DEF HandshakeInv, TypeOK
<1>5. ASSUME NEW s \in Seq(Byte)
      PROVE  Len(s) \in Nat /\ \A c \in 1 .. Min2(CHUNK, Len(s)) : c \in 0 .. Len(s)
  <2>1. Len(s) \in Nat
    BY LenProperties
  <2> QED BY <2>1, Lengths DEF Min2
<1>6. SUFFICES /\ \A s \in {socket', ahead', received', seen'} : s \in Seq(Byte)
               /\ /\ subscribe' \in SUBSCRIBES /\ stage' \in Stages /\ unsent' \in 0 .. REQ_LEN
                  /\ asks' \in 0 .. MAX_ASKS /\ nonblocking' \in BOOLEAN /\ sent' \in 0 .. MAX_BYTES
                  /\ stage' # "panic" => (nonblocking' <=> stage' \in {"arm", "loop"})
               /\ Asked'
  BY DEF HandshakeInv, TypeOK, Byte
<1>7. CASE Upgrade \/ Subscribe \/ SetNonblocking \/ ArmRecv \/ HandshakeFails
  <2>1. UNCHANGED <<socket, ahead, received, seen, subscribe, asks, sent>>
    BY <1>7 DEF Upgrade, Subscribe, SetNonblocking, ArmRecv, HandshakeFails
  <2>2. stage' \in Stages /\ unsent' \in 0 .. REQ_LEN
    BY <1>4, <1>7, Lengths
       DEF Upgrade, Subscribe, SetNonblocking, ArmRecv, HandshakeFails, Stages
  <2>4. nonblocking' \in BOOLEAN /\ (stage' # "panic" => (nonblocking' <=> stage' \in {"arm", "loop"}))
    <3>1. CASE SetNonblocking
      BY <3>1, Zenon DEF SetNonblocking
    <3>2. CASE Upgrade
      BY <1>4, <3>2, Zenon DEF Upgrade
    <3>5. CASE Subscribe
      BY <1>4, <3>5, Zenon DEF Subscribe
    <3>3. CASE ArmRecv
      BY <1>4, <3>3, Zenon DEF ArmRecv
    <3>4. CASE HandshakeFails
      BY <1>4, <3>4, Zenon DEF HandshakeFails
    <3> QED BY <1>7, <3>1, <3>2, <3>3, <3>4, <3>5
  <2>3. Asked'
    BY <1>4, <1>7, <2>1, Lengths
       DEF Upgrade, Subscribe, SetNonblocking, ArmRecv, HandshakeFails, Asked
  <2> QED BY <1>1, <1>4, <2>1, <2>2, <2>3, <2>4
<1>8. CASE BlockingWrite
  BY <1>1, <1>4, <1>8, Lengths DEF BlockingWrite, Asked
<1>9. CASE BlockingRead
  <2>1. PICK n \in 1 .. Min2(CHUNK, Len(socket)) :
          ahead' = ahead \o SubSeq(socket, 1, n) /\ socket' = From(socket, n)
    BY <1>9 DEF BlockingRead
  <2>2. n \in 0 .. Len(socket)
    BY <1>1, <1>5, <2>1
  <2>3. SubSeq(socket, 1, n) \in Seq(Byte) /\ socket' \in Seq(Byte)
    BY <1>1, <1>2, <2>1, <2>2
  <2>4. ahead' \in Seq(Byte)
    BY <1>1, <1>3, <2>1, <2>3
  <2> QED BY <1>1, <1>4, <1>9, <2>3, <2>4 DEF BlockingRead, Asked
<1>10. CASE Use
  <2>1. Wanted \in 0 .. Len(ahead)
    BY <1>1, <1>5, <1>10, Lengths DEF Use, Wanted
  <2>2. SubSeq(ahead, 1, Wanted) \in Seq(Byte) /\ From(ahead, Wanted) \in Seq(Byte)
    BY <1>1, <1>2, <2>1
  <2>3. seen' \in Seq(Byte) /\ ahead' \in Seq(Byte)
    BY <1>1, <1>3, <1>10, <2>2 DEF Use
  <2> QED BY <1>1, <1>4, <1>10, <2>3 DEF Use, Asked, Stages
<1>11. CASE Ping
  BY <1>1, <1>4, <1>11, Lengths DEF Ping, Asked
<1>12. CASE HandlerRead
  <2>1. PICK source : source = IF nonblocking THEN received ELSE socket
    OBVIOUS
  <2>2. PICK n \in 1 .. Min2(CHUNK, Len(source)) :
          /\ seen' = seen \o SubSeq(source, 1, n)
          /\ IF nonblocking THEN received' = From(source, n) /\ UNCHANGED socket
             ELSE socket' = From(source, n) /\ UNCHANGED received
    BY <1>12, <2>1 DEF HandlerRead
  <2>3. source \in Seq(Byte) /\ n \in 0 .. Len(source)
    BY <1>1, <1>5, <2>1, <2>2
  <2>4. SubSeq(source, 1, n) \in Seq(Byte) /\ From(source, n) \in Seq(Byte)
    BY <1>2, <2>3
  <2>5. seen' \in Seq(Byte) /\ received' \in Seq(Byte) /\ socket' \in Seq(Byte)
    BY <1>1, <1>3, <2>2, <2>4
  <2> QED BY <1>1, <1>4, <1>12, <2>5 DEF HandlerRead, Asked
<1>13. CASE KernelRecv
  <2>1. PICK n \in 1 .. Len(socket) :
          received' = received \o SubSeq(socket, 1, n) /\ socket' = From(socket, n)
    BY <1>13 DEF KernelRecv
  <2>2. n \in 0 .. Len(socket)
    BY <1>1, <1>5, <2>1
  <2>3. SubSeq(socket, 1, n) \in Seq(Byte) /\ socket' \in Seq(Byte)
    BY <1>1, <1>2, <2>1, <2>2
  <2>4. received' \in Seq(Byte)
    BY <1>1, <1>3, <2>1, <2>3
  <2> QED BY <1>1, <1>4, <1>13, <2>3, <2>4 DEF KernelRecv, Asked
<1>14. CASE ServerSend
  <2>1. sent \in Byte /\ sent' \in 0 .. MAX_BYTES
    BY <1>4, <1>14, Lengths DEF ServerSend, Byte
  <2>2. socket' \in Seq(Byte)
    BY <1>1, <1>14, <2>1, AppendProperties DEF ServerSend
  <2> QED BY <1>1, <1>4, <1>14, <2>1, <2>2 DEF ServerSend, Asked
<1>15. CASE UNCHANGED vars
  BY <1>1, <1>4, <1>15 DEF vars, Asked
<1> QED BY <1>7, <1>8, <1>9, <1>10, <1>11, <1>12, <1>13, <1>14, <1>15 DEF Next, Program

\* The variables of the handshake have their types, whatever the server does,
\* and the mode of the stream goes with the stage.
THEOREM HandshakeTypes == Spec => []TypeOK
<1>1. Init => HandshakeInv
  BY InvInit
<1>2. HandshakeInv /\ [Next]_vars => HandshakeInv'
  BY InvStep
<1>3. HandshakeInv => TypeOK
  BY DEF HandshakeInv
<1> QED BY <1>1, <1>2, <1>3, PTL DEF Spec

-----------------------------------------------------------------------------
LEMMA AnswersTo ==
  /\ asks = 1 => Answers = RESP_LEN
  /\ asks = 2 => Answers = RESP_LEN + FRAME_LEN
BY Lengths DEF Answers

LEMMA MeetInit ==
  ASSUME Init
  PROVE  HandOver
<1>1. Bytes(<<>>, 0, 0)
  BY BytesEmpty
<1>2. Answered(0)
  BY DEF Init, Answered
<1>3. Meet(0, 0, 0)
  BY <1>1, <1>2 DEF Init, Meet
<1> QED BY <1>3 DEF HandOver

\* The offsets while ws still has the connection, and after that
LEMMA MeetFacts ==
  ASSUME NEW used \in Nat, NEW read \in Nat, NEW came \in Nat, HandshakeInv,
         Meet(used, read, came)
  PROVE  /\ used <= read /\ read <= came /\ came <= sent /\ sent \in Nat
         /\ Len(ahead) = read - used /\ Len(received) = came - read
         /\ Len(socket) = sent - came
<1>1. /\ Bytes(ahead, used, read) /\ Bytes(received, read, came) /\ Bytes(socket, came, sent)
  BY DEF Meet
<1>2. /\ Len(ahead) \in Nat /\ read = used + Len(ahead)
      /\ Len(received) \in Nat /\ came = read + Len(received)
      /\ Len(socket) \in Nat /\ sent = came + Len(socket)
  BY <1>1, BytesType
<1> QED BY <1>2

LEMMA MeetStep ==
  ASSUME ~EAGER, HandshakeInv, HandOver, [Next]_vars
  PROVE  HandOver'
<1>1. PICK used \in Nat, read \in Nat, came \in Nat : Meet(used, read, came)
  BY DEF HandOver
<1>2. /\ Bytes(seen, 0, used) /\ Bytes(ahead, used, read)
      /\ Bytes(received, read, came) /\ Bytes(socket, came, sent)
      /\ Answered(used)
      /\ stage \in {"arm", "loop"} => nonblocking /\ read = used
      /\ stage \notin {"loop", "panic"} => came = read
      /\ stage \notin {"arm", "loop", "panic"} => ~nonblocking
  BY <1>1 DEF Meet
<1>3. /\ used <= read /\ read <= came /\ came <= sent /\ sent \in Nat
      /\ Len(ahead) = read - used /\ Len(received) = came - read /\ Len(socket) = sent - came
  BY <1>1, MeetFacts
<1>4. Asked /\ stage \in Stages /\ unsent \in 0 .. REQ_LEN /\ sent \in 0 .. MAX_BYTES
  BY DEF HandshakeInv, TypeOK
<1>5. \A n \in Nat : \A c \in 1 .. Min2(CHUNK, n) : c \in 1 .. n
  BY Lengths DEF Min2
<1>6. CASE Upgrade
  <2>1. Answered(used)'
    BY <1>2, <1>6, Lengths DEF Upgrade, Answered
  <2>2. Meet(used, read, came)'
    BY <1>2, <1>6, <2>1 DEF Upgrade, Meet
  <2> QED BY <2>2 DEF HandOver
<1>7. CASE Subscribe
  <2>1. Answered(used)'
    BY <1>2, <1>7, Lengths DEF Subscribe, Answered
  <2>2. Meet(used, read, came)'
    BY <1>2, <1>7, <2>1 DEF Subscribe, Meet
  <2> QED BY <2>2 DEF HandOver
<1>8. CASE BlockingWrite
  <2>1. Answered(used)'
    BY <1>2, <1>4, <1>8, Lengths DEF BlockingWrite, Answered
  <2>2. Meet(used, read, came)'
    BY <1>2, <1>8, <2>1 DEF BlockingWrite, Meet
  <2> QED BY <2>2 DEF HandOver
<1>9. CASE BlockingRead
  <2>1. PICK n \in 1 .. Min2(CHUNK, Len(socket)) :
          ahead' = ahead \o SubSeq(socket, 1, n) /\ socket' = From(socket, n)
    BY <1>9 DEF BlockingRead
  <2>2. n \in 1 .. Len(socket) /\ n \in 0 .. Len(socket) /\ n \in Nat
    BY <1>3, <1>5, <2>1
  <2>3. /\ Bytes(SubSeq(socket, 1, n), came, came + n) /\ Bytes(socket', came + n, sent)
    BY <1>2, <2>1, <2>2, BytesCut
  <2>4. stage \in {"response", "reply"} /\ came = read
    BY <1>2, <1>9 DEF BlockingRead
  <2>5. Bytes(ahead', used, came + n)
    BY <1>2, <2>1, <2>3, <2>4, BytesJoin
  <2>6. Bytes(received', came + n, came + n)
    <3>1. received = <<>>
      BY <1>2, <2>4, BytesType
    <3> QED BY <1>9, <2>2, <3>1, BytesEmpty DEF BlockingRead
  <2>7. Answered(used)'
    BY <1>2, <1>9 DEF BlockingRead, Answered
  <2>8. Meet(used, came + n, came + n)'
    BY <1>2, <1>9, <2>3, <2>4, <2>5, <2>6, <2>7 DEF BlockingRead, Meet
  <2>9. came + n \in Nat
    BY <2>2
  <2> QED BY <2>8, <2>9 DEF HandOver
<1>10. CASE Use
  <2>1. Wanted \in Nat /\ Wanted \in 0 .. Len(ahead)
    BY <1>3, <1>10, Lengths DEF Use, Wanted
  <2>2. /\ Bytes(SubSeq(ahead, 1, Wanted), used, used + Wanted)
        /\ Bytes(ahead', used + Wanted, read)
    BY <1>2, <1>10, <2>1, BytesCut DEF Use
  <2>3. Bytes(seen', 0, used + Wanted)
    BY <1>2, <1>10, <2>2, BytesJoin DEF Use
  <2>4. /\ sent = used + Wanted /\ Answers = used + Wanted
        /\ used + Wanted \in Nat /\ stage \in {"response", "reply"}
        /\ stage = "response" => used + Wanted = RESP_LEN
    <3>1. CASE stage = "response"
      BY <1>2, <1>3, <1>4, <1>10, <2>1, <3>1, Lengths, AnswersTo DEF Use, Wanted, Answered, Asked
    <3>2. CASE stage = "reply"
      BY <1>2, <1>3, <1>4, <1>10, <2>1, <3>2, Lengths, AnswersTo DEF Use, Wanted, Answered, Asked
    <3> QED BY <1>10, <3>1, <3>2 DEF Use
  <2>5. PICK next \in Nat : next = used + Wanted
    BY <2>4
  <2>6. Answered(next)'
    <3>1. UNCHANGED sent /\ Answers' = Answers
      BY <1>10 DEF Use, Answers
    <3>2. stage' \in {"subscribe", "switch"} /\ (stage' = "subscribe" => stage = "response")
      BY <1>10 DEF Use
    <3>3. sent' = next /\ Answers' = next /\ (stage' = "subscribe" => next = RESP_LEN)
      BY <2>4, <2>5, <3>1, <3>2
    <3> QED BY <3>2, <3>3 DEF Answered
  <2>7. Bytes(seen', 0, next) /\ Bytes(ahead', next, read)
    BY <2>2, <2>3, <2>5
  <2>8. /\ UNCHANGED <<received, socket, sent, nonblocking>> /\ ~nonblocking /\ came = read
        /\ stage' \in {"subscribe", "switch"}
    BY <1>2, <1>10 DEF Use
  <2>9. Meet(next, read, came)'
    BY <1>2, <2>6, <2>7, <2>8 DEF Meet
  <2> QED BY <2>9 DEF HandOver
<1>11. CASE SetNonblocking
  <2>1. Answered(used)' /\ read = used
    BY <1>2, <1>3, <1>11 DEF SetNonblocking, Answered
  <2>2. Meet(used, read, came)'
    BY <1>2, <1>11, <2>1 DEF SetNonblocking, Meet
  <2> QED BY <2>2 DEF HandOver
<1>12. CASE ArmRecv \/ Ping \/ HandshakeFails
  <2>1. Answered(used)'
    BY <1>2, <1>12 DEF ArmRecv, Ping, HandshakeFails, Answered
  <2>2. Meet(used, read, came)'
    BY <1>2, <1>12, <2>1 DEF ArmRecv, Ping, HandshakeFails, Meet
  <2> QED BY <2>2 DEF HandOver
<1>13. CASE HandlerRead
  <2>1. stage = "loop" /\ nonblocking /\ read = used /\ ahead = <<>>
    BY <1>2, <1>13, BytesType DEF HandlerRead
  <2>2. PICK n \in 1 .. Min2(CHUNK, Len(received)) :
          seen' = seen \o SubSeq(received, 1, n) /\ received' = From(received, n)
    BY <1>13, <2>1 DEF HandlerRead
  <2>3. n \in 0 .. Len(received) /\ n \in Nat
    BY <1>3, <1>5, <2>2
  <2>4. Bytes(SubSeq(received, 1, n), read, read + n) /\ Bytes(received', read + n, came)
    BY <1>2, <2>2, <2>3, BytesCut
  <2>5. PICK next \in Nat : next = read + n
    BY <2>3
  <2>6. Bytes(seen', 0, next)
    BY <1>2, <2>1, <2>2, <2>4, <2>5, BytesJoin
  <2>7. Bytes(ahead', next, next)
    BY <1>13, <2>1, <2>5, BytesEmpty DEF HandlerRead
  <2>8. UNCHANGED <<socket, sent, nonblocking, stage>>
    BY <1>13, <2>1 DEF HandlerRead
  <2>9. Answered(next)'
    BY <2>1, <2>8 DEF Answered
  <2>10. Meet(next, next, came)'
    BY <1>2, <2>1, <2>4, <2>5, <2>6, <2>7, <2>8, <2>9 DEF Meet
  <2> QED BY <2>10 DEF HandOver
<1>14. CASE KernelRecv
  <2>1. PICK n \in 1 .. Len(socket) :
          received' = received \o SubSeq(socket, 1, n) /\ socket' = From(socket, n)
    BY <1>14 DEF KernelRecv
  <2>2. n \in 0 .. Len(socket) /\ n \in Nat
    BY <1>3, <2>1
  <2>3. Bytes(SubSeq(socket, 1, n), came, came + n) /\ Bytes(socket', came + n, sent)
    BY <1>2, <2>1, <2>2, BytesCut
  <2>4. PICK next \in Nat : next = came + n
    BY <2>2
  <2>5. Bytes(received', read, next)
    BY <1>2, <2>1, <2>3, <2>4, BytesJoin
  <2>6. UNCHANGED <<seen, ahead, sent, nonblocking, stage>> /\ stage = "loop"
    BY <1>14 DEF KernelRecv
  <2>7. Answered(used)'
    BY <2>6 DEF Answered
  <2>8. Meet(used, read, next)'
    BY <1>2, <2>3, <2>4, <2>5, <2>6, <2>7 DEF Meet
  <2> QED BY <2>8 DEF HandOver
<1>15. CASE ServerSend
  <2>1. /\ asks > 0 /\ stage # "panic" /\ sent < MAX_BYTES /\ sent < Answers /\ sent' = sent + 1
        /\ socket' = Append(socket, sent)
        /\ UNCHANGED <<unsent, stage, asks, ahead, nonblocking, received, seen>>
    BY <1>15 DEF ServerSend
  <2>2. Bytes(socket', came, sent')
    BY <1>2, <2>1, BytesAppend
  <2>3. Answered(used)'
    <3>1. Answers' = Answers
      BY <2>1 DEF Answers
    <3>2. asks = 1 => Answers = RESP_LEN
      BY AnswersTo
    <3>3. asks = 2 => Answers = RESP_LEN + FRAME_LEN
      BY AnswersTo
    <3> QED BY <1>2, <1>3, <1>4, <2>1, <3>1, <3>2, <3>3, Lengths DEF Answered, Asked
  <2>4. Meet(used, read, came)'
    BY <1>2, <2>1, <2>2, <2>3 DEF Meet
  <2> QED BY <2>4 DEF HandOver
<1>16. CASE UNCHANGED vars
  <2>1. Answered(used)'
    BY <1>2, <1>16 DEF vars, Answered, Answers
  <2>2. Meet(used, read, came)'
    BY <1>2, <1>16, <2>1 DEF vars, Meet
  <2> QED BY <2>2 DEF HandOver
<1> QED
  BY <1>6, <1>7, <1>8, <1>9, <1>10, <1>11, <1>12, <1>13, <1>14, <1>15, <1>16 DEF Next, Program

\* With a server that only answers, the decoders, ws's and the one that takes
\* over, see every byte in order, however the bytes are cut (ping_pong.rs:74).
THEOREM AnswersInSequence ==
  ASSUME ~EAGER
  PROVE  Spec => []InSequence
<1>1. Init => HandshakeInv /\ HandOver
  BY InvInit, MeetInit
<1>2. HandshakeInv /\ HandOver /\ [Next]_vars => HandshakeInv' /\ HandOver'
  BY InvStep, MeetStep
<1>3. HandOver => InSequence
  <2> SUFFICES ASSUME HandOver, NEW k \in DOMAIN seen PROVE seen[k] = k - 1
    BY DEF InSequence
  <2>1. PICK used \in Nat : Bytes(seen, 0, used)
    BY DEF HandOver, Meet
  <2>2. seen \in Seq(Byte) /\ Len(seen) \in Nat /\ k \in 1 .. Len(seen)
    BY <2>1, BytesType
  <2>3. seen[k] = 0 + (k - 1)
    BY <2>1, <2>2 DEF Bytes
  <2> QED BY <2>2, <2>3
<1> QED BY <1>1, <1>2, <1>3, PTL DEF Spec
=============================================================================
