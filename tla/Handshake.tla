----------------------------- MODULE Handshake -----------------------------
(***************************************************************************)
(* How a connection comes into the event loop (init_tcp_stream of          *)
(* src/src/ping_pong.rs and src/src/io_uring_probe_v2.rs).  A WebSocket    *)
(* `ws` of tungstenite upgrades the connection, and in io_uring_probe_v2   *)
(* subscribes and reads a first message, through TcpStream in its blocking *)
(* mode.  Then the stream becomes nonblocking, a new frame decoder takes   *)
(* over, and bytes reach it through the multishot receive only.            *)
(*                                                                         *)
(* tungstenite and the socket are external.  A byte is its offset in what  *)
(* the server sends: first the response to the upgrade, then frames.       *)
(***************************************************************************)
EXTENDS Integers, Sequences

CONSTANTS
  SUBSCRIBES, \* may ws subscribe and read the reply: FALSE in ping_pong, TRUE in
              \* io_uring_probe_v2
  EAGER,      \* may the server send frames nobody asked for
  REQ_LEN,    \* bytes of a request, the upgrade included
  RESP_LEN,   \* bytes of the response to the upgrade
  FRAME_LEN,  \* bytes of a frame
  CHUNK,      \* bytes tungstenite reads at once
  MAX_ASKS,   \* bound: requests to the server, upgrade and subscription included
  MAX_BYTES   \* bound: bytes the server sends

ASSUME HandshakeAssumption ==
  /\ SUBSCRIBES \subseteq BOOLEAN /\ EAGER \in BOOLEAN
  /\ REQ_LEN \in Nat \ {0} /\ RESP_LEN \in Nat \ {0} /\ FRAME_LEN \in Nat \ {0} /\ CHUNK \in Nat \ {0}
  /\ MAX_ASKS \in Nat \ {0, 1} /\ MAX_BYTES \in Nat

VARIABLES
  subscribe,    \* which of the two programs this is
  stage,        \* where init_tcp_stream is
  unsent,       \* bytes of the current request not yet written
  asks,         \* requests sent whole: the upgrade, the subscription, pings
  sent,         \* bytes the server has sent
  socket,       \* those in the socket's receive queue
  ahead,        \* those ws has read and not used
  nonblocking,  \* TcpStream's mode
  received,     \* those the multishot receive has brought to the stream
  seen          \* history: the bytes a decoder has used, ws's first

vars == <<subscribe, stage, unsent, asks, sent, socket, ahead, nonblocking,
          received, seen>>

Stages == {"connect", "response", "subscribe", "reply", "switch", "arm", "loop", "panic"}

Min2(a, b) == IF a <= b THEN a ELSE b

From(seq, n) == SubSeq(seq, n + 1, Len(seq))

Init ==
  /\ subscribe \in SUBSCRIBES
  /\ stage = "connect" /\ unsent = 0 /\ asks = 0
  /\ sent = 0 /\ socket = <<>> /\ ahead = <<>> /\ received = <<>> /\ seen = <<>>
  /\ nonblocking = FALSE

-----------------------------------------------------------------------------
\* client_tls_with_config has the upgrade request to write.
Upgrade ==
  /\ stage = "connect"
  /\ unsent' = REQ_LEN
  /\ stage' = "response"
  /\ UNCHANGED <<subscribe, asks, sent, socket, ahead, nonblocking, received, seen>>

\* Blocking mode: TcpStream::write, write_vectored and flush are the
\* socket's own, which may take less than it is given; ws goes on.
BlockingWrite ==
  /\ stage \in {"response", "reply"} /\ ~nonblocking /\ unsent > 0
  /\ \E n \in 1 .. unsent : unsent' = unsent - n
  /\ asks' = IF unsent' = 0 THEN asks + 1 ELSE asks
  /\ UNCHANGED <<subscribe, stage, sent, socket, ahead, nonblocking, received, seen>>

\* What ws lacks at this stage
Wanted == IF stage = "response" THEN RESP_LEN ELSE FRAME_LEN

\* Blocking mode: TcpStream::read is the socket's own.
BlockingRead ==
  /\ stage \in {"response", "reply"} /\ ~nonblocking /\ unsent = 0
  /\ Len(ahead) < Wanted /\ socket # <<>>
  /\ \E n \in 1 .. Min2(CHUNK, Len(socket)) :
       /\ ahead' = ahead \o SubSeq(socket, 1, n)
       /\ socket' = From(socket, n)
  /\ UNCHANGED <<subscribe, unsent, stage, asks, sent, nonblocking, received, seen>>

\* ws has the response, or the reply, and uses it; it keeps what follows.
Use ==
  /\ stage \in {"response", "reply"} /\ unsent = 0
  /\ Len(ahead) >= Wanted
  /\ seen' = seen \o SubSeq(ahead, 1, Wanted)
  /\ ahead' = From(ahead, Wanted)
  /\ stage' = IF stage = "response" /\ subscribe THEN "subscribe" ELSE "switch"
  /\ UNCHANGED <<subscribe, unsent, asks, sent, socket, nonblocking, received>>

Subscribe ==
  /\ stage = "subscribe"
  /\ unsent' = REQ_LEN
  /\ stage' = "reply"
  /\ UNCHANGED <<subscribe, asks, sent, socket, ahead, nonblocking, received, seen>>

\* Faulty variant: only the socket is told.
SetNodelayOnly ==
  /\ stage = "switch"
  /\ stage' = "arm"
  /\ UNCHANGED <<subscribe, unsent, asks, sent, socket, ahead, nonblocking, received, seen>>

SetNonblocking ==
  /\ stage = "switch"
  /\ nonblocking' = TRUE
  /\ stage' = "arm"
  /\ UNCHANGED <<subscribe, unsent, asks, sent, socket, ahead, received, seen>>

\* A new WebSocketContext, empty, takes over from ws's, and the receive is
\* armed.
ArmRecv ==
  /\ stage = "arm"
  /\ stage' = "loop"
  /\ UNCHANGED <<subscribe, unsent, asks, sent, socket, ahead, nonblocking, received, seen>>

Ping ==
  /\ stage = "loop" /\ asks < MAX_ASKS
  /\ asks' = asks + 1
  /\ UNCHANGED <<subscribe, unsent, stage, sent, socket, ahead, nonblocking, received, seen>>

\* The new decoder reads: nonblocking, what the receive brought.
HandlerRead ==
  /\ stage = "loop"
  /\ LET source == IF nonblocking THEN received ELSE socket IN
       \E n \in 1 .. Min2(CHUNK, Len(source)) :
         /\ seen' = seen \o SubSeq(source, 1, n)
         /\ IF nonblocking
            THEN received' = From(received, n) /\ UNCHANGED socket
            ELSE socket' = From(socket, n) /\ UNCHANGED received
  /\ UNCHANGED <<subscribe, unsent, stage, asks, sent, ahead, nonblocking>>

\* The multishot receive moves bytes from the socket to the stream.
KernelRecv ==
  /\ stage = "loop" /\ socket # <<>>
  /\ \E n \in 1 .. Len(socket) :
       /\ received' = received \o SubSeq(socket, 1, n)
       /\ socket' = From(socket, n)
  /\ UNCHANGED <<subscribe, unsent, stage, asks, sent, ahead, nonblocking, seen>>

\* The server answers the upgrade with the response and each later request
\* with a frame; an eager one goes on sending frames after its response.
Answers == IF asks = 0 THEN 0 ELSE RESP_LEN + (asks - 1) * FRAME_LEN
ServerSend ==
  /\ asks > 0 /\ stage # "panic" /\ sent < MAX_BYTES
  /\ EAGER \/ sent < Answers
  /\ sent' = sent + 1
  /\ socket' = Append(socket, sent)
  /\ UNCHANGED <<subscribe, unsent, stage, asks, ahead, nonblocking, received, seen>>

\* Any call of init_tcp_stream fails: each result is unwrapped.
HandshakeFails ==
  /\ stage \in Stages \ {"arm", "loop", "panic"}
  /\ stage' = "panic"
  /\ UNCHANGED <<subscribe, unsent, asks, sent, socket, ahead, nonblocking, received, seen>>

Program ==
  \/ Upgrade \/ BlockingWrite \/ BlockingRead \/ Use \/ Subscribe \/ SetNonblocking \/ ArmRecv
  \/ Ping \/ HandlerRead \/ HandshakeFails

Next == Program \/ KernelRecv \/ ServerSend

Spec == Init /\ [][Next]_vars

-----------------------------------------------------------------------------
TypeOK ==
  /\ subscribe \in SUBSCRIBES /\ stage \in Stages /\ unsent \in 0 .. REQ_LEN
  /\ asks \in 0 .. MAX_ASKS
  /\ nonblocking \in BOOLEAN
  /\ stage # "panic" => (nonblocking <=> stage \in {"arm", "loop"})
  /\ sent \in 0 .. MAX_BYTES
  /\ \A s \in {socket, ahead, received, seen} : s \in Seq(0 .. MAX_BYTES - 1)

\* The decoders, ws's and the one that takes over (ping_pong.rs:74), see what
\* the server sends from its first byte on, with no gap and in order.
InSequence == \A k \in DOMAIN seen : seen[k] = k - 1
=============================================================================
