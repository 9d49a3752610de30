----------------------------- MODULE RecvStream -----------------------------
(***************************************************************************)
(* What the receive path promises the frame decoder: a reliable, ordered   *)
(* byte stream.  Bytes are known by their offset in the stream; the kernel *)
(* has taken in the bytes below got, the decoder has been handed the bytes *)
(* below given, and every slice handed over starts where the previous one  *)
(* ended: nothing is lost, repeated, reordered or overwritten on the way.  *)
(***************************************************************************)
EXTENDS Integers

VARIABLES
  got,    \* bytes taken in from the network
  given,  \* bytes handed to the decoder
  last    \* the slice handed over last: its first byte and its length

vars == <<got, given, last>>

Init ==
  /\ got = 0
  /\ given = 0
  /\ last = [first |-> 0, len |-> 0]

Arrive ==
  /\ got' \in Nat /\ got' > got
  /\ UNCHANGED <<given, last>>

Deliver ==
  /\ given' \in Nat /\ given < given' /\ given' <= got
  /\ last' = [first |-> given, len |-> given' - given]
  /\ UNCHANGED got

Next == Arrive \/ Deliver

Spec == Init /\ [][Next]_vars
=============================================================================
