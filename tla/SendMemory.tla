----------------------------- MODULE SendMemory -----------------------------
(***************************************************************************)
(* What TcpStream's nonblocking write promises of the memory it hands to   *)
(* the kernel: a write's copy is kept while the kernel may read it, given  *)
(* up only after the kernel is done with it, and given up once.  Writes    *)
(* are numbered in the order of the calls; they end in any order.          *)
(***************************************************************************)
EXTENDS Integers

VARIABLES
  writes,    \* writes so far
  kept,      \* those whose memory is kept
  inflight   \* those the kernel has, or will be given

vars == <<writes, kept, inflight>>

Init == writes = 0 /\ kept = {} /\ inflight = {}

Write ==
  /\ writes' = writes + 1
  /\ kept' = kept \cup {writes'}
  /\ inflight' = inflight \cup {writes'}

Complete(w) ==
  /\ w \in inflight
  /\ inflight' = inflight \ {w}
  /\ UNCHANGED <<writes, kept>>

Forget(w) ==
  /\ w \in kept \ inflight
  /\ kept' = kept \ {w}
  /\ UNCHANGED <<writes, inflight>>

Next == Write \/ (\E w \in inflight : Complete(w)) \/ (\E w \in kept : Forget(w))

Spec == Init /\ [][Next]_vars
=============================================================================
