--------------------------- MODULE CompletionFifo ---------------------------
(***************************************************************************)
(* What the event loop promises of completions: each one the kernel posts  *)
(* is handled once, as posted, in the order posted.                        *)
(***************************************************************************)
EXTENDS Integers, Sequences

VARIABLES
  queue,  \* completions posted and not yet handled
  taken   \* the completion handled last

vars == <<queue, taken>>

Init == queue = <<>>

Posted == Len(queue') > Len(queue) /\ SubSeq(queue', 1, Len(queue)) = queue /\ UNCHANGED taken

Handled ==
  /\ queue # <<>>
  /\ taken' = Head(queue)
  /\ queue' = Tail(queue)

Next == Posted \/ Handled

Spec == Init /\ [][Next]_vars
=============================================================================
