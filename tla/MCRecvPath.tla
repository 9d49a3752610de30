---------------------------- MODULE MCRecvPath ----------------------------
(***************************************************************************)
(* RecvPath for TLC, with the check that new_buffer_group's single record  *)
(* is what its loop of io_uring_buf_ring_add calls builds.                 *)
(***************************************************************************)
EXTENDS RecvPathInv

FilledRing ==
  LET Unset == [bufs |-> [i \in Slots |-> [addr |-> 0, len |-> 1, bid |-> 0]], tail |-> 0]
      fill[n \in 0 .. RING_POOL_SIZE] ==
        IF n = 0 THEN Unset
        ELSE io_uring_buf_ring_add(fill[n - 1], n - 1, BUF_SIZE, n - 1, n - 1)
  IN io_uring_buf_ring_advance(fill[RING_POOL_SIZE], RING_POOL_SIZE)

ASSUME FillLoop == new_buffer_group = FilledRing
=============================================================================
