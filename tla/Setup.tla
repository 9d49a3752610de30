------------------------------- MODULE Setup -------------------------------
(***************************************************************************)
(* How the program opens its io_uring and what it asserts of the kernel    *)
(* before it goes on (src/src/ping_pong.rs and, with the first assertion   *)
(* only, src/src/io_uring_probe_v2.rs).  A word of flags is the set of its *)
(* bits' numbers; flags and features are different words that use the same *)
(* numbers for different things.                                           *)
(***************************************************************************)
EXTENDS Integers

\* Bits of params.flags, chosen by the program
IORING_SETUP_SQPOLL == 1
IORING_SETUP_SUBMIT_ALL == 7
IORING_SETUP_COOP_TASKRUN == 8
IORING_SETUP_SINGLE_ISSUER == 12
IORING_SETUP_DEFER_TASKRUN == 13

\* Bits of params.features, filled in by the kernel
IORING_FEAT_SQPOLL_NONFIXED == 7
IORING_FEAT_EXT_ARG == 8

VARIABLES
  kernel,    \* the features of the kernel the program runs on
  flags,     \* params.flags
  features,  \* params.features
  stage

vars == <<kernel, flags, features, stage>>

Init ==
  /\ kernel \in SUBSET {IORING_FEAT_SQPOLL_NONFIXED, IORING_FEAT_EXT_ARG}
  /\ flags = {} /\ features = {}
  /\ stage = "params"

\* kernel_thread is a constant of the source: FALSE
Params ==
  /\ stage = "params"
  /\ flags' = {IORING_SETUP_SUBMIT_ALL} \cup
       (LET kernel_thread == FALSE IN
          IF kernel_thread THEN {IORING_SETUP_SQPOLL}
          ELSE {IORING_SETUP_COOP_TASKRUN, IORING_SETUP_DEFER_TASKRUN, IORING_SETUP_SINGLE_ISSUER})
  /\ stage' = "init"
  /\ UNCHANGED <<kernel, features>>

\* io_uring_queue_init_params fails, or reports the kernel's features.
QueueInit ==
  /\ stage = "init"
  /\ \/ stage' = "panic" /\ UNCHANGED features
     \/ stage' = "asserts" /\ features' = kernel
  /\ UNCHANGED <<kernel, flags>>

\* The two assertions of ping_pong
Asserts ==
  /\ stage = "asserts"
  /\ stage' = IF IORING_FEAT_SQPOLL_NONFIXED \in flags /\ IORING_FEAT_EXT_ARG \in features
              THEN "ready" ELSE "panic"
  /\ UNCHANGED <<kernel, flags, features>>

Next == Params \/ QueueInit \/ Asserts

Spec == Init /\ [][Next]_vars

\* Past its assertions the program runs on a kernel that has the features
\* they name (ping_pong.rs:59, 60).
FeaturesAsserted ==
  stage = "ready" => {IORING_FEAT_SQPOLL_NONFIXED, IORING_FEAT_EXT_ARG} \subseteq features
=============================================================================
