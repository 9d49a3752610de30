------------------------------ MODULE UserData ------------------------------
(***************************************************************************)
(* struct UserData (src/src/lib.rs): the 64-bit tag that every submission  *)
(* carries and its completion brings back.  The event, the owning stream   *)
(* and the request id are OR-ed into disjoint bit fields, which is a sum,  *)
(* and unpacked with shifts (division by a power of two) and masks         *)
(* (remainders).  The field widths are parameters.                         *)
(***************************************************************************)
EXTENDS Integers

CONSTANTS
  REQ_MOD,    \* request ids are u32: 2^32
  OWNER_MOD,  \* owners are u16: 2^16
  GAP         \* bits 32 .. 39 are unused: 2^8

ASSUME FieldAssumption ==
  /\ REQ_MOD \in Nat \ {0}
  /\ OWNER_MOD \in Nat \ {0}
  /\ GAP \in Nat \ {0}

OWNER_UNIT == REQ_MOD * GAP            \* << 40
EVENT_UNIT == OWNER_UNIT * OWNER_MOD   \* << 56

Send == 0
MultishortRecv == 1
Events == {Send, MultishortRecv}

from_parts(event, owner, req) == event * EVENT_UNIT + owner * OWNER_UNIT + req

event_of(data) == data \div EVENT_UNIT
owner_of(data) == (data \div OWNER_UNIT) % OWNER_MOD
req_of(data) == data % REQ_MOD
=============================================================================
