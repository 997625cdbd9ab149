----------------------------- MODULE SampleWindow -----------------------------
(***************************************************************************)
(* What the fully asynchronous pipeline promises about freshness.  Items   *)
(* produced by the rollouter are in flight until the trainer takes them.   *)
(* Between two renewals (parameter syncs) the items carried over, produced *)
(* and taken never exceed Budget, and the trainer takes exactly Quota      *)
(* items, except in the last window, which the end of the stream closes.   *)
(***************************************************************************)
EXTENDS Integers

CONSTANTS Budget, Quota

VARIABLES
  inflight,   \* items produced and not taken
  taken,      \* items taken since the last renewal
  closed      \* the stream has ended

vars == <<inflight, taken, closed>>

Init == inflight = 0 /\ taken = 0 /\ closed = FALSE

Produce ==
  /\ inflight + taken < Budget
  /\ inflight' = inflight + 1
  /\ UNCHANGED <<taken, closed>>

Lose ==
  /\ inflight' \in 0 .. inflight
  /\ UNCHANGED <<taken, closed>>

Take ==
  /\ inflight > 0
  /\ taken < Quota
  /\ ~closed
  /\ inflight' = inflight - 1
  /\ taken' = taken + 1
  /\ UNCHANGED closed

Close ==
  /\ inflight > 0
  /\ inflight' = inflight - 1
  /\ closed' = TRUE
  /\ UNCHANGED taken

Renew ==
  /\ taken = Quota \/ closed
  /\ taken' = 0
  /\ UNCHANGED <<inflight, closed>>

Next == Produce \/ Lose \/ Take \/ Close \/ Renew

Spec == Init /\ [][Next]_vars
=============================================================================
