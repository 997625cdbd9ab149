------------------------------- MODULE LossyFifo -------------------------------
(***************************************************************************)
(* What the message queue promises: items, numbered in the order they were *)
(* sent, wait in a window first+1 .. sent of at most Capacity items.  An   *)
(* item leaves the window only at its old end, delivered or lost, and is   *)
(* lost only to make room for a newer one or when the window is discarded. *)
(***************************************************************************)
EXTENDS Integers, Sequences

CONSTANT Capacity

VARIABLES
  sent,        \* items sent so far
  first,       \* items that left the window
  delivered    \* the items delivered, in order

vars == <<sent, first, delivered>>

Init == sent = 0 /\ first = 0 /\ delivered = <<>>

Send ==
  /\ sent' = sent + 1
  /\ first' = IF sent - first = Capacity THEN first + 1 ELSE first
  /\ UNCHANGED delivered

Deliver ==
  /\ first < sent
  /\ first' = first + 1
  /\ delivered' = Append(delivered, first + 1)
  /\ UNCHANGED sent

Discard ==
  /\ first' = sent
  /\ UNCHANGED <<sent, delivered>>

Next == Send \/ Deliver \/ Discard

Spec == Init /\ [][Next]_vars
=============================================================================
