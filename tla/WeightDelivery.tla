--------------------------- MODULE WeightDelivery ---------------------------
(***************************************************************************)
(* What a weight transfer promises: every inference worker loads the       *)
(* trainer's tensors, each once, in the trainer's order, and all of them.  *)
(***************************************************************************)
EXTENDS Integers

CONSTANTS
  Workers,  \* inference workers
  Total     \* tensors of the model, 1 .. Total

VARIABLE loaded

TypeOK == loaded \in [Workers -> 0 .. Total]

Init == loaded = [w \in Workers |-> 0]

\* A worker loads some more tensors.
Load(w) ==
  \E n \in loaded[w] + 1 .. Total : loaded' = [loaded EXCEPT ![w] = n]

Next == \E w \in Workers : Load(w)

Spec == Init /\ [][Next]_loaded /\ \A w \in Workers : WF_loaded(Load(w))
=============================================================================
