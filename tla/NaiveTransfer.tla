---------------------------- MODULE NaiveTransfer ----------------------------
(***************************************************************************)
(* ServerAdapter.update_weights with the trainer's own generator: trainer  *)
(* and rollout are colocated, and the naive checkpoint engine hands the    *)
(* generator over as it is.                                                *)
(***************************************************************************)
EXTENDS BucketedTransfer

VARIABLE next  \* the generator: the next tensor of each worker

vars == <<ipcVars, next>>

Init == IpcInit /\ next = [w \in Workers |-> 1]

Yield(w) ==
  \/ /\ next[w] \in Tensors /\ Pull(w, next[w], next[w])
     /\ next' = [next EXCEPT ![w] = @ + 1]
  \/ /\ next[w] \notin Tensors /\ PullEnd(w)
     /\ UNCHANGED next

RunCopy(w) == Copy(w, Head(copies[w]).from) /\ UNCHANGED next

Worker(w) == Yield(w) \/ (IpcStep(w) /\ UNCHANGED next)
=============================================================================
