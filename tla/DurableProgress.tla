--------------------------- MODULE DurableProgress ---------------------------
(***************************************************************************)
(* What checkpoints promise: one durable register that only the whole      *)
(* state of training is ever put into, and from which training goes on     *)
(* after a crash.  Replacing its value may take two steps; a crash between *)
(* them leaves a register that cannot be read, if MayTear.                 *)
(***************************************************************************)
CONSTANTS
  Values,   \* states of training
  Fresh,    \* the initial one
  Lost,     \* no value
  MayTear   \* the register is replaced in two steps

VARIABLES current, saved

Init == current = Fresh /\ saved = Fresh

\* Training, a crash, or a restart from what is saved.
Train == current # Lost /\ current' \in Values /\ UNCHANGED saved
Crash == current' = Lost /\ UNCHANGED saved
Restore == current = Lost /\ saved # Lost /\ current' = saved /\ UNCHANGED saved

Publish == current # Lost /\ saved' = current /\ UNCHANGED current
Unpublish == MayTear /\ current # Lost /\ saved' = Lost /\ UNCHANGED current

Next == Train \/ Crash \/ Restore \/ Publish \/ Unpublish

Spec == Init /\ [][Next]_<<current, saved>>
=============================================================================
