------------------------------ MODULE AtomicSync ------------------------------
(***************************************************************************)
(* What a weight sync looks like to the responses being generated: the     *)
(* servers serve one version, which a sync replaces in a single step, and  *)
(* a response grows by tokens of the version served, with nothing lost and *)
(* nothing generated twice, until it is returned.                          *)
(***************************************************************************)
EXTENDS Integers, Sequences

CONSTANT Requests

VARIABLES
  served,     \* the version all servers serve
  response,   \* the version of each token generated for a request
  returned    \* the requests answered

vars == <<served, response, returned>>

Init ==
  /\ served = 0
  /\ response = [r \in Requests |-> <<>>]
  /\ returned = {}

Sync == served' = served + 1 /\ UNCHANGED <<response, returned>>

Generate(r) ==
  /\ r \notin returned
  /\ response' = [response EXCEPT ![r] = Append(@, served)]
  /\ UNCHANGED <<served, returned>>

Return(r) ==
  /\ response[r] # <<>>
  /\ returned' = returned \cup {r}
  /\ UNCHANGED <<served, response>>

Next == Sync \/ \E r \in Requests : Generate(r) \/ Return(r)

Spec == Init /\ [][Next]_vars
=============================================================================
