------------------------------- MODULE Orders -------------------------------
(***************************************************************************)
(* Python's sorted(), by counting what comes before.  An order is a set of *)
(* pairs.                                                                  *)
(***************************************************************************)
EXTENDS Integers, Sequences, FiniteSets

\* How many elements of D come before i, and the one r - 1 others precede.
Preceding(D, order, i) == Cardinality({j \in D : <<j, i>> \in order})
Nth(D, order, r) == CHOOSE i \in D : Preceding(D, order, i) = r - 1

\* The numbers of a set, the smallest first.
Increasing(S) == {pair \in S \X S : pair[1] < pair[2]}
InOrder(S) == [r \in 1 .. Cardinality(S) |-> Nth(S, Increasing(S), r)]

Positions(seq) == (DOMAIN seq) \X (DOMAIN seq)

\* sorted() leaves those neither of which is less as they are.
Stable(seq, less) ==
  {pair \in Positions(seq) : \/ pair \in less
                             \/ <<pair[2], pair[1]>> \notin less /\ pair[1] < pair[2]}

\* A sequence sorted by an order of its positions (all of the sequence, which
\* TLC computes here and not anew for every element that is read).
SortedBy(seq, less) ==
  LET order == Stable(seq, less)
  IN SubSeq([r \in DOMAIN seq |-> seq[Nth(DOMAIN seq, order, r)]], 1, Len(seq))
=============================================================================
