----------------------------- MODULE Advantages -----------------------------
(***************************************************************************)
(* trainer/ppo/core_algos.py, the advantage estimators.  Outcome           *)
(* estimators score a row [uid, length, score] against the rows of its     *)
(* group; an advantage is a fraction [num, den], exact where the code has  *)
(* floats.  Division by the group's standard deviation and whitening       *)
(* rescale it and are left out.  The estimators over tokens take a         *)
(* response, a sequence of [mask, reward, value].                          *)
(***************************************************************************)
EXTENDS Integers, Sequences, FiniteSets, FiniteSetsExt, SequencesExt

CONSTANTS
  Gamma,  \* discount
  Lam     \* lambda of GAE

ASSUME DiscountAssumption == Gamma \in Nat /\ Lam \in Nat

Group(batch, i) == {j \in DOMAIN batch : batch[j].uid = batch[i].uid}
Total(batch, rows) == SumFunction([j \in rows |-> batch[j].score])
Lengths(batch, rows) == SumFunction([j \in rows |-> batch[j].length])

Fraction(num, den) == [num |-> num, den |-> den]
Equal(a, b) == a.num * b.den = b.num * a.den
Whole(num) == Fraction(num, 1)

\* compute_grpo_outcome_advantage, unscaled: a row alone has mean 0.
Grpo(batch, i) ==
  LET group == Group(batch, i) n == Cardinality(group)
  IN IF n = 1 THEN Whole(batch[i].score)
     ELSE Fraction(n * batch[i].score - Total(batch, group), n)

\* Mutation: the plain mean is the baseline.
Mut_Rloo(batch, i) == Grpo(batch, i)

\* compute_rloo_outcome_advantage.
Rloo(batch, i) ==
  LET group == Group(batch, i) n == Cardinality(group)
  IN IF n = 1 THEN Whole(batch[i].score)
     ELSE Fraction(n * batch[i].score - Total(batch, group), n - 1)

\* compute_rloo_vectorized_outcome_advantage: a row alone gets nothing.
RlooVectorized(batch, i) ==
  LET group == Group(batch, i) n == Cardinality(group)
  IN IF n = 1 THEN Whole(0)
     ELSE Fraction(n * batch[i].score - Total(batch, group), n - 1)

\* compute_opo_outcome_advantage: the baseline weighs scores by length.
Opo(batch, i) ==
  LET group == Group(batch, i)
      weighted == SumFunction([j \in group |-> batch[j].length * batch[j].score])
  IN IF Cardinality(group) = 1 THEN Whole(batch[i].score)
     ELSE Fraction(batch[i].score * Lengths(batch, group) - weighted,
                   Lengths(batch, group))

\* compute_grpo_passk_outcome_advantage, unscaled; groups of one raise.
\* topk leaves open which of several best rows is the first.
PassK(batch, best, i) ==
  LET group == Group(batch, i)
      Second == Max({batch[j].score : j \in group \ {best}})
  IN IF i = best THEN batch[best].score - Second ELSE 0

IsBest(batch, i) == \A j \in Group(batch, i) : batch[j].score <= batch[i].score

-----------------------------------------------------------------------------
(* Over the tokens of a response.                                          *)

\* Mutation: the value of an observation token is bootstrapped from.
Mut_GaeStep(token, next) ==
  LET delta == token.reward + Gamma * next.value - token.value
  IN [value |-> token.value,
      adv |-> IF token.mask THEN delta + Gamma * Lam * next.adv ELSE next.adv]

\* What compute_gae_advantage_return carries from token t to the one before:
\* an observation token leaves it alone.
GaeStep(token, next) ==
  LET delta == token.reward + Gamma * next.value - token.value
  IN IF token.mask THEN [value |-> token.value,
                         adv |-> delta + Gamma * Lam * next.adv]
     ELSE next

\* advantages, before whitening; returns are advantages + values.
Gae(response) ==
  LET from[t \in 1 .. Len(response) + 1] ==
        IF t > Len(response) THEN [value |-> 0, adv |-> 0]
        ELSE GaeStep(response[t], from[t + 1])
  IN [t \in DOMAIN response |-> from[t].adv]
=============================================================================
