-------------------------------- MODULE TGRPO --------------------------------
(***************************************************************************)
(* One step of VideoR1RayPPOTrainer.fit up to the advantages: the normal   *)
(* rollout, union and balancing of the batch, its reward, the second       *)
(* rollout with shuffled video frames, its reward, and the bonus.          *)
(*                                                                         *)
(* A batch maps its keys to columns, one entry per row.  A response is its *)
(* length and whether it is right; input_ids, attention_mask and           *)
(* position_ids follow from prompt and response, and so do the scores.     *)
(* Prompts are taken to be of one length, which is left out of the masks.  *)
(***************************************************************************)
EXTENDS SeqlenBalancing

CONSTANTS
  NumPrompts,    \* rows of the dataloader's batch
  Videos,        \* those with data_type "video"
  Repeats,       \* rollout.n
  DpSize,        \* ranks the batch is balanced for; it divides the rows
  BalanceBatch,  \* trainer.balance_batch
  Lengths        \* bound: of responses

VARIABLES
  phase,     \* what fit does next; raised: an assertion failed
  batch, shuffled,  \* batch and shuffled_gen_output
  bonus      \* rows whose reward got the bonus

vars == <<phase, batch, shuffled, bonus>>

Row == 1 .. NumPrompts * Repeats
Answer == [right : BOOLEAN, len : Lengths]

\* repeat(n, interleave=True) of what is known of the prompts.
RepeatedPrompt == [i \in Row |-> (i - 1) \div Repeats + 1]

\* generate_sequences on the rows of the given prompts: the columns of
\* AgentLoopWorker._postprocess, with the rewards the loop computes.
Generated(prompts, answers, permuted) ==
  [ prompts |-> prompts,
    responses |-> answers,
    response_mask |-> [i \in Row |-> answers[i].len],
    input_ids |-> [i \in Row |-> <<prompts[i], answers[i]>>],
    attention_mask |-> [i \in Row |-> answers[i].len],
    position_ids |-> [i \in Row |-> answers[i].len],
    multi_modal_inputs |-> [i \in Row |-> <<prompts[i], i \in permuted>>],
    rm_scores |-> [i \in Row |-> answers[i].right],
    accuracy |-> [i \in Row |-> answers[i].right] ]

\* DataProto.union: keys of both must have the same contents.
CanUnion(d1, d2) == \A key \in DOMAIN d1 \cap DOMAIN d2 : d1[key] = d2[key]
Union(d1, d2) == d1 @@ d2

\* DataProto.pop of the keys that are there.
Pop(d, keys) == Restrict(d, DOMAIN d \ keys)

ReorderRows(d, order) ==
  [key \in DOMAIN d |-> [i \in Row |-> d[key][order[i]]]]

Balanced(d) == ReorderRows(d, BalancedOrder(d.attention_mask, <<>>, DpSize))

Init ==
  /\ phase = "gen"
  /\ batch = [uid |-> RepeatedPrompt] /\ shuffled = <<>> /\ bonus = {}

\* The normal rollout, repeated and united with the batch.  The replicas
\* sleep from here to the next weight sync (external).
GenerateNormal ==
  /\ phase = "gen"
  /\ \E answers \in [Row -> Answer] :
       LET d == Union(batch, Generated(RepeatedPrompt, answers, {}))
       IN batch' = IF BalanceBatch THEN Balanced(d) ELSE d
  /\ phase' = "reward"
  /\ UNCHANGED <<shuffled, bonus>>

HasVideoSamples == \E i \in Row : batch.uid[i] \in Videos

\* extract_reward, and whether there is a second rollout.
RewardNormal ==
  /\ phase = "reward"
  /\ phase' = IF HasVideoSamples THEN "shuffle" ELSE "advantage"
  /\ UNCHANGED <<batch, shuffled, bonus>>

\* _run_tgrpo_shuffled_rollout, from gen_batch: the rows before balancing.
\* A random permutation of the frames may be the identity.
GenerateShuffled ==
  /\ phase = "shuffle"
  /\ \E answers \in [Row -> Answer],
        permuted \in SUBSET {i \in Row : RepeatedPrompt[i] \in Videos} :
       shuffled' = Generated(RepeatedPrompt, answers, permuted)
  /\ phase' = "shuffledReward"
  /\ UNCHANGED <<batch, bonus>>

KeysToClear == {"responses", "response_mask", "rm_scores", "token_level_scores"}

\* _compute_tgrpo_shuffled_reward.
RewardShuffled ==
  /\ phase = "shuffledReward"
  /\ phase' = IF CanUnion(Pop(batch, KeysToClear), shuffled)
              THEN "bonus" ELSE "raised"
  /\ UNCHANGED <<batch, shuffled, bonus>>

RightRows(d) == {i \in Row : d.accuracy[i]}

\* normal_mean >= 0.8 * shuffled_mean, over all rows.
Triggered == 10 * Cardinality(RightRows(batch)) >= 8 * Cardinality(RightRows(shuffled))

\* _apply_tgrpo_bonus.
ApplyBonus ==
  /\ phase = "bonus"
  /\ bonus' = IF Triggered THEN {i \in RightRows(batch) : batch.uid[i] \in Videos} ELSE {}
  /\ phase' = "advantage"
  /\ UNCHANGED <<batch, shuffled>>

Next ==
  \/ GenerateNormal \/ RewardNormal
  \/ GenerateShuffled \/ RewardShuffled \/ ApplyBonus

Spec == Init /\ [][Next]_vars

(***************************************************************************)
(* Properties.                                                             *)
(***************************************************************************)

\* video_ray_trainer.py:140-145, _compute_tgrpo_shuffled_reward: the shuffled
\* answers take the place of the normal ones in a copy of the batch, and the
\* copy is rewarded: the step goes on, and a shuffled answer is judged by its
\* own prompt.
ShuffledRewarded ==
  /\ phase # "raised"
  /\ phase = "bonus" => \A i \in Row : shuffled.prompts[i] = batch.uid[i]
=============================================================================
