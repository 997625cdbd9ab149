------------------------------ MODULE WeightSync ------------------------------
(***************************************************************************)
(* A weight sync while responses are being generated: the checkpoint       *)
(* engine manager's update_weights (checkpoint_engine/base.py), the vLLM   *)
(* servers (vllm_async_server.py), and the requests of the fully           *)
(* asynchronous agent loop (FullyAsyncLLMServerManager.generate), which    *)
(* resends a request the sync aborted together with the tokens it got.     *)
(*                                                                         *)
(* A token is the version of the weights that generated it.  Each request  *)
(* comes from an agent loop worker of its own, so its calls to the load    *)
(* balancer arrive in order, and those of different requests do not.  A    *)
(* replica is one server in standalone mode, where sleep and wake_up do    *)
(* nothing; the first sync, before any request, is in the initial state.   *)
(***************************************************************************)
EXTENDS LoadBalancer, FiniteSets

CONSTANTS
  PartialRollout,   \* async_training.partial_rollout
  EnginePauses,     \* vLLM >= 0.12.0
  ResponseLength,   \* response_length
  PromptSlack,      \* prompt_length less the length of the prompt
  MaxSyncs,         \* bound: calls of update_weights
  MaxFailures       \* bound: calls of generate that raise

ASSUME WeightSyncAssumption ==
  /\ PartialRollout \in BOOLEAN /\ EnginePauses \in BOOLEAN
  /\ ResponseLength \in Nat \ {0} /\ PromptSlack \in Nat
  /\ MaxSyncs \in Nat /\ MaxFailures \in Nat

VARIABLES
  version,   \* current_param_version, the trainer's weights
  phase,     \* where update_weights is
  stage,     \* how far it is with each server
  weights,   \* the version of the weights each engine computes with
  label,     \* global_steps of each server
  paused,    \* the engines that pause_generation has paused
  prefixes,  \* versions of the weights the prefix cache was computed with
  client,    \* where generate is, for each request
  at,        \* the server it acquired last, or 0
  owed,      \* the server its unexecuted release_server call names, or 0
  tokens,    \* final_output.token_ids
  segment,   \* tokens of the current call of the server
  stop,      \* stop_reason of the last reply
  steps,     \* global_steps of the last reply
  minSteps,  \* min_global_steps
  maxSteps,  \* max_global_steps
  failures   \* calls that raised so far

syncVars == <<version, phase, stage>>
serverVars == <<weights, label, paused, prefixes>>
replyVars == <<stop, steps>>
outputVars == <<tokens, minSteps, maxSteps>>
vars == <<lbVars, syncVars, serverVars, client, at, owed, segment, replyVars,
          outputVars, failures>>

Unset == -1   \* None

Init ==
  /\ LBInit
  /\ version = 0 /\ phase = "idle" /\ stage = [s \in Server |-> "serving"]
  /\ weights = [s \in Server |-> 0] /\ label = [s \in Server |-> 0]
  /\ paused = {} /\ prefixes = [s \in Server |-> {}]
  /\ client = [r \in Requests |-> "send"]
  /\ at = [r \in Requests |-> 0] /\ owed = [r \in Requests |-> 0]
  /\ tokens = [r \in Requests |-> <<>>] /\ segment = [r \in Requests |-> <<>>]
  /\ stop = [r \in Requests |-> "none"] /\ steps = [r \in Requests |-> Unset]
  /\ minSteps = [r \in Requests |-> Unset]
  /\ maxSteps = [r \in Requests |-> Unset]
  /\ failures = 0

Running(s) == {r \in Requests : client[r] = "running" /\ at[r] = s}

-----------------------------------------------------------------------------
(* The request.                                                            *)

\* The load balancer executes acquire_server; the worker then calls the
\* server's generate.
Acquire(r) ==
  /\ client[r] = "send" /\ owed[r] = 0
  /\ \E s \in Server :
       AcquireServer(r, s) /\ at' = [at EXCEPT ![r] = s]
  /\ client' = [client EXCEPT ![r] = "sent"]
  /\ UNCHANGED <<syncVars, serverVars, owed, segment, replyVars, outputVars,
                 failures>>

Release(r) ==
  /\ owed[r] # 0
  /\ ReleaseServer(owed[r])
  /\ owed' = [owed EXCEPT ![r] = 0]
  /\ UNCHANGED <<syncVars, serverVars, client, at, segment, replyVars,
                 outputVars, failures>>

\* The engine accepts the request; a paused engine makes it wait.
Start(r) ==
  /\ client[r] = "sent"
  /\ at[r] \notin paused
  /\ client' = [client EXCEPT ![r] = "running"]
  /\ UNCHANGED <<lbVars, syncVars, serverVars, at, owed, segment, replyVars,
                 outputVars, failures>>

\* Mutation: response_length alone bounds every call.
Mut_AllowanceOfEachCall(r) == ResponseLength

\* max_tokens of a call whose prompt already holds the tokens generated.
Allowance(r) ==
  IF PromptSlack <= Len(tokens[r])
  THEN ResponseLength + PromptSlack - Len(tokens[r]) ELSE ResponseLength

\* One more token, and perhaps the last: the engine stops at max_tokens, or
\* at an end-of-sequence token.  The server then labels the reply.
Token(r, last) ==
  /\ client[r] = "running"
  /\ segment' = [segment EXCEPT ![r] = Append(@, weights[at[r]])]
  /\ prefixes' = [prefixes EXCEPT ![at[r]] = @ \cup {weights[at[r]]}]
  /\ Len(segment'[r]) = Allowance(r) => last
  /\ IF last
     THEN /\ client' = [client EXCEPT ![r] = "replied"]
          /\ stop' = [stop EXCEPT ![r] = "completed"]
          /\ steps' = [steps EXCEPT ![r] = label[at[r]]]
     ELSE UNCHANGED <<client, replyVars>>
  /\ UNCHANGED <<lbVars, syncVars, weights, label, paused, at, owed,
                 outputVars, failures>>

\* generate raises; the finally clause releases the server.
Raise(r) ==
  /\ client[r] \in {"sent", "running"}
  /\ failures < MaxFailures
  /\ failures' = failures + 1
  /\ client' = [client EXCEPT ![r] = "failed"]
  /\ owed' = [owed EXCEPT ![r] = at[r]]
  /\ UNCHANGED <<lbVars, syncVars, serverVars, at, segment, replyVars, outputVars>>

\* Mutation: an aborted request is returned as it is.
Mut_NeverResend(r) == FALSE

MustResend(r) == stop[r] = "aborted" /\ PartialRollout

\* The reply arrives: release, merge, and send again or return.
Merge(r) ==
  /\ client[r] = "replied"
  /\ owed' = [owed EXCEPT ![r] = at[r]]
  /\ tokens' = [tokens EXCEPT ![r] = @ \o segment[r]]
  /\ segment' = [segment EXCEPT ![r] = <<>>]
  /\ minSteps' = [minSteps EXCEPT ![r] = IF @ = Unset THEN steps[r] ELSE @]
  /\ maxSteps' = [maxSteps EXCEPT ![r] = steps[r]]
  /\ client' = [client EXCEPT ![r] = IF MustResend(r) THEN "send" ELSE "returned"]
  /\ UNCHANGED <<lbVars, syncVars, serverVars, at, replyVars, failures>>

Request(r) ==
  \/ Acquire(r) \/ Start(r) \/ Merge(r)
  \/ \E last \in BOOLEAN : Token(r, last)

-----------------------------------------------------------------------------
(* update_weights.                                                         *)

BeginSync ==
  /\ phase = "idle"
  /\ version < MaxSyncs
  /\ version' = version + 1
  /\ phase' = "abort"
  /\ UNCHANGED <<lbVars, stage, serverVars, client, at, owed, segment,
                 replyVars, outputVars, failures>>

Advance(s, from, to) ==
  /\ stage[s] = from
  /\ stage' = [stage EXCEPT ![s] = to]

\* Mutation: the cache is kept.
Mut_KeepPrefixCache(s) == UNCHANGED prefixes

ResetPrefixCache(s) == prefixes' = [prefixes EXCEPT ![s] = {}]

\* Mutation: the engine goes on accepting requests.
Mut_PauseNothing(s) == UNCHANGED paused

PauseEngine(s) ==
  paused' = IF EnginePauses THEN paused \cup {s} ELSE paused

\* abort_all_requests: every request running on the server is answered with
\* the tokens it has.  The older engine returns at once when it has none.
AbortServer(s) ==
  /\ phase = "abort"
  /\ Advance(s, "serving", "aborted")
  /\ PauseEngine(s)
  /\ IF EnginePauses \/ Running(s) # {} THEN ResetPrefixCache(s)
     ELSE UNCHANGED prefixes
  /\ client' = [r \in Requests |-> IF r \in Running(s) THEN "replied" ELSE client[r]]
  /\ stop' = [r \in Requests |-> IF r \in Running(s) THEN "aborted" ELSE stop[r]]
  /\ steps' = [r \in Requests |-> IF r \in Running(s) THEN label[s] ELSE steps[r]]
  /\ UNCHANGED <<lbVars, version, phase, weights, label, at, owed, segment,
                 outputVars, failures>>

LoadWeights(s) ==
  /\ phase = "load"
  /\ Advance(s, "aborted", "loaded")
  /\ weights' = [weights EXCEPT ![s] = version]
  /\ UNCHANGED <<lbVars, version, phase, label, paused, prefixes, client, at,
                 owed, segment, replyVars, outputVars, failures>>

ClearKvCache(s) ==
  /\ phase = "load"
  /\ Advance(s, "loaded", "cleared")
  /\ ResetPrefixCache(s)
  /\ UNCHANGED <<lbVars, version, phase, weights, label, paused, client, at,
                 owed, segment, replyVars, outputVars, failures>>

\* Mutation: the label stays behind.
Mut_SetNoGlobalSteps(s) ==
  /\ phase = "load"
  /\ Advance(s, "cleared", "labelled")
  /\ UNCHANGED <<lbVars, version, phase, serverVars, client, at, owed,
                 segment, replyVars, outputVars, failures>>

SetGlobalSteps(s) ==
  /\ phase = "load"
  /\ Advance(s, "cleared", "labelled")
  /\ label' = [label EXCEPT ![s] = version]
  /\ UNCHANGED <<lbVars, version, phase, weights, paused, prefixes, client,
                 at, owed, segment, replyVars, outputVars, failures>>

\* Mutation: the engine stays paused.
Mut_StayPaused(s) ==
  /\ phase = "resume"
  /\ Advance(s, "labelled", "serving")
  /\ UNCHANGED <<lbVars, version, phase, serverVars, client, at, owed,
                 segment, replyVars, outputVars, failures>>

ResumeGeneration(s) ==
  /\ phase = "resume"
  /\ Advance(s, "labelled", "serving")
  /\ paused' = paused \ {s}
  /\ UNCHANGED <<lbVars, version, phase, weights, label, prefixes, client, at,
                 owed, segment, replyVars, outputVars, failures>>

\* Each gather waits for all the servers.
After == [abort |-> "load", load |-> "resume", resume |-> "idle"]
Reached == [abort |-> "aborted", load |-> "labelled", resume |-> "serving"]

GatherDone ==
  /\ phase # "idle"
  /\ \A s \in Server : stage[s] = Reached[phase]
  /\ phase' = After[phase]
  /\ UNCHANGED <<lbVars, version, stage, serverVars, client, at, owed, segment,
                 replyVars, outputVars, failures>>

SyncStep ==
  \/ GatherDone
  \/ \E s \in Server : \/ AbortServer(s) \/ LoadWeights(s) \/ ClearKvCache(s)
                       \/ SetGlobalSteps(s) \/ ResumeGeneration(s)

Next ==
  \/ BeginSync \/ SyncStep
  \/ \E r \in Requests : Request(r) \/ Release(r) \/ Raise(r)

\* Every call is executed and answered, and a running request goes on
\* generating.  Nothing obliges the trainer to sync or a call to raise.
Fairness ==
  /\ WF_vars(SyncStep)
  /\ \A r \in Requests : WF_vars(Request(r)) /\ WF_vars(Release(r))

Spec == Init /\ [][Next]_vars

FairSpec == Spec /\ Fairness

-----------------------------------------------------------------------------
TypeOK ==
  /\ inflight \in [Server -> Nat]
  /\ routes \in Seq(Requests \X Server) /\ Len(routes) <= MaxCacheSize
  /\ version \in Nat /\ phase \in {"idle", "abort", "load", "resume"}
  /\ stage \in [Server -> {"serving", "aborted", "loaded", "cleared", "labelled"}]
  /\ weights \in [Server -> Nat] /\ label \in [Server -> Nat]
  /\ paused \in SUBSET Server /\ prefixes \in [Server -> SUBSET Nat]
  /\ client \in [Requests -> {"send", "sent", "running", "replied", "returned",
                              "failed"}]
  /\ at \in [Requests -> Server \cup {0}] /\ owed \in [Requests -> Server \cup {0}]
  /\ tokens \in [Requests -> Seq(Nat)] /\ segment \in [Requests -> Seq(Nat)]
  /\ stop \in [Requests -> {"none", "completed", "aborted"}]
  /\ steps \in [Requests -> Nat \cup {Unset}]
  /\ minSteps \in [Requests -> Nat \cup {Unset}]
  /\ maxSteps \in [Requests -> Nat \cup {Unset}]
  /\ failures \in Nat

\* The count of every server is the calls it has and the releases under way,
\* so release_server never raises, whatever fails and however the calls of
\* different workers interleave.
Using(s) == {r \in Requests : at[r] = s /\ client[r] \in {"sent", "running", "replied"}}
Releasing(s) == {r \in Requests : owed[r] = s}

InflightExact ==
  \A s \in Server : inflight[s] = Cardinality(Using(s)) + Cardinality(Releasing(s))

\* A request goes back to the server that has the prefix of its response, as
\* long as the routing cache has not evicted it.
StickyResume ==
  [][\A r \in Requests :
       client[r] = "send" /\ client'[r] = "sent" /\ Cached(r) => at'[r] = at[r]]_vars

\* min_global_steps and max_global_steps bound the versions of the weights
\* that generated a returned response, and the last token has the latter.
LabelsTrue ==
  \A r \in Requests : client[r] = "returned" =>
    /\ \A i \in 1 .. Len(tokens[r]) :
         minSteps[r] <= tokens[r][i] /\ tokens[r][i] <= maxSteps[r]
    /\ stop[r] = "completed" => tokens[r][Len(tokens[r])] = maxSteps[r]

\* A running request never shares a prefix computed with older weights.
NoStalePrefix ==
  \A s \in Server : Running(s) # {} => prefixes[s] \subseteq {weights[s]}

\* Partial rollout makes a sync invisible: a returned response was completed.
CompleteResponses ==
  \A r \in Requests : client[r] = "returned" => stop[r] = "completed"

\* However often a response is interrupted it is at most PromptSlack tokens
\* too long, and a resent request always has room for a token.
ResponseBound ==
  \A r \in Requests :
    /\ Len(tokens[r]) + Len(segment[r]) <= ResponseLength + PromptSlack
    /\ client[r] \in {"send", "sent"} => Allowance(r) > 0

\* To the responses a sync is one step (AtomicSync): the servers serve the
\* new version from the moment the last of them has loaded it, and no token
\* is lost or generated twice.
Served ==
  IF \A s \in Server : weights[s] = version THEN version ELSE version - 1

Atomic == INSTANCE AtomicSync WITH
  served <- Served,
  response <- [r \in Requests |-> tokens[r] \o segment[r]],
  returned <- {r \in Requests : client[r] = "returned"}

ImplementsAtomicSync == Atomic!Spec

\* Every request is answered, although a sync may abort it any number of
\* times and a paused engine makes it wait: the sync that paused the engine
\* resumes it (abort_all_requests, resume_generation).
AllAnswered == \A r \in Requests : <>(client[r] \in {"returned", "failed"})
=============================================================================
