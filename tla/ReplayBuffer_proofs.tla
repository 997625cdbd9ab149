------------------------- MODULE ReplayBuffer_proofs -------------------------
(***************************************************************************)
(* Proofs about ReplayBuffer, for any number of steps, validation batches, *)
(* prompts, sessions and failures.                                         *)
(*                                                                         *)
(* The argument: nothing of a prompt is anywhere before its batch is       *)
(* dispatched; a prompt is reported finished after the results of its      *)
(* sessions are put, one snapshot of the queue has both or neither, and    *)
(* the buffer gets them in one step.                                       *)
(***************************************************************************)
EXTENDS ReplayBuffer, TLAPS

\* The agent loops of u have not been created.
Unstarted(u) ==
  \/ u.step > step
  \/ /\ u.step = step /\ u.val > val
     /\ val # 0 \/ pc \in {"mark", "dispatch", "sample", "use"}
  \/ u \in Current /\ pc \in {"mark", "dispatch"}

Fresh ==
  \A u \in Uid : Unstarted(u) =>
    /\ tq[PromptKey(u)] = "absent"
    /\ \A s \in Sessions :
         /\ session[u][s] = "none"
         /\ tq[ResultKey(u, s)] = "absent"
         /\ snapshot[ResultKey(u, s)] = "absent"
         /\ buffer[ResultKey(u, s)].status = "absent"

\* What is known of the item of a prompt, in the queue and in its copies.
PromptItem(u) ==
  /\ tq[PromptKey(u)] \in {"absent", "finished", "failure"}
  /\ tq[PromptKey(u)] = "finished" => AllEnded(u)
  /\ snapshot[PromptKey(u)] \in {"absent", tq[PromptKey(u)]}
  /\ buffer[PromptKey(u)].status \in {"absent", "running", "finished", "failure"}
  /\ buffer[PromptKey(u)].step \in {NoStep, u.step}
  /\ \/ buffer[PromptKey(u)].step # NoStep
     \/ /\ buffer[PromptKey(u)].status = "absent"
        /\ tq[PromptKey(u)] = "absent"
        /\ \A s \in Sessions : session[u][s] = "none"
  /\ \A p \in Partitions : PromptKey(u) \notin batch[p]

PromptItems == \A u \in Uid : PromptItem(u)

ResultItem(u, s) ==
  /\ tq[ResultKey(u, s)] \in {"absent", "success"}
  /\ snapshot[ResultKey(u, s)] \in {"absent", "success"}
  /\ buffer[ResultKey(u, s)] \in {[status |-> "absent", step |-> NoStep],
                                  [status |-> "success", step |-> u.step]}

ResultItems == \A u \in Uid, s \in Sessions : ResultItem(u, s)

\* A prompt of the batch that is dispatched: nothing of it is ahead of the
\* queue, and no copy has its report without its results.
CurrentItem(u) ==
  /\ buffer[PromptKey(u)].step = step
  /\ \/ buffer[PromptKey(u)].status = "running"
     \/ buffer[PromptKey(u)].status = tq[PromptKey(u)] /\ Reported(u)
  /\ \A s \in Sessions :
       /\ session[u][s] = "put" =>
            /\ tq[ResultKey(u, s)] = "success"
            /\ snapshot[PromptKey(u)] = "finished" =>
                 snapshot[ResultKey(u, s)] = "success"
            /\ buffer[PromptKey(u)].status = "finished" =>
                 buffer[ResultKey(u, s)].status = "success"
       /\ tq[ResultKey(u, s)] = "absent" =>
            /\ snapshot[ResultKey(u, s)] = "absent"
            /\ buffer[ResultKey(u, s)].status = "absent"

CurrentItems ==
  pc \in {"dispatch", "sample", "use"} => \A u \in Current : CurrentItem(u)

IInv ==
  TypeOK /\ Fresh /\ PromptItems /\ ResultItems /\ CurrentItems /\ SampleComplete

-----------------------------------------------------------------------------

\* The key of a prompt and those of its results are different, and no other
\* prompt's; there are no other keys.
LEMMA Keys ==
  /\ \A u \in Uid :
       /\ PromptKey(u) \in Key /\ PromptKey(u).uid = u /\ PromptKey(u).session = 0
       /\ \A s \in Sessions :
            /\ ResultKey(u, s) \in Key /\ ResultKey(u, s).uid = u
            /\ ResultKey(u, s).session = s /\ s # 0
  /\ \A key \in Key :
       /\ key.uid \in Uid
       /\ \/ key = PromptKey(key.uid) /\ key.session = 0
          \/ key.session \in Sessions /\ key = ResultKey(key.uid, key.session)
BY ReplayAssumption DEF Key, PromptKey, ResultKey

\* A uid has the step and the batch it was made for.
LEMMA Uids ==
  \A u \in Uid : u.step \in Nat /\ u.step <= TotalSteps /\ u.val \in Nat /\ u.val <= ValBatches
                 /\ u.step # NoStep
BY ReplayAssumption DEF Uid, Step, NoStep

\* The specification starts with its variables of their types.
LEMMA InitTypeOK == Init => TypeOK
<1> SUFFICES ASSUME Init PROVE TypeOK
  OBVIOUS
<1>1. tq \in [Key -> Status] /\ snapshot \in [Key -> Status]
  BY DEF Init, NoItems, Status
<1>2. buffer \in [Key -> Tag]
  BY DEF Init, Tag, Status
<1>3. step \in Step /\ val \in 0 .. ValBatches
  BY ReplayAssumption DEF Init, Step
<1>4. session \in [Uid -> [Sessions -> {"none", "running", "put", "empty", "failed"}]]
  BY DEF Init
<1>5. /\ pc \in {"mark", "dispatch", "sample", "use", "clear", "remove", "next", "done"}
      /\ batch \in [Partitions -> SUBSET Key] /\ toAdd \subseteq Partitions
  BY DEF Init
<1> QED
  BY <1>1, <1>2, <1>3, <1>4, <1>5 DEF TypeOK

\* A step keeps the variables in their types.
LEMMA TypeStep == TypeOK /\ [Next]_vars => TypeOK'
<1> SUFFICES ASSUME TypeOK, [Next]_vars PROVE TypeOK'
  OBVIOUS
<1>t. Partition(val) \in Partitions
  BY DEF Partition, Partitions
<1>1. CASE Mark
  <2>1. buffer' \in [Key -> Tag]
    BY <1>1 DEF Mark, Marked, TypeOK, Tag, Status, Step
  <2> QED
    BY <1>1, <2>1 DEF Mark, TypeOK
<1>2. CASE Dispatch
  BY <1>2 DEF Dispatch, TypeOK
<1>3. CASE Sample
  <2>1. batch' \in [Partitions -> SUBSET Key]
    BY <1>3, <1>t DEF Sample, OfStep, TypeOK
  <2> QED
    BY <1>3, <2>1 DEF Sample, TypeOK
<1>4. CASE Use
  <2>1. val' \in 0 .. ValBatches
    BY <1>4, ReplayAssumption DEF Use, TypeOK
  <2> QED
    BY <1>4, <2>1 DEF Use, TypeOK
<1>5. CASE Clear
  BY <1>5 DEF Clear, TypeOK, Status
<1>6. CASE Remove
  <2>1. buffer' \in [Key -> Tag]
    BY <1>6 DEF Remove, TypeOK, Tag, Status
  <2>2. batch' \in [Partitions -> SUBSET Key]
    BY <1>6, <1>t DEF Remove, TypeOK
  <2> QED
    BY <1>6, <2>1, <2>2 DEF Remove, TypeOK
<1>7. CASE NextBatch
  <2>1. step' \in Step /\ val' \in 0 .. ValBatches
    BY <1>7, ReplayAssumption DEF NextBatch, IsLastStep, TypeOK, Step
  <2>2. pc' \in {"mark", "clear", "done"}
    BY <1>7 DEF NextBatch
  <2> QED
    BY <1>7, <2>1, <2>2 DEF NextBatch, TypeOK
<1>8. ASSUME NEW u \in Uid, NEW s \in Sessions, SessionEnds(u, s)
      PROVE  TypeOK'
  BY <1>8 DEF SessionEnds, TypeOK, Status
<1>9. ASSUME NEW u \in Uid, NEW s \in Sessions, SessionRaises(u, s)
      PROVE  TypeOK'
  BY <1>9 DEF SessionRaises, TypeOK
<1>10. ASSUME NEW u \in Uid, PromptEnds(u) PROVE TypeOK'
  BY <1>10 DEF PromptEnds, TypeOK, Status
<1>11. CASE Poll
  BY <1>11 DEF Poll, TypeOK
<1>12. ASSUME NEW p \in Partitions, Add(p) PROVE TypeOK'
  <2>1. ASSUME NEW key \in Key
        PROVE  Updated(buffer[key], key, snapshot[key]) \in Tag
    BY Keys, Uids DEF TypeOK, Updated, StepInQueue, Tag, Uid
  <2>2. buffer' \in [Key -> Tag]
    BY <1>12, <2>1 DEF Add, TypeOK
  <2>3. snapshot' \in [Key -> Status]
    BY <1>12 DEF Add, TypeOK, Status
  <2> QED
    BY <1>12, <2>2, <2>3 DEF Add, TypeOK
<1>13. CASE UNCHANGED vars
  BY <1>13 DEF vars, TypeOK
<1> QED
  BY <1>1, <1>2, <1>3, <1>4, <1>5, <1>6, <1>7, <1>8, <1>9, <1>10, <1>11, <1>12, <1>13
     DEF Next, Trainer

\* The batches come one after the other: a prompt does not become unstarted.
LEMMA UnstartedStep ==
  TypeOK /\ [Next]_vars => \A u \in Uid : Unstarted(u)' => Unstarted(u)
<1> SUFFICES ASSUME TypeOK, [Next]_vars, NEW u \in Uid, Unstarted(u)'
             PROVE  Unstarted(u)
  OBVIOUS
<1> USE DEF Unstarted, Current
<1>t. step \in Nat /\ val \in Nat /\ u.step \in Nat /\ u.val \in Nat
  BY Uids, ReplayAssumption DEF TypeOK, Step
<1>1. CASE Mark \/ Dispatch
  BY <1>1 DEF Mark, Dispatch
<1>2. CASE Sample \/ Clear \/ Remove
  BY <1>2, <1>t DEF Sample, Clear, Remove
<1>3. CASE Use
  BY <1>3, <1>t DEF Use
<1>4. CASE NextBatch
  <2>1. CASE val' = val + 1 /\ step' = step /\ val # 0
    BY <1>4, <1>t, <2>1 DEF NextBatch
  <2>2. CASE val' = 0 /\ pc' = "clear" /\ step' = step
    BY <1>4, <1>t, <2>2 DEF NextBatch
  <2>3. CASE step' = step /\ pc' = "done" /\ val' = 0
    BY <1>4, <1>t, <2>3 DEF NextBatch
  <2>4. CASE step' = step + 1
    BY <1>4, <1>t, <2>4 DEF NextBatch
  <2> QED
    BY <1>4, <2>1, <2>2, <2>3, <2>4 DEF NextBatch
<1>5. CASE UNCHANGED <<step, val, pc>>
  BY <1>5
<1> QED
  BY <1>1, <1>2, <1>3, <1>4, <1>5
     DEF Next, Trainer, SessionEnds, SessionRaises, PromptEnds, Poll, Add, vars

\* An agent loop that runs, or that ended, has been created.
LEMMA FreshStep == TypeOK /\ Fresh /\ ResultItems /\ [Next]_vars => Fresh'
<1> SUFFICES ASSUME TypeOK, Fresh, ResultItems, [Next]_vars, NEW u \in Uid, Unstarted(u)'
             PROVE  /\ tq'[PromptKey(u)] = "absent"
                    /\ \A s \in Sessions :
                         /\ session'[u][s] = "none"
                         /\ tq'[ResultKey(u, s)] = "absent"
                         /\ snapshot'[ResultKey(u, s)] = "absent"
                         /\ buffer'[ResultKey(u, s)].status = "absent"
  BY DEF Fresh
<1>u. Unstarted(u)
  BY UnstartedStep
<1>f. /\ tq[PromptKey(u)] = "absent"
      /\ \A s \in Sessions :
           /\ session[u][s] = "none"
           /\ tq[ResultKey(u, s)] = "absent"
           /\ snapshot[ResultKey(u, s)] = "absent"
           /\ buffer[ResultKey(u, s)].status = "absent"
  BY <1>u DEF Fresh
<1>1. CASE Mark
  <2>1. ASSUME NEW s \in Sessions PROVE buffer'[ResultKey(u, s)] = buffer[ResultKey(u, s)]
    BY <1>1, Keys DEF Mark, Marked, Current
  <2> QED
    BY <1>1, <1>f, <2>1 DEF Mark
<1>2. CASE Dispatch
  <2>1. u \notin Current
    BY <1>2 , Uids, ReplayAssumption DEF Dispatch, Unstarted, Current, TypeOK, Step
  <2> QED
    BY <1>2, <1>f, <2>1 DEF Dispatch
<1>3. CASE Sample \/ Use \/ NextBatch
  BY <1>3, <1>f DEF Sample, Use, NextBatch
<1>4. CASE Clear
  BY <1>4, <1>f, Keys DEF Clear
<1>5. CASE Remove
  BY <1>5, <1>f, Keys DEF Remove
<1>6. ASSUME NEW v \in Uid, NEW r \in Sessions, SessionEnds(v, r) \/ SessionRaises(v, r)
      PROVE  v # u /\ UNCHANGED <<snapshot, buffer>>
             /\ (tq' = tq \/ tq' = [tq EXCEPT ![ResultKey(v, r)] = "success"])
             /\ session'[u] = session[u]
  <2>1. v # u
    BY <1>6, <1>f DEF SessionEnds, SessionRaises
  <2> QED
    BY <1>6, <2>1 DEF SessionEnds, SessionRaises, TypeOK
<1>7. ASSUME NEW v \in Uid, PromptEnds(v)
      PROVE  v # u /\ UNCHANGED <<snapshot, buffer, session>>
             /\ \E status \in Status : tq' = [tq EXCEPT ![PromptKey(v)] = status]
  <2>1. v # u
    BY <1>7, <1>f, ReplayAssumption DEF PromptEnds, AllEnded, Raised
  <2> QED
    BY <1>7, <2>1 DEF PromptEnds, Status
<1>8. CASE Poll
  BY <1>8, <1>f DEF Poll
<1>9. ASSUME NEW p \in Partitions, Add(p)
      PROVE  /\ UNCHANGED <<tq, session>>
             /\ \A s \in Sessions : /\ snapshot'[ResultKey(u, s)] = "absent"
                                    /\ buffer'[ResultKey(u, s)].status = "absent"
  BY <1>9, <1>f, Keys DEF Add
<1>10. CASE UNCHANGED vars
  BY <1>10, <1>f DEF vars
<1>11. ASSUME NEW v \in Uid, NEW r \in Sessions, SessionEnds(v, r) \/ SessionRaises(v, r)
       PROVE  /\ tq'[PromptKey(u)] = "absent"
              /\ \A s \in Sessions : tq'[ResultKey(u, s)] = "absent"
  BY <1>11, <1>6, <1>f, Keys DEF TypeOK
<1>12. ASSUME NEW v \in Uid, PromptEnds(v)
       PROVE  /\ tq'[PromptKey(u)] = "absent"
              /\ \A s \in Sessions : tq'[ResultKey(u, s)] = "absent"
  BY <1>12, <1>7, <1>f, Keys DEF TypeOK
<1> QED
  BY <1>1, <1>2, <1>3, <1>4, <1>5, <1>6, <1>7, <1>8, <1>9, <1>10, <1>11, <1>12, <1>f
     DEF Next, Trainer

\* What a step of a session changes.
LEMMA SessionStep ==
  ASSUME TypeOK, NEW v \in Uid, NEW r \in Sessions,
         SessionEnds(v, r) \/ SessionRaises(v, r)
  PROVE  /\ session[v][r] = "running"
         /\ \E outcome \in {"put", "empty", "failed"} :
              /\ session' = [session EXCEPT ![v][r] = outcome]
              /\ tq' = IF outcome = "put" THEN [tq EXCEPT ![ResultKey(v, r)] = "success"]
                       ELSE tq
         /\ UNCHANGED <<snapshot, buffer, batch, step, val, pc>>
         /\ \A u \in Uid : tq'[PromptKey(u)] = tq[PromptKey(u)]
<1>1. \A u \in Uid : PromptKey(u) \in Key /\ PromptKey(u) # ResultKey(v, r)
  BY Keys
<1> QED
  BY <1>1 DEF SessionEnds, SessionRaises, TypeOK

\* What the report of a prompt changes.
LEMMA PromptStep ==
  ASSUME TypeOK, NEW v \in Uid, PromptEnds(v)
  PROVE  /\ tq[PromptKey(v)] = "absent"
         /\ tq'[PromptKey(v)] \in {"finished", "failure"}
         /\ tq'[PromptKey(v)] = "finished" => AllEnded(v)
         /\ \E s \in Sessions : session[v][s] # "none"
         /\ \A u \in Uid : u # v => tq'[PromptKey(u)] = tq[PromptKey(u)]
         /\ \A u \in Uid, s \in Sessions : tq'[ResultKey(u, s)] = tq[ResultKey(u, s)]
         /\ UNCHANGED <<session, snapshot, buffer, batch, step, val, pc>>
<1>1. \A u \in Uid : /\ PromptKey(u) \in Key
                     /\ u # v => PromptKey(u) # PromptKey(v)
                     /\ \A s \in Sessions : ResultKey(u, s) # PromptKey(v)
                                            /\ ResultKey(u, s) \in Key
  BY Keys
<1>2. \E s \in Sessions : session[v][s] # "none"
  BY ReplayAssumption DEF PromptEnds, AllEnded, Raised
<1>3. \E status \in {"finished", "failure"} :
        /\ tq' = [tq EXCEPT ![PromptKey(v)] = status]
        /\ status = "finished" => AllEnded(v)
  BY DEF PromptEnds
<1>4. PromptKey(v) \in Key /\ tq \in [Key -> Status]
  BY Keys DEF TypeOK
<1>5. /\ tq'[PromptKey(v)] \in {"finished", "failure"}
      /\ tq'[PromptKey(v)] = "finished" => AllEnded(v)
      /\ \A key \in Key : key # PromptKey(v) => tq'[key] = tq[key]
  BY <1>3, <1>4
<1>6. /\ \A u \in Uid : u # v => tq'[PromptKey(u)] = tq[PromptKey(u)]
      /\ \A u \in Uid, s \in Sessions : tq'[ResultKey(u, s)] = tq[ResultKey(u, s)]
  BY <1>1, <1>5
<1>7. /\ tq[PromptKey(v)] = "absent"
      /\ UNCHANGED <<session, snapshot, buffer, batch, step, val, pc>>
  BY DEF PromptEnds, Reported
<1> QED
  BY <1>2, <1>5, <1>6, <1>7

\* What the addition of a partition makes of an item of a prompt ...
LEMMA AddPrompt ==
  ASSUME TypeOK, NEW p \in Partitions, Add(p), NEW u \in Uid
  PROVE  \/ /\ snapshot[PromptKey(u)] # "absent" /\ Partition(u.val) = p
            /\ buffer'[PromptKey(u)] = [status |-> snapshot[PromptKey(u)],
                                        step |-> buffer[PromptKey(u)].step]
         \/ /\ Partition(u.val) # p \/ snapshot[PromptKey(u)] = "absent"
            /\ buffer'[PromptKey(u)] = buffer[PromptKey(u)]
<1>1. PromptKey(u) \in Key /\ PromptKey(u).uid = u /\ PromptKey(u).session = 0
  BY Keys
<1> QED
  BY <1>1 DEF Add, Updated, StepInQueue

\* ... and of one of its results.
LEMMA AddResult ==
  ASSUME TypeOK, NEW p \in Partitions, Add(p), NEW u \in Uid, NEW s \in Sessions
  PROVE  \/ /\ snapshot[ResultKey(u, s)] # "absent" /\ Partition(u.val) = p
            /\ buffer'[ResultKey(u, s)] = [status |-> snapshot[ResultKey(u, s)],
                                           step |-> u.step]
         \/ /\ Partition(u.val) # p \/ snapshot[ResultKey(u, s)] = "absent"
            /\ buffer'[ResultKey(u, s)] = buffer[ResultKey(u, s)]
<1>1. /\ ResultKey(u, s) \in Key /\ ResultKey(u, s).uid = u
      /\ ResultKey(u, s).session # 0
  BY Keys
<1>2. u.step # NoStep
  BY Uids
<1> QED
  BY <1>1, <1>2 DEF Add, Updated, StepInQueue

\* The snapshot loses the partition that is added.
LEMMA AddSnapshot ==
  ASSUME TypeOK, NEW p \in Partitions, Add(p), NEW u \in Uid
  PROVE  /\ UNCHANGED <<tq, session, batch, step, val, pc>>
         /\ snapshot'[PromptKey(u)] = IF Partition(u.val) = p THEN "absent"
                                      ELSE snapshot[PromptKey(u)]
         /\ \A s \in Sessions :
              snapshot'[ResultKey(u, s)] = IF Partition(u.val) = p THEN "absent"
                                           ELSE snapshot[ResultKey(u, s)]
BY Keys DEF Add

\* Mark writes the items of the batch's prompts and no other.
LEMMA MarkStep ==
  ASSUME TypeOK, Mark, NEW u \in Uid
  PROVE  /\ buffer'[PromptKey(u)] = IF u \in Current
                                    THEN [status |-> "running", step |-> step]
                                    ELSE buffer[PromptKey(u)]
         /\ \A s \in Sessions : buffer'[ResultKey(u, s)] = buffer[ResultKey(u, s)]
         /\ UNCHANGED <<tq, session, snapshot, batch, step, val>>
<1>1. /\ PromptKey(u) \in Key
      /\ \A v \in Current : PromptKey(u) = PromptKey(v) <=> u = v
      /\ \A s \in Sessions : ResultKey(u, s) \in Key
      /\ \A s \in Sessions, v \in Current : ResultKey(u, s) # PromptKey(v)
  BY Keys DEF Current
<1> QED
  BY <1>1 DEF Mark, Marked

\* Every step keeps what the buffer says of a result true.
LEMMA ResultItemsStep == TypeOK /\ ResultItems /\ [Next]_vars => ResultItems'
<1> SUFFICES ASSUME TypeOK, ResultItems, [Next]_vars, NEW u \in Uid, NEW s \in Sessions
             PROVE  ResultItem(u, s)'
  BY DEF ResultItems
<1> USE DEF ResultItem
<1>i. ResultItem(u, s)
  BY DEF ResultItems
<1>k. ResultKey(u, s) \in Key
  BY Keys
<1>1. CASE Mark
  BY <1>1, <1>i, MarkStep
<1>2. CASE Dispatch \/ Sample \/ Use \/ NextBatch
  BY <1>2, <1>i DEF Dispatch, Sample, Use, NextBatch
<1>3. CASE Clear
  BY <1>3, <1>i, <1>k DEF Clear
<1>4. CASE Remove
  BY <1>4, <1>i, <1>k DEF Remove
<1>5. ASSUME NEW v \in Uid, NEW r \in Sessions, SessionEnds(v, r) \/ SessionRaises(v, r)
      PROVE  ResultItem(u, s)'
  BY <1>5, <1>i, <1>k, SessionStep DEF TypeOK
<1>6. ASSUME NEW v \in Uid, PromptEnds(v) PROVE ResultItem(u, s)'
  BY <1>6, <1>i, PromptStep
<1>7. CASE Poll
  BY <1>7, <1>i DEF Poll
<1>8. ASSUME NEW p \in Partitions, Add(p) PROVE ResultItem(u, s)'
  BY <1>8, <1>i, AddResult, AddSnapshot
<1>9. CASE UNCHANGED vars
  BY <1>9, <1>i DEF vars
<1> QED
  BY <1>1, <1>2, <1>3, <1>4, <1>5, <1>6, <1>7, <1>8, <1>9 DEF Next, Trainer

\* Every step keeps what the buffer says of a prompt true.
LEMMA PromptItemsStep ==
  TypeOK /\ Fresh /\ PromptItems /\ CurrentItems /\ [Next]_vars => PromptItems'
<1> SUFFICES ASSUME TypeOK, Fresh, PromptItems, CurrentItems, [Next]_vars, NEW u \in Uid
             PROVE  PromptItem(u)'
  BY DEF PromptItems
<1> USE DEF PromptItem
<1>i. PromptItem(u)
  BY DEF PromptItems
<1>k. PromptKey(u) \in Key /\ u.step # NoStep
  BY Keys, Uids
<1>t. Partition(val) \in Partitions
  BY DEF Partition, Partitions
<1>1. CASE Mark
  <2>1. u \in Current => u.step = step
    BY DEF Current
  <2> QED
    BY <1>1, <1>i, <1>k, <2>1, MarkStep DEF AllEnded
<1>2. CASE Dispatch
  <2>1. CASE u \in Current
    <3>1. tq[PromptKey(u)] = "absent"
      BY <1>2, <2>1 DEF Fresh, Dispatch, Unstarted
    <3>2. buffer[PromptKey(u)].step = u.step
      BY <1>2, <2>1 DEF Dispatch, CurrentItems, CurrentItem, Current
    <3> QED
      BY <1>2, <1>i, <1>k, <3>1, <3>2 DEF Dispatch
  <2>2. CASE u \notin Current
    BY <1>2, <1>i, <2>2 DEF Dispatch, AllEnded
  <2> QED
    BY <2>1, <2>2
<1>3. CASE Sample
  <2>1. \A p \in Partitions : PromptKey(u) \notin batch'[p]
    BY <1>3, <1>i, <1>t DEF Sample, TypeOK
  <2> QED
    BY <1>3, <1>i, <2>1 DEF Sample, AllEnded
<1>4. CASE Use \/ NextBatch
  BY <1>4, <1>i DEF Use, NextBatch, AllEnded
<1>5. CASE Clear
  BY <1>5, <1>i, <1>k, <1>t DEF Clear, ToClear, AllEnded
<1>6. CASE Remove
  <2>1. \A p \in Partitions : PromptKey(u) \notin batch'[p]
    BY <1>6, <1>i, <1>t DEF Remove, TypeOK
  <2> QED
    BY <1>6, <1>i, <1>k, <1>t, <2>1 DEF Remove, ToClear, AllEnded
<1>7. ASSUME NEW v \in Uid, NEW r \in Sessions, SessionEnds(v, r) \/ SessionRaises(v, r)
      PROVE  PromptItem(u)'
  <2>1. \A s \in Sessions : session[u][s] # "running" => session'[u][s] = session[u][s]
    <3>1. \E outcome \in {"put", "empty", "failed"} :
            session' = [session EXCEPT ![v][r] = outcome]
      BY <1>7 DEF SessionEnds, SessionRaises
    <3>2. session[v][r] = "running"
      BY <1>7 DEF SessionEnds, SessionRaises
    <3> QED
      BY <3>1, <3>2 DEF TypeOK
  <2>2. AllEnded(u) => AllEnded(u)'
    BY <2>1 DEF AllEnded
  <2> QED
    BY <1>7, <1>i, <2>1, <2>2, SessionStep DEF TypeOK
<1>8. ASSUME NEW v \in Uid, PromptEnds(v) PROVE PromptItem(u)'
  <2>1. AllEnded(u) <=> AllEnded(u)'
    BY <1>8, PromptStep DEF AllEnded
  <2>2. CASE u = v
    BY <1>8, <1>i, <2>1, <2>2, PromptStep
  <2>3. CASE u # v
    BY <1>8, <1>i, <2>1, <2>3, PromptStep
  <2> QED
    BY <2>2, <2>3
<1>9. CASE Poll
  BY <1>9, <1>i DEF Poll, AllEnded
<1>10. ASSUME NEW p \in Partitions, Add(p) PROVE PromptItem(u)'
  <2>1. AllEnded(u) <=> AllEnded(u)'
    BY <1>10 DEF Add, AllEnded
  <2>2. /\ UNCHANGED <<tq, session, batch>>
        /\ snapshot'[PromptKey(u)] \in {"absent", snapshot[PromptKey(u)]}
    BY <1>10, AddSnapshot
  <2>3. CASE buffer'[PromptKey(u)] = buffer[PromptKey(u)]
    BY <1>i, <2>1, <2>2, <2>3
  <2>4. CASE /\ snapshot[PromptKey(u)] # "absent"
             /\ buffer'[PromptKey(u)] = [status |-> snapshot[PromptKey(u)],
                                         step |-> buffer[PromptKey(u)].step]
    BY <1>i, <2>1, <2>2, <2>4
  <2> QED
    BY <1>10, <2>3, <2>4, AddPrompt
<1>11. CASE UNCHANGED vars
  BY <1>11, <1>i DEF vars, AllEnded
<1> QED
  BY <1>1, <1>2, <1>3, <1>4, <1>5, <1>6, <1>7, <1>8, <1>9, <1>10, <1>11 DEF Next, Trainer

\* Every step keeps what holds of the prompts of the current batch.
LEMMA CurrentItemsStep ==
  TypeOK /\ Fresh /\ PromptItems /\ ResultItems /\ CurrentItems /\ [Next]_vars
    => CurrentItems'
<1> SUFFICES ASSUME TypeOK, Fresh, PromptItems, ResultItems, CurrentItems, [Next]_vars,
                    pc' \in {"dispatch", "sample", "use"}, NEW u \in Current'
             PROVE  CurrentItem(u)'
  BY DEF CurrentItems
<1> USE DEF CurrentItem, Reported
<1>u. u \in Uid
  BY DEF Current
<1>i. PromptItem(u) /\ \A s \in Sessions : ResultItem(u, s)
  BY <1>u DEF PromptItems, ResultItems
<1>c. pc \in {"dispatch", "sample", "use"} /\ UNCHANGED <<step, val>> => CurrentItem(u)
  BY DEF CurrentItems, Current
<1>1. CASE Mark
  <2>1. u \in Current /\ Unstarted(u)
    BY <1>1 DEF Mark, Current, Unstarted
  <2>2. /\ tq[PromptKey(u)] = "absent"
        /\ \A s \in Sessions :
             /\ session[u][s] = "none"
             /\ tq[ResultKey(u, s)] = "absent"
             /\ snapshot[ResultKey(u, s)] = "absent"
             /\ buffer[ResultKey(u, s)].status = "absent"
    BY <2>1, <1>u DEF Fresh
  <2> QED
    BY <1>1, <1>u, <2>1, <2>2, MarkStep
<1>2. CASE Dispatch
  <2>1. /\ CurrentItem(u)
        /\ \A s \in Sessions : session'[u][s] = "running"
    BY <1>2, <1>c, <1>u DEF Dispatch, Current
  <2> QED
    BY <1>2, <2>1 DEF Dispatch
<1>3. CASE Sample
  BY <1>3, <1>c DEF Sample
<1>4. CASE Use \/ Clear \/ Remove \/ NextBatch
  BY <1>4 DEF Use, Clear, Remove, NextBatch
<1>5. ASSUME NEW v \in Uid, NEW r \in Sessions, SessionEnds(v, r) \/ SessionRaises(v, r)
      PROVE  CurrentItem(u)'
  <2>1. CurrentItem(u) /\ UNCHANGED <<snapshot, buffer>>
        /\ tq'[PromptKey(u)] = tq[PromptKey(u)]
    BY <1>5, <1>c, <1>u, SessionStep
  <2>2. ASSUME NEW s \in Sessions, u # v \/ s # r
        PROVE  /\ session'[u][s] = session[u][s]
               /\ tq'[ResultKey(u, s)] = tq[ResultKey(u, s)]
    <3>1. /\ ResultKey(u, s) \in Key /\ ResultKey(v, r) \in Key
          /\ ResultKey(u, s) # ResultKey(v, r)
      BY <1>u, <2>2, Keys
    <3>2. /\ tq' = tq \/ tq' = [tq EXCEPT ![ResultKey(v, r)] = "success"]
          /\ \E outcome \in {"put", "empty", "failed"} :
               session' = [session EXCEPT ![v][r] = outcome]
      BY <1>5, SessionStep
    <3> QED
      BY <1>u, <2>2, <3>1, <3>2 DEF TypeOK
  <2>3. CASE u = v
    <3>1. session[u][r] = "running"
      BY <1>5, <2>3, SessionStep
    <3>2. tq[PromptKey(u)] # "finished"
      BY <1>i, <3>1 DEF PromptItem, AllEnded
    <3>3. snapshot[PromptKey(u)] # "finished" /\ buffer[PromptKey(u)].status # "finished"
      BY <1>i, <2>1, <3>2 DEF PromptItem
    <3>4. /\ session'[u][r] = "put" => tq'[ResultKey(u, r)] = "success"
          /\ tq'[ResultKey(u, r)] # "absent" \/ tq'[ResultKey(u, r)] = tq[ResultKey(u, r)]
      <4>1. PICK outcome \in {"put", "empty", "failed"} :
              /\ session' = [session EXCEPT ![v][r] = outcome]
              /\ tq' = IF outcome = "put" THEN [tq EXCEPT ![ResultKey(v, r)] = "success"]
                       ELSE tq
        BY <1>5, SessionStep
      <4>2. ResultKey(u, r) \in Key
        BY <1>u, Keys
      <4> QED
        BY <1>u, <2>3, <4>1, <4>2 DEF TypeOK
    <3>5. ASSUME NEW s \in Sessions
          PROVE  /\ session'[u][s] = "put" => tq'[ResultKey(u, s)] = "success"
                 /\ tq'[ResultKey(u, s)] = "absent" =>
                      /\ snapshot[ResultKey(u, s)] = "absent"
                      /\ buffer[ResultKey(u, s)].status = "absent"
      BY <2>1, <2>2, <3>4
    <3> QED
      BY <1>5, <2>1, <3>3, <3>5, SessionStep
  <2>4. CASE u # v
    BY <1>5, <2>1, <2>2, <2>4, SessionStep
  <2> QED
    BY <2>3, <2>4
<1>6. ASSUME NEW v \in Uid, PromptEnds(v) PROVE CurrentItem(u)'
  <2>1. CurrentItem(u) /\ UNCHANGED <<session, snapshot, buffer, step>>
        /\ \A s \in Sessions : tq'[ResultKey(u, s)] = tq[ResultKey(u, s)]
    BY <1>6, <1>c, <1>u, PromptStep
  <2>2. CASE u = v
    <3>1. tq[PromptKey(u)] = "absent"
      BY <1>6, <2>2, PromptStep
    <3> QED
      BY <2>1, <3>1
  <2>3. CASE u # v
    <3>1. tq'[PromptKey(u)] = tq[PromptKey(u)]
      BY <1>6, <1>u, <2>3, PromptStep
    <3> QED
      BY <2>1, <3>1
  <2> QED
    BY <2>2, <2>3
<1>7. CASE Poll
  <2>1. CurrentItem(u)
    BY <1>7, <1>c DEF Poll
  <2>2. UNCHANGED <<tq, buffer, session, step>> /\ snapshot' = tq
    BY <1>7 DEF Poll
  <2> QED
    BY <2>1, <2>2
<1>8. ASSUME NEW p \in Partitions, Add(p) PROVE CurrentItem(u)'
  <2>1. CurrentItem(u) /\ UNCHANGED <<tq, session, step>>
    BY <1>8, <1>c, <1>u, AddSnapshot
  <2>2. CASE Partition(u.val) # p
    <3>1. /\ buffer'[PromptKey(u)] = buffer[PromptKey(u)]
          /\ snapshot'[PromptKey(u)] = snapshot[PromptKey(u)]
          /\ \A s \in Sessions :
               /\ buffer'[ResultKey(u, s)] = buffer[ResultKey(u, s)]
               /\ snapshot'[ResultKey(u, s)] = snapshot[ResultKey(u, s)]
      BY <1>8, <1>u, <2>2, AddPrompt, AddResult, AddSnapshot
    <3> QED
      BY <2>1, <3>1
  <2>3. CASE Partition(u.val) = p
    <3>1. /\ snapshot'[PromptKey(u)] = "absent"
          /\ \A s \in Sessions : snapshot'[ResultKey(u, s)] = "absent"
      BY <1>8, <1>u, <2>3, AddSnapshot
    <3>2. /\ buffer'[PromptKey(u)].step = step
          /\ IF snapshot[PromptKey(u)] = "absent"
             THEN buffer'[PromptKey(u)].status = buffer[PromptKey(u)].status
             ELSE buffer'[PromptKey(u)].status = tq[PromptKey(u)] /\ tq[PromptKey(u)] # "absent"
      <4>1. \/ /\ snapshot[PromptKey(u)] # "absent"
               /\ buffer'[PromptKey(u)] = [status |-> snapshot[PromptKey(u)],
                                           step |-> buffer[PromptKey(u)].step]
            \/ /\ snapshot[PromptKey(u)] = "absent"
               /\ buffer'[PromptKey(u)] = buffer[PromptKey(u)]
        BY <1>8, <1>u, <2>3, AddPrompt
      <4>2. snapshot[PromptKey(u)] \in {"absent", tq[PromptKey(u)]}
        BY <1>i DEF PromptItem
      <4> QED
        BY <2>1, <4>1, <4>2
    <3>3. ASSUME NEW s \in Sessions
          PROVE  buffer'[ResultKey(u, s)].status =
                   IF snapshot[ResultKey(u, s)] = "absent"
                   THEN buffer[ResultKey(u, s)].status ELSE "success"
      <4>1. \/ /\ snapshot[ResultKey(u, s)] # "absent"
               /\ buffer'[ResultKey(u, s)] = [status |-> snapshot[ResultKey(u, s)],
                                              step |-> u.step]
            \/ /\ snapshot[ResultKey(u, s)] = "absent"
               /\ buffer'[ResultKey(u, s)] = buffer[ResultKey(u, s)]
        BY <1>8, <1>u, <2>3, AddResult
      <4>2. snapshot[ResultKey(u, s)] \in {"absent", "success"}
        BY <1>i DEF ResultItem
      <4> QED
        BY <4>1, <4>2
    <3>4. ASSUME NEW s \in Sessions
          PROVE  /\ session[u][s] = "put" /\ buffer'[PromptKey(u)].status = "finished" =>
                      buffer'[ResultKey(u, s)].status = "success"
                 /\ tq[ResultKey(u, s)] = "absent" =>
                      buffer'[ResultKey(u, s)].status = "absent"
      BY <1>i, <2>1, <3>2, <3>3 DEF PromptItem
    <3> QED
      BY <2>1, <3>1, <3>2, <3>4
  <2> QED
    BY <2>2, <2>3
<1>9. CASE UNCHANGED vars
  BY <1>9, <1>c DEF vars
<1> QED
  BY <1>1, <1>2, <1>3, <1>4, <1>5, <1>6, <1>7, <1>8, <1>9 DEF Next, Trainer

\* Every step keeps the sampled prompts whole.
LEMMA SampleCompleteStep ==
  /\ TypeOK /\ PromptItems /\ ResultItems /\ CurrentItems /\ SampleComplete
  /\ [Next]_vars
  => SampleComplete'
<1> SUFFICES ASSUME TypeOK, PromptItems, ResultItems, CurrentItems, SampleComplete,
                    [Next]_vars, pc' = "use", NEW u \in Current'
             PROVE  /\ Reported(u)'
                    /\ tq'[PromptKey(u)] = "finished" =>
                         \A s \in Sessions : session'[u][s] = "put" =>
                           ResultKey(u, s) \in batch'[Partition(val')]
  BY DEF SampleComplete, Reported
<1> USE DEF Reported
<1>u. u \in Uid
  BY DEF Current
<1>i. PromptItem(u) /\ \A s \in Sessions : ResultItem(u, s)
  BY <1>u DEF PromptItems, ResultItems
<1>k. /\ PromptKey(u) \in Key /\ PromptKey(u).uid = u
      /\ \A s \in Sessions : ResultKey(u, s) \in Key /\ ResultKey(u, s).uid = u
  BY <1>u, Keys
<1>1. CASE Sample
  <2>1. u \in Current /\ CurrentItem(u) /\ u.step = step /\ u.val = val
    BY <1>1 DEF Sample, Current, CurrentItems
  <2>2. PromptKey(u) \in OfStep
    BY <1>k, <2>1 DEF OfStep, CurrentItem
  <2>3. buffer[PromptKey(u)].status = tq[PromptKey(u)] /\ Reported(u)
    BY <1>1, <2>1, <2>2 DEF Sample, CurrentItem
  <2>4. ASSUME tq[PromptKey(u)] = "finished", NEW s \in Sessions, session[u][s] = "put"
        PROVE  ResultKey(u, s) \in batch'[Partition(val)]
    <3>1. buffer[ResultKey(u, s)].status = "success"
      BY <2>1, <2>3, <2>4 DEF CurrentItem
    <3>2. buffer[ResultKey(u, s)].step = step
      BY <1>i, <2>1, <3>1 DEF ResultItem
    <3>3. ResultKey(u, s) \in OfStep
      BY <1>k, <2>1, <3>2 DEF OfStep
    <3>4. Partition(val) \in DOMAIN batch
      BY DEF TypeOK, Partition, Partitions
    <3> QED
      BY <1>1, <3>1, <3>3, <3>4 DEF Sample
  <2> QED
    BY <1>1, <2>3, <2>4 DEF Sample
<1>2. CASE Mark \/ Dispatch \/ Use \/ Clear \/ Remove \/ NextBatch
  BY <1>2 DEF Mark, Dispatch, Use, Clear, Remove, NextBatch
<1>s. pc = "use" /\ UNCHANGED <<step, val>> =>
        /\ Reported(u)
        /\ tq[PromptKey(u)] = "finished" =>
             \A s \in Sessions : session[u][s] = "put" =>
               ResultKey(u, s) \in batch[Partition(val)]
  BY DEF SampleComplete, Current
<1>3. ASSUME NEW v \in Uid, NEW r \in Sessions, SessionEnds(v, r) \/ SessionRaises(v, r)
      PROVE  /\ UNCHANGED <<batch, step, val, pc>>
             /\ tq'[PromptKey(u)] = tq[PromptKey(u)]
             /\ tq[PromptKey(u)] = "finished" => session'[u] = session[u]
  <2>1. tq[PromptKey(u)] = "finished" => u # v
    BY <1>3, <1>i, SessionStep DEF PromptItem, AllEnded
  <2>2. /\ UNCHANGED <<batch, step, val, pc>>
        /\ tq'[PromptKey(u)] = tq[PromptKey(u)]
    BY <1>3, <1>u, SessionStep
  <2>3. u # v => session'[u] = session[u]
    BY <1>3, <1>u, SessionStep DEF TypeOK
  <2> QED
    BY <2>1, <2>2, <2>3
<1>4. ASSUME NEW v \in Uid, PromptEnds(v)
      PROVE  /\ UNCHANGED <<batch, session, step, val, pc>>
             /\ tq[PromptKey(u)] # "absent" => tq'[PromptKey(u)] = tq[PromptKey(u)]
  BY <1>4, <1>u, PromptStep
<1>5. CASE Poll \/ \E p \in Partitions : Add(p)
  BY <1>5, <1>s DEF Poll, Add
<1>6. CASE UNCHANGED vars
  BY <1>6, <1>s DEF vars
<1> QED
  BY <1>1, <1>2, <1>3, <1>4, <1>5, <1>6, <1>s DEF Next, Trainer

-----------------------------------------------------------------------------

\* The invariant holds at the start.
LEMMA InitIInv == Init => IInv
<1> SUFFICES ASSUME Init PROVE IInv
  OBVIOUS
<1>1. TypeOK
  BY InitTypeOK
<1>2. ASSUME NEW u \in Uid
      PROVE  /\ tq[PromptKey(u)] = "absent" /\ snapshot[PromptKey(u)] = "absent"
             /\ buffer[PromptKey(u)] = [status |-> "absent", step |-> NoStep]
             /\ \A p \in Partitions : batch[p] = {}
             /\ \A s \in Sessions :
                  /\ session[u][s] = "none"
                  /\ tq[ResultKey(u, s)] = "absent"
                  /\ snapshot[ResultKey(u, s)] = "absent"
                  /\ buffer[ResultKey(u, s)] = [status |-> "absent", step |-> NoStep]
  BY Keys DEF Init, NoItems
<1>3. Fresh /\ ResultItems
  BY <1>2 DEF Fresh, ResultItems, ResultItem
<1>4. PromptItems
  BY <1>2 DEF PromptItems, PromptItem
<1>5. CurrentItems /\ SampleComplete
  BY DEF Init, CurrentItems, SampleComplete
<1> QED
  BY <1>1, <1>3, <1>4, <1>5 DEF IInv

\* Every step preserves the invariant.
LEMMA IInvStep == IInv /\ [Next]_vars => IInv'
BY TypeStep, FreshStep, ResultItemsStep, PromptItemsStep, CurrentItemsStep,
   SampleCompleteStep DEF IInv

\* Every behaviour has the invariant.
LEMMA Invariant == Spec => []IInv
BY InitIInv, IInvStep, PTL DEF Spec

\* The variables of the replay buffer, the queue and the trainer keep their
\* types.
THEOREM TypeCorrect == Spec => []TypeOK
<1>1. IInv => TypeOK
  BY DEF IInv
<1> QED
  BY <1>1, Invariant, PTL

\* Whatever the workers and the poller do between the trainer's mark and its
\* sample (main_ppo_sync.py, ReplayBuffer.sample), every prompt of the sampled
\* batch has reported, and the batch has every result of one that finished.
THEOREM SamplesAreComplete == Spec => []SampleComplete
<1>1. IInv => SampleComplete
  BY DEF IInv
<1> QED
  BY <1>1, Invariant, PTL

\* Every item of the buffer has the step that ReplayBuffer.sample reads: the
\* status of a prompt, which comes without one, never comes before its mark.
THEOREM TagsAreComplete == Spec => []TagsHaveStep
<1>1. IInv => TagsHaveStep
  <2> SUFFICES ASSUME IInv, NEW key \in Key, buffer[key].status # "absent"
               PROVE  buffer[key].step # NoStep
    BY DEF TagsHaveStep
  <2>1. CASE key = PromptKey(key.uid)
    BY <2>1, Keys DEF IInv, PromptItems, PromptItem
  <2>2. CASE key.session \in Sessions /\ key = ResultKey(key.uid, key.session)
    <3>1. ResultItem(key.uid, key.session) /\ key.uid.step # NoStep
      BY <2>2, Keys, Uids DEF IInv, ResultItems
    <3> QED
      BY <2>2, <3>1 DEF ResultItem
  <2> QED
    BY <2>1, <2>2, Keys
<1> QED
  BY <1>1, Invariant, PTL

-----------------------------------------------------------------------------
(* With one validation batch at most, a partition and a step are a batch.  *)

\* What a partition's batch holds is of the partition.
BatchPartitions ==
  \A p \in Partitions : \A key \in batch[p] :
    key \in Key /\ Partition(key.uid.val) = p /\ key.session # 0

\* What sample takes out are results of the prompts of this batch.
LEMMA SampledItem ==
  ASSUME IInv, ValBatches <= 1, Sample, NEW key \in batch'[Partition(val)]
  PROVE  /\ key \in Key /\ key.uid \in Current /\ key.session # 0
         /\ Partition(key.uid.val) = Partition(val)
         /\ tq[key] = "success"
<1>1. key \in OfStep /\ buffer[key].status = "success"
  BY DEF Sample, IInv, TypeOK, Partition, Partitions
<1>2. key \in Key /\ key.uid \in Uid /\ Partition(key.uid.val) = Partition(val)
      /\ buffer[key].step = step
  BY <1>1, Keys DEF OfStep
<1>3. key # PromptKey(key.uid)
  BY <1>1, <1>2 DEF IInv, PromptItems, PromptItem
<1>4. key.session \in Sessions /\ key = ResultKey(key.uid, key.session) /\ key.session # 0
  BY <1>2, <1>3, Keys
<1>5. ResultItem(key.uid, key.session)
  BY <1>2, <1>4 DEF IInv, ResultItems
<1>6. key.uid.step = step
  BY <1>1, <1>2, <1>4, <1>5 DEF ResultItem
<1>7. key.uid.val = val
  <2>1. key.uid.val \in {0, 1}
    BY <1>2, Uids, ReplayAssumption
  <2>2. val \in {0, 1}
    BY ReplayAssumption DEF IInv, TypeOK
  <2> QED
    BY <1>2, <2>1, <2>2 DEF Partition
<1>8. key.uid \in Current
  BY <1>2, <1>6, <1>7 DEF Current
<1>9. CurrentItem(key.uid)
  BY <1>8 DEF IInv, CurrentItems, Sample
<1>10. tq[key] = "success"
  BY <1>1, <1>4, <1>5, <1>9 DEF CurrentItem, ResultItem
<1> QED
  BY <1>2, <1>4, <1>8, <1>10

\* Until it is used, what was sampled stays that.
LEMMA SampledOwnStep ==
  ASSUME ValBatches <= 1 PROVE IInv /\ SampledOwn /\ [Next]_vars => SampledOwn'
<1> SUFFICES ASSUME IInv, SampledOwn, [Next]_vars, pc' = "use",
                    NEW key \in batch'[Partition(val')]
             PROVE  key.uid \in Current' /\ key.session # 0
  BY DEF SampledOwn
<1>1. CASE Sample
  BY <1>1, SampledItem DEF Sample, Current
<1>2. CASE Mark \/ Dispatch \/ Use \/ Clear \/ Remove \/ NextBatch
  BY <1>2 DEF Mark, Dispatch, Use, Clear, Remove, NextBatch
<1>3. CASE UNCHANGED <<batch, step, val, pc>>
  BY <1>3 DEF SampledOwn, Current
<1> QED
  BY <1>1, <1>2, <1>3
     DEF Next, Trainer, SessionEnds, SessionRaises, PromptEnds, Poll, Add, vars

\* Every step keeps the partitions of the batches apart.
LEMMA BatchPartitionsStep ==
  ASSUME ValBatches <= 1 PROVE IInv /\ BatchPartitions /\ [Next]_vars => BatchPartitions'
<1> SUFFICES ASSUME IInv, BatchPartitions, [Next]_vars, NEW p \in Partitions,
                    NEW key \in batch'[p]
             PROVE  key \in Key /\ Partition(key.uid.val) = p /\ key.session # 0
  BY DEF BatchPartitions
<1>1. CASE p = Partition(val) /\ Sample
  BY <1>1, SampledItem
<1>2. CASE key \in batch[p]
  BY <1>2 DEF BatchPartitions
<1>3. CASE p # Partition(val) /\ Sample
  BY <1>3, <1>2 DEF Sample, IInv, TypeOK
<1>4. CASE Remove
  BY <1>4, <1>2 DEF Remove, IInv, TypeOK
<1>5. CASE UNCHANGED batch
  BY <1>5, <1>2
<1> QED
  BY <1>1, <1>3, <1>4, <1>5
     DEF Next, Trainer, Mark, Dispatch, Use, Clear, NextBatch,
         SessionEnds, SessionRaises, PromptEnds, Poll, Add, vars

\* Every step keeps what was sampled in the storage.
LEMMA SampledStoredStep ==
  ASSUME ValBatches <= 1
  PROVE  IInv /\ BatchPartitions /\ SampledStored /\ [Next]_vars => SampledStored'
<1> SUFFICES ASSUME IInv, BatchPartitions, SampledStored, [Next]_vars
             PROVE  SampledStored'
  OBVIOUS
<1>t. TypeOK /\ val \in Nat
  BY ReplayAssumption DEF IInv, TypeOK
<1>p. "train" \in Partitions /\ "val" \in Partitions
  BY DEF Partitions
<1>1. CASE Sample
  <2>1. CASE val = 0
    BY <1>1, <2>1, SampledItem DEF Sample, SampledStored, Partition
  <2>2. CASE val # 0
    <3>1. batch'["train"] = batch["train"] /\ Partition(val) = "val"
      BY <1>1, <1>t, <2>2, <1>p DEF Sample, Partition, TypeOK
    <3> QED
      BY <1>1, <2>2, <3>1, SampledItem DEF Sample, SampledStored
  <2> QED
    BY <2>1, <2>2
<1>2. CASE Clear
  <2>1. val # 0 => \A key \in batch["train"] : key \in Key /\ key \notin ToClear
    BY <1>p DEF BatchPartitions, ToClear, Partition
  <2> QED
    BY <1>2, <2>1 DEF Clear, SampledStored
<1>3. CASE Mark \/ Dispatch
  BY <1>3 DEF Mark, Dispatch, SampledStored
<1>4. CASE Use
  BY <1>4, <1>t DEF Use, SampledStored
<1>5. CASE Remove
  <2>1. val # 0 => batch'["train"] = batch["train"]
    BY <1>5, <1>p DEF Remove, Partition, IInv, TypeOK
  <2> QED
    BY <1>5, <2>1 DEF Remove, SampledStored
<1>6. CASE NextBatch
  <2>1. /\ UNCHANGED <<tq, batch>>
        /\ pc' \in {"mark", "clear", "done"} /\ pc = "next"
        /\ \/ val' # 0 /\ val # 0 /\ pc' = "mark"
           \/ val' = 0 /\ (pc' = "clear" => val # 0)
    BY <1>6, <1>t DEF NextBatch
  <2> QED
    BY <2>1 DEF SampledStored
<1>7. ASSUME \A key \in Key : tq[key] = "success" => tq'[key] = "success",
             UNCHANGED <<batch, val, pc>>
      PROVE  SampledStored'
  <2>1. \A q \in Partitions : batch[q] \subseteq Key
    BY DEF BatchPartitions
  <2> QED
    BY <1>7, <2>1, <1>p DEF SampledStored
<1>8. ASSUME NEW v \in Uid, NEW r \in Sessions, SessionEnds(v, r) \/ SessionRaises(v, r)
      PROVE  SampledStored'
  <2>1. tq' = tq \/ tq' = [tq EXCEPT ![ResultKey(v, r)] = "success"]
    BY <1>8 DEF SessionEnds, SessionRaises
  <2>2. \A key \in Key : tq[key] = "success" => tq'[key] = "success"
    BY <2>1, <1>t DEF TypeOK
  <2> QED
    BY <1>7, <1>8, <2>2, SessionStep, <1>t
<1>9. ASSUME NEW v \in Uid, PromptEnds(v) PROVE SampledStored'
  <2>1. \A key \in Key : tq[key] = "success" => tq'[key] = "success"
    <3>1. \A key \in Key : key # PromptKey(v) => tq'[key] = tq[key]
      BY <1>9, <1>t DEF PromptEnds, TypeOK
    <3>2. tq[PromptKey(v)] = "absent"
      BY <1>9, <1>t, PromptStep
    <3> QED
      BY <3>1, <3>2
  <2> QED
    BY <1>7, <1>9, <2>1, PromptStep, <1>t
<1>10. CASE Poll \/ \E p \in Partitions : Add(p)
  BY <1>10 DEF Poll, Add, SampledStored
<1>11. CASE UNCHANGED vars
  BY <1>11 DEF vars, SampledStored
<1> QED
  BY <1>1, <1>2, <1>3, <1>4, <1>5, <1>6, <1>8, <1>9, <1>10, <1>11 DEF Next, Trainer

\* With one validation batch at most, what the trainer samples are results of
\* the prompts of its batch, whatever failed prompts and late polls left in the
\* buffer.
THEOREM SamplesAreOwn == ASSUME ValBatches <= 1 PROVE Spec => []SampledOwn
<1>1. Init => SampledOwn
  BY DEF Init, SampledOwn
<1>2. IInv /\ SampledOwn /\ [Next]_vars => SampledOwn'
  BY SampledOwnStep
<1> QED
  BY <1>1, <1>2, Invariant, PTL DEF Spec

\* ... and they are in the queue until the trainer clears them, over the
\* validation that may come between.
THEOREM SamplesAreStored == ASSUME ValBatches <= 1 PROVE Spec => []SampledStored
<1>1. Init => BatchPartitions /\ SampledStored
  BY DEF Init, BatchPartitions, SampledStored, Partitions
<1>2. IInv /\ BatchPartitions /\ [Next]_vars => BatchPartitions'
  BY BatchPartitionsStep
<1>3. IInv /\ BatchPartitions /\ SampledStored /\ [Next]_vars => SampledStored'
  BY SampledStoredStep
<1> QED
  BY <1>1, <1>2, <1>3, Invariant, PTL DEF Spec
=============================================================================
