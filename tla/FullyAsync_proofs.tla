-------------------------- MODULE FullyAsync_proofs --------------------------
(***************************************************************************)
(* Proofs about the fully asynchronous policy, for every batch size, sync  *)
(* interval, staleness threshold, number of servers, length of the stream  *)
(* and number of failures.  First the freshness budget with its invariant  *)
(* BudgetInv; then, on top of it, the way of each sample from the          *)
(* rollouter through the queue to the trainer, with the invariant FlowInv, *)
(* and the refinement of SampleWindow.                                     *)
(***************************************************************************)
EXTENDS FullyAsync, FiniteSetTheorems, SequenceTheorems, TLAPS

(* The numbers of the samples, the end signal and 0 are distinct.          *)
LEMMA EndType == END \in Nat \ {0} /\ Sample \subseteq Nat \ {0} /\ END \notin Sample
                   /\ 0 \notin Sample /\ END \notin {0}
BY RollouterAssumption DEF END, Sample

(* The steps of the composition, one by one.                               *)
LEMMA NextCases ==
  ASSUME Next
  PROVE  \/ RollouterStep /\ (FeedSamples \/ Processor \/ Reset \/ Monitor \/ Main)
         \/ \E s \in Sample : RollouterStep /\ (TaskPut(s) \/ TaskReturn(s) \/ TaskFail(s))
         \/ TrainerStep \/ TaskRunnerDone \/ UNCHANGED vars
BY DEF Next, RollouterStep, RollouterNext, Terminated

(* The lock's queue: joining it keeps its holder, and only its holder is   *)
(* removed.                                                                *)
LEMMA AcquireShape ==
  ASSUME lockq \in Seq(LockUsers), NEW c \in LockUsers, Acquire(c)
  PROVE  lockq' \in Seq(LockUsers) /\ \A d : Holds(d) => Holds(d)'
BY DEF Acquire, Holds

(* Releasing the lock, or rejoining its queue, and who held it.            *)
LEMMA ReleaseShape ==
  ASSUME lockq \in Seq(LockUsers), NEW c \in LockUsers, Holds(c)
  PROVE  /\ Tail(lockq) \in Seq(LockUsers)
         /\ Append(Tail(lockq), c) \in Seq(LockUsers)
         /\ \A d : Holds(d) => d = c
<1>1. Tail(lockq) \in Seq(LockUsers)
  BY DEF Holds
<1> QED
  BY <1>1 DEF Holds

(* The coroutines that use the lock.                                       *)
LEMMA UsersOfLock ==
  /\ "processor" \in LockUsers /\ "reset" \in LockUsers
  /\ "monitor" \in LockUsers /\ "main" \in LockUsers
BY DEF LockUsers

(* What put_sample and get_sample do to the deque.                         *)
LEMMA PutShape ==
  ASSUME QueueTypeOK, NEW x \in QueueItem, PutSample(x)
  PROVE  QueueTypeOK' /\ Len(queue') <= Len(queue) + 1
<1> USE MaxQueueSizeAssumption
<1>1. CASE QueueFull
  <2>1. queue # <<>>
    BY <1>1 DEF QueueFull, QueueTypeOK
  <2>2. Tail(queue) \in Seq(QueueItem) /\ Len(Tail(queue)) = Len(queue) - 1
    BY <2>1 DEF QueueTypeOK
  <2>3. queue' = Append(Tail(queue), x)
    BY <1>1 DEF PutSample
  <2>4. queue' \in Seq(QueueItem) /\ Len(queue') = Len(queue)
    BY <2>2, <2>3 DEF QueueTypeOK
  <2> QED
    BY <2>4 DEF PutSample, QueueTypeOK
<1>2. CASE ~QueueFull
  <2>1. queue' = Append(queue, x) /\ Len(queue) < MaxQueueSize
    BY <1>2 DEF PutSample, QueueFull, QueueTypeOK
  <2>2. queue' \in Seq(QueueItem) /\ Len(queue') = Len(queue) + 1
    BY <2>1 DEF QueueTypeOK
  <2> QED
    BY <2>1, <2>2 DEF PutSample, QueueTypeOK
<1> QED
  BY <1>1, <1>2

(* What get_sample does to the deque.                                      *)
LEMMA TakeShape ==
  ASSUME QueueTypeOK, TakeSample
  PROVE  QueueTypeOK' /\ Len(queue') = Len(queue) - 1 /\ Head(queue) \in QueueItem
<1>1. /\ queue' \in Seq(QueueItem) /\ Len(queue') = Len(queue) - 1
      /\ Head(queue) \in QueueItem
  BY DEF QueueTypeOK, TakeSample
<1> QED
  BY <1>1, MaxQueueSizeAssumption DEF QueueTypeOK, TakeSample

(* The queue changes by put_sample, get_sample and clear_queue only.       *)
LEMMA QueueTypeStep ==
  ASSUME TypeOK, [Next]_vars
  PROVE  QueueTypeOK'
<1>1. QueueTypeOK
  BY DEF TypeOK
<1>2. ASSUME NEW x \in QueueItem, PutSample(x) PROVE QueueTypeOK'
  BY <1>1, <1>2, PutShape
<1>3. CASE TakeSample
  BY <1>1, <1>3, TakeShape
<1>4. CASE ClearQueue
  BY <1>1, <1>4, MaxQueueSizeAssumption DEF ClearQueue, QueueTypeOK
<1>5. CASE UNCHANGED mqVars
  BY <1>1, <1>5 DEF mqVars, QueueTypeOK
<1>6. ASSUME RollouterNext
      PROVE  UNCHANGED mqVars \/ \E x \in QueueItem : PutSample(x)
  <2>1. CASE \E s \in Sample : TaskPut(s)
    BY <2>1 DEF TaskPut, QueueItem
  <2>2. CASE MainPutEnd
    BY <2>2 DEF MainPutEnd, QueueItem
  <2>3. CASE \E s \in Sample : TaskReturn(s) \/ TaskFail(s)
    BY <2>3 DEF TaskReturn, TaskFail
  <2>4. CASE FeedSamples \/ Reset \/ Monitor
    BY <2>4 DEF FeedSamples, Reset, ResetBegin, ResetReadQueue, ResetFinish,
       Monitor, MonitorLoop, MonitorReadQueue, MonitorDecide, MonitorResume
  <2>5. CASE MainFinally \/ MainStop
    BY <2>5 DEF MainFinally, MainStop
  <2>6. CASE Processor
    BY <2>6 DEF Processor, ProcReadQueue, ProcDecidePause, ProcTakeSample,
       ProcLimitWait, ProcLimitReap, ProcSubmit, ProcPause, ProcDrainWake,
       ProcDrainReap, ProcResumed, ProcEndWait, ProcEndReap
  <2> QED
    BY <1>6, <2>1, <2>2, <2>3, <2>4, <2>5, <2>6 DEF RollouterNext, Main
<1>7. ASSUME Trainer PROVE UNCHANGED mqVars \/ TakeSample
  BY <1>7 DEF Trainer, CollectSample, CollectEnd, TrainBatch, SyncWeights,
     ResetReturned, SaveCheckpoint
<1> QED
  BY <1>2, <1>3, <1>4, <1>5, <1>6, <1>7
  DEF Next, RollouterStep, TrainerStep, TaskRunnerDone, Terminated, vars, mqVars

(* Sets of samples are finite.                                             *)
LEMMA SampleFinite ==
  ASSUME NEW S \in SUBSET Sample
  PROVE  IsFiniteSet(S) /\ Cardinality(S) \in Nat
<1>1. IsFiniteSet(Sample)
  BY FS_Interval, RollouterAssumption DEF Sample
<1> QED
  BY <1>1, FS_Subset, FS_CardinalityType

(* Each step leaves the lock alone, queues one more coroutine for it, or   *)
(* takes its holder off the queue, perhaps to queue it again.              *)
LEMMA LockCases ==
  ASSUME TypeOK, LockHeld, [Next]_vars
  PROVE  \/ UNCHANGED lockq
         \/ \E c \in LockUsers : Acquire(c)
         \/ \E c \in LockUsers :
              Holds(c) /\ (Release \/ lockq' = Append(Tail(lockq), c))
<1> USE UsersOfLock DEF ctrlVars
<1>1. CASE Processor
  <2>1. CASE ProcLimitReap \/ ProcEndReap
    BY <2>1 DEF ProcLimitReap, ProcEndReap, LockHeld
  <2>2. CASE ProcReadQueue \/ ProcDecidePause \/ ProcTakeSample \/ ProcDrainWake
    BY <2>2 DEF ProcReadQueue, ProcDecidePause, ProcTakeSample, ProcDrainWake
  <2>3. CASE ProcSubmit \/ ProcPause \/ ProcDrainReap
    BY <2>3 DEF ProcSubmit, ProcPause, ProcDrainReap
  <2>4. CASE ProcLimitWait \/ ProcResumed \/ ProcEndWait
    BY <2>4 DEF ProcLimitWait, ProcResumed, ProcEndWait
  <2> QED
    BY <1>1, <2>1, <2>2, <2>3, <2>4 DEF Processor
<1>2. CASE Reset
  BY <1>2 DEF Reset, ResetBegin, ResetReadQueue, ResetFinish, LockHeld
<1>3. CASE Monitor
  BY <1>3 DEF Monitor, MonitorLoop, MonitorReadQueue, MonitorDecide, MonitorResume
<1>4. CASE Main
  BY <1>4 DEF Main, MainFinally, MainPutEnd, MainStop
<1>5. CASE FeedSamples \/ \E s \in Sample : TaskPut(s) \/ TaskReturn(s) \/ TaskFail(s)
  BY <1>5 DEF FeedSamples, TaskPut, TaskReturn, TaskFail
<1>6. CASE Trainer
  BY <1>6 DEF Trainer, CollectSample, CollectEnd, TrainBatch, SyncWeights,
     ResetReturned, SaveCheckpoint, rolloutVars
<1> QED
  BY <1>1, <1>2, <1>3, <1>4, <1>5, <1>6
  DEF Next, RollouterStep, RollouterNext, TrainerStep, TaskRunnerDone, Terminated,
      vars, rolloutVars

(* The lock's queue keeps its type.                                        *)
LEMMA LockTypeStep ==
  ASSUME TypeOK, LockHeld, [Next]_vars
  PROVE  lockq' \in Seq(LockUsers)
<1>1. lockq \in Seq(LockUsers)
  BY DEF TypeOK, RolloutTypeOK
<1>2. CASE UNCHANGED lockq
  BY <1>1, <1>2
<1>3. CASE \E c \in LockUsers : Acquire(c)
  BY <1>1, <1>3, AcquireShape
<1>4. CASE \E c \in LockUsers :
             Holds(c) /\ (Release \/ lockq' = Append(Tail(lockq), c))
  BY <1>1, <1>4, ReleaseShape DEF Release
<1> QED
  BY <1>2, <1>3, <1>4, LockCases

(* The rollouter keeps its types.  A release finds the lock held (LockHeld)*)
(* and a submission has a sample in hand (HeldSample).                     *)
LEMMA RolloutTypeStep ==
  ASSUME TypeOK, LockHeld, HeldSample, [Next]_vars
  PROVE  RolloutTypeOK'
<1> USE EndType
<1> USE DEF RolloutTypeOK, ProcStates, feedVars, procVars, taskVars,
            ctrlVars, resetVars, mainVars
<1>0. RolloutTypeOK /\ QueueTypeOK /\ lockq' \in Seq(LockUsers)
  BY LockTypeStep DEF TypeOK
<1>1. CASE FeedSamples
  BY <1>0, <1>1 DEF FeedSamples, FeedLimit
<1>2. CASE ProcReadQueue
  BY <1>0, <1>2 DEF ProcReadQueue
<1>3. CASE ProcDecidePause
  BY <1>0, <1>3 DEF ProcDecidePause
<1>4. CASE ProcTakeSample
  <2>1. popped' \in 1 .. END /\ held' \in Sample \cup {0}
    <3>1. /\ popped' = popped + 1 /\ popped < fed
          /\ held' = IF popped' = END THEN 0 ELSE popped'
      BY <1>4 DEF ProcTakeSample
    <3>2. popped \in 0 .. END /\ fed \in 0 .. END
      BY <1>0
    <3> QED
      BY <3>1, <3>2, RollouterAssumption DEF Sample, END
  <2> QED
    BY <1>0, <1>4, <2>1 DEF ProcTakeSample
<1>5. CASE ProcLimitWait
  BY <1>0, <1>5 DEF ProcLimitWait
<1>6. CASE ProcLimitReap
  <2>1. /\ active' \in SUBSET Sample /\ proc' \in ProcStates
        /\ UNCHANGED <<popped, held, reaping, task, failures, paused, staleness,
                       feedVars, resetVars, mainVars>>
    BY <1>0, <1>6, Zenon DEF ProcLimitReap
  <2> QED
    BY <1>0, <2>1
<1>7. CASE ProcSubmit
  BY <1>0, <1>7 DEF ProcSubmit, HeldSample, TaskStates
<1>8. CASE ProcPause
  BY <1>0, <1>8 DEF ProcPause
<1>9. CASE ProcDrainWake
  <2>1. reaping' \in SUBSET Sample
    BY <1>0, <1>9 DEF ProcDrainWake, Finished
  <2> QED
    BY <1>0, <1>9, <2>1 DEF ProcDrainWake
<1>10. CASE ProcDrainReap
  <2>1. active' \in SUBSET Sample /\ proc' \in ProcStates
    BY <1>0, <1>10 DEF ProcDrainReap
  <2> QED
    BY <1>0, <1>10, <2>1 DEF ProcDrainReap
<1>11. CASE ProcResumed
  BY <1>0, <1>11 DEF ProcResumed
<1>12. CASE ProcEndWait
  BY <1>0, <1>12 DEF ProcEndWait
<1>13. CASE ProcEndReap
  <2>1. /\ active' \in SUBSET Sample /\ proc' \in ProcStates
        /\ UNCHANGED <<popped, held, reaping, task, failures, paused, staleness,
                       feedVars, resetVars, mainVars>>
    BY <1>0, <1>13, Zenon DEF ProcEndReap
  <2> QED
    BY <1>0, <2>1
<1>14. CASE ResetBegin
  <2>1. Cardinality(active) \in Nat
    BY <1>0, SampleFinite
  <2>2. /\ paused' = FALSE /\ resetSum' = Cardinality(active) /\ reset' = "sizing"
        /\ UNCHANGED <<staleness, feedVars, procVars, taskVars, mainVars>>
    BY <1>14 DEF ResetBegin
  <2>3. paused' \in BOOLEAN /\ resetSum' \in Nat
    BY <2>1, <2>2
  <2>4. reset' = "sizing" /\ UNCHANGED <<staleness, feedVars, procVars, taskVars, mainVars>>
    BY <2>2
  <2> QED
    BY <1>0, <2>3, <2>4
<1>15. CASE ResetReadQueue
  BY <1>0, <1>15 DEF ResetReadQueue, QueueTypeOK
<1>16. CASE ResetFinish
  BY <1>0, <1>16 DEF ResetFinish
<1>17. CASE MonitorLoop
  BY <1>0, <1>17 DEF MonitorLoop
<1>17a. CASE MonitorReadQueue
  BY <1>0, <1>17a DEF MonitorReadQueue
<1>18. CASE MonitorDecide
  BY <1>0, <1>18 DEF MonitorDecide
<1>19. CASE MonitorResume
  <2>1. paused' \in BOOLEAN /\ monitor' = "sleep"
        /\ UNCHANGED <<main, running, staleness, feedVars, procVars, taskVars,
                       resetVars>>
    BY <1>19 DEF MonitorResume
  <2> QED
    BY <1>0, <2>1
<1>20. CASE MainFinally
  BY <1>0, <1>20 DEF MainFinally
<1>21. CASE MainPutEnd
  BY <1>0, <1>21 DEF MainPutEnd
<1>22. CASE MainStop
  <2>1. /\ main' = "exit" /\ running' = FALSE
        /\ UNCHANGED <<monitor, paused, staleness, feedVars, procVars, taskVars,
                       resetVars>>
    BY <1>22 DEF MainStop
  <2>2. /\ feeder' = feeder /\ fed' = fed /\ popped' = popped /\ proc' = proc
        /\ held' = held /\ reaping' = reaping /\ task' = task /\ active' = active
        /\ failures' = failures /\ paused' = paused /\ staleness' = staleness
        /\ reset' = reset /\ resetSum' = resetSum /\ monitor' = monitor
    BY <2>1
  <2>3. main' \in {"streaming", "putEnd", "lock", "exit"} /\ running' \in BOOLEAN
    BY <2>1
  <2> QED
    BY <1>0, <2>2, <2>3
<1>23. CASE \E s \in Sample : TaskPut(s) \/ TaskReturn(s) \/ TaskFail(s)
  <2>1. PICK s \in Sample : TaskPut(s) \/ TaskReturn(s) \/ TaskFail(s)
    BY <1>23
  <2>2. /\ \E t \in TaskStates : task' = [task EXCEPT ![s] = t]
        /\ failures' \in Nat
        /\ UNCHANGED <<active, feedVars, procVars, ctrlVars, resetVars, mainVars>>
    <3>1. CASE TaskPut(s)
      BY <1>0, <3>1 DEF TaskPut, TaskStates
    <3>2. CASE TaskReturn(s)
      BY <1>0, <3>2 DEF TaskReturn, TaskStates
    <3>3. CASE TaskFail(s)
      BY <1>0, <3>3 DEF TaskFail, TaskStates
    <3> QED
      BY <2>1, <3>1, <3>2, <3>3
  <2>3. task' \in [Sample -> TaskStates]
    BY <1>0, <2>2
  <2>4. /\ failures' \in Nat
        /\ UNCHANGED <<active, feedVars, procVars, ctrlVars, resetVars, mainVars>>
    BY <2>2
  <2> QED
    BY <1>0, <2>3, <2>4
<1>24. CASE SyncWeights
  BY <1>0, <1>24 DEF SyncWeights
<1>25. CASE ResetReturned
  BY <1>0, <1>25 DEF ResetReturned
<1>26. CASE UNCHANGED rolloutVars
  BY <1>0, <1>26 DEF rolloutVars
<1>27. ASSUME Trainer PROVE SyncWeights \/ ResetReturned \/ UNCHANGED rolloutVars
  BY <1>27 DEF Trainer, CollectSample, CollectEnd, TrainBatch, SaveCheckpoint
<1>28. ASSUME RollouterNext PROVE RolloutTypeOK'
  BY <1>28, <1>1, <1>2, <1>3, <1>4, <1>5, <1>6, <1>7, <1>8, <1>9, <1>10,
     <1>11, <1>12, <1>13, <1>14, <1>15, <1>16, <1>17, <1>17a, <1>18, <1>19, <1>20,
     <1>21, <1>22, <1>23
  DEF RollouterNext, Processor, Reset, Monitor, Main
<1> QED
  BY <1>24, <1>25, <1>26, <1>27, <1>28
  DEF Next, RollouterStep, TrainerStep, TaskRunnerDone, Terminated, vars, rolloutVars

(* The trainer keeps its types.                                            *)
LEMMA TrainerTypeStep ==
  ASSUME TypeOK, [Next]_vars
  PROVE  TrainerTypeOK'
<1> USE RollouterAssumption
<1>0. TrainerTypeOK /\ QueueTypeOK
  BY DEF TypeOK
<1> USE DEF TrainerTypeOK, TrainerStates
<1>1. CASE TrainerStep
  <2>0. UNCHANGED taskRunner
    BY <1>1 DEF TrainerStep
  <2>1. CASE CollectSample
    <3>1. Head(queue) \in Sample
      BY <1>0, <2>0, <2>1, TakeShape DEF CollectSample, QueueItem
    <3> QED
      BY <1>0, <2>0, <2>1, <3>1 DEF CollectSample
  <2>2. CASE CollectEnd
    BY <1>0, <2>0, <2>2 DEF CollectEnd
  <2>3. CASE TrainBatch
    BY <1>0, <2>0, <2>3 DEF TrainBatch, SyncDue, SavedForOldLogProb
  <2>4. CASE SyncWeights
    BY <1>0, <2>0, <2>4 DEF SyncWeights
  <2>5. CASE ResetReturned
    BY <1>0, <2>0, <2>5 DEF ResetReturned
  <2>6. CASE SaveCheckpoint
    BY <1>0, <2>0, <2>6 DEF SaveCheckpoint
  <2> QED
    BY <1>1, <2>1, <2>2, <2>3, <2>4, <2>5, <2>6 DEF TrainerStep, Trainer
<1>2. CASE RollouterStep
  BY <1>0, <1>2 DEF RollouterStep
<1>3. CASE TaskRunnerDone
  BY <1>0, <1>3 DEF TaskRunnerDone, trainerVars
<1>4. CASE UNCHANGED vars
  BY <1>0, <1>4 DEF vars, trainerVars
<1> QED
  BY <1>1, <1>2, <1>3, <1>4 DEF Next, Terminated

(* The lock is held across the awaits that LockHeld names.                 *)
LEMMA LockStep ==
  ASSUME TypeOK, LockHeld, [Next]_vars
  PROVE  LockHeld'
<1> USE DEF LockHeld, feedVars, procVars, taskVars, ctrlVars,
            resetVars, mainVars, Release
<1>0. lockq \in Seq(LockUsers)
  BY DEF TypeOK, RolloutTypeOK
<1>1. CASE Processor
  <2>1. CASE ProcReadQueue \/ ProcDecidePause \/ ProcTakeSample \/ ProcDrainWake
    <3>1. Acquire("processor") \/ UNCHANGED lockq
      BY <2>1 DEF ProcReadQueue, ProcDecidePause, ProcTakeSample, ProcDrainWake
    <3>2. Holds("reset") => Holds("reset")'
      BY <1>0, <3>1, AcquireShape, UsersOfLock DEF Holds
    <3>3. UNCHANGED reset /\ ~(proc' \in {"limitWait", "endWait"})
      BY <2>1 DEF ProcReadQueue, ProcDecidePause, ProcTakeSample, ProcDrainWake
    <3> QED
      BY <3>2, <3>3
  <2>2. CASE ProcLimitWait \/ ProcEndWait \/ ProcResumed
    BY <2>2 DEF ProcLimitWait, ProcEndWait, ProcResumed, Holds
  <2>3. CASE ProcLimitReap \/ ProcEndReap \/ ProcSubmit \/ ProcPause \/ ProcDrainReap
    <3>1. Holds("processor") /\ UNCHANGED reset /\ ~(reset \in {"sizing", "sized"})
      BY <1>0, <2>3, AcquireShape, ReleaseShape, UsersOfLock
      DEF ProcLimitReap, ProcEndReap, ProcSubmit, ProcPause, ProcDrainReap
    <3> QED
      BY <2>3, <3>1
      DEF ProcLimitReap, ProcEndReap, ProcSubmit, ProcPause, ProcDrainReap
  <2> QED
    BY <1>1, <2>1, <2>2, <2>3 DEF Processor
<1>2. CASE Reset
  <2>1. CASE ResetBegin \/ ResetReadQueue
    BY <1>0, <2>1 DEF ResetBegin, ResetReadQueue, Holds
  <2>2. CASE ResetFinish
    BY <1>0, <2>2, AcquireShape, ReleaseShape, UsersOfLock DEF ResetFinish
  <2> QED
    BY <1>2, <2>1, <2>2 DEF Reset
<1>3. CASE Monitor
  BY <1>0, <1>3, AcquireShape, ReleaseShape, UsersOfLock
  DEF Monitor, MonitorLoop, MonitorReadQueue, MonitorDecide, MonitorResume, Holds
<1>4. CASE Main
  BY <1>0, <1>4, AcquireShape, ReleaseShape, UsersOfLock DEF Main, MainFinally, MainPutEnd, MainStop, Holds
<1>5. CASE FeedSamples \/ \E s \in Sample : TaskPut(s) \/ TaskReturn(s) \/ TaskFail(s)
  BY <1>5 DEF FeedSamples, TaskPut, TaskReturn, TaskFail, Holds
<1>6. CASE SyncWeights
  BY <1>0, <1>6, AcquireShape, ReleaseShape, UsersOfLock DEF SyncWeights
<1>7. CASE ResetReturned
  BY <1>7 DEF ResetReturned, Holds
<1>8. CASE UNCHANGED rolloutVars
  BY <1>8 DEF rolloutVars, Holds
<1>9. ASSUME Trainer PROVE SyncWeights \/ ResetReturned \/ UNCHANGED rolloutVars
  BY <1>9 DEF Trainer, CollectSample, CollectEnd, TrainBatch, SaveCheckpoint
<1> QED
  BY <1>1, <1>2, <1>3, <1>4, <1>5, <1>6, <1>7, <1>8, <1>9
  DEF Next, RollouterStep, RollouterNext, TrainerStep, TaskRunnerDone, Terminated,
      vars, rolloutVars

(* Steps outside the processor and the tasks leave their state alone.      *)
LEMMA ProcFrame ==
  ASSUME [Next]_vars
  PROVE  \/ Processor
         \/ \E s \in Sample : TaskPut(s) \/ TaskReturn(s) \/ TaskFail(s)
         \/ UNCHANGED <<procVars, taskVars>>
<1> USE DEF procVars, taskVars
<1>1. CASE FeedSamples \/ Reset
  BY <1>1 DEF FeedSamples, Reset, ResetBegin, ResetReadQueue, ResetFinish
<1>2. CASE Monitor \/ Main
  BY <1>2 DEF Monitor, MonitorLoop, MonitorReadQueue, MonitorDecide, MonitorResume, Main, MainFinally,
     MainPutEnd, MainStop
<1>3. CASE Trainer
  BY <1>3 DEF Trainer, CollectSample, CollectEnd, TrainBatch, SyncWeights,
     ResetReturned, SaveCheckpoint, rolloutVars
<1> QED
  BY <1>1, <1>2, <1>3
  DEF Next, RollouterStep, RollouterNext, TrainerStep, TaskRunnerDone, Terminated,
      vars, rolloutVars

(* A sample in hand has no task, and no later sample has one.              *)
LEMMA HeldStep ==
  ASSUME TypeOK, HeldSample, [Next]_vars
  PROVE  HeldSample'
<1>0. /\ popped \in 0 .. END /\ fed \in 0 .. END /\ held \in Sample \cup {0}
      /\ task \in [Sample -> TaskStates] /\ proc \in ProcStates
  BY DEF TypeOK, RolloutTypeOK
<1> USE EndType
<1> USE DEF HeldSample, procVars, taskVars
<1>1. CASE Processor
  <2>1. CASE ProcTakeSample
    <3>1. /\ proc = "decide" /\ popped' = popped + 1 /\ popped < fed
          /\ held' = IF popped' = END THEN 0 ELSE popped'
          /\ proc' \in IF popped' = END THEN {"end", "exit"} ELSE {"limit", "submit"}
          /\ task' = task
      BY <2>1 DEF ProcTakeSample
    <3>2. popped' # END => popped' \in Sample /\ popped' # 0
      BY <1>0, <3>1, RollouterAssumption DEF Sample, END
    <3>3. \A s \in Sample : s > popped' => task'[s] = "none"
      BY <1>0, <3>1 DEF Sample
    <3>4. popped' # END => task'[held'] = "none"
      BY <1>0, <3>1, <3>2
    <3> QED
      BY <3>1, <3>2, <3>3, <3>4
  <2>2. CASE ProcSubmit
    <3>1. /\ held = popped /\ held \in Sample /\ held' = 0 /\ popped' = popped
          /\ popped # END /\ proc' = "stats" /\ task' = [task EXCEPT ![held] = "gen"]
      BY <2>2 DEF ProcSubmit
    <3>2. \A s \in Sample : s > popped' => task'[s] = "none"
      BY <1>0, <3>1 DEF Sample
    <3> QED
      BY <3>1, <3>2
  <2>3. CASE ProcReadQueue \/ ProcDecidePause \/ ProcLimitWait
    BY <2>3 DEF ProcReadQueue, ProcDecidePause, ProcLimitWait
  <2>4. CASE ProcLimitReap
    BY <2>4 DEF ProcLimitReap
  <2>5. CASE ProcPause \/ ProcDrainWake \/ ProcResumed \/ ProcEndWait
    BY <2>5 DEF ProcPause, ProcDrainWake, ProcResumed, ProcEndWait
  <2>6. CASE ProcDrainReap
    BY <2>6 DEF ProcDrainReap
  <2>7. CASE ProcEndReap
    BY <2>7 DEF ProcEndReap
  <2> QED
    BY <1>1, <2>1, <2>2, <2>3, <2>4, <2>5, <2>6, <2>7 DEF Processor
<1>2. CASE \E s \in Sample : TaskPut(s) \/ TaskReturn(s) \/ TaskFail(s)
  <2>1. PICK s \in Sample : TaskPut(s) \/ TaskReturn(s) \/ TaskFail(s)
    BY <1>2
  <2>2. /\ task[s] # "none" /\ UNCHANGED procVars
        /\ \A t \in Sample \ {s} : task'[t] = task[t]
    BY <1>0, <2>1 DEF TaskPut, TaskReturn, TaskFail
  <2> QED
    BY <2>2
<1>3. CASE UNCHANGED <<procVars, taskVars>>
  BY <1>3
<1> QED
  BY <1>1, <1>2, <1>3, ProcFrame

(* Only the processor removes tasks from active_tasks, finished ones only. *)
LEMMA ActiveStep ==
  ASSUME TypeOK, HeldSample, ActiveTasks, [Next]_vars
  PROVE  ActiveTasks'
<1>0. /\ task \in [Sample -> TaskStates] /\ active \in SUBSET Sample
      /\ held \in Sample \cup {0} /\ proc \in ProcStates
  BY DEF TypeOK, RolloutTypeOK
<1> USE DEF ActiveTasks, Generating, Finished, procVars, taskVars
<1>1. CASE Processor
  <2>1. CASE ProcSubmit
    BY <1>0, <2>1 DEF ProcSubmit, HeldSample
  <2>2. CASE ProcLimitReap \/ ProcEndReap
    BY <1>0, <2>2 DEF ProcLimitReap, ProcEndReap
  <2>3. CASE ProcDrainReap
    BY <1>0, <2>3 DEF ProcDrainReap
  <2>4. CASE ProcDrainWake
    BY <1>0, <2>4 DEF ProcDrainWake
  <2>5. CASE ProcReadQueue \/ ProcDecidePause \/ ProcLimitWait \/ ProcTakeSample
    BY <1>0, <2>5 DEF ProcReadQueue, ProcDecidePause, ProcLimitWait, ProcTakeSample
  <2>6. CASE ProcPause \/ ProcResumed \/ ProcEndWait
    BY <1>0, <2>6 DEF ProcPause, ProcResumed, ProcEndWait
  <2> QED
    BY <1>1, <2>1, <2>2, <2>3, <2>4, <2>5, <2>6 DEF Processor
<1>2. CASE \E s \in Sample : TaskPut(s) \/ TaskReturn(s) \/ TaskFail(s)
  <2>1. PICK s \in Sample : TaskPut(s) \/ TaskReturn(s) \/ TaskFail(s)
    BY <1>2
  <2>2. /\ task[s] \in {"gen", "reply"} /\ task'[s] # "gen" /\ UNCHANGED <<active, procVars>>
        /\ \A t \in Sample \ {s} : task'[t] = task[t]
    BY <1>0, <2>1 DEF TaskPut, TaskReturn, TaskFail
  <2> QED
    BY <1>0, <2>2
<1>3. CASE UNCHANGED <<procVars, taskVars>>
  BY <1>3
<1> QED
  BY <1>1, <1>2, <1>3, ProcFrame

-----------------------------------------------------------------------------
(* The freshness budget.                                                   *)

Gen == Cardinality(Generating)
Failed == Cardinality(FailedActive)
Owed == IF EndOwed THEN 1 ELSE 0

(* The quantities of Counting are natural numbers.                         *)
LEMMA CountTypes ==
  ASSUME TypeOK
  PROVE  /\ Gen \in Nat /\ Failed \in Nat /\ Cardinality(active) \in Nat
         /\ Len(queue) \in Nat /\ HeldCount \in {0, 1} /\ Owed \in {0, 1}
         /\ windowTaken \in Nat /\ staleness \in Nat /\ resetSum \in Nat
         /\ MaxRequiredSamples \in Nat
<1>1. Generating \in SUBSET Sample /\ FailedActive \in SUBSET Sample /\ active \in SUBSET Sample
  BY DEF Generating, FailedActive, TypeOK, RolloutTypeOK
<1>2. Gen \in Nat /\ Failed \in Nat /\ Cardinality(active) \in Nat
  BY <1>1, SampleFinite DEF Gen, Failed
<1>3. MaxRequiredSamples \in Nat
  BY QueueSizeAssumption, MaxQueueSizeAssumption
<1> QED
  BY <1>2, <1>3
  DEF HeldCount, Owed, TypeOK, QueueTypeOK, RolloutTypeOK, TrainerTypeOK

(* Generations that run and tasks that failed are distinct active tasks.   *)
LEMMA ActiveCount ==
  ASSUME TypeOK, ActiveTasks
  PROVE  Gen + Failed <= Cardinality(active)
<1>1. /\ Generating \subseteq active /\ FailedActive \subseteq active
      /\ Generating \cap FailedActive = {} /\ active \in SUBSET Sample
  BY DEF ActiveTasks, Generating, FailedActive, TypeOK, RolloutTypeOK
<1>2. /\ IsFiniteSet(Generating) /\ IsFiniteSet(FailedActive) /\ IsFiniteSet(active)
      /\ Gen \in Nat /\ Failed \in Nat
  BY <1>1, SampleFinite DEF Gen, Failed
<1>3. Cardinality(Generating \cup FailedActive) = Gen + Failed
  BY <1>1, <1>2, FS_Union, FS_EmptySet DEF Gen, Failed
<1>4. Generating \cup FailedActive \in SUBSET active
  BY <1>1
<1> QED
  BY <1>2, <1>3, <1>4, FS_Subset

(* Reaping tasks costs nothing, and pays for the end signal when one of    *)
(* them has failed.                                                        *)
LEMMA ReapCount ==
  ASSUME TypeOK, ActiveTasks, NEW gone \in SUBSET Finished,
         active' = active \ gone, task' = task
  PROVE  /\ Generating' = Generating
         /\ Failed' <= Failed
         /\ (\E s \in gone : task[s] = "failed") => Failed' <= Failed - 1
<1>1. active \in SUBSET Sample /\ FailedActive \in SUBSET Sample
  BY DEF TypeOK, RolloutTypeOK, FailedActive
<1>2. Generating' = Generating
  BY DEF Generating
<1>3. FailedActive' \in SUBSET FailedActive
  BY DEF FailedActive
<1>4. IsFiniteSet(FailedActive) /\ Failed \in Nat
  BY <1>1, SampleFinite DEF Failed
<1>5. Failed' \in Nat /\ Failed' <= Failed
  BY <1>1, <1>3, <1>4, FS_Subset, SampleFinite DEF Failed
<1>6. ASSUME NEW s \in gone, task[s] = "failed" PROVE Failed' <= Failed - 1
  <2>1. s \in FailedActive /\ s \notin FailedActive'
    BY <1>6 DEF FailedActive, Finished
  <2>2. FailedActive' # FailedActive
    BY <2>1
  <2>3. Failed' # Failed
    BY <1>3, <1>4, <2>2, FS_Subset DEF Failed
  <2> QED
    BY <1>4, <1>5, <2>3
<1> QED
  BY <1>2, <1>5, <1>6

(* A task that is submitted, ends or fails moves one sample between the    *)
(* counted sets.                                                           *)
LEMMA SubmitCount ==
  ASSUME TypeOK, HeldSample, ProcSubmit
  PROVE  Gen' = Gen + 1 /\ Failed' = Failed /\ HeldCount = 1 /\ HeldCount' = 0
<1>1. /\ held \in Sample /\ held # 0 /\ task[held] = "none" /\ held' = 0
      /\ task' = [task EXCEPT ![held] = "gen"] /\ active' = active \cup {held}
  BY DEF HeldSample, ProcSubmit
<1>2. task \in [Sample -> TaskStates] /\ active \in SUBSET Sample
  BY DEF TypeOK, RolloutTypeOK
<1>3. Generating' = Generating \cup {held} /\ held \notin Generating
  BY <1>1, <1>2 DEF Generating
<1>4. FailedActive' = FailedActive
  BY <1>1, <1>2 DEF FailedActive
<1>5. Generating \in SUBSET Sample
  BY DEF Generating
<1>6. Gen' = Gen + 1
  BY <1>3, <1>5, SampleFinite, FS_AddElement DEF Gen
<1> QED
  BY <1>1, <1>4, <1>6 DEF HeldCount, Failed

(* A task that leaves its generation: one fewer runs, and one more has     *)
(* failed if it raised.                                                    *)
LEMMA EndCount ==
  ASSUME TypeOK, NEW s \in Sample, task[s] = "gen", NEW st \in TaskStates, st # "gen",
         task' = [task EXCEPT ![s] = st], active' = active, Generating \subseteq active
  PROVE  Gen' = Gen - 1 /\ Failed' = IF st = "failed" THEN Failed + 1 ELSE Failed
<1>1. task \in [Sample -> TaskStates] /\ active \in SUBSET Sample
  BY DEF TypeOK, RolloutTypeOK
<1>2. Generating' = Generating \ {s} /\ s \in Generating
  BY <1>1 DEF Generating
<1>3. FailedActive' = IF st = "failed" THEN FailedActive \cup {s} ELSE FailedActive
  BY <1>1, <1>2 DEF FailedActive
<1>4. s \notin FailedActive
  BY DEF FailedActive
<1>5. IsFiniteSet(Generating) /\ IsFiniteSet(FailedActive)
  BY <1>1, SampleFinite DEF Generating, FailedActive
<1>6. Gen' = Gen - 1
  BY <1>2, <1>5, FS_RemoveElement DEF Gen
<1>7. st = "failed" => Failed' = Failed + 1
  BY <1>3, <1>4, <1>5, FS_AddElement DEF Failed
<1> QED
  BY <1>3, <1>6, <1>7 DEF Failed

(* Counting, in terms of the quantities a step may change.                 *)
Budgeted ==
  /\ HeldCount + Gen + Len(queue) + windowTaken + Failed + Owed <= MaxRequiredSamples + 1
  /\ Live => HeldCount + Gen + Len(queue) + windowTaken + Failed <= staleness + 1
  /\ reset = "sizing" => resetSum = Cardinality(active)
  /\ Live /\ reset = "sized" => Gen + Failed + Len(queue) <= resetSum
  /\ main # "streaming" => ~Live

(* Counting, in terms of the quantities named above.                       *)
LEMMA CountingForm ==
  ASSUME TypeOK
  PROVE  Counting <=> Budgeted
BY CountTypes DEF Counting, Budgeted, WindowUse, InFlight, Gen, Failed, Owed

(* The quantities of Counting and what it says of them, now...             *)
LEMMA CountFacts ==
  TypeOK => /\ Gen \in Nat /\ Failed \in Nat /\ Cardinality(active) \in Nat
            /\ Len(queue) \in Nat /\ HeldCount \in {0, 1} /\ Owed \in {0, 1}
            /\ windowTaken \in Nat /\ staleness \in Nat /\ resetSum \in Nat
            /\ MaxRequiredSamples \in Nat
            /\ (Counting <=> Budgeted)
BY CountTypes, CountingForm

(* ... and in the next state.                                              *)
LEMMA CountFactsNext ==
  TypeOK' => /\ Gen' \in Nat /\ Failed' \in Nat /\ Cardinality(active') \in Nat
             /\ Len(queue') \in Nat /\ HeldCount' \in {0, 1} /\ Owed' \in {0, 1}
             /\ windowTaken' \in Nat /\ staleness' \in Nat /\ resetSum' \in Nat
             /\ (Counting' <=> Budgeted')
<1>1. (TypeOK => /\ Gen \in Nat /\ Failed \in Nat /\ Cardinality(active) \in Nat
                 /\ Len(queue) \in Nat /\ HeldCount \in {0, 1} /\ Owed \in {0, 1}
                 /\ windowTaken \in Nat /\ staleness \in Nat /\ resetSum \in Nat
                 /\ (Counting <=> Budgeted))'
  BY CountFacts, PTL
<1> QED
  BY <1>1

(* A step of the processor keeps the count.  Taking a sample is guarded by *)
(* the staleness test; a failure makes the end signal due, and the failed  *)
(* task it removes pays for it.                                            *)
LEMMA ProcessorCount ==
  ASSUME TypeOK, TypeOK', LockHeld, HeldSample, ActiveTasks, Budgeted,
         RollouterStep, Processor
  PROVE  Budgeted'
<1> USE EndType
<1>0. /\ Gen \in Nat /\ Failed \in Nat /\ Len(queue) \in Nat /\ windowTaken \in Nat
      /\ HeldCount \in {0, 1} /\ Owed \in {0, 1} /\ HeldCount' \in {0, 1} /\ Owed' \in {0, 1}
      /\ staleness \in Nat /\ resetSum \in Nat /\ MaxRequiredSamples \in Nat
      /\ Gen' \in Nat /\ Failed' \in Nat
  BY CountFacts, CountFactsNext
<1>1. queue' = queue /\ reset' = reset /\ resetSum' = resetSum /\ main' = main /\ windowTaken' = windowTaken
  <2>1. UNCHANGED <<queue, reset, resetSum, main>>
    BY DEF Processor, ProcReadQueue, ProcDecidePause, ProcTakeSample,
       ProcLimitWait, ProcLimitReap, ProcSubmit, ProcPause, ProcDrainWake,
       ProcDrainReap, ProcResumed, ProcEndWait, ProcEndReap, resetVars, mainVars, mqVars
  <2> QED
    BY <2>1 DEF RollouterStep
<1>2. ASSUME Holds("processor") PROVE ~(reset \in {"sizing", "sized"})
  BY <1>2 DEF LockHeld, Holds
<1>3. CASE ProcTakeSample
  <2>1. /\ proc = "decide" /\ held = 0 /\ popped # END /\ staleness < MaxRequiredSamples
        /\ staleness' = staleness + 1 /\ UNCHANGED <<task, active>>
        /\ popped' = END => held' = 0
        /\ proc' # "failed"
    <3>1. proc = "decide" => held = 0 /\ popped # END
      BY DEF HeldSample
    <3> QED
      BY <1>0, <1>3, <3>1 DEF ProcTakeSample, BudgetSpent, taskVars
  <2>2. Live /\ HeldCount = 0 /\ Gen' = Gen /\ Failed' = Failed /\ main = "streaming"
    BY <2>1 DEF Live, HeldCount, Gen, Generating, Failed, FailedActive, Budgeted
  <2>3. Owed = 0
    BY <2>2 DEF Owed, EndOwed
  <2>4. CASE popped' = END
    BY <1>0, <1>1, <2>1, <2>2, <2>3, <2>4 DEF Budgeted, Live, HeldCount
  <2>5. CASE popped' # END
    <3>1. Live' /\ Owed' = 0
      BY <2>1, <2>5 DEF Live, Owed, EndOwed
    <3> QED
      BY <1>0, <1>1, <2>1, <2>2, <2>3, <3>1 DEF Budgeted
  <2> QED
    BY <2>4, <2>5
<1>4. CASE ProcSubmit
  <2>1. /\ Holds("processor") /\ proc = "submit" /\ proc' = "stats"
        /\ UNCHANGED <<popped, staleness>>
    BY <1>4 DEF ProcSubmit
  <2>2. (Live' <=> Live) /\ Owed' = Owed
    BY <1>1, <2>1 DEF Live, Owed, EndOwed
  <2>3. Gen' = Gen + 1 /\ Failed' = Failed /\ HeldCount = 1 /\ HeldCount' = 0
    BY <1>4, SubmitCount
  <2> QED
    BY <1>0, <1>1, <1>2, <2>1, <2>2, <2>3 DEF Budgeted
<1>5. CASE ProcLimitReap \/ ProcEndReap \/ ProcDrainReap
  <2>1. /\ Holds("processor") /\ proc # "failed" /\ UNCHANGED <<task, popped, held, staleness>>
    BY <1>5 DEF ProcLimitReap, ProcEndReap, ProcDrainReap, LockHeld
  <2>2. PICK gone \in SUBSET Finished :
          /\ active' = active \ gone
          /\ proc' = "failed" => \E s \in gone : task[s] = "failed"
    <3>1. CASE ProcLimitReap \/ ProcEndReap
      BY <3>1 DEF ProcLimitReap, ProcEndReap
    <3>2. CASE ProcDrainReap
      <4>1. CASE active' = active \ reaping /\ proc' # "failed"
        BY <3>2, <4>1 DEF ProcDrainReap, ActiveTasks
      <4>2. CASE \E gone \in SUBSET reaping :
                   /\ Cardinality({s \in gone : task[s] = "failed"}) = 1
                   /\ active' = active \ gone
        <5>1. PICK gone \in SUBSET reaping :
                /\ Cardinality({s \in gone : task[s] = "failed"}) = 1
                /\ active' = active \ gone
          BY <4>2
        <5>2. CASE {s \in gone : task[s] = "failed"} = {}
          <6>1. Cardinality({s \in gone : task[s] = "failed"}) = 0
            BY <5>2, FS_EmptySet
          <6> QED
            BY <5>1, <6>1
        <5> QED
          BY <3>2, <5>1, <5>2 DEF ProcDrainReap, ActiveTasks
      <4> QED
        BY <3>2, <4>1, <4>2 DEF ProcDrainReap
    <3> QED
      BY <1>5, <3>1, <3>2
  <2>3. /\ Gen' = Gen /\ Failed' <= Failed
        /\ proc' = "failed" => Failed' <= Failed - 1
    BY <2>1, <2>2, ReapCount DEF Gen
  <2>4. /\ HeldCount' = HeldCount
        /\ Live' => Live
        /\ Owed' # Owed => proc' = "failed"
    BY <1>1, <2>1 DEF HeldCount, Live, Owed, EndOwed
  <2>5. HeldCount' + Gen' + Len(queue') + windowTaken' + Failed' + Owed'
          <= HeldCount + Gen + Len(queue) + windowTaken + Failed + Owed
    BY <1>0, <1>1, <2>3, <2>4
  <2>6. ~(reset' \in {"sizing", "sized"})
    BY <1>1, <1>2, <2>1
  <2> QED
    BY <1>0, <1>1, <2>1, <2>3, <2>4, <2>5, <2>6 DEF Budgeted
<1>6. CASE \/ ProcReadQueue \/ ProcDecidePause \/ ProcLimitWait \/ ProcPause
           \/ ProcDrainWake \/ ProcResumed \/ ProcEndWait
  <2>1. /\ UNCHANGED <<popped, held, task, active, staleness>>
        /\ proc # "failed" /\ proc' # "failed"
    BY <1>6 DEF ProcReadQueue, ProcDecidePause, ProcLimitWait, ProcPause,
       ProcDrainWake, ProcResumed, ProcEndWait, taskVars, ctrlVars
  <2>2. /\ HeldCount' = HeldCount /\ (Live' <=> Live) /\ Owed' = Owed
        /\ Gen' = Gen /\ Failed' = Failed
    BY <1>1, <2>1
    DEF HeldCount, Live, Owed, EndOwed, Gen, Generating, Failed, FailedActive
  <2> QED
    BY <1>1, <2>1, <2>2 DEF Budgeted
<1> QED
  BY <1>3, <1>4, <1>5, <1>6 DEF Processor

(* A step that leaves the processor and the tasks alone keeps the count of *)
(* generations, and the processor's state.                                 *)
LEMMA IdleFrame ==
  ASSUME UNCHANGED <<popped, proc, held, task, active>>
  PROVE  Gen' = Gen /\ Failed' = Failed /\ HeldCount' = HeldCount /\ (Live' <=> Live)
BY DEF Gen, Generating, Failed, FailedActive, HeldCount, Live

(* What a smaller sum leaves room for.                                     *)
LEMMA SmallerSum ==
  ASSUME NEW a \in Int, NEW b \in Int, NEW c \in Int, NEW m \in Int,
         c + a <= m, b <= a
  PROVE  c + b <= m
OBVIOUS

(* The order of the terms in Budgeted.                                     *)
LEMMA Regroup ==
  ASSUME NEW h \in Int, NEW g \in Int, NEW q \in Int, NEW w \in Int, NEW f \in Int,
         NEW o \in Int
  PROVE  /\ h + g + q + w + f + o = (h + o) + (g + f + q + w)
         /\ h + g + q + w + f = h + (g + f + q + w)
         /\ g + f + q + w \in Int /\ h + o \in Int /\ g + f + q \in Int
OBVIOUS

(* The sum that counts every item but the one in hand and the end owed.    *)
Carried == Gen + Failed + Len(queue) + windowTaken

(* The sums of Budgeted in terms of Carried.                               *)
LEMMA CarriedForm ==
  TypeOK =>
    /\ HeldCount + Gen + Len(queue) + windowTaken + Failed + Owed = (HeldCount + Owed) + Carried
    /\ HeldCount + Gen + Len(queue) + windowTaken + Failed = HeldCount + Carried
    /\ Carried \in Int /\ HeldCount \in Int /\ HeldCount + Owed \in Int
    /\ Gen + Failed + Len(queue) \in Int
<1> SUFFICES ASSUME TypeOK
             PROVE  /\ HeldCount + Gen + Len(queue) + windowTaken + Failed + Owed
                         = (HeldCount + Owed) + Carried
                    /\ HeldCount + Gen + Len(queue) + windowTaken + Failed = HeldCount + Carried
                    /\ Carried \in Int /\ HeldCount \in Int /\ HeldCount + Owed \in Int
                    /\ Gen + Failed + Len(queue) \in Int
  OBVIOUS
<1>1. /\ Gen \in Int /\ Failed \in Int /\ Len(queue) \in Int /\ windowTaken \in Int
      /\ HeldCount \in Int /\ Owed \in Int
  BY CountFacts
<1> QED
  BY <1>1, Regroup DEF Carried

(* Steps that add nothing to what is counted.                              *)
LEMMA CountNotAbove ==
  ASSUME TypeOK, TypeOK', Budgeted,
         HeldCount' = HeldCount, (Live' <=> Live), Owed' = Owed, active' = active,
         staleness' = staleness, resetSum' = resetSum, main' = main,
         reset' = reset \/ ~(reset' \in {"sizing", "sized"}),
         Gen' + Failed' + Len(queue') <= Gen + Failed + Len(queue),
         Gen' + Failed' + Len(queue') + windowTaken'
           <= Gen + Failed + Len(queue) + windowTaken
  PROVE  Budgeted'
<1>1. MaxRequiredSamples + 1 \in Int /\ staleness + 1 \in Int /\ resetSum \in Int
  BY CountFacts
<1>2. (TypeOK =>
         /\ HeldCount + Gen + Len(queue) + windowTaken + Failed + Owed
              = (HeldCount + Owed) + Carried
         /\ HeldCount + Gen + Len(queue) + windowTaken + Failed = HeldCount + Carried
         /\ Carried \in Int /\ HeldCount \in Int /\ HeldCount + Owed \in Int
         /\ Gen + Failed + Len(queue) \in Int)'
  BY CarriedForm, PTL
<1>3. Carried' <= Carried
  BY DEF Carried
<1>4. HeldCount' + Gen' + Len(queue') + windowTaken' + Failed' + Owed' <= MaxRequiredSamples + 1
  <2>1. (HeldCount + Owed) + Carried <= MaxRequiredSamples + 1
    BY CarriedForm DEF Budgeted
  <2>2. (HeldCount + Owed) + Carried' <= MaxRequiredSamples + 1
    BY <1>1, <1>2, <1>3, <2>1, CarriedForm, SmallerSum, Zenon
  <2> QED
    BY <1>2, <2>2, Zenon
<1>5. Live' => HeldCount' + Gen' + Len(queue') + windowTaken' + Failed' <= staleness' + 1
  <2>1. Live => HeldCount + Carried <= staleness + 1
    BY CarriedForm DEF Budgeted
  <2>2. Live => HeldCount + Carried' <= staleness + 1
    BY <1>1, <1>2, <1>3, <2>1, CarriedForm, SmallerSum, Zenon
  <2> QED
    BY <1>2, <2>2, Zenon
<1>6. reset' = "sizing" => resetSum' = Cardinality(active')
  BY DEF Budgeted
<1>7. Live' /\ reset' = "sized" => Gen' + Failed' + Len(queue') <= resetSum'
  <2>1. Live /\ reset = "sized" => Gen + Failed + Len(queue) <= resetSum
    BY DEF Budgeted
  <2> QED
    BY <1>1, <1>2, <2>1, CarriedForm
<1>8. main' # "streaming" => ~Live'
  BY DEF Budgeted
<1> QED
  BY <1>4, <1>5, <1>6, <1>7, <1>8 DEF Budgeted

(* A step of a task: its sample stays counted, in the queue or as failed.  *)
LEMMA TaskCount ==
  ASSUME TypeOK, TypeOK', ActiveTasks, Budgeted, RollouterStep, NEW s \in Sample,
         TaskPut(s) \/ TaskReturn(s) \/ TaskFail(s)
  PROVE  Budgeted'
<1>0. /\ Gen \in Nat /\ Failed \in Nat /\ Len(queue) \in Nat /\ windowTaken \in Nat
      /\ HeldCount \in {0, 1} /\ Owed \in {0, 1} /\ HeldCount' \in {0, 1} /\ Owed' \in {0, 1}
      /\ staleness \in Nat /\ resetSum \in Nat /\ MaxRequiredSamples \in Nat
      /\ Gen' \in Nat /\ Failed' \in Nat /\ Len(queue') \in Nat
      /\ Cardinality(active) \in Nat
  BY CountFacts, CountFactsNext
<1> USE DEF feedVars, procVars, ctrlVars, resetVars, mainVars
<1>1. /\ popped' = popped /\ proc' = proc /\ held' = held /\ active' = active
      /\ staleness' = staleness /\ reset' = reset /\ resetSum' = resetSum /\ main' = main
      /\ windowTaken' = windowTaken
  BY DEF TaskPut, TaskReturn, TaskFail, RollouterStep
<1>2. HeldCount' = HeldCount /\ (Live' <=> Live) /\ Owed' = Owed
  BY <1>1 DEF HeldCount, Live, Owed, EndOwed
<1>3. Generating \subseteq active
  BY DEF ActiveTasks
<1>4. Gen' + Failed' + Len(queue') <= Gen + Failed + Len(queue)
  <2>1. CASE TaskPut(s)
    <3>1. Gen' = Gen - 1 /\ Failed' = Failed
      BY <1>1, <1>3, <2>1, EndCount DEF TaskPut, TaskStates
    <3>2. Len(queue') <= Len(queue) + 1
      BY <2>1, PutShape DEF TaskPut, TypeOK, QueueItem
    <3> QED
      BY <1>0, <3>1, <3>2
  <2>2. CASE TaskReturn(s)
    <3>1. /\ task[s] = "reply" /\ task' = [task EXCEPT ![s] = "done"] /\ queue' = queue
          /\ task \in [Sample -> TaskStates]
      BY <2>2 DEF TaskReturn, mqVars, TypeOK, RolloutTypeOK
    <3>2. Generating' = Generating /\ FailedActive' = FailedActive
      BY <1>1, <3>1 DEF Generating, FailedActive
    <3> QED
      BY <1>0, <3>1, <3>2 DEF Gen, Failed
  <2>3. CASE TaskFail(s)
    <3>1. Gen' = Gen - 1 /\ Failed' = Failed + 1
      BY <1>1, <1>3, <2>3, EndCount DEF TaskFail, TaskStates
    <3>2. queue' = queue
      BY <2>3 DEF TaskFail, mqVars
    <3> QED
      BY <1>0, <3>1, <3>2
  <2> QED
    BY <2>1, <2>2, <2>3
<1>5. Gen' + Failed' + Len(queue') + windowTaken' <= Gen + Failed + Len(queue) + windowTaken
  BY <1>0, <1>1, <1>4
<1> QED
  BY <1>1, <1>2, <1>4, <1>5, CountNotAbove

(* reset_staleness: the sum it builds covers every item but the one the    *)
(* processor may hold.                                                     *)
LEMMA ResetCount ==
  ASSUME TypeOK, TypeOK', ActiveTasks, Budgeted, RollouterStep, Reset
  PROVE  Budgeted'
<1>0. /\ Gen \in Nat /\ Failed \in Nat /\ Len(queue) \in Nat /\ windowTaken \in Nat
      /\ HeldCount \in {0, 1} /\ Owed \in {0, 1} /\ HeldCount' \in {0, 1} /\ Owed' \in {0, 1}
      /\ staleness \in Nat /\ resetSum \in Nat /\ MaxRequiredSamples \in Nat
      /\ Gen' \in Nat /\ Failed' \in Nat /\ Len(queue') \in Nat
      /\ Cardinality(active) \in Nat
  BY CountFacts, CountFactsNext
<1> USE DEF feedVars, procVars, taskVars, ctrlVars, resetVars, mainVars, mqVars
<1>1. /\ UNCHANGED <<popped, proc, held, task, active>>
      /\ queue' = queue /\ main' = main
  BY DEF Reset, ResetBegin, ResetReadQueue, ResetFinish
<1>2. Gen' = Gen /\ Failed' = Failed /\ HeldCount' = HeldCount /\ (Live' <=> Live)
  BY <1>1, IdleFrame
<1>3. Owed' = Owed /\ Cardinality(active)' = Cardinality(active)
  BY <1>1, <1>2 DEF Owed, EndOwed
<1>4. CASE ResetBegin
  <2>1. /\ windowTaken' = windowTaken /\ staleness' = staleness
        /\ reset' = "sizing" /\ resetSum' = Cardinality(active)
    BY <1>4 DEF ResetBegin, RollouterStep
  <2> QED
    BY <1>0, <1>1, <1>2, <1>3, <2>1 DEF Budgeted
<1>5. CASE ResetReadQueue
  <2>1. /\ windowTaken' = windowTaken /\ staleness' = staleness
        /\ reset = "sizing" /\ reset' = "sized" /\ resetSum' = resetSum + Len(queue)
    BY <1>5 DEF ResetReadQueue, RollouterStep
  <2>2. Gen + Failed <= Cardinality(active)
    BY ActiveCount
  <2> QED
    BY <1>0, <1>1, <1>2, <1>3, <2>1, <2>2 DEF Budgeted
<1>6. CASE ResetFinish
  <2>1. /\ windowTaken' = 0 /\ staleness' = resetSum
        /\ reset = "sized" /\ reset' = "returned"
    BY <1>6 DEF ResetFinish, RollouterStep
  <2> QED
    BY <1>0, <1>1, <1>2, <1>3, <2>1 DEF Budgeted
<1> QED
  BY <1>4, <1>5, <1>6 DEF Reset

(* The end signal is queued once it is due.                                *)
LEMMA MainCount ==
  ASSUME TypeOK, TypeOK', HeldSample, Budgeted, RollouterStep, Main
  PROVE  Budgeted'
<1>0. /\ Gen \in Nat /\ Failed \in Nat /\ Len(queue) \in Nat /\ windowTaken \in Nat
      /\ HeldCount \in {0, 1} /\ Owed \in {0, 1} /\ HeldCount' \in {0, 1} /\ Owed' \in {0, 1}
      /\ staleness \in Nat /\ resetSum \in Nat /\ MaxRequiredSamples \in Nat
      /\ Gen' \in Nat /\ Failed' \in Nat /\ Len(queue') \in Nat
      /\ Cardinality(active) \in Nat
  BY CountFacts, CountFactsNext
<1> USE DEF feedVars, procVars, taskVars, ctrlVars, resetVars, mainVars, mqVars
<1>1. /\ UNCHANGED <<popped, proc, held, task, active>>
      /\ reset' = reset /\ resetSum' = resetSum /\ staleness' = staleness
      /\ windowTaken' = windowTaken
  BY DEF Main, MainFinally, MainPutEnd, MainStop, RollouterStep
<1>2. Gen' = Gen /\ Failed' = Failed /\ HeldCount' = HeldCount /\ (Live' <=> Live)
  BY <1>1, IdleFrame
<1>3. CASE MainFinally
  <2>1. /\ main = "streaming" /\ main' = "putEnd" /\ queue' = queue
        /\ proc \in {"exit", "failed"}
    BY <1>3 DEF MainFinally
  <2>2. ~Live
    BY <2>1 DEF Live, HeldSample
  <2>3. Owed' = Owed
    BY <1>2, <2>1, <2>2 DEF Owed, EndOwed
  <2> QED
    BY <1>0, <1>1, <1>2, <2>1, <2>2, <2>3 DEF Budgeted
<1>4. CASE MainPutEnd
  <2>1. main = "putEnd" /\ main' = "lock" /\ PutSample(END)
    BY <1>4 DEF MainPutEnd
  <2>2. ~Live /\ Owed = 1 /\ Owed' = 0
    BY <2>1 DEF Budgeted, Owed, EndOwed
  <2>3. Len(queue') <= Len(queue) + 1
    BY <2>1, PutShape DEF TypeOK, QueueItem
  <2> QED
    BY <1>0, <1>1, <1>2, <2>1, <2>2, <2>3 DEF Budgeted
<1>5. CASE MainStop
  <2>1. main = "lock" /\ main' = "exit" /\ queue' = queue
    BY <1>5 DEF MainStop
  <2>2. Owed' = Owed
    BY <2>1 DEF Owed, EndOwed
  <2> QED
    BY <1>0, <1>1, <1>2, <2>1, <2>2 DEF Budgeted
<1> QED
  BY <1>3, <1>4, <1>5 DEF Main

(* The trainer moves an item from the queue to the window's count, or      *)
(* drops the end signal; the task runner clears the queue.                 *)
LEMMA ConsumerCount ==
  ASSUME TypeOK, TypeOK', Budgeted,
         \/ TrainerStep
         \/ TaskRunnerDone
         \/ RollouterStep /\ (FeedSamples \/ Monitor)
         \/ UNCHANGED vars
  PROVE  Budgeted'
<1>0. /\ Gen \in Nat /\ Failed \in Nat /\ Len(queue) \in Nat /\ windowTaken \in Nat
      /\ HeldCount \in {0, 1} /\ Owed \in {0, 1} /\ HeldCount' \in {0, 1} /\ Owed' \in {0, 1}
      /\ staleness \in Nat /\ resetSum \in Nat /\ MaxRequiredSamples \in Nat
      /\ Gen' \in Nat /\ Failed' \in Nat /\ Len(queue') \in Nat
      /\ Cardinality(active) \in Nat
  BY CountFacts, CountFactsNext
<1> USE DEF feedVars, procVars, taskVars, ctrlVars, resetVars, mainVars, mqVars,
            rolloutVars, trainerVars, vars
<1>1. /\ UNCHANGED <<popped, proc, held, task, active>>
      /\ staleness' = staleness /\ resetSum' = resetSum /\ main' = main
      /\ reset' = reset \/ ~(reset' \in {"sizing", "sized"})
  <2>1. CASE Trainer
    BY <2>1 DEF Trainer, CollectSample, CollectEnd, TrainBatch, SyncWeights,
       ResetReturned, SaveCheckpoint
  <2>2. CASE FeedSamples \/ Monitor
    BY <2>2 DEF FeedSamples, Monitor, MonitorLoop, MonitorReadQueue, MonitorDecide, MonitorResume
  <2> QED
    BY <2>1, <2>2 DEF TrainerStep, TaskRunnerDone
<1>2. /\ Gen' = Gen /\ Failed' = Failed /\ HeldCount' = HeldCount /\ (Live' <=> Live)
      /\ Owed' = Owed /\ Cardinality(active)' = Cardinality(active)
  <2>1. Gen' = Gen /\ Failed' = Failed /\ HeldCount' = HeldCount /\ (Live' <=> Live)
    BY <1>1, IdleFrame
  <2> QED
    BY <1>1, <2>1 DEF Owed, EndOwed
<1>3. /\ Len(queue') <= Len(queue)
      /\ Len(queue') + windowTaken' <= Len(queue) + windowTaken
  <2>1. CASE CollectSample \/ CollectEnd
    <3>1. Len(queue') = Len(queue) - 1
      BY <2>1, TakeShape DEF CollectSample, CollectEnd, TypeOK
    <3>2. windowTaken' = windowTaken \/ windowTaken' = windowTaken + 1
      BY <2>1 DEF CollectSample, CollectEnd
    <3> QED
      BY <1>0, <3>1, <3>2
  <2>2. CASE TrainBatch \/ SyncWeights \/ ResetReturned \/ SaveCheckpoint
    BY <1>0, <2>2 DEF TrainBatch, SyncWeights, ResetReturned, SaveCheckpoint
  <2>3. CASE TaskRunnerDone
    BY <1>0, <2>3 DEF TaskRunnerDone, ClearQueue
  <2>4. CASE RollouterStep /\ (FeedSamples \/ Monitor)
    <3>1. queue' = queue /\ reset' = reset
      BY <2>4 DEF FeedSamples, Monitor, MonitorLoop, MonitorReadQueue, MonitorDecide, MonitorResume
    <3> QED
      BY <1>0, <2>4, <3>1 DEF RollouterStep
  <2> QED
    BY <1>0, <2>1, <2>2, <2>3, <2>4 DEF TrainerStep, Trainer
<1>4. windowTaken' \in Nat
  BY CountFactsNext
<1>5. /\ Gen' + Failed' + Len(queue') <= Gen + Failed + Len(queue)
      /\ Gen' + Failed' + Len(queue') + windowTaken' <= Gen + Failed + Len(queue) + windowTaken
  BY <1>0, <1>2, <1>3, <1>4
<1> QED
  BY <1>1, <1>2, <1>5, CountNotAbove

(* BudgetInv is inductive.                                                 *)
LEMMA BudgetInvInit == Init => BudgetInv
<1> SUFFICES ASSUME Init PROVE BudgetInv
  OBVIOUS
<1> USE EndType
<1> USE DEF Init, MQInit, RolloutInit, TrainerInit
<1>1. TypeOK
  <2>1. QueueTypeOK
    BY MaxQueueSizeAssumption DEF QueueTypeOK
  <2>2. RolloutTypeOK
    <3>1. /\ feeder = "feeding" /\ fed \in 0 .. END /\ popped \in 0 .. END /\ proc = "stats"
          /\ held = 0 /\ reaping \in SUBSET Sample /\ active \in SUBSET Sample
      OBVIOUS
    <3>2. task \in [Sample -> TaskStates]
      BY DEF TaskStates
    <3>3. /\ failures \in Nat /\ paused \in BOOLEAN /\ staleness \in Nat
          /\ reset = "idle" /\ resetSum \in Nat /\ monitor = "sleep"
          /\ main = "streaming" /\ running \in BOOLEAN
      OBVIOUS
    <3>4. lockq \in Seq(LockUsers)
      OBVIOUS
    <3> QED
      BY <3>1, <3>2, <3>3, <3>4 DEF RolloutTypeOK, ProcStates
  <2>3. TrainerTypeOK
    <3>1. 1 \in 1 .. TriggerParameterSyncStep
      BY RollouterAssumption
    <3>2. batch \in SUBSET Sample /\ trained \in SUBSET Sample /\ stopping \in BOOLEAN
      OBVIOUS
    <3>3. /\ trainedBatches \in Nat /\ version \in Nat /\ rolloutBatches \in Nat
          /\ savedModel \in Nat /\ lastCkptVersion \in Nat /\ ckptBatches \in Nat /\ windowTaken \in Nat
      OBVIOUS
    <3> QED
      BY <3>1, <3>2, <3>3 DEF TrainerTypeOK, TrainerStates
  <2> QED
    BY <2>1, <2>2, <2>3 DEF TypeOK
<1>2. LockHeld /\ ActiveTasks
  BY DEF LockHeld, ActiveTasks, Generating
<1>3. HeldSample
  BY DEF HeldSample
<1>4. Counting
  <2>1. Generating = {} /\ FailedActive = {} /\ HeldCount = 0 /\ Live
    BY DEF Generating, FailedActive, HeldCount, Live
  <2>2. Gen = 0 /\ Failed = 0 /\ Owed = 0
    BY <2>1, FS_EmptySet DEF Gen, Failed, Owed, EndOwed
  <2>3. Budgeted
    BY <1>1, <2>1, <2>2, CountFacts DEF Budgeted
  <2> QED
    BY <1>1, <2>3, CountFacts
<1> QED
  BY <1>1, <1>2, <1>3, <1>4 DEF BudgetInv

(* Every step preserves the inductive invariant.                           *)
LEMMA BudgetInvStep == BudgetInv /\ [Next]_vars => BudgetInv'
<1> SUFFICES ASSUME BudgetInv, [Next]_vars PROVE BudgetInv'
  OBVIOUS
<1>0. TypeOK /\ LockHeld /\ HeldSample /\ ActiveTasks /\ Counting
  BY DEF BudgetInv
<1>1. TypeOK'
  BY <1>0, QueueTypeStep, RolloutTypeStep, TrainerTypeStep DEF TypeOK
<1>2. LockHeld' /\ HeldSample' /\ ActiveTasks'
  BY <1>0, LockStep, HeldStep, ActiveStep
<1>3. Budgeted
  BY <1>0, CountFacts
<1>4. Budgeted'
  <2>1. CASE RollouterStep /\ Processor
    BY <1>0, <1>1, <1>3, <2>1, ProcessorCount
  <2>2. CASE \E s \in Sample : RollouterStep /\ (TaskPut(s) \/ TaskReturn(s) \/ TaskFail(s))
    BY <1>0, <1>1, <1>3, <2>2, TaskCount
  <2>3. CASE RollouterStep /\ Reset
    BY <1>0, <1>1, <1>3, <2>3, ResetCount
  <2>4. CASE RollouterStep /\ Main
    BY <1>0, <1>1, <1>3, <2>4, MainCount
  <2>5. CASE \/ TrainerStep \/ TaskRunnerDone
             \/ (RollouterStep /\ (FeedSamples \/ Monitor)) \/ UNCHANGED vars
    BY <1>0, <1>1, <1>3, <2>5, ConsumerCount
  <2> QED
    BY <2>1, <2>2, <2>3, <2>4, <2>5, NextCases
<1> QED
  BY <1>1, <1>2, <1>4, CountFactsNext DEF BudgetInv

(* The inductive invariant of the freshness budget: staleness_samples, the *)
(* sum of reset_staleness and the lock protect the count of every window.  *)
THEOREM BudgetInvariant == Spec => []BudgetInv
BY BudgetInvInit, BudgetInvStep, PTL DEF Spec

(* Type correctness of the composition: the queue is within its bound and  *)
(* never shut down, every release finds the lock held.                     *)
THEOREM TypeCorrect == Spec => []TypeOK
BY BudgetInvariant, PTL DEF BudgetInv

(* The lock is held across the awaits of reset_staleness and of the two    *)
(* waits of _processor_worker.                                             *)
THEOREM LockAlwaysHeld == Spec => []LockHeld
BY BudgetInvariant, PTL DEF BudgetInv

(* Freshness: between two parameter syncs the items carried over, produced *)
(* and taken exceed max_required_samples by one at most, whatever fails and*)
(* however the coroutines, the queue and the trainer interleave.           *)
THEOREM WindowWithinBudget == Spec => []BudgetBound
<1>1. BudgetInv => BudgetBound
  <2> SUFFICES ASSUME BudgetInv PROVE BudgetBound
    OBVIOUS
  <2>1. TypeOK /\ Counting
    BY DEF BudgetInv
  <2>2. /\ HeldCount + Gen + Len(queue) + windowTaken + Failed + Owed <= MaxRequiredSamples + 1
        /\ Failed \in Nat /\ Owed \in {0, 1} /\ Gen \in Nat /\ Len(queue) \in Nat
        /\ windowTaken \in Nat /\ HeldCount \in {0, 1} /\ MaxRequiredSamples \in Nat
    BY <2>1, CountFacts DEF Budgeted
  <2>3. WindowUse = HeldCount + Gen + Len(queue) + windowTaken
    BY DEF WindowUse, InFlight, Gen
  <2> QED
    BY <2>2, <2>3 DEF BudgetBound
<1> QED
  BY <1>1, BudgetInvariant, PTL

(* Only the processor pauses the rollouter.                                *)
LEMMA PauseFrame ==
  ASSUME [Next]_vars
  PROVE  Processor \/ (proc' = proc /\ (paused' = FALSE \/ paused' = paused))
<1>1. CASE FeedSamples \/ Reset
  BY <1>1 DEF FeedSamples, Reset, ResetBegin, ResetReadQueue, ResetFinish,
     procVars, ctrlVars
<1>2. CASE Monitor \/ Main
  BY <1>2 DEF Monitor, MonitorLoop, MonitorReadQueue, MonitorDecide,
     MonitorResume, Main, MainFinally, MainPutEnd, MainStop, procVars, ctrlVars
<1>3. CASE Trainer
  BY <1>3 DEF Trainer, CollectSample, CollectEnd, TrainBatch, SyncWeights,
     ResetReturned, SaveCheckpoint, rolloutVars, procVars, ctrlVars
<1>4. CASE \E s \in Sample : TaskPut(s) \/ TaskReturn(s) \/ TaskFail(s)
  BY <1>4 DEF TaskPut, TaskReturn, TaskFail, procVars, ctrlVars
<1> QED
  BY <1>1, <1>2, <1>3, <1>4
  DEF Next, RollouterStep, RollouterNext, TrainerStep, TaskRunnerDone, Terminated,
      vars, rolloutVars

(* The rollouter is paused only while the processor drains: the tests of   *)
(* paused at the top of _processor_worker and before a submission find it  *)
(* FALSE.                                                                  *)
THEOREM PausedOnlyWhileDraining == Spec => []PausedOnlyInDrain
<1>1. Init => PausedOnlyInDrain
  BY DEF Init, RolloutInit, PausedOnlyInDrain
<1>2. PausedOnlyInDrain /\ [Next]_vars => PausedOnlyInDrain'
  <2> SUFFICES ASSUME PausedOnlyInDrain, [Next]_vars PROVE PausedOnlyInDrain'
    OBVIOUS
  <2>1. CASE proc' = proc /\ (paused' = FALSE \/ paused' = paused)
    BY <2>1 DEF PausedOnlyInDrain
  <2>2. CASE ProcReadQueue \/ ProcDecidePause \/ ProcTakeSample \/ ProcLimitWait
             \/ ProcLimitReap \/ ProcSubmit \/ ProcEndWait \/ ProcEndReap
    BY <2>2 DEF ProcReadQueue, ProcDecidePause, ProcTakeSample, ProcLimitWait,
       ProcLimitReap, ProcSubmit, ProcEndWait, ProcEndReap, ctrlVars, PausedOnlyInDrain
  <2>3. CASE ProcPause \/ ProcDrainWake \/ ProcDrainReap \/ ProcResumed
    BY <2>3 DEF ProcPause, ProcDrainWake, ProcDrainReap, ProcResumed, ctrlVars,
       PausedOnlyInDrain
  <2> QED
    BY <2>1, <2>2, <2>3, PauseFrame DEF Processor
<1> QED
  BY <1>1, <1>2, PTL DEF Spec

(* A sample about to be submitted has room under the limit, and no other   *)
(* coroutine adds to active_tasks.                                         *)
LimitInv ==
  /\ ConcurrencyBound
  /\ proc = "submit" => Cardinality(active) < MaxConcurrentSamples

(* max_concurrent_samples is a natural number.                             *)
LEMMA LimitType == MaxConcurrentSamples \in Nat
<1>1. (SamplesPerSync * (100 + StalenessPercent)) \div 100 \in Nat
  <2>1. SamplesPerSync \in Nat
    BY RollouterAssumption DEF SamplesPerSync
  <2>2. SamplesPerSync * (100 + StalenessPercent) \in Nat
    BY <2>1, RollouterAssumption
  <2> QED
    BY <2>2
<1>2. NumServers * SamplesPerServer \in Nat
  BY RollouterAssumption
<1> QED
  BY <1>1, <1>2 DEF MaxConcurrentSamples, MaxRequiredSamples

(* The concurrency limit holds after every step.                           *)
LEMMA LimitStep ==
  ASSUME TypeOK, LimitInv, [Next]_vars
  PROVE  LimitInv'
<1>0. /\ active \in SUBSET Sample /\ held \in Sample \cup {0}
      /\ MaxConcurrentSamples \in Nat
  BY LimitType DEF TypeOK, RolloutTypeOK
<1>1. Cardinality(active) \in Nat /\ IsFiniteSet(active)
  BY <1>0, SampleFinite
<1>2. \A gone : Cardinality(active \ gone) \in Nat
                /\ Cardinality(active \ gone) <= Cardinality(active)
  BY <1>1, FS_Subset, FS_CardinalityType
<1>3. CASE ProcTakeSample
  BY <1>0, <1>1, <1>3 DEF ProcTakeSample, LimitInv, ConcurrencyBound, AtLimit, taskVars
<1>4. CASE ProcLimitReap
  <2>1. PICK gone : active' = active \ gone
    BY <1>4 DEF ProcLimitReap
  <2>2. proc' = "submit" => ~(Cardinality(active') >= MaxConcurrentSamples)
    BY <1>4 DEF ProcLimitReap, AtLimit
  <2>3. {Cardinality(active'), Cardinality(active)} \subseteq Nat
        /\ Cardinality(active') <= Cardinality(active)
    BY <1>1, <1>2, <2>1
  <2> QED
    BY <1>0, <2>2, <2>3 DEF LimitInv, ConcurrencyBound
<1>5. CASE ProcSubmit
  <2>1. proc = "submit" /\ proc' = "stats" /\ active' = active \cup {held}
    BY <1>5 DEF ProcSubmit
  <2>2. Cardinality(active \cup {held}) <= Cardinality(active) + 1
        /\ Cardinality(active \cup {held}) \in Nat
    <3>1. Cardinality(active \cup {held})
            = IF held \in active THEN Cardinality(active) ELSE Cardinality(active) + 1
      BY <1>1, FS_AddElement
    <3> QED
      BY <1>1, <3>1
  <2> QED
    BY <1>0, <1>1, <2>1, <2>2 DEF LimitInv, ConcurrencyBound
<1>6. CASE ProcDrainReap \/ ProcEndReap
  <2>1. PICK gone : active' = active \ gone
    BY <1>6 DEF ProcDrainReap, ProcEndReap
  <2>2. proc' # "submit"
    BY <1>6 DEF ProcDrainReap, ProcEndReap
  <2> QED
    BY <1>0, <1>1, <1>2, <2>1, <2>2 DEF LimitInv, ConcurrencyBound
<1>7. CASE ProcReadQueue \/ ProcDecidePause \/ ProcLimitWait \/ ProcPause
           \/ ProcDrainWake \/ ProcResumed \/ ProcEndWait
  <2>1. active' = active /\ proc' # "submit"
    BY <1>7 DEF ProcReadQueue, ProcDecidePause, ProcLimitWait, ProcPause,
       ProcDrainWake, ProcResumed, ProcEndWait, taskVars
  <2> QED
    BY <2>1 DEF LimitInv, ConcurrencyBound
<1>8. CASE UNCHANGED <<procVars, taskVars>>
  BY <1>8 DEF procVars, taskVars, LimitInv, ConcurrencyBound
<1>9. CASE \E s \in Sample : TaskPut(s) \/ TaskReturn(s) \/ TaskFail(s)
  BY <1>9 DEF TaskPut, TaskReturn, TaskFail, procVars, LimitInv, ConcurrencyBound
<1> QED
  BY <1>3, <1>4, <1>5, <1>6, <1>7, <1>8, <1>9, ProcFrame DEF Processor

(* active_tasks never exceeds max_concurrent_samples, although the limit is*)
(* tested before the lock is taken.                                        *)
THEOREM WithinConcurrencyLimit == Spec => []ConcurrencyBound
<1>1. Init => LimitInv
  <2>1. Init => active = {} /\ proc = "stats"
    BY DEF Init, RolloutInit
  <2> QED
    BY <2>1, FS_EmptySet, LimitType DEF LimitInv, ConcurrencyBound
<1>2. TypeOK /\ LimitInv /\ [Next]_vars => LimitInv'
  BY LimitStep
<1>3. LimitInv => ConcurrencyBound
  BY DEF LimitInv
<1> QED
  BY <1>1, <1>2, <1>3, TypeCorrect, PTL DEF Spec

-----------------------------------------------------------------------------
(***************************************************************************)
(* Where each sample is on its way from the rollouter through the queue to *)
(* the trainer, what the trainer counts of them, and that the pipeline     *)
(* implements SampleWindow.                                                *)
(***************************************************************************)

\* Samples whose put_sample the queue has executed.
Put == {s \in Sample : task[s] \in {"reply", "done"}}

\* The end signal has been put.
Ended == main \in {"lock", "exit"}

\* What the deque holds.
Items == {queue[i] : i \in 1 .. Len(queue)}

\* Every sample the processor took was submitted; it leaves its loop with
\* nothing to reap, or because a generation failed.
Submission ==
  /\ \A s \in Sample : s <= popped /\ s # held => task[s] # "none"
  /\ failures = 0 => proc # "failed" /\ \A s \in Sample : task[s] # "failed"
  /\ proc = "exit" => active = {}
  /\ main # "streaming" => proc \in {"exit", "failed"}

\* A sample is in one place: in the queue once, or in the next batch, or
\* trained on; the end signal comes once, from the queue to the trainer.
Places ==
  /\ \A i, j \in 1 .. Len(queue) : queue[i] = queue[j] => i = j
  /\ Items \ {END} \subseteq Put \ (batch \cup trained)
  /\ END \in Items => Ended /\ ~stopping
  /\ batch \cup trained \subseteq Put /\ batch \cap trained = {}
  /\ stopping => Ended

-----------------------------------------------------------------------------
(* The deque.                                                              *)

\* put_sample: what it adds, what it may drop, and that the new item is last.
LEMMA PutItems ==
  ASSUME QueueTypeOK, \A i, j \in 1 .. Len(queue) : queue[i] = queue[j] => i = j,
         NEW x \in QueueItem, x \notin Items, PutSample(x)
  PROVE  /\ \A i, j \in 1 .. Len(queue') : queue'[i] = queue'[j] => i = j
         /\ Items' \subseteq Items \cup {x}
         /\ \/ Len(queue') = Len(queue) + 1 /\ droppedSamples' = droppedSamples
            \/ Len(queue') = Len(queue) /\ droppedSamples' = droppedSamples + 1
         /\ Len(queue') > 0 /\ queue'[Len(queue')] = x
<1> USE MaxQueueSizeAssumption
<1> DEFINE kept == IF QueueFull THEN Tail(queue) ELSE queue
           lost == IF QueueFull THEN 1 ELSE 0
<1>1. /\ kept \in Seq(QueueItem) /\ Len(kept) = Len(queue) - lost
      /\ \A i \in 1 .. Len(kept) : i + lost \in 1 .. Len(queue) /\ kept[i] = queue[i + lost]
  <2>1. CASE QueueFull
    <3>1. queue # <<>> /\ queue \in Seq(QueueItem)
      BY <2>1 DEF QueueFull, QueueTypeOK
    <3>2. /\ Tail(queue) \in Seq(QueueItem) /\ Len(Tail(queue)) = Len(queue) - 1
          /\ \A i \in 1 .. Len(Tail(queue)) : Tail(queue)[i] = queue[i + 1]
      BY <3>1, HeadTailProperties
    <3> QED
      BY <2>1, <3>1, <3>2
  <2>2. CASE ~QueueFull
    BY <2>2 DEF QueueTypeOK
  <2> QED
    BY <2>1, <2>2
<1>2. queue' = Append(kept, x) /\ droppedSamples' = droppedSamples + lost
      /\ lost \in {0, 1} /\ droppedSamples \in Nat /\ Len(queue) \in Nat
  BY DEF PutSample, QueueTypeOK
<1>3. /\ \A i, j \in 1 .. Len(kept) : kept[i] = kept[j] => i = j
      /\ \A i \in 1 .. Len(kept) : kept[i] \in Items /\ kept[i] # x
  BY <1>1, <1>2 DEF Items
<1> HIDE DEF kept, lost
<1>4. /\ Len(queue') = Len(kept) + 1 /\ queue'[Len(kept) + 1] = x
      /\ \A i \in 1 .. Len(kept) : queue'[i] = kept[i]
      /\ Len(kept) \in Nat
  BY <1>1, <1>2, AppendProperties
<1>5. \A i \in 1 .. Len(queue') : i \in 1 .. Len(kept) \/ i = Len(kept) + 1
  BY <1>4
<1>6. \A i, j \in 1 .. Len(queue') : queue'[i] = queue'[j] => i = j
  BY <1>3, <1>4, <1>5
<1>7. Items' \subseteq Items \cup {x}
  BY <1>3, <1>4, <1>5 DEF Items
<1>8. \/ Len(queue') = Len(queue) + 1 /\ droppedSamples' = droppedSamples
      \/ Len(queue') = Len(queue) /\ droppedSamples' = droppedSamples + 1
  BY <1>1, <1>2, <1>4
<1> QED
  BY <1>4, <1>6, <1>7, <1>8

\* get_sample: the item it takes is gone, and the last one stays last.
LEMMA TakeItems ==
  ASSUME QueueTypeOK, \A i, j \in 1 .. Len(queue) : queue[i] = queue[j] => i = j,
         TakeSample
  PROVE  /\ \A i, j \in 1 .. Len(queue') : queue'[i] = queue'[j] => i = j
         /\ Items' \subseteq Items \ {Head(queue)} /\ Head(queue) \in Items
         /\ Len(queue') = Len(queue) - 1 /\ Len(queue) > 0
         /\ queue[Len(queue)] # Head(queue) => Len(queue') > 0
         /\ Len(queue') > 0 => queue'[Len(queue')] = queue[Len(queue)]
         /\ queue[Len(queue)] = Head(queue) => queue' = <<>>
<1>1. queue \in Seq(QueueItem) /\ queue # <<>> /\ queue' = Tail(queue)
      /\ Len(queue) \in Nat /\ Len(queue) > 0
  BY DEF QueueTypeOK, TakeSample
<1>2. /\ queue' \in Seq(QueueItem) /\ Len(queue') = Len(queue) - 1
      /\ \A i \in 1 .. Len(queue') : queue'[i] = queue[i + 1]
      /\ Head(queue) = queue[1]
  BY <1>1, HeadTailProperties
<1>3. \A i \in 1 .. Len(queue') : i + 1 \in 1 .. Len(queue) /\ i + 1 # 1
  BY <1>1, <1>2
<1>4. \A i, j \in 1 .. Len(queue') : queue'[i] = queue'[j] => i = j
  BY <1>2, <1>3
<1>5. 1 \in 1 .. Len(queue) /\ Len(queue) \in 1 .. Len(queue)
  BY <1>1
<1>6. Items' \subseteq Items \ {Head(queue)} /\ Head(queue) \in Items
  BY <1>2, <1>3, <1>5 DEF Items
<1>7. queue[Len(queue)] = Head(queue) => Len(queue) = 1
  BY <1>2, <1>5
<1>8. queue[Len(queue)] # Head(queue) => Len(queue) # 1
  BY <1>2
<1>9. Len(queue') > 0 => queue'[Len(queue')] = queue[Len(queue)]
  BY <1>1, <1>2
<1>10. Len(queue') = 0 => queue' = <<>>
  BY <1>2, EmptySeq
<1> QED
  BY <1>1, <1>2, <1>4, <1>6, <1>7, <1>8, <1>9, <1>10

-----------------------------------------------------------------------------
(* What the rollouter submits.                                             *)

\* What is submitted is what was pulled from the feed and is not held.
LEMMA SubmissionStep ==
  ASSUME TypeOK, HeldSample, ActiveTasks, Submission, [Next]_vars
  PROVE  Submission'
<1>0. /\ popped \in 0 .. END /\ held \in Sample \cup {0}
      /\ task \in [Sample -> TaskStates] /\ proc \in ProcStates
      /\ active \in SUBSET Sample /\ failures \in Nat /\ reaping \in SUBSET Sample
  BY DEF TypeOK, RolloutTypeOK
<1> USE EndType
<1> USE DEF Submission, procVars, taskVars, mainVars
<1>1. CASE Processor
  <2>0. UNCHANGED <<failures, main>>
    BY <1>1 DEF Processor, ProcReadQueue, ProcDecidePause, ProcTakeSample,
       ProcLimitWait, ProcLimitReap, ProcSubmit, ProcPause, ProcDrainWake,
       ProcDrainReap, ProcResumed, ProcEndWait, ProcEndReap
  <2>1. CASE ProcTakeSample
    <3>1. /\ proc = "decide" /\ popped' = popped + 1
          /\ held' = IF popped' = END THEN 0 ELSE popped'
          /\ proc' \in {"end", "exit", "limit", "submit"}
          /\ proc' = "exit" => active = {}
          /\ UNCHANGED <<task, active>>
      BY <2>1 DEF ProcTakeSample, TasksRemain
    <3>2. held = 0
      BY <3>1 DEF HeldSample
    <3>3. ASSUME NEW s \in Sample, s <= popped', s # held' PROVE s <= popped
      <4>1. s # END /\ s \in Nat
        OBVIOUS
      <4>2. s # popped'
        BY <3>1, <3>3, <4>1
      <4> QED
        BY <1>0, <3>1, <3>3, <4>1, <4>2
    <3> QED
      BY <1>0, <2>0, <3>1, <3>2, <3>3
  <2>2. CASE ProcSubmit
    <3>1. /\ proc = "submit" /\ held \in Sample
          /\ task' = [task EXCEPT ![held] = "gen"]
          /\ proc' = "stats" /\ popped' = popped
      BY <2>2 DEF ProcSubmit, HeldSample
    <3> QED
      BY <1>0, <2>0, <3>1
  <2>3. CASE ProcReadQueue \/ ProcDecidePause \/ ProcLimitWait \/ ProcPause
             \/ ProcDrainWake \/ ProcResumed \/ ProcEndWait
    <3>1. UNCHANGED <<popped, held, task, active>> /\ proc' \notin {"exit", "failed"}
          /\ proc \notin {"exit", "failed"}
      BY <2>3 DEF ProcReadQueue, ProcDecidePause, ProcLimitWait, ProcPause,
                  ProcDrainWake, ProcResumed, ProcEndWait
    <3> QED
      BY <2>0, <3>1
  <2>4. CASE ProcLimitReap \/ ProcEndReap
    <3>1. /\ UNCHANGED <<popped, held, task>> /\ proc \notin {"exit", "failed"}
          /\ proc' = "failed" => \E s \in Finished : task[s] = "failed"
          /\ proc' = "exit" => active' = {}
      BY <2>4 DEF ProcLimitReap, ProcEndReap, TasksRemain
    <3>2. proc' = "failed" => failures # 0
      BY <1>0, <3>1 DEF Finished
    <3> QED
      BY <2>0, <3>1, <3>2
  <2>5. CASE ProcDrainReap
    <3>1. UNCHANGED <<popped, held, task>> /\ proc = "reap" /\ proc' # "exit"
      BY <2>5 DEF ProcDrainReap
    <3>2. ASSUME proc' = "failed" PROVE failures # 0
      <4>1. PICK gone \in SUBSET reaping :
              Cardinality({s \in gone : task[s] = "failed"}) = 1
        BY <2>5, <3>2 DEF ProcDrainReap
      <4>2. {s \in gone : task[s] = "failed"} # {}
        BY <4>1, FS_EmptySet
      <4> QED
        BY <1>0, <4>2
    <3> QED
      BY <2>0, <3>1, <3>2
  <2> QED
    BY <1>1, <2>1, <2>2, <2>3, <2>4, <2>5 DEF Processor
<1>2. ASSUME NEW s \in Sample, TaskPut(s) \/ TaskReturn(s) \/ TaskFail(s)
      PROVE  Submission'
  <2>1. /\ UNCHANGED <<popped, held, active, proc, main>>
        /\ \/ task' = [task EXCEPT ![s] = "reply"] /\ failures' = failures
           \/ task' = [task EXCEPT ![s] = "done"] /\ failures' = failures
           \/ task' = [task EXCEPT ![s] = "failed"] /\ failures' = failures + 1
    BY <1>2 DEF TaskPut, TaskReturn, TaskFail
  <2> QED
    BY <1>0, <2>1
<1>3. CASE UNCHANGED <<procVars, taskVars>>
  <2>1. UNCHANGED <<popped, held, active, proc, task, failures>>
    BY <1>3
  <2>2. main' = main \/ proc \in {"exit", "failed"}
    <3>1. CASE Main
      BY <3>1 DEF Main, MainFinally, MainPutEnd, MainStop
    <3>2. CASE FeedSamples \/ Reset \/ Monitor
      BY <3>2 DEF FeedSamples, Reset, ResetBegin, ResetReadQueue, ResetFinish,
         Monitor, MonitorLoop, MonitorReadQueue, MonitorDecide, MonitorResume
    <3>3. CASE Trainer
      BY <3>3 DEF Trainer, CollectSample, CollectEnd, TrainBatch, SyncWeights,
         ResetReturned, SaveCheckpoint, rolloutVars
    <3>4. CASE Processor
      BY <3>4 DEF Processor, ProcReadQueue, ProcDecidePause, ProcTakeSample,
         ProcLimitWait, ProcLimitReap, ProcSubmit, ProcPause, ProcDrainWake,
         ProcDrainReap, ProcResumed, ProcEndWait, ProcEndReap
    <3>5. CASE \E s \in Sample : TaskPut(s) \/ TaskReturn(s) \/ TaskFail(s)
      BY <3>5 DEF TaskPut, TaskReturn, TaskFail
    <3>6. CASE TaskRunnerDone \/ UNCHANGED vars
      BY <3>6 DEF TaskRunnerDone, vars, rolloutVars
    <3> QED
      BY <3>1, <3>2, <3>3, <3>4, <3>5, <3>6, NextCases DEF TrainerStep, RollouterStep
  <2> QED
    BY <2>1, <2>2
<1> QED
  BY <1>1, <1>2, <1>3, ProcFrame

\* Once the rollouter has left its loop and no generation failed, every
\* sample has been put.
LEMMA AllPut ==
  ASSUME TypeOK, HeldSample, ActiveTasks, Submission, failures = 0, main # "streaming"
  PROVE  Put = Sample
<1> USE EndType
<1>1. proc = "exit" /\ popped = END /\ held = 0 /\ active = {}
  BY DEF Submission, HeldSample
<1>2. ASSUME NEW s \in Sample PROVE task[s] \in {"reply", "done"}
  <2>1. s <= popped /\ s # held
    BY <1>1, RollouterAssumption DEF Sample, END
  <2>2. task[s] # "none" /\ task[s] # "failed" /\ task[s] # "gen"
    BY <1>1, <2>1 DEF Submission, ActiveTasks, Generating
  <2>3. task[s] \in TaskStates
    BY DEF TypeOK, RolloutTypeOK
  <2> QED
    BY <2>2, <2>3 DEF TaskStates
<1> QED
  BY <1>2 DEF Put

-----------------------------------------------------------------------------
(* The steps that move samples.                                            *)

Produces(s) ==
  /\ task[s] = "gen" /\ task' = [task EXCEPT ![s] = "reply"] /\ PutSample(s)
  /\ UNCHANGED <<main, batch, trained, stopping, failures>>

Ends ==
  /\ main = "putEnd" /\ main' = "lock" /\ PutSample(END)
  /\ UNCHANGED <<task, batch, trained, stopping, failures>>

Collects ==
  /\ trainer = "collect" /\ TakeSample /\ Head(queue) # END
  /\ batch' = batch \cup {Head(queue)}
  /\ UNCHANGED <<task, main, trained, stopping, failures>>

Closes ==
  /\ trainer = "collect" /\ TakeSample /\ Head(queue) = END
  /\ batch' = {} /\ stopping' = TRUE
  /\ UNCHANGED <<task, main, trained, failures>>

Trains ==
  /\ trainer = "train" /\ trained' = trained \cup batch /\ batch' = {}
  /\ UNCHANGED <<queue, droppedSamples, task, main, stopping, failures>>

Clears ==
  /\ trainer = "exit" /\ queue' = <<>>
  /\ UNCHANGED <<droppedSamples, task, main, batch, trained, stopping, failures>>

\* No sample moves: a generation may begin, fail or return meanwhile.
Still ==
  /\ UNCHANGED <<queue, droppedSamples, batch, trained, stopping>>
  /\ Put' = Put /\ (Ended' <=> Ended)
  /\ failures' = failures \/ failures' = failures + 1

\* Every step does one of seven things to the samples, or none.
LEMMA FlowCases ==
  ASSUME TypeOK, HeldSample, [Next]_vars
  PROVE  \/ \E s \in Sample : Produces(s)
         \/ Ends \/ Collects \/ Closes \/ Trains \/ Clears \/ Still
<1> USE EndType
<1> USE DEF feedVars, procVars, taskVars, ctrlVars, resetVars, mainVars, mqVars,
            rolloutVars, trainerVars, vars
<1>0. task \in [Sample -> TaskStates]
  BY DEF TypeOK, RolloutTypeOK
<1>1. ASSUME UNCHANGED <<queue, droppedSamples, batch, trained, stopping, task,
                         failures>>, Ended' <=> Ended
      PROVE  Still
  BY <1>1 DEF Still, Put
<1>2. CASE RollouterStep /\ (FeedSamples \/ Reset \/ Monitor)
  BY <1>1, <1>2
     DEF RollouterStep, FeedSamples, Reset, ResetBegin, ResetReadQueue, ResetFinish,
         Monitor, MonitorLoop, MonitorReadQueue, MonitorDecide, MonitorResume, Ended
<1>3. CASE RollouterStep /\ Main
  <2>1. CASE MainFinally
    BY <1>1, <1>3, <2>1 DEF RollouterStep, MainFinally, Ended
  <2>2. CASE MainPutEnd
    BY <1>3, <2>2 DEF RollouterStep, MainPutEnd, Ends
  <2>3. CASE MainStop
    BY <1>1, <1>3, <2>3 DEF RollouterStep, MainStop, Ended
  <2> QED
    BY <1>3, <2>1, <2>2, <2>3 DEF Main
<1>4. CASE RollouterStep /\ Processor
  <2>1. UNCHANGED <<queue, droppedSamples, batch, trained, stopping, failures, main>>
    BY <1>4 DEF RollouterStep, Processor, ProcReadQueue, ProcDecidePause, ProcTakeSample,
       ProcLimitWait, ProcLimitReap, ProcSubmit, ProcPause, ProcDrainWake,
       ProcDrainReap, ProcResumed, ProcEndWait, ProcEndReap
  <2>2. CASE ProcSubmit
    <3>1. held \in Sample /\ task[held] = "none" /\ task' = [task EXCEPT ![held] = "gen"]
      BY <2>2 DEF ProcSubmit, HeldSample
    <3>2. Put' = Put
      BY <1>0, <3>1 DEF Put
    <3> QED
      BY <2>1, <3>2 DEF Still, Ended
  <2>3. CASE ~ProcSubmit
    <3>1. task' = task
      BY <1>4, <2>3 DEF Processor, ProcReadQueue, ProcDecidePause, ProcTakeSample,
         ProcLimitWait, ProcLimitReap, ProcPause, ProcDrainWake,
         ProcDrainReap, ProcResumed, ProcEndWait, ProcEndReap
    <3> QED
      BY <1>1, <2>1, <3>1 DEF Ended
  <2> QED
    BY <2>2, <2>3
<1>5. ASSUME NEW s \in Sample, RollouterStep, TaskPut(s) \/ TaskReturn(s) \/ TaskFail(s)
      PROVE  Produces(s) \/ Still
  <2>1. CASE TaskPut(s)
    BY <1>5, <2>1 DEF RollouterStep, TaskPut, Produces
  <2>2. CASE TaskReturn(s) \/ TaskFail(s)
    <3>1. /\ UNCHANGED <<queue, droppedSamples, batch, trained, stopping, main>>
          /\ \/ /\ task[s] = "reply" /\ task' = [task EXCEPT ![s] = "done"]
                /\ failures' = failures
             \/ /\ task[s] = "gen" /\ task' = [task EXCEPT ![s] = "failed"]
                /\ failures' = failures + 1
      BY <1>5, <2>2 DEF RollouterStep, TaskReturn, TaskFail
    <3>2. Put' = Put
      BY <1>0, <3>1 DEF Put
    <3> QED
      BY <3>1, <3>2 DEF Still, Ended
  <2> QED
    BY <1>5, <2>1, <2>2
<1>6. CASE TrainerStep
  <2>1. CASE CollectSample
    BY <2>1 DEF CollectSample, Collects
  <2>2. CASE CollectEnd
    BY <2>2 DEF CollectEnd, Closes
  <2>3. CASE TrainBatch
    BY <2>3 DEF TrainBatch, Trains
  <2>4. CASE SyncWeights \/ ResetReturned \/ SaveCheckpoint
    BY <1>1, <2>4 DEF SyncWeights, ResetReturned, SaveCheckpoint, Ended
  <2> QED
    BY <1>6, <2>1, <2>2, <2>3, <2>4 DEF TrainerStep, Trainer
<1>7. CASE TaskRunnerDone
  BY <1>7 DEF TaskRunnerDone, ClearQueue, Clears
<1>8. CASE UNCHANGED vars
  BY <1>1, <1>8 DEF Ended
<1> QED
  BY <1>2, <1>3, <1>4, <1>5, <1>6, <1>7, <1>8, NextCases

\* No step puts a sample in two places, or takes one that is in none.
LEMMA PlacesStep ==
  ASSUME TypeOK, HeldSample, Places, [Next]_vars
  PROVE  Places'
<1> USE EndType
<1>0. task \in [Sample -> TaskStates] /\ QueueTypeOK
  BY DEF TypeOK, RolloutTypeOK
<1>q. \A i, j \in 1 .. Len(queue) : queue[i] = queue[j] => i = j
  BY DEF Places
<1>1. ASSUME NEW s \in Sample, Produces(s) PROVE Places'
  <2>1. s \notin Put /\ Put' = Put \cup {s} /\ (Ended' <=> Ended)
        /\ UNCHANGED <<batch, trained, stopping>>
    BY <1>0, <1>1 DEF Produces, Put, Ended
  <2>2. s \notin Items /\ s \in QueueItem /\ s # END
    BY <2>1 DEF Places, QueueItem
  <2>3. /\ \A i, j \in 1 .. Len(queue') : queue'[i] = queue'[j] => i = j
        /\ Items' \subseteq Items \cup {s}
    BY <1>0, <1>1, <1>q, <2>2, PutItems DEF Produces
  <2> QED
    BY <2>1, <2>2, <2>3 DEF Places
<1>2. CASE Ends
  <2>1. Put' = Put /\ ~Ended /\ Ended' /\ UNCHANGED <<batch, trained, stopping>>
    BY <1>2 DEF Ends, Put, Ended
  <2>2. END \notin Items /\ ~stopping /\ END \in QueueItem
    BY <2>1 DEF Places, QueueItem
  <2>3. /\ \A i, j \in 1 .. Len(queue') : queue'[i] = queue'[j] => i = j
        /\ Items' \subseteq Items \cup {END}
    BY <1>0, <1>2, <1>q, <2>2, PutItems DEF Ends
  <2> QED
    BY <2>1, <2>2, <2>3 DEF Places
<1>3. CASE Collects \/ Closes
  <2>1. /\ \A i, j \in 1 .. Len(queue') : queue'[i] = queue'[j] => i = j
        /\ Items' \subseteq Items \ {Head(queue)} /\ Head(queue) \in Items
    BY <1>0, <1>3, <1>q, TakeItems DEF Collects, Closes
  <2>2. Put' = Put /\ (Ended' <=> Ended) /\ trained' = trained
    BY <1>3 DEF Collects, Closes, Put, Ended
  <2>3. CASE Collects
    BY <2>1, <2>2, <2>3 DEF Collects, Places
  <2>4. CASE Closes
    BY <2>1, <2>2, <2>4 DEF Closes, Places
  <2> QED
    BY <1>3, <2>3, <2>4
<1>4. CASE Trains
  <2>1. Put' = Put /\ (Ended' <=> Ended) /\ Items' = Items
    BY <1>4 DEF Trains, Put, Ended, Items
  <2> QED
    BY <1>4, <2>1 DEF Trains, Places
<1>5. CASE Clears
  <2>1. Put' = Put /\ (Ended' <=> Ended) /\ Items' = {}
        /\ UNCHANGED <<batch, trained, stopping>> /\ Len(queue') = 0
    BY <1>5 DEF Clears, Put, Ended, Items
  <2> QED
    BY <2>1 DEF Places
<1>6. CASE Still
  <2>1. Items' = Items
    BY <1>6 DEF Still, Items
  <2> QED
    BY <1>6, <2>1 DEF Still, Places
<1> QED
  BY <1>1, <1>2, <1>3, <1>4, <1>5, <1>6, FlowCases

-----------------------------------------------------------------------------
(* The trainer's counts.                                                   *)

R == RequiredSamples
T == TriggerParameterSyncStep

\* Where the trainer is and what it has collected.
Collection ==
  /\ trainer = "collect" => ~stopping /\ Cardinality(batch) < R
  /\ trainer = "train" => ~stopping /\ Cardinality(batch) = R
  /\ trainer \notin {"collect", "train"} => batch = {}
  /\ trainer \in {"sync", "resetting"} => localStep = 1
  /\ trainer = "exit" => stopping
  /\ trainer = "resetting" <=> reset # "idle"

\* A window ends with exactly SamplesPerSync samples taken.
WindowCount ==
  ~stopping => windowTaken =
    IF trainer = "sync" \/ reset \in {"lock", "sizing", "sized"} THEN SamplesPerSync
    ELSE (localStep - 1) * R + Cardinality(batch)

Versions ==
  /\ trainedBatches = version * T + localStep - 1
  /\ trainer # "sync" => rolloutBatches = version * T
  /\ localStep # 1 => savedModel = version * T
  /\ Cardinality(trained) = trainedBatches * R

\* Arithmetic of windows and versions.
LEMMA Times ==
  ASSUME NEW a \in Int, NEW b \in Int
  PROVE  /\ (a + 1) * b = a * b + b /\ a * b \in Int /\ (a - 1) * b = a * b - b
         /\ 0 * b = 0 /\ 1 * b = b
OBVIOUS

\* What a step of anyone but the trainer leaves alone.
LEMMA OthersFrame ==
  ASSUME [Next]_vars
  PROVE  \/ Trainer
         \/ /\ UNCHANGED <<trainer, stopping, batch, trained, trainedBatches, localStep,
                           version, rolloutBatches, savedModel>>
            /\ \/ UNCHANGED <<reset, windowTaken>>
               \/ /\ reset = "lock" /\ reset' = "sizing" /\ windowTaken' = windowTaken
               \/ /\ reset = "sizing" /\ reset' = "sized" /\ windowTaken' = windowTaken
               \/ /\ reset = "sized" /\ reset' = "returned" /\ windowTaken' = 0
<1> USE DEF feedVars, procVars, taskVars, ctrlVars, resetVars, mainVars, mqVars,
            rolloutVars, trainerVars, vars
<1>1. CASE RollouterStep /\ Reset
  BY <1>1 DEF RollouterStep, Reset, ResetBegin, ResetReadQueue, ResetFinish
<1>2. ASSUME RollouterStep,
             \/ FeedSamples \/ Processor \/ Monitor \/ Main
             \/ \E s \in Sample : TaskPut(s) \/ TaskReturn(s) \/ TaskFail(s)
      PROVE  UNCHANGED <<reset, windowTaken>>
  <2>1. reset' = reset
    <3>1. CASE FeedSamples \/ Monitor \/ Main
      BY <3>1 DEF FeedSamples, Monitor, MonitorLoop, MonitorReadQueue, MonitorDecide,
         MonitorResume, Main, MainFinally, MainPutEnd, MainStop
    <3>2. CASE Processor
      BY <3>2 DEF Processor, ProcReadQueue, ProcDecidePause, ProcTakeSample,
         ProcLimitWait, ProcLimitReap, ProcSubmit, ProcPause, ProcDrainWake,
         ProcDrainReap, ProcResumed, ProcEndWait, ProcEndReap
    <3>3. CASE \E s \in Sample : TaskPut(s) \/ TaskReturn(s) \/ TaskFail(s)
      BY <3>3 DEF TaskPut, TaskReturn, TaskFail
    <3> QED
      BY <1>2, <3>1, <3>2, <3>3
  <2> QED
    BY <1>2, <2>1 DEF RollouterStep
<1> QED
  BY <1>1, <1>2, NextCases DEF RollouterStep, TrainerStep, TaskRunnerDone

\* The sizes and counters the proofs below calculate with.
LEMMA CountersTypes ==
  ASSUME TypeOK
  PROVE  /\ R \in Nat /\ R > 0 /\ T \in Nat /\ T > 0 /\ SamplesPerSync = T * R
         /\ IsFiniteSet(batch) /\ Cardinality(batch) \in Nat
         /\ IsFiniteSet(trained) /\ Cardinality(trained) \in Nat
         /\ trainedBatches \in Nat /\ version \in Nat /\ localStep \in 1 .. T
         /\ rolloutBatches \in Nat /\ savedModel \in Nat /\ windowTaken \in Nat
         /\ reset \in {"idle", "lock", "sizing", "sized", "returned"}
<1>1. batch \in SUBSET Sample /\ trained \in SUBSET Sample
  BY DEF TypeOK, TrainerTypeOK
<1>2. R \in Nat /\ R > 0 /\ T \in Nat /\ T > 0
  BY RollouterAssumption DEF R, T
<1>3. SamplesPerSync = T * R
  BY <1>2 DEF SamplesPerSync, R, T
<1> QED
  BY <1>1, <1>2, <1>3, SampleFinite DEF TypeOK, TrainerTypeOK, RolloutTypeOK, T

\* A sample the trainer collects is new to its batch.
LEMMA CollectCount ==
  ASSUME TypeOK, Places, CollectSample
  PROVE  /\ Head(queue) \in Sample /\ Head(queue) \notin batch
         /\ Cardinality(batch') = Cardinality(batch) + 1
<1>1. /\ Head(queue) \in Items /\ Head(queue) # END
      /\ batch' = batch \cup {Head(queue)}
  BY TakeItems DEF CollectSample, Places, TypeOK
<1>2. Head(queue) \in Sample /\ Head(queue) \notin batch
  BY <1>1 DEF Places, Put
<1> QED
  BY <1>1, <1>2, CountersTypes, FS_AddElement

\* Every step keeps the batch within what a training step takes.
LEMMA CollectionStep ==
  ASSUME TypeOK, Places, Collection, [Next]_vars
  PROVE  Collection'
<1> USE DEF Collection, rolloutVars, mqVars, ctrlVars
<1>0. /\ R \in Nat /\ R > 0 /\ R = RequiredSamples /\ Cardinality(batch) \in Nat
      /\ localStep \in 1 .. T /\ T = TriggerParameterSyncStep /\ T \in Nat
  BY CountersTypes DEF R, T
<1>e. Cardinality({}) = 0
  BY FS_EmptySet
<1>1. CASE CollectSample
  <2>1. Cardinality(batch') = Cardinality(batch) + 1
    BY <1>1, CollectCount
  <2> QED
    BY <1>0, <1>1, <2>1 DEF CollectSample
<1>2. CASE CollectEnd
  BY <1>0, <1>2 DEF CollectEnd
<1>3. CASE TrainBatch
  BY <1>0, <1>3 DEF TrainBatch
<1>4. CASE SyncWeights
  BY <1>4 DEF SyncWeights
<1>5. CASE ResetReturned
  BY <1>5 DEF ResetReturned
<1>6. CASE SaveCheckpoint
  BY <1>0, <1>e, <1>6 DEF SaveCheckpoint
<1>7. ASSUME UNCHANGED <<trainer, stopping, batch, localStep>>,
             \/ reset' = reset
             \/ /\ reset \in {"lock", "sizing", "sized"}
                /\ reset' \in {"sizing", "sized", "returned"}
      PROVE  Collection'
  BY <1>7
<1> QED
  BY <1>1, <1>2, <1>3, <1>4, <1>5, <1>6, <1>7, OthersFrame DEF Trainer

\* Every step keeps the window the count of what was taken since the reset.
LEMMA WindowStep ==
  ASSUME TypeOK, TypeOK', Places, Collection, WindowCount, [Next]_vars
  PROVE  WindowCount'
<1> USE DEF rolloutVars, mqVars, ctrlVars
<1>0. /\ R \in Nat /\ R > 0 /\ R = RequiredSamples /\ Cardinality(batch) \in Nat
      /\ localStep \in 1 .. T /\ T = TriggerParameterSyncStep /\ T \in Nat
      /\ windowTaken \in Nat /\ SamplesPerSync = T * R
  BY CountersTypes DEF R, T
<1>e. Cardinality({}) = 0
  BY FS_EmptySet
<1>t. /\ (localStep - 1) * R \in Int /\ T * R \in Int
      /\ (localStep - 1) * R + R = localStep * R /\ 0 * R = 0
  BY <1>0, Times
<1>1. CASE CollectSample
  <2>1. Cardinality(batch') = Cardinality(batch) + 1
    BY <1>1, CollectCount
  <2>2. /\ trainer = "collect" /\ windowTaken' = windowTaken + 1
        /\ UNCHANGED <<localStep, stopping, reset>> /\ trainer' \in {"collect", "train"}
    BY <1>1 DEF CollectSample
  <2>3. reset = "idle" /\ windowTaken = (localStep - 1) * R + Cardinality(batch)
    BY <2>2, <1>0 DEF Collection, WindowCount
  <2>4. windowTaken' = (localStep - 1) * R + Cardinality(batch')
    BY <1>0, <1>t, <2>1, <2>2, <2>3
  <2> QED
    BY <2>2, <2>3, <2>4 DEF WindowCount
<1>2. CASE CollectEnd
  BY <1>2 DEF CollectEnd, WindowCount
<1>3. CASE TrainBatch
  <2>1. /\ trainer = "train" /\ batch' = {} /\ UNCHANGED <<windowTaken, stopping, reset>>
    BY <1>3 DEF TrainBatch
  <2>2. /\ reset = "idle" /\ ~stopping /\ Cardinality(batch) = R
        /\ windowTaken = (localStep - 1) * R + Cardinality(batch)
    BY <2>1, <1>0 DEF Collection, WindowCount
  <2>3. windowTaken' = localStep * R
    BY <1>0, <1>t, <2>1, <2>2
  <2>4. CASE SyncDue
    <3>1. localStep = T /\ trainer' = "sync"
      BY <1>0, <1>3, <2>4 DEF TrainBatch, SyncDue
    <3> QED
      BY <1>0, <2>3, <3>1 DEF WindowCount
  <2>5. CASE ~SyncDue
    <3>1. localStep' = localStep + 1 /\ trainer' = "save"
      BY <1>3, <2>5 DEF TrainBatch
    <3>2. (localStep' - 1) * R + Cardinality(batch') = localStep * R
      <4>1. localStep' - 1 = localStep /\ localStep * R \in Int
        BY <1>0, <3>1, Times
      <4> QED
        BY <1>e, <2>1, <4>1
    <3> QED
      BY <2>1, <2>2, <2>3, <3>1, <3>2 DEF WindowCount
  <2> QED
    BY <2>4, <2>5
<1>4. CASE SyncWeights
  BY <1>4 DEF SyncWeights, WindowCount
<1>5. CASE ResetReturned
  <2>1. /\ trainer = "resetting" /\ reset = "returned" /\ trainer' = "save" /\ reset' = "idle"
        /\ UNCHANGED <<windowTaken, stopping, localStep, batch>>
    BY <1>5 DEF ResetReturned
  <2> QED
    BY <2>1 DEF WindowCount
<1>6. CASE SaveCheckpoint
  <2>1. /\ trainer = "save" /\ trainer' \in {"exit", "collect"}
        /\ UNCHANGED <<windowTaken, stopping, localStep, batch, reset>>
    BY <1>6 DEF SaveCheckpoint
  <2> QED
    BY <2>1 DEF WindowCount
<1>7. ASSUME UNCHANGED <<trainer, stopping, batch, localStep>>,
             \/ UNCHANGED <<reset, windowTaken>>
             \/ /\ reset = "lock" /\ reset' = "sizing" /\ windowTaken' = windowTaken
             \/ /\ reset = "sizing" /\ reset' = "sized" /\ windowTaken' = windowTaken
      PROVE  WindowCount'
  BY <1>7 DEF WindowCount
<1>8. ASSUME UNCHANGED <<trainer, stopping, batch, localStep>>,
             reset = "sized", reset' = "returned", windowTaken' = 0
      PROVE  WindowCount'
  <2>1. trainer = "resetting" /\ localStep = 1 /\ batch = {}
    BY <1>8 DEF Collection
  <2>2. (localStep' - 1) * R + Cardinality(batch') = 0
    <3>1. localStep' - 1 = 0 /\ Cardinality(batch') = 0
      BY <1>e, <1>8, <2>1
    <3> QED
      BY <1>t, <3>1
  <2> QED
    BY <1>8, <2>1, <2>2 DEF WindowCount
<1> QED
  BY <1>1, <1>2, <1>3, <1>4, <1>5, <1>6, <1>7, <1>8, OthersFrame DEF Trainer

\* Every step keeps version and batches in step.
LEMMA VersionsStep ==
  ASSUME TypeOK, TypeOK', Places, Collection, Versions, [Next]_vars
  PROVE  Versions'
<1> USE DEF rolloutVars, mqVars, ctrlVars
<1>0. /\ R \in Nat /\ Cardinality(batch) \in Nat /\ Cardinality(trained) \in Nat
      /\ IsFiniteSet(batch) /\ IsFiniteSet(trained)
      /\ localStep \in 1 .. T /\ T = TriggerParameterSyncStep /\ T \in Nat
      /\ trainedBatches \in Nat /\ version \in Nat
  BY CountersTypes DEF R, T
<1>t. /\ (version + 1) * T = version * T + T /\ version * T \in Int
      /\ (trainedBatches + 1) * R = trainedBatches * R + R /\ trainedBatches * R \in Int
  BY <1>0, Times
<1>1. CASE CollectSample
  BY <1>1 DEF CollectSample, Versions
<1>2. CASE CollectEnd
  BY <1>2 DEF CollectEnd, Versions
<1>3. CASE TrainBatch
  <2>1. /\ trainer = "train" /\ trained' = trained \cup batch
        /\ trainedBatches' = trainedBatches + 1 /\ rolloutBatches' = rolloutBatches
        /\ savedModel' = IF localStep = 1 THEN trainedBatches ELSE savedModel
    BY <1>3 DEF TrainBatch, SavedForOldLogProb
  <2>2. /\ Cardinality(batch) = R /\ rolloutBatches = version * T
        /\ trainedBatches = version * T + localStep - 1
        /\ localStep # 1 => savedModel = version * T
    BY <2>1 DEF Collection, Versions
  <2>3. Cardinality(trained') = trainedBatches' * R
    <3>1. trained \cap batch = {}
      BY DEF Places
    <3>2. Cardinality(trained \cup batch) = Cardinality(trained) + Cardinality(batch)
      BY <1>0, <3>1, FS_Union, FS_EmptySet
    <3>3. Cardinality(trained) = trainedBatches * R
      BY DEF Versions
    <3> QED
      BY <1>0, <1>t, <2>1, <2>2, <3>2, <3>3
  <2>4. CASE SyncDue
    <3>1. localStep = T /\ localStep' = 1 /\ version' = version + 1 /\ trainer' = "sync"
      BY <1>0, <1>3, <2>4 DEF TrainBatch, SyncDue
    <3>2. trainedBatches' = version' * T + localStep' - 1
      BY <1>0, <1>t, <2>1, <2>2, <3>1
    <3> QED
      BY <2>3, <3>1, <3>2 DEF Versions
  <2>5. CASE ~SyncDue
    <3>1. localStep' = localStep + 1 /\ version' = version /\ trainer' = "save"
      BY <1>3, <2>5 DEF TrainBatch
    <3>2. trainedBatches' = version' * T + localStep' - 1
      BY <1>0, <1>t, <2>1, <2>2, <3>1
    <3>3. savedModel' = version' * T
      <4>1. CASE localStep = 1
        <5>1. trainedBatches = version * T
          BY <1>0, <1>t, <2>2, <4>1
        <5> QED
          BY <2>1, <3>1, <4>1, <5>1
      <4>2. CASE localStep # 1
        BY <2>1, <2>2, <3>1, <4>2
      <4> QED
        BY <4>1, <4>2
    <3> QED
      BY <2>1, <2>2, <2>3, <3>1, <3>2, <3>3 DEF Versions
  <2> QED
    BY <2>4, <2>5
<1>4. CASE SyncWeights
  <2>1. localStep = 1 /\ trainedBatches = version * T + localStep - 1
    BY <1>4 DEF SyncWeights, Collection, Versions
  <2>2. trainedBatches = version * T
    BY <1>0, <1>t, <2>1
  <2> QED
    BY <1>4, <2>2 DEF SyncWeights, Versions
<1>5. CASE ResetReturned
  BY <1>5 DEF ResetReturned, Versions
<1>6. CASE SaveCheckpoint
  BY <1>6 DEF SaveCheckpoint, Versions
<1>7. CASE UNCHANGED <<trainer, trained, trainedBatches, localStep, version,
                       rolloutBatches, savedModel>>
  BY <1>7 DEF Versions
<1> QED
  BY <1>1, <1>2, <1>3, <1>4, <1>5, <1>6, <1>7, OthersFrame DEF Trainer

-----------------------------------------------------------------------------
(* Conservation.                                                           *)

Taken == Cardinality(batch) + Cardinality(trained)

Queued == Len(queue)

PutCount == Cardinality(Put)

\* Every sample put is in the queue, with the trainer, or dropped.  When no
\* generation fails, the end signal is the last item of the queue, and what
\* the trainer has not trained on when it takes it is an incomplete batch.
Conserved ==
  /\ ~Ended => PutCount = Queued + Taken + droppedSamples
  /\ failures = 0 /\ Ended /\ ~stopping =>
       /\ PutCount + 1 = Queued + Taken + droppedSamples
       /\ Queued > 0 /\ queue[Queued] = END
  /\ failures = 0 /\ stopping =>
       /\ queue = <<>> /\ PutCount < Taken + droppedSamples + R

\* Every step keeps account of all the samples put into the queue.
LEMMA ConservedStep ==
  ASSUME TypeOK, TypeOK', HeldSample, ActiveTasks, Submission, Places, Collection,
         Conserved, [Next]_vars
  PROVE  Conserved'
<1> USE EndType
<1>0. /\ task \in [Sample -> TaskStates] /\ QueueTypeOK
      /\ IsFiniteSet(batch) /\ Cardinality(batch) \in Nat
      /\ IsFiniteSet(trained) /\ Cardinality(trained) \in Nat
      /\ Queued \in Nat /\ droppedSamples \in Nat /\ R \in Nat /\ R > 0
      /\ Queued' \in Nat /\ droppedSamples' \in Nat /\ failures \in Nat
  <2>1. task \in [Sample -> TaskStates] /\ QueueTypeOK /\ failures \in Nat
    BY DEF TypeOK, RolloutTypeOK
  <2>2. Queued \in Nat /\ droppedSamples \in Nat
    BY DEF TypeOK, QueueTypeOK, Queued
  <2>3. Queued' \in Nat /\ droppedSamples' \in Nat
    BY DEF TypeOK, QueueTypeOK, Queued
  <2> QED
    BY <2>1, <2>2, <2>3, CountersTypes
<1>p. IsFiniteSet(Put) /\ PutCount \in Nat /\ Taken \in Nat
  BY <1>0, SampleFinite DEF Put, Taken, PutCount
<1>q. \A i, j \in 1 .. Len(queue) : queue[i] = queue[j] => i = j
  BY DEF Places
<1>1. ASSUME NEW s \in Sample, Produces(s) PROVE Conserved'
  <2>1. s \notin Put /\ Put' = Put \cup {s} /\ (Ended' <=> Ended) /\ Taken' = Taken
        /\ failures' = failures /\ stopping' = stopping
    BY <1>0, <1>1 DEF Produces, Put, Ended, Taken
  <2>2. s \notin Items /\ s \in QueueItem
    BY <2>1 DEF Places, QueueItem
  <2>3. \/ Queued' = Queued + 1 /\ droppedSamples' = droppedSamples
        \/ Queued' = Queued /\ droppedSamples' = droppedSamples + 1
    BY <1>0, <1>1, <1>q, <2>2, PutItems DEF Queued, Produces
  <2>4. PutCount' = PutCount + 1
    BY <1>p, <2>1, FS_AddElement DEF PutCount
  <2>5. failures = 0 => ~Ended
    BY <1>1, <2>1, AllPut DEF Ended
  <2>6. stopping => Ended
    BY DEF Places
  <2>7. ASSUME ~Ended' PROVE PutCount' = Queued' + Taken' + droppedSamples'
    <3>1. PutCount = Queued + Taken + droppedSamples
      BY <2>1, <2>7 DEF Conserved
    <3>2. PutCount + 1 = Queued' + Taken + droppedSamples'
      <4>1. CASE Queued' = Queued + 1 /\ droppedSamples' = droppedSamples
        BY <1>0, <1>p, <3>1, <4>1
      <4>2. CASE Queued' = Queued /\ droppedSamples' = droppedSamples + 1
        BY <1>0, <1>p, <3>1, <4>2
      <4> QED
        BY <2>3, <4>1, <4>2
    <3> QED
      BY <2>1, <2>4, <3>2
  <2> QED
    BY <2>1, <2>5, <2>6, <2>7 DEF Conserved
<1>2. CASE Ends
  <2>1. Put' = Put /\ ~Ended /\ Ended' /\ Taken' = Taken /\ stopping' = stopping
        /\ ~stopping
    BY <1>2 DEF Ends, Put, Ended, Taken, Places
  <2>2. END \notin Items /\ END \in QueueItem
    BY <2>1 DEF Places, QueueItem
  <2>3. /\ \/ Queued' = Queued + 1 /\ droppedSamples' = droppedSamples
           \/ Queued' = Queued /\ droppedSamples' = droppedSamples + 1
        /\ Queued' > 0 /\ queue'[Queued'] = END
    BY <1>0, <1>2, <1>q, <2>2, PutItems DEF Queued, Ends
  <2>4. PutCount' + 1 = Queued' + Taken' + droppedSamples'
    <3>1. PutCount = Queued + Taken + droppedSamples /\ PutCount' = PutCount
      BY <2>1 DEF Conserved, PutCount
    <3>2. PutCount + 1 = Queued' + Taken + droppedSamples'
      <4>1. CASE Queued' = Queued + 1 /\ droppedSamples' = droppedSamples
        BY <1>0, <1>p, <3>1, <4>1
      <4>2. CASE Queued' = Queued /\ droppedSamples' = droppedSamples + 1
        BY <1>0, <1>p, <3>1, <4>2
      <4> QED
        BY <2>3, <4>1, <4>2
    <3> QED
      BY <2>1, <3>1, <3>2
  <2> QED
    BY <2>1, <2>3, <2>4 DEF Conserved
<1>3. CASE Collects
  <2>1. /\ Queued' = Queued - 1 /\ Head(queue) \in Items
        /\ queue[Queued] # Head(queue) => Queued' > 0
        /\ Queued' > 0 => queue'[Queued'] = queue[Queued]
    BY <1>0, <1>3, <1>q, TakeItems DEF Queued, Collects
  <2>2. Put' = Put /\ (Ended' <=> Ended) /\ UNCHANGED <<trained, stopping, failures>>
        /\ ~stopping /\ droppedSamples' = droppedSamples
    BY <1>3 DEF Collects, Put, Ended, Collection, TakeSample
  <2>3. Head(queue) \notin batch
    BY <1>3, <2>1 DEF Places, Collects
  <2>4. Cardinality(batch') = Cardinality(batch) + 1
    BY <1>0, <1>3, <2>3, FS_AddElement DEF Collects
  <2>5. Queued' + Taken' = Queued + Taken
    BY <1>0, <2>1, <2>2, <2>4 DEF Taken
  <2>6. Taken' \in Nat
    BY <1>0, <2>2, <2>4 DEF Taken
  <2>7. failures = 0 /\ Ended => queue[Queued] = END /\ Head(queue) # END
    BY <1>3, <2>2 DEF Conserved, Collects
  <2>8. Queued' + Taken' + droppedSamples' = Queued + Taken + droppedSamples
    BY <1>0, <1>p, <2>2, <2>5, <2>6
  <2> QED
    BY <2>1, <2>2, <2>7, <2>8 DEF Conserved, PutCount
<1>4. CASE Closes
  <2>1. /\ Queued' = Queued - 1 /\ Head(queue) \in Items
        /\ queue[Queued] = Head(queue) => queue' = <<>>
    BY <1>0, <1>4, <1>q, TakeItems DEF Queued, Closes
  <2>2. /\ Put' = Put /\ (Ended' <=> Ended) /\ Ended /\ ~stopping /\ stopping'
        /\ UNCHANGED <<trained, failures, droppedSamples>> /\ batch' = {}
        /\ Cardinality(batch) < R
    BY <1>4, <2>1 DEF Closes, Put, Ended, Places, Collection, TakeSample
  <2>3. ASSUME failures = 0
        PROVE  queue' = <<>> /\ PutCount' < Taken' + droppedSamples' + R
    <3>1. /\ PutCount + 1 = Queued + Taken + droppedSamples
          /\ queue[Queued] = END
      BY <2>2, <2>3 DEF Conserved
    <3>2. queue' = <<>>
      BY <1>4, <2>1, <3>1 DEF Closes
    <3>3. Queued = 1
      BY <1>0, <2>1, <3>2 DEF Queued
    <3>4. Taken' = Cardinality(trained) /\ Taken = Cardinality(batch) + Cardinality(trained)
      BY <1>0, <2>2, FS_EmptySet DEF Taken
    <3>5. PutCount' = PutCount
      BY <2>2 DEF PutCount
    <3> QED
      BY <1>0, <1>p, <2>2, <3>1, <3>2, <3>3, <3>4, <3>5
  <2> QED
    BY <2>2, <2>3 DEF Conserved
<1>5. CASE Trains
  <2>1. Put' = Put /\ (Ended' <=> Ended)
        /\ UNCHANGED <<queue, droppedSamples, stopping, failures>>
    BY <1>5 DEF Trains, Put, Ended
  <2>2. Taken' = Taken
    <3>1. trained \cap batch = {}
      BY DEF Places
    <3>2. Cardinality(trained \cup batch) = Cardinality(trained) + Cardinality(batch)
      BY <1>0, <3>1, FS_Union, FS_EmptySet
    <3>3. Cardinality({}) = 0
      BY FS_EmptySet
    <3> QED
      BY <1>0, <1>5, <3>2, <3>3 DEF Trains, Taken
  <2> QED
    BY <2>1, <2>2 DEF Conserved, PutCount, Queued
<1>6. CASE Clears
  <2>1. Put' = Put /\ (Ended' <=> Ended) /\ Taken' = Taken /\ stopping /\ Ended
        /\ UNCHANGED <<droppedSamples, stopping, failures>> /\ queue' = <<>>
    BY <1>6 DEF Clears, Put, Ended, Taken, Places, Collection
  <2> QED
    BY <2>1 DEF Conserved, PutCount, Queued
<1>7. CASE Still
  <2>1. /\ UNCHANGED <<queue, droppedSamples, stopping>> /\ Put' = Put
        /\ (Ended' <=> Ended) /\ Taken' = Taken
        /\ (failures' = 0 => failures = 0)
    BY <1>0, <1>7 DEF Still, Taken
  <2> QED
    BY <2>1 DEF Conserved, PutCount, Queued
<1> QED
  BY <1>1, <1>2, <1>3, <1>4, <1>5, <1>6, <1>7, FlowCases

-----------------------------------------------------------------------------
(* The inductive invariant and what follows from it.                       *)

FlowInv ==
  /\ BudgetInv
  /\ Submission /\ Places /\ Collection /\ WindowCount /\ Versions /\ Conserved

\* The invariant holds at the start.
LEMMA FlowInvInit == Init => FlowInv
<1> SUFFICES ASSUME Init PROVE FlowInv
  OBVIOUS
<1> USE EndType
<1> USE DEF Init, MQInit, RolloutInit, TrainerInit
<1>0. BudgetInv /\ TypeOK
  BY BudgetInvInit DEF BudgetInv
<1>1. R \in Nat /\ R > 0 /\ T \in Nat /\ T > 0 /\ Cardinality({}) = 0
  BY <1>0, CountersTypes, FS_EmptySet
<1>2. Put = {} /\ ~Ended /\ Items = {} /\ Len(queue) = 0
  BY DEF Put, Ended, Items
<1>3. Submission
  BY DEF Submission
<1>4. Places
  BY <1>2 DEF Places
<1>5. Collection
  BY <1>1 DEF Collection
<1>6. (localStep - 1) * R + Cardinality(batch) = 0 /\ version * T = 0
      /\ trainedBatches * R = 0
  <2>1. localStep - 1 = 0 /\ version = 0 /\ trainedBatches = 0 /\ Cardinality(batch) = 0
    BY <1>1
  <2>2. 0 * R = 0 /\ 0 * T = 0
    BY <1>1, Times
  <2> QED
    BY <2>1, <2>2
<1>7. WindowCount /\ Versions
  BY <1>1, <1>6 DEF WindowCount, Versions
<1>8. Conserved
  BY <1>1, <1>2 DEF Conserved, PutCount, Taken, Queued
<1> QED
  BY <1>0, <1>3, <1>4, <1>5, <1>7, <1>8 DEF FlowInv

\* Every step preserves the invariant.
LEMMA FlowInvStep == FlowInv /\ [Next]_vars => FlowInv'
<1> SUFFICES ASSUME FlowInv, [Next]_vars PROVE FlowInv'
  OBVIOUS
<1>1. /\ BudgetInv /\ Submission /\ Places /\ Collection /\ WindowCount /\ Versions
      /\ Conserved /\ TypeOK /\ HeldSample /\ ActiveTasks
  BY DEF FlowInv, BudgetInv
<1>2. BudgetInv'
  BY <1>1, BudgetInvStep
<1>3. TypeOK'
  BY <1>2 DEF BudgetInv
<1>4. Submission' /\ Places' /\ Collection'
  BY <1>1, SubmissionStep, PlacesStep, CollectionStep
<1>5. WindowCount' /\ Versions' /\ Conserved'
  BY <1>1, <1>3, WindowStep, VersionsStep, ConservedStep
<1> QED
  BY <1>2, <1>4, <1>5 DEF FlowInv

\* The inductive invariant of the samples' way: where each sample is, what
\* the trainer has counted, and that none is lost unseen.
THEOREM SamplesAccounted == Spec => []FlowInv
BY FlowInvInit, FlowInvStep, PTL DEF Spec

\* No sample is trained on twice, param_version counts the trained batches,
\* and the rollouter generates with the weights of the last version.
THEOREM VersionsCountBatches == Spec => []VersionAccounting
<1>1. FlowInv => VersionAccounting
  BY DEF FlowInv, Places, Versions, VersionAccounting, R, T
<1> QED
  BY <1>1, SamplesAccounted, PTL

\* Every batch's old log-probabilities come from the model the rollouter was
\* given at the start of the window, whichever local step the batch is.
THEOREM ProximalIsRollout == Spec => []ProximalModel
<1>1. FlowInv => ProximalModel
  <2> SUFFICES ASSUME FlowInv, trainer = "train" PROVE SavedForOldLogProb = rolloutBatches
    BY DEF ProximalModel
  <2>1. /\ rolloutBatches = version * T /\ trainedBatches = version * T + localStep - 1
        /\ localStep # 1 => savedModel = version * T
    BY DEF FlowInv, Versions
  <2>2. version * T \in Int
    BY CountersTypes, Times DEF FlowInv, BudgetInv
  <2>3. localStep = 1 => trainedBatches = version * T
    BY <2>1, <2>2
  <2> QED
    BY <2>1, <2>3 DEF SavedForOldLogProb
<1> QED
  BY <1>1, SamplesAccounted, PTL

\* When no generation fails, the trainer stops having trained on every
\* sample but those a full queue dropped and an incomplete last batch.
THEOREM AllButPartialBatch == Spec => []OnlyPartialBatchLost
<1>1. FlowInv => OnlyPartialBatchLost
  <2> SUFFICES ASSUME FlowInv, trainer = "exit", failures = 0
               PROVE  Cardinality(Sample \ trained) < RequiredSamples + droppedSamples
    BY DEF OnlyPartialBatchLost
  <2>0. TypeOK /\ HeldSample /\ ActiveTasks /\ Submission /\ Places /\ Collection /\ Conserved
    BY DEF FlowInv, BudgetInv
  <2>1. stopping /\ batch = {} /\ Ended
    BY <2>0 DEF Collection, Places
  <2>2. Put = Sample
    BY <2>0, <2>1, AllPut DEF Ended
  <2>3. PutCount < Taken + droppedSamples + R
    BY <2>0, <2>1 DEF Conserved
  <2>4. trained \subseteq Sample /\ IsFiniteSet(Sample) /\ Cardinality(Sample) \in Nat
        /\ Cardinality(trained) \in Nat /\ droppedSamples \in Nat /\ R \in Nat
    BY <2>0, SampleFinite, CountersTypes DEF TypeOK, TrainerTypeOK, QueueTypeOK
  <2>5. Sample \cap trained = trained
    BY <2>4
  <2>6. Cardinality(Sample \ trained) = Cardinality(Sample) - Cardinality(trained)
    BY <2>4, <2>5, FS_Difference
  <2>7. Taken = Cardinality(trained)
    BY <2>1, <2>4, FS_EmptySet DEF Taken
  <2> QED
    BY <2>2, <2>3, <2>4, <2>6, <2>7 DEF PutCount, R
<1> QED
  BY <1>1, SamplesAccounted, PTL

-----------------------------------------------------------------------------
(* The freshness window.                                                   *)

\* A sum of three, where one term grows by one at most.
LEMMA GrowsByOne ==
  ASSUME NEW h \in Nat, NEW g \in Nat, NEW q \in Nat, NEW g1 \in Nat, NEW q1 \in Nat,
         g1 <= g, q1 <= q + 1
  PROVE  h + g1 + q1 <= h + g + q + 1
OBVIOUS

\* What a step of anyone but the trainer does to the items in flight: it
\* adds one at most.
LEMMA InFlightStep ==
  ASSUME TypeOK, TypeOK', HeldSample, ActiveTasks, [Next]_vars, ~Trainer
  PROVE  InFlight' <= InFlight + 1
<1> USE EndType
<1> USE DEF feedVars, procVars, taskVars, ctrlVars, resetVars, mainVars, mqVars,
            rolloutVars, trainerVars, vars
<1>q. QueueTypeOK /\ HeldCount \in Nat /\ HeldCount' \in {0, 1}
      /\ Gen \in Nat /\ Gen' \in Nat /\ Queued \in Nat /\ Queued' \in Nat
  BY CountFacts, CountFactsNext DEF TypeOK, Queued
<1>i. InFlight = HeldCount + Gen + Queued /\ InFlight' = HeldCount' + Gen' + Queued'
  BY DEF InFlight, Gen, Queued
<1>1. ASSUME UNCHANGED <<held, task>>, Queued' <= Queued + 1 PROVE InFlight' <= InFlight + 1
  <2>1. HeldCount' = HeldCount /\ Gen' = Gen
    BY <1>1 DEF HeldCount, Gen, Generating
  <2>2. InFlight' = HeldCount + Gen + Queued'
    BY <1>i, <2>1
  <2>3. HeldCount + Gen + Queued' <= HeldCount + Gen + Queued + 1
    <3>1. Gen <= Gen
      BY <1>q
    <3> QED
      BY <1>1, <1>q, <3>1, GrowsByOne
  <2> QED
    BY <1>i, <2>2, <2>3
<1>2. CASE (RollouterStep /\ (FeedSamples \/ Reset \/ Monitor)) \/ UNCHANGED vars
  <2>1. UNCHANGED <<held, task, queue>>
    BY <1>2 DEF FeedSamples, Reset, ResetBegin, ResetReadQueue, ResetFinish,
       Monitor, MonitorLoop, MonitorReadQueue, MonitorDecide, MonitorResume
  <2> QED
    BY <1>1, <1>q, <2>1 DEF Queued
<1>3. CASE RollouterStep /\ Main
  <2>1. UNCHANGED <<held, task>>
    BY <1>3 DEF Main, MainFinally, MainPutEnd, MainStop
  <2>2. Queued' <= Queued + 1
    <3>1. CASE MainPutEnd
      BY <1>q, <3>1, PutShape DEF MainPutEnd, Queued, QueueItem
    <3>2. CASE MainFinally \/ MainStop
      BY <1>q, <3>2 DEF MainFinally, MainStop, Queued
    <3> QED
      BY <1>3, <3>1, <3>2 DEF Main
  <2> QED
    BY <1>1, <2>1, <2>2
<1>4. CASE RollouterStep /\ Processor
  <2>0. Queued' = Queued
    BY <1>4 DEF Processor, ProcReadQueue, ProcDecidePause, ProcTakeSample,
       ProcLimitWait, ProcLimitReap, ProcSubmit, ProcPause, ProcDrainWake,
       ProcDrainReap, ProcResumed, ProcEndWait, ProcEndReap, Queued
  <2>1. CASE ProcSubmit
    BY <1>q, <1>i, <2>0, <2>1, SubmitCount
  <2>2. CASE ProcTakeSample
    <3>1. task' = task /\ held = 0
      BY <2>2 DEF ProcTakeSample, HeldSample
    <3>2. HeldCount = 0 /\ Gen' = Gen
      BY <3>1 DEF HeldCount, Gen, Generating
    <3>3. InFlight = Gen + Queued /\ InFlight' = HeldCount' + Gen + Queued
      BY <1>q, <1>i, <2>0, <3>2
    <3>4. CASE HeldCount' = 0
      BY <1>q, <3>3, <3>4
    <3>5. CASE HeldCount' = 1
      BY <1>q, <3>3, <3>5
    <3> QED
      BY <1>q, <3>4, <3>5
  <2>3. CASE ~ProcSubmit /\ ~ProcTakeSample
    <3>1. UNCHANGED <<held, task>>
      BY <1>4, <2>3 DEF Processor, ProcReadQueue, ProcDecidePause,
         ProcLimitWait, ProcLimitReap, ProcPause, ProcDrainWake,
         ProcDrainReap, ProcResumed, ProcEndWait, ProcEndReap
    <3> QED
      BY <1>1, <1>q, <2>0, <3>1
  <2> QED
    BY <2>1, <2>2, <2>3
<1>5. ASSUME NEW s \in Sample, RollouterStep, TaskPut(s) \/ TaskReturn(s) \/ TaskFail(s)
      PROVE  InFlight' <= InFlight + 1
  <2>0. held' = held /\ task \in [Sample -> TaskStates]
    BY <1>5 DEF TaskPut, TaskReturn, TaskFail, TypeOK, RolloutTypeOK
  <2>h. HeldCount' = HeldCount
    BY <2>0 DEF HeldCount
  <2>1. Queued' <= Queued + 1
    <3>1. CASE TaskPut(s)
      BY <1>q, <3>1, PutShape DEF TaskPut, Queued, QueueItem
    <3>2. CASE TaskReturn(s) \/ TaskFail(s)
      BY <1>q, <3>2 DEF TaskReturn, TaskFail, Queued
    <3> QED
      BY <1>5, <3>1, <3>2
  <2>2. Gen' <= Gen
    <3>1. CASE TaskPut(s) \/ TaskFail(s)
      <4>1. /\ task[s] = "gen" /\ active' = active
            /\ \E st \in {"reply", "failed"} : task' = [task EXCEPT ![s] = st]
        BY <3>1 DEF TaskPut, TaskFail
      <4>2. PICK st \in {"reply", "failed"} : task' = [task EXCEPT ![s] = st]
        BY <4>1
      <4>3. st \in TaskStates /\ st # "gen"
        BY <4>2 DEF TaskStates
      <4>4. Gen' = Gen - 1
        BY <4>1, <4>2, <4>3, EndCount DEF ActiveTasks
      <4> QED
        BY <1>q, <4>4
    <3>2. CASE TaskReturn(s)
      <4>1. Generating' = Generating
        BY <2>0, <3>2 DEF TaskReturn, Generating
      <4> QED
        BY <1>q, <4>1 DEF Gen
    <3> QED
      BY <1>5, <3>1, <3>2
  <2>3. InFlight' = HeldCount + Gen' + Queued'
    BY <1>i, <2>h
  <2>4. HeldCount + Gen' + Queued' <= HeldCount + Gen + Queued + 1
    BY <1>q, <2>1, <2>2, GrowsByOne
  <2> QED
    BY <1>i, <2>3, <2>4
<1>6. CASE TaskRunnerDone
  <2>1. UNCHANGED <<held, task>> /\ queue' = <<>>
    BY <1>6 DEF TaskRunnerDone, ClearQueue
  <2>2. Queued' = 0
    BY <2>1 DEF Queued
  <2> QED
    BY <1>1, <1>q, <2>1, <2>2
<1> QED
  BY <1>2, <1>3, <1>4, <1>5, <1>6, NextCases DEF TrainerStep

\* The trainer takes one item, or none.
LEMMA InFlightTaken ==
  ASSUME TypeOK, TypeOK', Trainer
  PROVE  IF CollectSample \/ CollectEnd THEN InFlight > 0 /\ InFlight' = InFlight - 1
         ELSE InFlight' = InFlight
<1> USE DEF procVars, taskVars, ctrlVars, resetVars, mainVars, mqVars, rolloutVars
<1>q. QueueTypeOK /\ HeldCount \in {0, 1} /\ Gen \in Nat /\ Queued \in Nat /\ Queued' \in Nat
  BY CountFacts, CountFactsNext DEF TypeOK, Queued
<1>i. InFlight = HeldCount + Gen + Queued /\ InFlight' = HeldCount' + Gen' + Queued'
  BY DEF InFlight, Gen, Queued
<1>1. UNCHANGED <<held, task>>
  BY DEF Trainer, CollectSample, CollectEnd, TrainBatch, SyncWeights,
         ResetReturned, SaveCheckpoint
<1>2. HeldCount' = HeldCount /\ Gen' = Gen
  BY <1>1 DEF HeldCount, Gen, Generating
<1>3. CASE CollectSample \/ CollectEnd
  <2>1. Queued' = Queued - 1
    BY <1>q, <1>3, TakeShape DEF CollectSample, CollectEnd, Queued
  <2> QED
    BY <1>q, <1>i, <1>2, <1>3, <2>1
<1>4. CASE ~(CollectSample \/ CollectEnd)
  <2>1. Queued' = Queued
    BY <1>4 DEF Trainer, TrainBatch, SyncWeights, ResetReturned, SaveCheckpoint, Queued
  <2> QED
    BY <1>q, <1>i, <1>2, <1>4, <2>1
<1> QED
  BY <1>3, <1>4

\* A window that is not full has room: the trainer, while it collects, has
\* taken fewer samples than a sync asks for.
LEMMA QuotaLeft ==
  ASSUME TypeOK, Collection, WindowCount, trainer = "collect"
  PROVE  ~stopping /\ windowTaken < SamplesPerSync
<1>0. /\ R \in Nat /\ R > 0 /\ Cardinality(batch) \in Nat /\ localStep \in 1 .. T
      /\ T \in Nat /\ windowTaken \in Nat /\ SamplesPerSync = T * R
  BY CountersTypes
<1>1. ~stopping /\ Cardinality(batch) < R /\ reset = "idle"
      /\ windowTaken = (localStep - 1) * R + Cardinality(batch)
  BY DEF Collection, WindowCount
<1>2. (localStep - 1) * R <= (T - 1) * R /\ (localStep - 1) * R \in Int
      /\ (T - 1) * R = T * R - R /\ T * R \in Int
  <2>1. ASSUME NEW a \in Int, NEW b \in Int, a <= b PROVE a * R <= b * R
    BY <1>0, <2>1
  <2>2. localStep - 1 \in Int /\ T - 1 \in Int /\ localStep - 1 <= T - 1
    BY <1>0
  <2>3. (localStep - 1) * R <= (T - 1) * R
    BY <2>1, <2>2
  <2> QED
    BY <1>0, <2>2, <2>3, Times
<1> QED
  BY <1>0, <1>1, <1>2

\* reset_staleness ends without touching the samples.
LEMMA ResetFinishFrame ==
  ASSUME [Next]_vars, reset = "sized", reset' = "returned"
  PROVE  UNCHANGED <<held, task, queue>>
<1> USE DEF feedVars, procVars, taskVars, ctrlVars, resetVars, mainVars, mqVars,
            rolloutVars, trainerVars, vars
<1>1. CASE RollouterStep /\ Reset
  BY <1>1 DEF Reset, ResetBegin, ResetReadQueue, ResetFinish
<1>2. CASE RollouterStep /\ (FeedSamples \/ Monitor \/ Main)
  BY <1>2 DEF FeedSamples, Monitor, MonitorLoop, MonitorReadQueue, MonitorDecide,
     MonitorResume, Main, MainFinally, MainPutEnd, MainStop
<1>3. CASE RollouterStep /\ Processor
  BY <1>3 DEF Processor, ProcReadQueue, ProcDecidePause, ProcTakeSample,
     ProcLimitWait, ProcLimitReap, ProcSubmit, ProcPause, ProcDrainWake,
     ProcDrainReap, ProcResumed, ProcEndWait, ProcEndReap
<1>4. CASE \E s \in Sample : RollouterStep /\ (TaskPut(s) \/ TaskReturn(s) \/ TaskFail(s))
  BY <1>4 DEF TaskPut, TaskReturn, TaskFail
<1>5. CASE TrainerStep
  BY <1>5 DEF TrainerStep, Trainer, CollectSample, CollectEnd, TrainBatch, SyncWeights,
     ResetReturned, SaveCheckpoint
<1>6. CASE TaskRunnerDone \/ UNCHANGED vars
  BY <1>6 DEF TaskRunnerDone
<1> QED
  BY <1>1, <1>2, <1>3, <1>4, <1>5, <1>6, NextCases

\* The budget's invariant bounds the window in the next state too.
LEMMA FlowWithinBudget == FlowInv => BudgetBound
<1> SUFFICES ASSUME FlowInv PROVE BudgetBound
  OBVIOUS
<1>1. TypeOK /\ Counting
  BY DEF FlowInv, BudgetInv
<1>2. /\ HeldCount + Gen + Len(queue) + windowTaken + Failed + Owed <= MaxRequiredSamples + 1
      /\ Failed \in Nat /\ Owed \in {0, 1} /\ Gen \in Nat /\ Len(queue) \in Nat
      /\ windowTaken \in Nat /\ HeldCount \in {0, 1} /\ MaxRequiredSamples \in Nat
  BY <1>1, CountFacts DEF Budgeted
<1>3. WindowUse = HeldCount + Gen + Len(queue) + windowTaken
  BY DEF WindowUse, InFlight, Gen
<1> QED
  BY <1>2, <1>3 DEF BudgetBound

\* The budget bound, after a step.
LEMMA FlowWithinBudgetNext == FlowInv' => BudgetBound'
<1>1. (FlowInv => BudgetBound)'
  BY FlowWithinBudget, PTL
<1> QED
  BY <1>1

\* Every step is one of SampleWindow, or leaves its variables alone.
LEMMA WindowNext ==
  FlowInv /\ FlowInv' /\ [Next]_vars => [Window!Next]_(Window!vars)
<1> SUFFICES ASSUME FlowInv, FlowInv', [Next]_vars
             PROVE  Window!Next \/ UNCHANGED Window!vars
  OBVIOUS
<1> USE DEF Window!vars, Window!Next
<1>0. /\ TypeOK /\ TypeOK' /\ HeldSample /\ ActiveTasks /\ Collection /\ WindowCount
      /\ Counting'
  BY DEF FlowInv, BudgetInv
<1>q. InFlight \in Nat /\ InFlight' \in Nat /\ windowTaken \in Nat
  <2>1. HeldCount \in Nat /\ Gen \in Nat /\ Len(queue) \in Nat
    BY <1>0, CountFacts
  <2>2. HeldCount' \in Nat /\ Gen' \in Nat /\ Len(queue') \in Nat
    BY <1>0, CountFactsNext
  <2>3. InFlight = HeldCount + Gen + Len(queue) /\ InFlight' = HeldCount' + Gen' + Len(queue')
    BY DEF InFlight, Gen
  <2>4. InFlight \in Nat
    BY <2>1, <2>3
  <2>5. InFlight' \in Nat
    BY <2>2, <2>3
  <2> QED
    BY <1>0, <2>4, <2>5, CountFacts
<1>1. CASE Trainer
  <2>1. CASE CollectSample
    <3>1. /\ trainer = "collect" /\ windowTaken' = windowTaken + 1 /\ stopping' = stopping
      BY <2>1 DEF CollectSample
    <3> QED
      BY <1>0, <1>1, <2>1, <3>1, InFlightTaken, QuotaLeft DEF Window!Take
  <2>2. CASE CollectEnd
    BY <1>0, <1>1, <2>2, InFlightTaken DEF CollectEnd, Window!Close
  <2>3. CASE TrainBatch \/ SyncWeights \/ ResetReturned \/ SaveCheckpoint
    <3>1. UNCHANGED <<windowTaken, stopping>> /\ trainer # "collect"
      BY <2>3 DEF TrainBatch, SyncWeights, ResetReturned, SaveCheckpoint
    <3>2. InFlight' = InFlight
      BY <1>0, <1>1, <3>1, InFlightTaken DEF CollectSample, CollectEnd
    <3> QED
      BY <3>1, <3>2
  <2> QED
    BY <1>1, <2>1, <2>2, <2>3 DEF Trainer
<1>2. CASE ~Trainer /\ UNCHANGED <<windowTaken, stopping>>
  <2>1. InFlight' <= InFlight + 1
    BY <1>0, <1>2, InFlightStep
  <2>2. CASE InFlight' <= InFlight
    BY <1>2, <1>q, <2>2 DEF Window!Lose
  <2>3. CASE InFlight' = InFlight + 1
    <3>1. BudgetBound'
      BY FlowWithinBudgetNext
    <3>2. InFlight' + windowTaken' <= MaxRequiredSamples + 1
      BY <3>1 DEF BudgetBound, WindowUse
    <3> QED
      BY <1>0, <1>2, <1>q, <2>3, <3>2, CountFacts DEF Window!Produce
  <2> QED
    BY <1>q, <2>1, <2>2, <2>3
<1>3. CASE /\ reset = "sized" /\ reset' = "returned" /\ windowTaken' = 0
           /\ stopping' = stopping /\ ~Trainer
  <2>1. windowTaken = SamplesPerSync \/ stopping
    BY <1>0, <1>3 DEF WindowCount
  <2>2. InFlight' = InFlight
    <3>1. UNCHANGED <<held, task, queue>>
      BY <1>3, ResetFinishFrame
    <3> QED
      BY <3>1 DEF InFlight, HeldCount, Generating
  <2>3. stopping \in BOOLEAN
    BY <1>0 DEF TypeOK, TrainerTypeOK
  <2> QED
    BY <1>3, <2>1, <2>2, <2>3 DEF Window!Renew
<1> QED
  BY <1>1, <1>2, <1>3, OthersFrame

\* The pipeline implements SampleWindow with one item of slack: between two
\* syncs the items carried over, produced and taken stay within the budget,
\* and a sync comes after exactly SamplesPerSync samples.
THEOREM WindowImplemented == Spec => ImplementsSampleWindow
<1>1. Init => Window!Init
  <2> SUFFICES ASSUME Init PROVE Window!Init
    OBVIOUS
  <2>1. Generating = {} /\ HeldCount = 0 /\ Len(queue) = 0
    BY DEF Init, MQInit, RolloutInit, Generating, HeldCount
  <2>2. InFlight = 0
    BY <2>1, FS_EmptySet DEF InFlight
  <2> QED
    BY <2>2 DEF Init, TrainerInit, Window!Init
<1> QED
  BY <1>1, WindowNext, SamplesAccounted, PTL DEF Spec, ImplementsSampleWindow, Window!Spec
=============================================================================
