------------------------- MODULE FullyAsyncRollouter -------------------------
(***************************************************************************)
(* The rollouter of the fully asynchronous policy                          *)
(* (fully_async_rollouter.py): an asyncio actor whose coroutines share one *)
(* event loop.  An action is what a coroutine does between two suspension  *)
(* points.  The coroutines are the feeder (_feed_samples), the processor   *)
(* (_processor_worker), one task per sample                                *)
(* (_process_single_sample_streaming), the monitor (_async_monitor_loop),  *)
(* the main coroutine (_streaming_generation_main), and the handler of the *)
(* trainer's remote call reset_staleness.                                  *)
(*                                                                         *)
(* A remote call to the queue actor takes effect when the queue executes   *)
(* it, between the caller's two suspension points.  asyncio.Lock serves    *)
(* its waiters in order: lockq is the holder followed by the waiters.      *)
(* Samples are numbered in the order the feeder loads them.                *)
(*                                                                         *)
(* Left out: statistics used only for logging (total_generated_samples and *)
(* the like), timing, and rollout_status.                                  *)
(***************************************************************************)
EXTENDS MessageQueue, FiniteSets

CONSTANTS
  RequiredSamples,           \* required_samples, one training batch
  TriggerParameterSyncStep,  \* batches trained between two weight syncs
  StalenessPercent,          \* staleness_threshold, in percent
  NumServers,                \* len(server_handles)
  SamplesPerServer,          \* the literal 16, scaled down for TLC
  TotalRolloutSteps,         \* total_rollout_steps
  PendingQueueSize,          \* pending_queue's maxsize, 128 in the code
  MaxFailures                \* bound: generations that raise

\* set_max_required_samples
SamplesPerSync == RequiredSamples * TriggerParameterSyncStep
MaxRequiredSamples == (SamplesPerSync * (100 + StalenessPercent)) \div 100
MaxConcurrentSamples ==
  IF NumServers * SamplesPerServer <= MaxRequiredSamples
  THEN NumServers * SamplesPerServer ELSE MaxRequiredSamples

ASSUME RollouterAssumption ==
  /\ RequiredSamples \in Nat \ {0}
  /\ TriggerParameterSyncStep \in Nat \ {0}
  /\ StalenessPercent \in Nat
  /\ NumServers \in Nat \ {0}
  /\ SamplesPerServer \in Nat \ {0}
  /\ TotalRolloutSteps \in Nat \ {0}
  /\ PendingQueueSize \in Nat \ {0}
  /\ MaxFailures \in Nat

\* max_queue_size = max_required_samples
ASSUME QueueSizeAssumption == MaxQueueSize = MaxRequiredSamples

Sample == 1 .. TotalRolloutSteps
END == TotalRolloutSteps + 1   \* the None that ends a stream

VARIABLES
  feeder,      \* _feed_samples: "feeding", "done" or "cancelled"
  fed,         \* items put on pending_queue; the last one is END
  popped,      \* items taken from pending_queue
  proc,        \* where _processor_worker is suspended
  held,        \* the sample the processor has taken and not submitted, or 0
  reaping,     \* finished tasks the processor is about to remove
  task,        \* the task of each sample
  active,      \* active_tasks
  paused,      \* paused, and the negation of _resume_event
  staleness,   \* staleness_samples
  lockq,       \* self.lock: its holder, then its waiters
  reset,       \* where the handler of reset_staleness is
  resetSum,    \* the sum it is computing
  monitor,     \* where _async_monitor_loop is
  main,        \* where _streaming_generation_main is
  running,     \* running
  failures     \* generations that raised so far

feedVars == <<feeder, fed>>
procVars == <<popped, proc, held, reaping>>
taskVars == <<task, active, failures>>
ctrlVars == <<paused, staleness, lockq>>
resetVars == <<reset, resetSum>>
mainVars == <<monitor, main, running>>

rolloutVars == <<feeder, fed, popped, proc, held, reaping, task, active,
                 failures, paused, staleness, lockq, reset, resetSum,
                 monitor, main, running>>

ProcStates == {"stats", "decide", "pause", "drain", "reap", "limit",
               "limitWait", "submit", "end", "endWait",
               "exit", "failed"}
LockUsers == {"processor", "reset", "monitor", "main"}
TaskStates == {"none", "gen", "reply", "done", "failed"}

\* __init__, set_message_queue_client and the start of fit
RolloutInit ==
  /\ feeder = "feeding" /\ fed = 0
  /\ popped = 0 /\ proc = "stats" /\ held = 0 /\ reaping = {}
  /\ task = [s \in Sample |-> "none"] /\ active = {} /\ failures = 0
  /\ paused = FALSE /\ staleness = 0 /\ lockq = <<>>
  /\ reset = "idle" /\ resetSum = 0
  /\ monitor = "sleep" /\ main = "streaming" /\ running = TRUE

Holds(c) == lockq # <<>> /\ Head(lockq) = c
Acquire(c) == lockq' = Append(lockq, c)
Release == lockq' = Tail(lockq)

Finished == {s \in active : task[s] \in {"done", "failed"}}

\* Mutations: off by one, or no test at all.
Mut_LimitLate(tasks) == Cardinality(tasks) > MaxConcurrentSamples
Mut_NoneRemain(tasks) == FALSE

\* The tests of the processor's loops.
BudgetSpent == staleness >= MaxRequiredSamples
AtLimit(tasks) == Cardinality(tasks) >= MaxConcurrentSamples
TasksRemain(tasks) == tasks # {}

-----------------------------------------------------------------------------
(* The feeder.  pending_queue.put suspends only on a full queue and the    *)
(* data iterator is not asynchronous, so the feeder fills the queue in one *)
(* go; it is woken by the processor's get and runs before the processor's  *)
(* next remote call can return.                                            *)

FeedLimit ==
  IF popped + PendingQueueSize <= END THEN popped + PendingQueueSize ELSE END

FeederParked == feeder # "feeding" \/ fed = FeedLimit

FeedSamples ==
  /\ feeder = "feeding"
  /\ fed < FeedLimit
  /\ fed' = FeedLimit
  /\ feeder' = IF FeedLimit = END THEN "done" ELSE "feeding"
  /\ UNCHANGED <<procVars, taskVars, ctrlVars, resetVars, mainVars, mqVars>>

-----------------------------------------------------------------------------
(* The processor.  It tests paused at the top of its loop and before it    *)
(* submits; both tests find FALSE, since paused is set nowhere but in its  *)
(* own drain (PausedOnlyInDrain, checked below), and are not repeated here.*)

\* _should_pause_generation, the half that depends on the queue's reply.
ProcReadQueue ==
  /\ proc = "stats"
  /\ IF QueueFull
     THEN proc' = "pause" /\ Acquire("processor")
     ELSE proc' = "decide" /\ UNCHANGED lockq
  /\ UNCHANGED <<popped, held, reaping, paused, staleness, feedVars, taskVars,
                 resetVars, mainVars, mqVars>>

\* The other half: the staleness test, made when the reply arrives.
ProcDecidePause ==
  /\ proc = "decide"
  /\ BudgetSpent
  /\ proc' = "pause"
  /\ Acquire("processor")
  /\ UNCHANGED <<popped, held, reaping, paused, staleness, feedVars, taskVars,
                 resetVars, mainVars, mqVars>>

\* Take the next item.  staleness_samples is incremented without the lock,
\* and for the end signal too.
ProcTakeSample ==
  /\ proc = "decide"
  /\ ~BudgetSpent
  /\ popped < fed
  /\ FeederParked
  /\ popped' = popped + 1
  /\ staleness' = staleness + 1
  /\ IF popped' = END
     THEN /\ held' = 0
          /\ IF TasksRemain(active) THEN proc' = "end" /\ Acquire("processor")
             ELSE proc' = "exit" /\ UNCHANGED lockq
     ELSE /\ held' = popped'
          /\ IF AtLimit(active)
             THEN proc' = "limit" /\ Acquire("processor")
             ELSE proc' = "submit" /\ Acquire("processor")
  /\ UNCHANGED <<reaping, paused, feedVars, taskVars, resetVars, mainVars,
                 mqVars>>

\* asyncio.wait(active_tasks, FIRST_COMPLETED) with the lock held, at the
\* concurrency limit.
ProcLimitWait ==
  /\ proc = "limit"
  /\ Holds("processor")
  /\ proc' = "limitWait"
  /\ UNCHANGED <<popped, held, reaping, feedVars, taskVars, ctrlVars,
                 resetVars, mainVars, mqVars>>

ProcLimitReap ==
  /\ proc = "limitWait"
  /\ Finished # {}
  /\ active' = active \ Finished
  /\ IF \E s \in Finished : task[s] = "failed"
     THEN proc' = "failed" /\ Release
     ELSE IF AtLimit(active')
     THEN proc' = "limit" /\ lockq' = Append(Tail(lockq), "processor")
     ELSE proc' = "submit" /\ lockq' = Append(Tail(lockq), "processor")
  /\ UNCHANGED <<popped, held, reaping, task, failures, paused, staleness,
                 feedVars, resetVars, mainVars, mqVars>>

\* safe_create_task: nothing removes the task from active_tasks but the
\* processor itself.
ProcSubmit ==
  /\ proc = "submit"
  /\ Holds("processor")
  /\ task' = [task EXCEPT ![held] = "gen"]
  /\ active' = active \cup {held}
  /\ held' = 0
  /\ Release
  /\ proc' = "stats"
  /\ UNCHANGED <<popped, reaping, failures, paused, staleness, feedVars,
                 resetVars, mainVars, mqVars>>

ProcPause ==
  /\ proc = "pause"
  /\ Holds("processor")
  /\ paused' = TRUE
  /\ Release
  /\ proc' = "drain"
  /\ UNCHANGED <<popped, held, reaping, staleness, feedVars, taskVars,
                 resetVars, mainVars, mqVars>>

\* The drain loop wakes for finished tasks, or for the resume signal.
ProcDrainWake ==
  /\ proc = "drain"
  /\ Finished # {}
  /\ reaping' = Finished
  /\ proc' = "reap"
  /\ Acquire("processor")
  /\ UNCHANGED <<popped, held, paused, staleness, feedVars, taskVars,
                 resetVars, mainVars, mqVars>>

ProcDrainReap ==
  /\ proc = "reap"
  /\ Holds("processor")
  /\ \/ /\ \A s \in reaping : task[s] = "done"
        /\ active' = active \ reaping
        /\ proc' = IF paused THEN "drain" ELSE "stats"
     \/ \E gone \in SUBSET reaping :   \* the loop over the set stops at a failure
          /\ Cardinality({s \in gone : task[s] = "failed"}) = 1
          /\ active' = active \ gone
          /\ proc' = "failed"
  /\ reaping' = {}
  /\ Release
  /\ UNCHANGED <<popped, held, task, failures, paused, staleness, feedVars,
                 resetVars, mainVars, mqVars>>

\* Mutation: the drain ends with its last task instead of the resume signal.
Mut_ResumedByDrain ==
  /\ proc = "drain"
  /\ active = {}
  /\ proc' = "stats"
  /\ UNCHANGED <<popped, held, reaping, feedVars, taskVars, ctrlVars,
                 resetVars, mainVars, mqVars>>

ProcResumed ==
  /\ proc = "drain"
  /\ ~paused
  /\ Finished = {}
  /\ proc' = "stats"
  /\ UNCHANGED <<popped, held, reaping, feedVars, taskVars, ctrlVars,
                 resetVars, mainVars, mqVars>>

\* After the end signal: wait for the remaining tasks, lock held.
ProcEndWait ==
  /\ proc = "end"
  /\ Holds("processor")
  /\ proc' = "endWait"
  /\ UNCHANGED <<popped, held, reaping, feedVars, taskVars, ctrlVars,
                 resetVars, mainVars, mqVars>>

ProcEndReap ==
  /\ proc = "endWait"
  /\ Finished # {}
  /\ active' = active \ Finished
  /\ IF \E s \in Finished : task[s] = "failed"
     THEN proc' = "failed" /\ Release
     ELSE IF TasksRemain(active')
     THEN proc' = "end" /\ lockq' = Append(Tail(lockq), "processor")
     ELSE proc' = "exit" /\ Release
  /\ UNCHANGED <<popped, held, reaping, task, failures, paused, staleness,
                 feedVars, resetVars, mainVars, mqVars>>

Processor ==
  \/ ProcReadQueue \/ ProcDecidePause \/ ProcTakeSample
  \/ ProcLimitWait \/ ProcLimitReap \/ ProcSubmit
  \/ ProcPause \/ ProcDrainWake \/ ProcDrainReap \/ ProcResumed
  \/ ProcEndWait \/ ProcEndReap

-----------------------------------------------------------------------------
(* The tasks.                                                              *)

\* Generation ends and the queue executes put_sample.
TaskPut(s) ==
  /\ task[s] = "gen"
  /\ task' = [task EXCEPT ![s] = "reply"]
  /\ PutSample(s)
  /\ UNCHANGED <<active, failures, feedVars, procVars, ctrlVars, resetVars,
                 mainVars>>

\* The reply to put_sample arrives: the task is finished.
TaskReturn(s) ==
  /\ task[s] = "reply"
  /\ task' = [task EXCEPT ![s] = "done"]
  /\ UNCHANGED <<active, failures, feedVars, procVars, ctrlVars, resetVars,
                 mainVars, mqVars>>

\* Generation raises; the exception surfaces where the task is awaited.
TaskFail(s) ==
  /\ task[s] = "gen"
  /\ failures < MaxFailures
  /\ failures' = failures + 1
  /\ task' = [task EXCEPT ![s] = "failed"]
  /\ UNCHANGED <<active, feedVars, procVars, ctrlVars, resetVars, mainVars,
                 mqVars>>

-----------------------------------------------------------------------------
(* reset_staleness, called by the trainer after a weight sync.             *)

\* Mutation: the lock is released before the await.
Mut_ResetUnlocked ==
  /\ reset = "lock"
  /\ Holds("reset")
  /\ paused' = FALSE
  /\ resetSum' = Cardinality(active)
  /\ reset' = "sizing"
  /\ Release
  /\ UNCHANGED <<staleness, feedVars, procVars, taskVars, mainVars, mqVars>>

\* The lock is granted.  len(active_tasks) is read before the await.
ResetBegin ==
  /\ reset = "lock"
  /\ Holds("reset")
  /\ paused' = FALSE
  /\ resetSum' = Cardinality(active)
  /\ reset' = "sizing"
  /\ UNCHANGED <<staleness, lockq, feedVars, procVars, taskVars, mainVars,
                 mqVars>>

\* The queue executes get_queue_size.
ResetReadQueue ==
  /\ reset = "sizing"
  /\ resetSum' = resetSum + Len(queue)
  /\ reset' = "sized"
  /\ UNCHANGED <<feedVars, procVars, taskVars, ctrlVars, mainVars, mqVars>>

\* Mutations: staleness_samples is set to zero, or not at all.
Mut_ResetToZero ==
  /\ reset = "sized"
  /\ staleness' = 0
  /\ Release
  /\ reset' = "returned"
  /\ resetSum' = 0
  /\ UNCHANGED <<paused, feedVars, procVars, taskVars, mainVars, mqVars>>

\* The reply arrives: the assignment, and the lock is released.
ResetFinish ==
  /\ reset = "sized"
  /\ staleness' = resetSum
  /\ Release
  /\ reset' = "returned"
  /\ resetSum' = 0
  /\ UNCHANGED <<paused, feedVars, procVars, taskVars, mainVars, mqVars>>

Reset == ResetBegin \/ ResetReadQueue \/ ResetFinish

-----------------------------------------------------------------------------
(* The monitor, every check_interval seconds.  What it read of paused may  *)
(* be stale when the queue's reply arrives.                                *)

MonitorLoop ==
  /\ monitor = "sleep"
  /\ monitor' = IF ~running THEN "exit" ELSE IF paused THEN "stats" ELSE "sleep"
  /\ UNCHANGED <<main, running, feedVars, procVars, taskVars, ctrlVars,
                 resetVars, mqVars>>

MonitorReadQueue ==
  /\ monitor = "stats"
  /\ monitor' = IF QueueFull THEN "sleep" ELSE "decide"
  /\ UNCHANGED <<main, running, feedVars, procVars, taskVars, ctrlVars,
                 resetVars, mqVars>>

MonitorDecide ==
  /\ monitor = "decide"
  /\ IF BudgetSpent
     THEN monitor' = "sleep" /\ UNCHANGED lockq
     ELSE monitor' = "resume" /\ Acquire("monitor")
  /\ UNCHANGED <<main, running, paused, staleness, feedVars, procVars,
                 taskVars, resetVars, mqVars>>

MonitorResume ==
  /\ monitor = "resume"
  /\ Holds("monitor")
  /\ paused' = FALSE
  /\ Release
  /\ monitor' = "sleep"
  /\ UNCHANGED <<main, running, staleness, feedVars, procVars, taskVars,
                 resetVars, mqVars>>

Monitor ==
  \/ MonitorLoop \/ MonitorReadQueue \/ MonitorDecide \/ MonitorResume

-----------------------------------------------------------------------------
(* The main coroutine: feed and process, then send the end signal to the   *)
(* trainer whether the processor finished or failed.                       *)

\* Mutation: no end signal after a failure.
Mut_FinallyOnSuccess ==
  /\ main = "streaming"
  /\ proc = "exit"
  /\ feeder' = IF feeder = "done" THEN "done" ELSE "cancelled"
  /\ main' = "putEnd"
  /\ UNCHANGED <<fed, monitor, running, procVars, taskVars, ctrlVars,
                 resetVars, mqVars>>

MainFinally ==
  /\ main = "streaming"
  /\ proc \in {"exit", "failed"}
  /\ feeder' = IF feeder = "done" THEN "done" ELSE "cancelled"
  /\ main' = "putEnd"
  /\ UNCHANGED <<fed, monitor, running, procVars, taskVars, ctrlVars,
                 resetVars, mqVars>>

MainPutEnd ==
  /\ main = "putEnd"
  /\ PutSample(END)
  /\ Acquire("main")
  /\ main' = "lock"
  /\ UNCHANGED <<monitor, running, paused, staleness, feedVars, procVars,
                 taskVars, resetVars>>

MainStop ==
  /\ main = "lock"
  /\ Holds("main")
  /\ running' = FALSE
  /\ Release
  /\ main' = "exit"
  /\ UNCHANGED <<monitor, paused, staleness, feedVars, procVars, taskVars,
                 resetVars, mqVars>>

Main == MainFinally \/ MainPutEnd \/ MainStop

\* fit has returned: both gathered coroutines ended.
RollouterDone == main = "exit" /\ monitor = "exit"

RollouterNext ==
  \/ FeedSamples \/ Processor \/ Reset \/ Monitor \/ Main
  \/ \E s \in Sample : TaskPut(s) \/ TaskReturn(s) \/ TaskFail(s)
=============================================================================
