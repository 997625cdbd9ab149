--------------------------- MODULE MessageQueueActor ---------------------------
(***************************************************************************)
(* The queue actor under concurrent calls: a producer, a set of getters    *)
(* blocked in get_sample's condition wait, clear_queue and shutdown.  The  *)
(* k-th sample put is the number k.  A getter notified by notify_all       *)
(* re-acquires the lock later and re-tests the loop condition, so another  *)
(* getter may have taken the sample first.                                 *)
(***************************************************************************)
EXTENDS MessageQueue, FiniteSets

CONSTANTS
  Getters,   \* concurrent get_sample calls
  MaxPuts    \* bound: number of put_sample calls

ASSUME MaxPutsAssumption == MaxPuts \in Nat

VARIABLES
  getter,     \* where each get_sample call is
  delivered,  \* samples returned, in the order they left the queue
  cleared     \* samples removed by clear_queue (the code only logs it)

vars == <<queue, mqRunning, totalProduced, totalConsumed, droppedSamples,
          getter, delivered, cleared>>

GetterStates == {"idle", "waiting", "notified", "none"}

Init ==
  /\ MQInit
  /\ getter = [g \in Getters |-> "idle"]
  /\ delivered = <<>>
  /\ cleared = 0

\* Mutation: the waiters are not notified.
Mut_NotifyNobody == UNCHANGED getter

\* notify_all wakes every getter in the condition wait.
NotifyAll ==
  getter' = [g \in Getters |-> IF getter[g] = "waiting" THEN "notified"
                               ELSE getter[g]]

Put ==
  /\ totalProduced < MaxPuts
  /\ PutSample(totalProduced + 1)
  /\ NotifyAll
  /\ UNCHANGED <<delivered, cleared>>

GetReturns(g) ==
  /\ getter[g] \in {"idle", "notified"}
  /\ TakeSample
  /\ delivered' = Append(delivered, Head(queue))
  /\ getter' = [getter EXCEPT ![g] = "idle"]
  /\ UNCHANGED cleared

GetWaits(g) ==
  /\ getter[g] \in {"idle", "notified"}
  /\ MustWait
  /\ getter' = [getter EXCEPT ![g] = "waiting"]
  /\ UNCHANGED <<mqVars, delivered, cleared>>

GetReturnsNone(g) ==
  /\ getter[g] \in {"idle", "notified"}
  /\ ClosedAndEmpty
  /\ getter' = [getter EXCEPT ![g] = "none"]
  /\ UNCHANGED <<mqVars, delivered, cleared>>

Clear ==
  /\ queue # <<>>
  /\ ClearQueue
  /\ cleared' = cleared + Len(queue)
  /\ UNCHANGED <<getter, delivered>>

Close ==
  /\ mqRunning
  /\ Shutdown
  /\ NotifyAll
  /\ UNCHANGED <<delivered, cleared>>

Get(g) == GetReturns(g) \/ GetWaits(g) \/ GetReturnsNone(g)

Next == Put \/ Clear \/ Close \/ \E g \in Getters : Get(g)

\* The event loop resumes every runnable coroutine; nothing obliges a
\* client to put, clear or shut down.
Fairness == \A g \in Getters : WF_vars(Get(g))

Spec == Init /\ [][Next]_vars

FairSpec == Spec /\ Fairness

-----------------------------------------------------------------------------
TypeOK ==
  /\ queue \in Seq(Nat)
  /\ Len(queue) <= MaxQueueSize
  /\ mqRunning \in BOOLEAN
  /\ totalProduced \in Nat
  /\ totalConsumed \in Nat
  /\ droppedSamples \in Nat
  /\ cleared \in Nat
  /\ delivered \in Seq(Nat)
  /\ getter \in [Getters -> GetterStates]

\* No missed wake-up: a getter still in the condition wait has nothing to
\* wake for, the queue is empty and open (put_sample and shutdown notify
\* everyone, and a woken getter re-tests both conditions).
NoMissedWakeup ==
  \A g \in Getters : getter[g] = "waiting" => MustWait

\* Every sample put is accounted for: it was returned, dropped from a full
\* queue, cleared, or is still queued (the counters of get_statistics).
Conservation ==
  totalProduced = totalConsumed + droppedSamples + cleared + Len(queue)

\* The queue holds the newest samples put, consecutive and in order.
QueueIsWindow ==
  /\ Len(queue) <= totalProduced
  /\ \A i \in 1 .. Len(queue) : queue[i] = totalProduced - Len(queue) + i

\* The queue delivers in order and loses only from its old end (put_sample's
\* popleft), which is what LossyFifo promises.
Fifo == INSTANCE LossyFifo WITH
  Capacity <- MaxQueueSize,
  sent <- totalProduced,
  first <- totalProduced - Len(queue)

ImplementsLossyFifo == Fifo!Spec

\* After shutdown no getter stays blocked: it returns a remaining sample or
\* None (shutdown's notify_all and get_sample's loop condition).
ShutdownReleasesGetters ==
  \A g \in Getters :
    (~mqRunning /\ getter[g] = "waiting") ~> (getter[g] \in {"idle", "none"})
=============================================================================
