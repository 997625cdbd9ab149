------------------------- MODULE MessageQueue_proofs -------------------------
(***************************************************************************)
(* Proofs about the queue actor, for every capacity, number of puts and    *)
(* set of getters: type correctness, no missed wake-up, conservation of    *)
(* samples, and that the actor implements the lossy FIFO of LossyFifo.     *)
(***************************************************************************)
EXTENDS MessageQueueActor, TLAPS

(* The steps of the queue actor, one by one.                               *)
LEMMA NextCases ==
  ASSUME Next
  PROVE  Put \/ Clear \/ Close \/ (\E g \in Getters : GetReturns(g))
           \/ (\E g \in Getters : GetWaits(g) \/ GetReturnsNone(g))
BY DEF Next, Get

(* What put_sample does to the deque: bounded, one longer or the same      *)
(* length, and shifted by one exactly when it was full.                    *)
LEMMA PutShape ==
  ASSUME TypeOK, NEW x \in Nat, PutSample(x)
  PROVE  /\ queue' \in Seq(Nat)
         /\ Len(queue') = IF QueueFull THEN Len(queue) ELSE Len(queue) + 1
         /\ Len(queue') <= MaxQueueSize
         /\ queue'[Len(queue')] = x
         /\ \A i \in 1 .. Len(queue') - 1 :
              queue'[i] = IF QueueFull THEN queue[i + 1] ELSE queue[i]
<1> USE MaxQueueSizeAssumption
<1>1. CASE QueueFull
  <2>1. queue # <<>> /\ Len(queue) = MaxQueueSize
    BY <1>1 DEF QueueFull, TypeOK
  <2>2. /\ Tail(queue) \in Seq(Nat)
        /\ Len(Tail(queue)) = Len(queue) - 1
        /\ \A i \in 1 .. Len(queue) - 1 : Tail(queue)[i] = queue[i + 1]
    BY <2>1 DEF TypeOK
  <2>3. queue' = Append(Tail(queue), x)
    BY <1>1 DEF PutSample
  <2> QED
    BY <1>1, <2>1, <2>2, <2>3
<1>2. CASE ~QueueFull
  <2>1. queue' = Append(queue, x) /\ Len(queue) < MaxQueueSize
    BY <1>2 DEF PutSample, QueueFull, TypeOK
  <2> QED
    BY <1>2, <2>1 DEF TypeOK
<1> QED
  BY <1>1, <1>2

(* What get_sample does to the deque.                                      *)
LEMMA TakeShape ==
  ASSUME TypeOK, TakeSample
  PROVE  /\ queue' \in Seq(Nat)
         /\ Len(queue) > 0
         /\ Len(queue') = Len(queue) - 1
         /\ Head(queue) \in Nat
         /\ Head(queue) = queue[1]
         /\ \A i \in 1 .. Len(queue') : queue'[i] = queue[i + 1]
BY DEF TypeOK, TakeSample

(* Type correctness: the queue never exceeds max_queue_size.               *)
THEOREM TypeCorrect == Spec => []TypeOK
<1>1. Init => TypeOK
  BY MaxQueueSizeAssumption DEF Init, MQInit, TypeOK, GetterStates
<1>2. TypeOK /\ [Next]_vars => TypeOK'
  <2> SUFFICES ASSUME TypeOK, [Next]_vars PROVE TypeOK'
    OBVIOUS
  <2>1. CASE Put
    <3>1. totalProduced + 1 \in Nat /\ PutSample(totalProduced + 1)
      BY <2>1 DEF Put, TypeOK
    <3>2. queue' \in Seq(Nat) /\ Len(queue') <= MaxQueueSize
      BY <3>1, PutShape
    <3>3. getter' \in [Getters -> GetterStates]
      BY <2>1 DEF Put, NotifyAll, TypeOK, GetterStates
    <3> QED
      BY <2>1, <3>1, <3>2, <3>3 DEF Put, PutSample, TypeOK
  <2>2. CASE Clear
    BY <2>2, MaxQueueSizeAssumption DEF Clear, ClearQueue, TypeOK
  <2>3. CASE Close
    BY <2>3 DEF Close, Shutdown, NotifyAll, TypeOK, GetterStates
  <2>4. CASE \E g \in Getters : GetReturns(g)
    <3>1. PICK g \in Getters : GetReturns(g)
      BY <2>4
    <3>2. TakeSample
      BY <3>1 DEF GetReturns
    <3>3. /\ queue' \in Seq(Nat) /\ Len(queue') = Len(queue) - 1
          /\ Head(queue) \in Nat
      BY <3>2, TakeShape
    <3>4. delivered' \in Seq(Nat) /\ Len(queue') <= MaxQueueSize
      BY <3>1, <3>3, MaxQueueSizeAssumption DEF GetReturns, TypeOK
    <3>5. getter' \in [Getters -> GetterStates]
      BY <3>1 DEF GetReturns, TypeOK, GetterStates
    <3> QED
      BY <3>1, <3>2, <3>3, <3>4, <3>5 DEF GetReturns, TakeSample, TypeOK
  <2>5. CASE \E g \in Getters : GetWaits(g) \/ GetReturnsNone(g)
    BY <2>5 DEF GetWaits, GetReturnsNone, mqVars, TypeOK, GetterStates
  <2>6. CASE UNCHANGED vars
    BY <2>6 DEF vars, TypeOK
  <2> QED
    BY <2>1, <2>2, <2>3, <2>4, <2>5, <2>6, NextCases
<1> QED
  BY <1>1, <1>2, PTL DEF Spec

(* A getter in the condition wait has nothing to wake for: put_sample and  *)
(* shutdown notify every waiter.                                           *)
THEOREM NoWakeupMissed == Spec => []NoMissedWakeup
<1>1. Init => NoMissedWakeup
  BY DEF Init, NoMissedWakeup
<1>2. TypeOK /\ NoMissedWakeup /\ [Next]_vars => NoMissedWakeup'
  <2> SUFFICES ASSUME TypeOK, NoMissedWakeup, [Next]_vars,
                      NEW h \in Getters, getter'[h] = "waiting"
               PROVE  MustWait'
    BY DEF NoMissedWakeup
  <2>1. CASE Put
    BY <2>1 DEF Put, NotifyAll, TypeOK
  <2>2. CASE Clear
    BY <2>2 DEF Clear, ClearQueue, NoMissedWakeup, MustWait
  <2>3. CASE Close
    BY <2>3 DEF Close, NotifyAll, TypeOK
  <2>4. CASE \E g \in Getters : GetReturns(g)
    <3>1. PICK g \in Getters : GetReturns(g)
      BY <2>4
    <3>2. getter[h] = "waiting"
      BY <3>1 DEF GetReturns, TypeOK
    <3> QED
      BY <3>1, <3>2 DEF GetReturns, TakeSample, NoMissedWakeup, MustWait
  <2>5. CASE \E g \in Getters : GetWaits(g) \/ GetReturnsNone(g)
    BY <2>5 DEF GetWaits, GetReturnsNone, mqVars, NoMissedWakeup, MustWait,
                TypeOK
  <2>6. CASE UNCHANGED vars
    BY <2>6 DEF vars, NoMissedWakeup, MustWait
  <2> QED
    BY <2>1, <2>2, <2>3, <2>4, <2>5, <2>6, NextCases
<1> QED
  BY <1>1, <1>2, TypeCorrect, PTL DEF Spec

(* No sample vanishes: produced = consumed + dropped + cleared + queued.   *)
THEOREM SamplesConserved == Spec => []Conservation
<1>1. Init => Conservation
  BY DEF Init, MQInit, Conservation
<1>2. TypeOK /\ Conservation /\ [Next]_vars => Conservation'
  <2> SUFFICES ASSUME TypeOK, Conservation, [Next]_vars PROVE Conservation'
    OBVIOUS
  <2> USE DEF TypeOK, Conservation
  <2>1. CASE Put
    <3>1. PutSample(totalProduced + 1) /\ cleared' = cleared
      BY <2>1 DEF Put
    <3>2. Len(queue') = IF QueueFull THEN Len(queue) ELSE Len(queue) + 1
      BY <3>1, PutShape
    <3>3. /\ droppedSamples' = droppedSamples + (IF QueueFull THEN 1 ELSE 0)
          /\ totalProduced' = totalProduced + 1
          /\ totalConsumed' = totalConsumed
      BY <3>1 DEF PutSample
    <3> HIDE DEF QueueFull
    <3>4. CASE QueueFull
      BY <3>1, <3>2, <3>3, <3>4
    <3>5. CASE ~QueueFull
      BY <3>1, <3>2, <3>3, <3>5
    <3> QED
      BY <3>4, <3>5
  <2>2. CASE Clear
    BY <2>2 DEF Clear, ClearQueue
  <2>3. CASE Close
    BY <2>3 DEF Close, Shutdown
  <2>4. CASE \E g \in Getters : GetReturns(g)
    <3>1. TakeSample /\ cleared' = cleared
      BY <2>4 DEF GetReturns
    <3>2. Len(queue') = Len(queue) - 1
      BY <3>1, TakeShape
    <3> QED
      BY <3>1, <3>2 DEF TakeSample
  <2>5. CASE \E g \in Getters : GetWaits(g) \/ GetReturnsNone(g)
    BY <2>5 DEF GetWaits, GetReturnsNone, mqVars
  <2>6. CASE UNCHANGED vars
    BY <2>6 DEF vars
  <2> QED
    BY <2>1, <2>2, <2>3, <2>4, <2>5, <2>6, NextCases
<1> QED
  BY <1>1, <1>2, TypeCorrect, PTL DEF Spec

(* The queue is the newest samples put, consecutive and in order.          *)
THEOREM QueueAlwaysWindow == Spec => []QueueIsWindow
<1>1. Init => QueueIsWindow
  BY DEF Init, MQInit, QueueIsWindow
<1>2. TypeOK /\ QueueIsWindow /\ [Next]_vars => QueueIsWindow'
  <2> SUFFICES ASSUME TypeOK, QueueIsWindow, [Next]_vars PROVE QueueIsWindow'
    OBVIOUS
  <2>1. CASE Put
    <3>1. PutSample(totalProduced + 1) /\ totalProduced' = totalProduced + 1
      BY <2>1 DEF Put, PutSample
    <3>2. totalProduced \in Nat /\ totalProduced + 1 \in Nat /\ Len(queue) \in Nat
      BY DEF TypeOK
    <3>3. /\ Len(queue') = IF QueueFull THEN Len(queue) ELSE Len(queue) + 1
          /\ queue'[Len(queue')] = totalProduced + 1
          /\ \A i \in 1 .. Len(queue') - 1 :
               queue'[i] = IF QueueFull THEN queue[i + 1] ELSE queue[i]
      BY <3>1, <3>2, PutShape
    <3>4. CASE QueueFull
      <4>1. Len(queue') = Len(queue) /\ totalProduced' = totalProduced + 1
        BY <3>1, <3>3, <3>4
      <4>2. Len(queue') <= totalProduced'
        BY <3>2, <4>1 DEF QueueIsWindow
      <4>3. ASSUME NEW i \in 1 .. Len(queue')
            PROVE  queue'[i] = totalProduced' - Len(queue') + i
        <5>1. CASE i = Len(queue')
          <6>1. queue'[i] = totalProduced + 1
            BY <3>3, <5>1
          <6> QED
            BY <3>2, <4>1, <5>1, <6>1
        <5>2. CASE i # Len(queue')
          <6>1. i \in 1 .. Len(queue') - 1 /\ i + 1 \in 1 .. Len(queue)
            BY <3>2, <4>1, <5>2
          <6>2. queue'[i] = queue[i + 1]
            BY <3>3, <3>4, <6>1
          <6> QED
            BY <3>2, <4>1, <6>1, <6>2 DEF QueueIsWindow
        <5> QED
          BY <5>1, <5>2
      <4> QED
        BY <4>2, <4>3 DEF QueueIsWindow
    <3>5. CASE ~QueueFull
      BY <3>1, <3>2, <3>3, <3>5 DEF QueueIsWindow
    <3> QED
      BY <3>4, <3>5
  <2>2. CASE Clear
    BY <2>2 DEF Clear, ClearQueue, QueueIsWindow, TypeOK
  <2>3. CASE Close
    BY <2>3 DEF Close, Shutdown, QueueIsWindow
  <2>4. CASE \E g \in Getters : GetReturns(g)
    <3>1. TakeSample /\ totalProduced' = totalProduced
      BY <2>4 DEF GetReturns, TakeSample
    <3>2. /\ Len(queue) > 0
          /\ Len(queue') = Len(queue) - 1
          /\ \A i \in 1 .. Len(queue') : queue'[i] = queue[i + 1]
      BY <3>1, TakeShape
    <3>3. totalProduced \in Nat /\ Len(queue) \in Nat
      BY DEF TypeOK
    <3> QED
      BY <3>1, <3>2, <3>3 DEF QueueIsWindow
  <2>5. CASE \E g \in Getters : GetWaits(g) \/ GetReturnsNone(g)
    BY <2>5 DEF GetWaits, GetReturnsNone, mqVars, QueueIsWindow
  <2>6. CASE UNCHANGED vars
    BY <2>6 DEF vars, QueueIsWindow
  <2> QED
    BY <2>1, <2>2, <2>3, <2>4, <2>5, <2>6, NextCases
<1> QED
  BY <1>1, <1>2, TypeCorrect, PTL DEF Spec

(* The actor implements the lossy FIFO: put is Send, a returned sample is  *)
(* Deliver, clear_queue is Discard, everything else a stutter.             *)
THEOREM Refinement == Spec => ImplementsLossyFifo
<1>1. Init => Fifo!Init
  <2> SUFFICES ASSUME Init PROVE Fifo!Init
    OBVIOUS
  <2>1. totalProduced = 0 /\ Len(queue) = 0 /\ delivered = <<>>
    BY DEF Init, MQInit
  <2> QED
    BY <2>1 DEF Fifo!Init
<1>2. TypeOK /\ QueueIsWindow /\ [Next]_vars => [Fifo!Next]_(Fifo!vars)
  <2> SUFFICES ASSUME TypeOK, QueueIsWindow, [Next]_vars
               PROVE  [Fifo!Next]_(Fifo!vars)
    OBVIOUS
  <2> USE DEF TypeOK, Fifo!vars
  <2>1. CASE Put
    <3>1. /\ PutSample(totalProduced + 1)
          /\ totalProduced' = totalProduced + 1
          /\ delivered' = delivered
      BY <2>1 DEF Put, PutSample
    <3>2. Len(queue') = IF QueueFull THEN Len(queue) ELSE Len(queue) + 1
      BY <3>1, PutShape
    <3>3. QueueFull <=> totalProduced - (totalProduced - Len(queue)) = MaxQueueSize
      BY MaxQueueSizeAssumption DEF QueueFull
    <3>4. CASE QueueFull
      <4>1. Fifo!Send
        BY <3>1, <3>2, <3>3, <3>4 DEF Fifo!Send
      <4> QED
        BY <4>1 DEF Fifo!Next
    <3>5. CASE ~QueueFull
      <4>1. totalProduced' - Len(queue') = totalProduced - Len(queue)
        BY <3>1, <3>2, <3>5
      <4>2. totalProduced - (totalProduced - Len(queue)) # MaxQueueSize
        BY <3>3, <3>5
      <4>3. Fifo!Send
        BY <3>1, <4>1, <4>2 DEF Fifo!Send
      <4> QED
        BY <4>3 DEF Fifo!Next
    <3> QED
      BY <3>4, <3>5
  <2>2. CASE Clear
    <3>1. Fifo!Discard
      BY <2>2 DEF Clear, ClearQueue, Fifo!Discard
    <3> QED
      BY <3>1 DEF Fifo!Next
  <2>3. CASE Close
    BY <2>3 DEF Close, Shutdown
  <2>4. CASE \E g \in Getters : GetReturns(g)
    <3>1. /\ TakeSample
          /\ totalProduced' = totalProduced
          /\ delivered' = Append(delivered, Head(queue))
      BY <2>4 DEF GetReturns, TakeSample
    <3>2. /\ Len(queue) > 0
          /\ Len(queue') = Len(queue) - 1
          /\ Head(queue) = totalProduced - Len(queue) + 1
      BY <3>1, TakeShape DEF QueueIsWindow
    <3>3. Fifo!Deliver
      BY <3>1, <3>2 DEF Fifo!Deliver
    <3> QED
      BY <3>3 DEF Fifo!Next
  <2>5. CASE \E g \in Getters : GetWaits(g) \/ GetReturnsNone(g)
    BY <2>5 DEF GetWaits, GetReturnsNone, mqVars
  <2>6. CASE UNCHANGED vars
    BY <2>6 DEF vars
  <2> QED
    BY <2>1, <2>2, <2>3, <2>4, <2>5, <2>6, NextCases
<1> QED
  BY <1>1, <1>2, TypeCorrect, QueueAlwaysWindow, PTL
     DEF Spec, ImplementsLossyFifo, Fifo!Spec
=============================================================================
