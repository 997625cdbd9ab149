-------------------------- MODULE WeightSync_proofs --------------------------
(***************************************************************************)
(* Proofs about WeightSync, for any number of servers, requests, syncs and *)
(* failures, any length of a response and any size of the routing cache.   *)
(***************************************************************************)
EXTENDS WeightSync, FiniteSetTheorems, SequenceTheorems, TLAPS

USE LoadBalancerAssumption, WeightSyncAssumption

\* What is left of a sequence when one element is removed.
LEMMA Removal ==
  ASSUME NEW S, NEW q \in Seq(S), NEW i \in 1 .. Len(q)
  PROVE  /\ RemoveAt(q, i) \in Seq(S)
         /\ Len(RemoveAt(q, i)) = Len(q) - 1
         /\ \A j \in 1 .. Len(q) - 1 :
              RemoveAt(q, i)[j] = IF j < i THEN q[j] ELSE q[j + 1]
<1> DEFINE before == SubSeq(q, 1, i - 1)
           after == SubSeq(q, i + 1, Len(q))
<1>1. /\ before \in Seq(S) /\ Len(before) = i - 1
      /\ \A j \in 1 .. i - 1 : before[j] = q[j]
  OBVIOUS
<1>2. /\ after \in Seq(S) /\ Len(after) = Len(q) - i
      /\ \A j \in 1 .. Len(q) - i : after[j] = q[i + j]
  OBVIOUS
<1>3. RemoveAt(q, i) = before \o after
  BY DEF RemoveAt
<1> HIDE DEF before, after
<1>4. /\ before \o after \in Seq(S)
      /\ Len(before \o after) = Len(before) + Len(after)
      /\ \A j \in 1 .. Len(before) + Len(after) :
           (before \o after)[j] = IF j <= Len(before) THEN before[j]
                                  ELSE after[j - Len(before)]
  BY <1>1, <1>2, ConcatProperties
<1>n. Len(q) \in Nat
  OBVIOUS
<1>5. ASSUME NEW j \in 1 .. Len(q) - 1
      PROVE  (before \o after)[j] = IF j < i THEN q[j] ELSE q[j + 1]
  <2>1. CASE j < i
    <3>1. j \in 1 .. i - 1 /\ j \in 1 .. Len(before) + Len(after) /\ j <= Len(before)
      BY <1>n, <1>1, <1>2, <2>1
    <3> QED
      BY <1>1, <1>4, <2>1, <3>1
  <2>2. CASE ~(j < i)
    <3>1. j - (i - 1) \in 1 .. Len(q) - i /\ i + (j - (i - 1)) = j + 1
      BY <2>2
    <3>2. after[j - (i - 1)] = q[j + 1]
      BY <1>2, <3>1
    <3>3. j \in 1 .. Len(before) + Len(after) /\ ~(j <= Len(before))
      BY <1>n, <1>1, <1>2, <2>2
    <3>4. (before \o after)[j] = after[j - (i - 1)]
      BY <1>1, <1>4, <3>3
    <3> QED
      BY <1>n, <2>2, <3>2, <3>4
  <2> QED
    BY <2>1, <2>2
<1> QED
  BY <1>1, <1>2, <1>3, <1>4, <1>5

-----------------------------------------------------------------------------
(* The load balancer.                                                      *)

Routes == routes \in Seq(Requests \X Server) /\ Len(routes) <= MaxCacheSize

\* A request has one entry at most.
RoutesUnique ==
  \A i, j \in 1 .. Len(routes) : routes[i][1] = routes[j][1] => i = j

\* Entries of a request other than r are left where they are, and r's, if it
\* has one, is gone.
LEMMA OthersLeft ==
  ASSUME Routes, RoutesUnique, NEW r \in Requests
  PROVE  /\ Others(r) \in Seq(Requests \X Server) /\ Len(Others(r)) <= MaxCacheSize
         /\ \A i \in 1 .. Len(Others(r)) :
              /\ Others(r)[i][1] # r
              /\ \E j \in 1 .. Len(routes) : Others(r)[i] = routes[j]
         /\ \A i, j \in 1 .. Len(Others(r)) :
              Others(r)[i][1] = Others(r)[j][1] => i = j
<1>1. CASE ~Cached(r)
  BY <1>1 DEF Others, Cached, Routes, RoutesUnique
<1>2. CASE Cached(r)
  <2> DEFINE p == Position(r)
             left == RemoveAt(routes, p)
  <2>1. p \in 1 .. Len(routes) /\ routes[p][1] = r
    BY <1>2 DEF Cached, Position
  <2>2. Others(r) = left
    BY <1>2 DEF Others
  <2> HIDE DEF p
  <2>3. /\ left \in Seq(Requests \X Server) /\ Len(left) = Len(routes) - 1
        /\ \A j \in 1 .. Len(routes) - 1 :
             left[j] = IF j < p THEN routes[j] ELSE routes[j + 1]
    BY <2>1, Removal DEF Routes
  <2> HIDE DEF left
  <2> DEFINE old(j) == IF j < p THEN j ELSE j + 1
  <2>4. \A j \in 1 .. Len(left) :
          old(j) \in 1 .. Len(routes) /\ old(j) # p /\ left[j] = routes[old(j)]
    BY <2>1, <2>3 DEF Routes
  <2>5. \A i, j \in 1 .. Len(left) : old(i) = old(j) => i = j
    BY <2>1, <2>3
  <2> HIDE DEF old
  <2> QED
    BY <2>1, <2>2, <2>3, <2>4, <2>5, MaxCacheSize \in Nat DEF Routes, RoutesUnique
<1> QED
  BY <1>1, <1>2

\* A cache u that a use of server s by r may leave: r's one entry names s, and
\* the others were there before.
AfterUse(u, r, s) ==
  /\ u \in Seq(Requests \X Server)
  /\ Len(u) \in 1 .. MaxCacheSize
  /\ \A i \in 1 .. Len(u) :
       \/ u[i] = <<r, s>>
       \/ u[i][1] # r /\ \E j \in 1 .. Len(routes) : u[i] = routes[j]
  /\ \A i, j \in 1 .. Len(u) : u[i][1] = u[j][1] => i = j

\* The cache after a use: the request has the newest entry.
LEMMA UsedRoutes ==
  ASSUME Routes, RoutesUnique, NEW r \in Requests, NEW s \in Server
  PROVE  AfterUse(Used(r, s), r, s)
<1> DEFINE others == Others(r)
           kept == IF Len(others) = MaxCacheSize THEN Tail(others) ELSE others
           shift == IF Len(others) = MaxCacheSize THEN 1 ELSE 0
<1>1. /\ others \in Seq(Requests \X Server) /\ Len(others) <= MaxCacheSize
      /\ \A i \in 1 .. Len(others) :
           /\ others[i][1] # r
           /\ \E j \in 1 .. Len(routes) : others[i] = routes[j]
      /\ \A i, j \in 1 .. Len(others) : others[i][1] = others[j][1] => i = j
  BY OthersLeft
<1> HIDE DEF others
<1>2. /\ kept \in Seq(Requests \X Server)
      /\ Len(kept) = Len(others) - shift /\ Len(kept) < MaxCacheSize
      /\ \A i \in 1 .. Len(kept) :
           i + shift \in 1 .. Len(others) /\ kept[i] = others[i + shift]
  <2>1. CASE Len(others) = MaxCacheSize
    <3>1. others # <<>>
      BY <2>1, <1>1
    <3>2. /\ Tail(others) \in Seq(Requests \X Server)
          /\ Len(Tail(others)) = Len(others) - 1
          /\ \A i \in 1 .. Len(Tail(others)) : Tail(others)[i] = others[i + 1]
      BY <3>1, <1>1, HeadTailProperties
    <3> QED
      BY <2>1, <3>2, <1>1
  <2>2. CASE Len(others) # MaxCacheSize
    BY <2>2, <1>1
  <2> QED
    BY <2>1, <2>2
<1>3. Used(r, s) = Append(kept, <<r, s>>)
  BY DEF Used, others
<1>4. /\ \A i \in 1 .. Len(kept) :
           /\ kept[i][1] # r
           /\ \E j \in 1 .. Len(routes) : kept[i] = routes[j]
      /\ \A i, j \in 1 .. Len(kept) : kept[i][1] = kept[j][1] => i = j
  BY <1>1, <1>2
<1> HIDE DEF kept, shift
<1>5. /\ Append(kept, <<r, s>>) \in Seq(Requests \X Server)
      /\ Len(Append(kept, <<r, s>>)) = Len(kept) + 1
      /\ \A i \in 1 .. Len(kept) : Append(kept, <<r, s>>)[i] = kept[i]
      /\ Append(kept, <<r, s>>)[Len(kept) + 1] = <<r, s>>
  BY <1>2
<1> DEFINE used == Append(kept, <<r, s>>)
<1>6. ASSUME NEW i \in 1 .. Len(used)
      PROVE  \/ i = Len(used) /\ used[i] = <<r, s>> /\ used[i][1] = r
             \/ i \in 1 .. Len(kept) /\ used[i] = kept[i]
  BY <1>2, <1>5
<1> HIDE DEF used
<1>7. \A i \in 1 .. Len(used) :
        \/ used[i] = <<r, s>>
        \/ /\ used[i][1] # r
           /\ \E j \in 1 .. Len(routes) : used[i] = routes[j]
  BY <1>4, <1>6
<1>8. \A i, j \in 1 .. Len(used) : used[i][1] = used[j][1] => i = j
  BY <1>4, <1>6
<1>9. used \in Seq(Requests \X Server) /\ Len(used) \in 1 .. MaxCacheSize
  BY <1>2, <1>5 DEF used
<1>10. AfterUse(used, r, s)
  BY <1>7, <1>8, <1>9 DEF AfterUse
<1> QED
  BY <1>3, <1>10 DEF used

-----------------------------------------------------------------------------
(* Types, and the entries of the routing cache.                            *)

\* An entry is the server its request acquired last.
RoutesAt == \A i \in 1 .. Len(routes) : at[routes[i][1]] = routes[i][2]

RoutesInv == RoutesUnique /\ RoutesAt

ClientStates == {"send", "sent", "running", "replied", "returned", "failed"}

\* A request that has a server holds it until it releases it.
Busy(r) == client[r] \in {"sent", "running", "replied"}

Calls == \A r \in Requests : Busy(r) => at[r] \in Server /\ owed[r] = 0

\* The initial state has the types and no routes.
LEMMA InitTypeOK == Init => TypeOK /\ RoutesInv
<1> SUFFICES ASSUME Init PROVE TypeOK /\ RoutesInv
  OBVIOUS
<1>1. routes = <<>> /\ routes \in Seq(Requests \X Server) /\ Len(routes) = 0
  BY DEF Init, LBInit
<1>2. inflight \in [Server -> Nat]
  BY DEF Init, LBInit
<1>3. RoutesInv
  BY <1>1 DEF RoutesInv, RoutesUnique, RoutesAt
<1>4. TypeOK
  BY <1>1, <1>2 DEF Init, TypeOK, Unset
<1> QED
  BY <1>3, <1>4

\* A call of the load balancer leaves its variables in their types.
LEMMA AcquireTypes ==
  ASSUME TypeOK, RoutesInv, NEW r \in Requests, NEW s \in Server,
         AcquireServer(r, s), at' = [at EXCEPT ![r] = s]
  PROVE  /\ inflight' \in [Server -> Nat]
         /\ routes' \in Seq(Requests \X Server) /\ Len(routes') <= MaxCacheSize
         /\ RoutesInv'
<1>1. inflight' \in [Server -> Nat]
  BY DEF AcquireServer, TypeOK
<1>2. /\ routes' \in Seq(Requests \X Server)
      /\ Len(routes') \in 1 .. MaxCacheSize
      /\ \A i \in 1 .. Len(routes') :
           \/ routes'[i] = <<r, s>>
           \/ /\ routes'[i][1] # r
              /\ \E j \in 1 .. Len(routes) : routes'[i] = routes[j]
      /\ \A i, j \in 1 .. Len(routes') : routes'[i][1] = routes'[j][1] => i = j
  <2>1. Routes /\ RoutesUnique /\ routes' = Used(r, s)
    BY DEF AcquireServer, RoutesInv, Routes, TypeOK
  <2>2. AfterUse(Used(r, s), r, s)
    BY <2>1, UsedRoutes
  <2>3. AfterUse(routes', r, s)
    BY <2>1, <2>2
  <2> QED
    BY <2>3 DEF AfterUse
<1>3. ASSUME NEW i \in 1 .. Len(routes') PROVE at'[routes'[i][1]] = routes'[i][2]
  <2>1. CASE routes'[i] = <<r, s>>
    BY <2>1 DEF TypeOK
  <2>2. CASE routes'[i][1] # r /\ \E j \in 1 .. Len(routes) : routes'[i] = routes[j]
    <3>1. PICK j \in 1 .. Len(routes) : routes'[i] = routes[j]
      BY <2>2
    <3>2. at[routes[j][1]] = routes[j][2] /\ routes[j] \in Requests \X Server
      BY DEF RoutesInv, RoutesAt, TypeOK
    <3> QED
      BY <2>2, <3>1, <3>2 DEF TypeOK
  <2> QED
    BY <1>2, <2>1, <2>2
<1> QED
  BY <1>1, <1>2, <1>3 DEF RoutesInv, RoutesUnique, RoutesAt

\* Every step preserves types and routes.
LEMMA TypeStep ==
  TypeOK /\ RoutesInv /\ Calls /\ [Next]_vars => TypeOK' /\ RoutesInv'
<1> SUFFICES ASSUME TypeOK, RoutesInv, Calls, [Next]_vars PROVE TypeOK' /\ RoutesInv'
  OBVIOUS
<1>r. UNCHANGED <<routes, at>> => RoutesInv'
  BY DEF RoutesInv, RoutesUnique, RoutesAt
<1>1. ASSUME NEW r \in Requests, Acquire(r) PROVE TypeOK' /\ RoutesInv'
  <2>1. PICK s \in Server : AcquireServer(r, s) /\ at' = [at EXCEPT ![r] = s]
    BY <1>1 DEF Acquire
  <2>2. at' \in [Requests -> Server \cup {0}]
    BY <2>1 DEF TypeOK
  <2>3. client' \in [Requests -> ClientStates]
    BY <1>1 DEF Acquire, TypeOK, ClientStates
  <2> QED
    BY <1>1, <2>1, <2>2, <2>3, AcquireTypes
       DEF Acquire, TypeOK, ClientStates, syncVars, serverVars, replyVars, outputVars
<1>2. ASSUME NEW r \in Requests, Release(r) PROVE TypeOK' /\ RoutesInv'
  <2>1. owed[r] \in Server /\ owed' \in [Requests -> Server \cup {0}]
    BY <1>2 DEF Release, TypeOK
  <2>2. inflight' \in [Server -> Nat] /\ routes' = routes
    BY <1>2, <2>1 DEF Release, ReleaseServer, TypeOK
  <2> QED
    BY <1>2, <1>r, <2>1, <2>2
       DEF Release, TypeOK, syncVars, serverVars, replyVars, outputVars
<1>3. ASSUME NEW r \in Requests, Start(r) PROVE TypeOK' /\ RoutesInv'
  BY <1>3, <1>r DEF Start, TypeOK, lbVars, syncVars, serverVars, replyVars, outputVars
<1>4. ASSUME NEW r \in Requests, NEW last \in BOOLEAN, Token(r, last)
      PROVE  TypeOK' /\ RoutesInv'
  <2>1. weights[at[r]] \in Nat /\ label[at[r]] \in Nat
    BY <1>4 DEF Token, Calls, Busy, TypeOK
  <2>2. segment' \in [Requests -> Seq(Nat)]
    <3>1. Append(segment[r], weights[at[r]]) \in Seq(Nat)
      BY <2>1 DEF TypeOK
    <3> QED
      BY <1>4, <3>1 DEF Token, TypeOK
  <2>3. prefixes' \in [Server -> SUBSET Nat]
    BY <1>4, <2>1 DEF Token, TypeOK
  <2>4. /\ client' \in [Requests -> ClientStates]
        /\ stop' \in [Requests -> {"none", "completed", "aborted"}]
        /\ steps' \in [Requests -> Nat \cup {Unset}]
    BY <1>4, <2>1 DEF Token, TypeOK, ClientStates, replyVars
  <2> QED
    BY <1>4, <1>r, <2>2, <2>3, <2>4
       DEF Token, TypeOK, ClientStates, lbVars, syncVars, outputVars
<1>5. ASSUME NEW r \in Requests, Raise(r) PROVE TypeOK' /\ RoutesInv'
  BY <1>5, <1>r
     DEF Raise, TypeOK, lbVars, syncVars, serverVars, replyVars, outputVars
<1>6. ASSUME NEW r \in Requests, Merge(r) PROVE TypeOK' /\ RoutesInv'
  <2>1. tokens' \in [Requests -> Seq(Nat)] /\ segment' \in [Requests -> Seq(Nat)]
    <3>1. tokens[r] \o segment[r] \in Seq(Nat) /\ <<>> \in Seq(Nat)
      BY DEF TypeOK
    <3> QED
      BY <1>6, <3>1 DEF Merge, TypeOK
  <2>2. /\ owed' \in [Requests -> Server \cup {0}]
        /\ minSteps' \in [Requests -> Nat \cup {Unset}]
        /\ maxSteps' \in [Requests -> Nat \cup {Unset}]
        /\ client' \in [Requests -> ClientStates]
    BY <1>6 DEF Merge, TypeOK, ClientStates
  <2> QED
    BY <1>6, <1>r, <2>1, <2>2
       DEF Merge, TypeOK, ClientStates, lbVars, syncVars, serverVars, replyVars
<1>7. CASE BeginSync
  BY <1>7, <1>r DEF BeginSync, TypeOK, lbVars, serverVars, replyVars, outputVars
<1>8. ASSUME NEW s \in Server, AbortServer(s) PROVE TypeOK' /\ RoutesInv'
  <2>1. /\ client' \in [Requests -> ClientStates]
        /\ stop' \in [Requests -> {"none", "completed", "aborted"}]
        /\ steps' \in [Requests -> Nat \cup {Unset}]
    BY <1>8 DEF AbortServer, TypeOK, ClientStates
  <2>2. prefixes' \in [Server -> SUBSET Nat] /\ paused' \in SUBSET Server
        /\ stage' \in [Server -> {"serving", "aborted", "loaded", "cleared", "labelled"}]
    BY <1>8 DEF AbortServer, Advance, PauseEngine, ResetPrefixCache, TypeOK
  <2> QED
    BY <1>8, <1>r, <2>1, <2>2 DEF AbortServer, TypeOK, ClientStates, lbVars, outputVars
<1>9. ASSUME NEW s \in Server, LoadWeights(s) \/ ClearKvCache(s) \/ SetGlobalSteps(s)
      PROVE  TypeOK' /\ RoutesInv'
  <2> USE DEF LoadWeights, ClearKvCache, SetGlobalSteps
  <2>1. stage' \in [Server -> {"serving", "aborted", "loaded", "cleared", "labelled"}]
    <3>1. \E to \in {"loaded", "cleared", "labelled"} : stage' = [stage EXCEPT ![s] = to]
      BY <1>9 DEF Advance
    <3> QED
      BY <3>1 DEF TypeOK
  <2>2. weights' \in [Server -> Nat]
    BY <1>9 DEF TypeOK
  <2>3. label' \in [Server -> Nat]
    BY <1>9 DEF TypeOK
  <2>4. prefixes' \in [Server -> SUBSET Nat]
    BY <1>9 DEF ResetPrefixCache, TypeOK
  <2> QED
    BY <1>9, <1>r, <2>1, <2>2, <2>3, <2>4
       DEF TypeOK, lbVars, replyVars, outputVars
<1>10. ASSUME NEW s \in Server, ResumeGeneration(s) PROVE TypeOK' /\ RoutesInv'
  BY <1>10, <1>r DEF ResumeGeneration, Advance, TypeOK, lbVars, replyVars, outputVars
<1>11. CASE GatherDone
  <2>1. phase' \in {"idle", "load", "resume"}
    BY <1>11 DEF GatherDone, After, TypeOK
  <2> QED
    BY <1>11, <1>r, <2>1 DEF GatherDone, TypeOK, lbVars, serverVars, replyVars, outputVars
<1>12. CASE UNCHANGED vars
  BY <1>12, <1>r
     DEF vars, TypeOK, lbVars, syncVars, serverVars, replyVars, outputVars
<1> QED
  BY <1>1, <1>2, <1>3, <1>4, <1>5, <1>6, <1>7, <1>8, <1>9, <1>10, <1>11, <1>12
     DEF Next, SyncStep, Request

-----------------------------------------------------------------------------
(* The count of each server.                                               *)

\* The requests that count against a server are finitely many, although the
\* requests there are may not be.
CountInv ==
  \A s \in Server :
    /\ IsFiniteSet(Using(s)) /\ IsFiniteSet(Releasing(s))
    /\ inflight[s] = Cardinality(Using(s)) + Cardinality(Releasing(s))

\* At the start nobody calls and nothing is counted.
LEMMA InitCounts == Init => Calls /\ CountInv
<1> SUFFICES ASSUME Init PROVE Calls /\ CountInv
  OBVIOUS
<1>1. Calls
  BY DEF Init, Calls, Busy
<1>2. ASSUME NEW s \in Server
      PROVE  Using(s) = {} /\ Releasing(s) = {} /\ inflight[s] = 0
  BY DEF Init, LBInit, Using, Releasing, Server
<1> QED
  BY <1>1, <1>2, FS_EmptySet DEF CountInv

\* A request that is busy stays at its server, and owes no release.
LEMMA CallsStep == TypeOK /\ Calls /\ [Next]_vars => Calls'
<1> SUFFICES ASSUME TypeOK, Calls, [Next]_vars, NEW q \in Requests, Busy(q)'
             PROVE  at'[q] \in Server /\ owed'[q] = 0
  BY DEF Calls
<1> USE DEF Calls, Busy, TypeOK
<1>1. ASSUME NEW r \in Requests, Acquire(r) PROVE at'[q] \in Server /\ owed'[q] = 0
  BY <1>1 DEF Acquire
<1>2. ASSUME NEW r \in Requests, Release(r) PROVE at'[q] \in Server /\ owed'[q] = 0
  BY <1>2 DEF Release
<1>3. ASSUME NEW r \in Requests, Raise(r) \/ Merge(r)
      PROVE  at'[q] \in Server /\ owed'[q] = 0
  BY <1>3 DEF Raise, Merge
<1>4. ASSUME Busy(q), UNCHANGED <<at, owed>> PROVE at'[q] \in Server /\ owed'[q] = 0
  BY <1>4
<1>5. ASSUME NEW r \in Requests, Start(r) \/ \E last \in BOOLEAN : Token(r, last)
      PROVE  at'[q] \in Server /\ owed'[q] = 0
  BY <1>5 DEF Start, Token, replyVars
<1>6. ASSUME NEW s \in Server, AbortServer(s) PROVE at'[q] \in Server /\ owed'[q] = 0
  BY <1>6 DEF AbortServer, Running
<1> QED
  BY <1>1, <1>2, <1>3, <1>4, <1>5, <1>6
     DEF Next, SyncStep, Request, BeginSync, GatherDone, LoadWeights, ClearKvCache,
         SetGlobalSteps, ResumeGeneration, vars

\* Every step keeps the load balancer's counts those of its users.
LEMMA CountStep == TypeOK /\ Calls /\ CountInv /\ [Next]_vars => CountInv'
<1> SUFFICES ASSUME TypeOK, Calls, CountInv, [Next]_vars, NEW s \in Server
             PROVE  /\ IsFiniteSet(Using(s)') /\ IsFiniteSet(Releasing(s)')
                    /\ inflight'[s] = Cardinality(Using(s)') + Cardinality(Releasing(s)')
  BY DEF CountInv
<1>s. s # 0
  BY DEF Server
<1>i. /\ IsFiniteSet(Using(s)) /\ IsFiniteSet(Releasing(s))
      /\ inflight[s] = Cardinality(Using(s)) + Cardinality(Releasing(s))
      /\ Cardinality(Using(s)) \in Nat /\ Cardinality(Releasing(s)) \in Nat
  BY FS_CardinalityType DEF CountInv
<1>1. ASSUME NEW r \in Requests, Acquire(r)
      PROVE  /\ Releasing(s)' = Releasing(s)
             /\ \/ /\ r \notin Using(s) /\ Using(s)' = Using(s) \cup {r}
                   /\ inflight'[s] = inflight[s] + 1
                \/ Using(s)' = Using(s) /\ inflight'[s] = inflight[s]
  <2>1. PICK t \in Server : AcquireServer(r, t) /\ at' = [at EXCEPT ![r] = t]
    BY <1>1 DEF Acquire
  <2>2. Releasing(s)' = Releasing(s) /\ client[r] = "send" /\ r \notin Using(s)
    BY <1>1 DEF Acquire, Releasing, Using
  <2>3. Using(s)' = IF s = t THEN Using(s) \cup {r} ELSE Using(s)
    BY <1>1, <2>1 DEF Acquire, Using, TypeOK
  <2>4. inflight'[s] = IF s = t THEN inflight[s] + 1 ELSE inflight[s]
    BY <2>1 DEF AcquireServer, TypeOK
  <2> QED
    BY <2>2, <2>3, <2>4
<1>2. ASSUME NEW r \in Requests, Release(r)
      PROVE  /\ Using(s)' = Using(s)
             /\ \/ /\ r \in Releasing(s) /\ Releasing(s)' = Releasing(s) \ {r}
                   /\ inflight'[s] = IF inflight[s] > 0 THEN inflight[s] - 1 ELSE 0
                \/ Releasing(s)' = Releasing(s) /\ inflight'[s] = inflight[s]
  <2>1. Using(s)' = Using(s)
    BY <1>2 DEF Release, Using
  <2>2. Releasing(s)' = IF owed[r] = s THEN Releasing(s) \ {r} ELSE Releasing(s)
    <3>1. owed' = [owed EXCEPT ![r] = 0]
      BY <1>2 DEF Release
    <3>2. \A q \in Requests : owed'[q] = IF q = r THEN 0 ELSE owed[q]
      BY <3>1 DEF TypeOK
    <3> QED
      BY <1>s, <3>2 DEF Releasing
  <2>3. owed[r] = s => r \in Releasing(s)
    BY DEF Releasing
  <2>4. inflight'[s] = IF owed[r] # s THEN inflight[s]
                       ELSE IF inflight[s] > 0 THEN inflight[s] - 1 ELSE 0
    BY <1>2 DEF Release, ReleaseServer, TypeOK
  <2> QED
    BY <2>1, <2>2, <2>3, <2>4
<1>3. ASSUME NEW r \in Requests, Raise(r) \/ Merge(r)
      PROVE  /\ inflight' = inflight
             /\ \/ /\ r \in Using(s) /\ Using(s)' = Using(s) \ {r}
                   /\ r \notin Releasing(s) /\ Releasing(s)' = Releasing(s) \cup {r}
                \/ Using(s)' = Using(s) /\ Releasing(s)' = Releasing(s)
  <2>1. Busy(r) /\ at[r] \in Server /\ owed[r] = 0 /\ owed' = [owed EXCEPT ![r] = at[r]]
        /\ inflight' = inflight /\ at' = at
        /\ \E state \in ClientStates \ {"sent", "running", "replied"} :
             client' = [client EXCEPT ![r] = state]
    BY <1>3 DEF Raise, Merge, Busy, Calls, lbVars, ClientStates
  <2>2. Using(s)' = IF at[r] = s THEN Using(s) \ {r} ELSE Using(s)
    BY <2>1 DEF Using, TypeOK, ClientStates
  <2>3. Releasing(s)' = IF at[r] = s THEN Releasing(s) \cup {r} ELSE Releasing(s)
    <3>1. \A q \in Requests : owed'[q] = IF q = r THEN at[r] ELSE owed[q]
      BY <2>1 DEF TypeOK
    <3> QED
      BY <1>s, <2>1, <3>1 DEF Releasing
  <2>4. at[r] = s => r \in Using(s) /\ r \notin Releasing(s)
    BY <2>1 DEF Using, Releasing, Busy, Server
  <2> QED
    BY <2>1, <2>2, <2>3, <2>4
<1>4. ASSUME NEW r \in Requests, Start(r) \/ \E last \in BOOLEAN : Token(r, last)
      PROVE  UNCHANGED <<Using(s), Releasing(s), inflight>>
  <2>1. /\ Busy(r) /\ UNCHANGED <<at, owed, inflight>>
        /\ \E state \in {"sent", "running", "replied"} :
             client' = [client EXCEPT ![r] = state]
    BY <1>4 DEF Start, Token, Busy, lbVars, TypeOK, replyVars
  <2> QED
    BY <2>1 DEF Using, Releasing, Busy, TypeOK
<1>5. ASSUME NEW t \in Server, AbortServer(t)
      PROVE  UNCHANGED <<Using(s), Releasing(s), inflight>>
  BY <1>5 DEF AbortServer, Running, Using, Releasing, TypeOK, lbVars
<1>6. ASSUME UNCHANGED <<client, at, owed, inflight>>
      PROVE  UNCHANGED <<Using(s), Releasing(s), inflight>>
  BY <1>6 DEF Using, Releasing
<1>a. ASSUME NEW r \in Requests, Acquire(r)
      PROVE  /\ IsFiniteSet(Using(s)') /\ IsFiniteSet(Releasing(s)')
             /\ inflight'[s] = Cardinality(Using(s)') + Cardinality(Releasing(s)')
  BY <1>a, <1>1, <1>i, FS_AddElement
<1>b. ASSUME NEW r \in Requests, Release(r)
      PROVE  /\ IsFiniteSet(Using(s)') /\ IsFiniteSet(Releasing(s)')
             /\ inflight'[s] = Cardinality(Using(s)') + Cardinality(Releasing(s)')
  <2>1. r \in Releasing(s) => Cardinality(Releasing(s)) > 0
    BY <1>i, FS_EmptySet
  <2> QED
    <3>1. /\ IsFiniteSet(Releasing(s) \ {r})
          /\ r \in Releasing(s) =>
               Cardinality(Releasing(s) \ {r}) = Cardinality(Releasing(s)) - 1
      BY <1>i, FS_RemoveElement
    <3> QED
      BY <1>b, <1>2, <1>i, <2>1, <3>1
<1>c. ASSUME NEW r \in Requests, Raise(r) \/ Merge(r)
      PROVE  /\ IsFiniteSet(Using(s)') /\ IsFiniteSet(Releasing(s)')
             /\ inflight'[s] = Cardinality(Using(s)') + Cardinality(Releasing(s)')
  <2>1. /\ IsFiniteSet(Using(s) \ {r})
        /\ r \in Using(s) => Cardinality(Using(s) \ {r}) = Cardinality(Using(s)) - 1
    BY <1>i, FS_RemoveElement
  <2>2. /\ IsFiniteSet(Releasing(s) \cup {r})
        /\ r \notin Releasing(s) =>
             Cardinality(Releasing(s) \cup {r}) = Cardinality(Releasing(s)) + 1
    BY <1>i, FS_AddElement
  <2>3. inflight' = inflight
    BY <1>c, <1>3
  <2>4. CASE /\ r \in Using(s) /\ Using(s)' = Using(s) \ {r}
             /\ r \notin Releasing(s) /\ Releasing(s)' = Releasing(s) \cup {r}
    <3>1. /\ Cardinality(Using(s)') = Cardinality(Using(s)) - 1
          /\ Cardinality(Releasing(s)') = Cardinality(Releasing(s)) + 1
          /\ IsFiniteSet(Using(s)') /\ IsFiniteSet(Releasing(s)')
      BY <2>1, <2>2, <2>4
    <3> QED
      BY <1>i, <2>3, <3>1
  <2>5. CASE Using(s)' = Using(s) /\ Releasing(s)' = Releasing(s)
    BY <1>i, <2>3, <2>5
  <2> QED
    BY <1>c, <1>3, <2>4, <2>5
<1>d. ASSUME UNCHANGED <<Using(s), Releasing(s), inflight>>
      PROVE  /\ IsFiniteSet(Using(s)') /\ IsFiniteSet(Releasing(s)')
             /\ inflight'[s] = Cardinality(Using(s)') + Cardinality(Releasing(s)')
  BY <1>d, <1>i
<1>e. \/ \E r \in Requests : Acquire(r) \/ Release(r) \/ Raise(r) \/ Merge(r)
      \/ \E r \in Requests : Start(r) \/ \E last \in BOOLEAN : Token(r, last)
      \/ \E t \in Server : AbortServer(t)
      \/ UNCHANGED <<client, at, owed, inflight>>
  BY DEF Next, SyncStep, Request, BeginSync, GatherDone, LoadWeights, ClearKvCache,
         SetGlobalSteps, ResumeGeneration, vars, lbVars
<1> QED
  BY <1>a, <1>b, <1>c, <1>d, <1>e, <1>4, <1>5, <1>6

-----------------------------------------------------------------------------
TypeInv == TypeOK /\ RoutesInv /\ Calls

\* Types, routes and calls, in every state.
LEMMA Types == Spec => []TypeInv
<1>1. Init => TypeInv
  BY InitTypeOK, InitCounts DEF TypeInv
<1>2. TypeInv /\ [Next]_vars => TypeInv'
  BY TypeStep, CallsStep DEF TypeInv
<1> QED
  BY <1>1, <1>2, PTL DEF Spec

\* Every value stays in its type: in particular the routing cache keeps its
\* size and a server's count is never negative.
THEOREM TypeCorrect == Spec => []TypeOK
BY Types, PTL DEF TypeInv

\* The count of a server is the calls it has and the releases under way.
THEOREM CountsExact == Spec => []InflightExact
<1>1. Init => CountInv
  BY InitCounts
<1>2. TypeInv /\ CountInv /\ [Next]_vars => CountInv'
  BY CountStep DEF TypeInv
<1>3. CountInv => InflightExact
  BY DEF CountInv, InflightExact
<1> QED
  BY <1>1, <1>2, <1>3, Types, PTL DEF Spec

\* A request that is sent again while the cache still has its entry goes to
\* the server it had: the entry of a request is the server it acquired last.
THEOREM ResumeSticky == Spec => StickyResume
<1>1. ASSUME TypeInv, [Next]_vars, NEW r \in Requests,
             client[r] = "send", client'[r] = "sent", Cached(r)
      PROVE  at'[r] = at[r]
  <2>1. Acquire(r)
    <3>1. ASSUME NEW q \in Requests, Acquire(q) PROVE q = r
      BY <1>1, <3>1 DEF Acquire, TypeInv, TypeOK
    <3>2. ASSUME NEW q \in Requests,
                 Release(q) \/ Raise(q) \/ Start(q) \/ Merge(q)
          PROVE  FALSE
      BY <1>1, <3>2 DEF Release, Raise, Start, Merge, TypeInv, TypeOK
    <3>3. ASSUME NEW q \in Requests, NEW last \in BOOLEAN, Token(q, last)
          PROVE  FALSE
      BY <1>1, <3>3 DEF Token, TypeInv, TypeOK, replyVars
    <3>4. ASSUME NEW s \in Server, AbortServer(s) PROVE FALSE
      BY <1>1, <3>4 DEF AbortServer
    <3>5. client' # client
      BY <1>1
    <3> QED
      BY <1>1, <3>1, <3>2, <3>3, <3>4, <3>5
         DEF Next, SyncStep, Request, BeginSync, GatherDone, LoadWeights,
             ClearKvCache, SetGlobalSteps, ResumeGeneration, vars
  <2>2. Position(r) \in 1 .. Len(routes) /\ routes[Position(r)][1] = r
    BY <1>1 DEF Cached, Position
  <2>3. RouteOf(r) = at[r]
    BY <1>1, <2>2 DEF RouteOf, TypeInv, RoutesInv, RoutesAt
  <2> QED
    BY <1>1, <2>1, <2>3 DEF Acquire, AcquireServer, Choice, TypeInv, TypeOK
<1> QED
  <2>1. TypeInv /\ [Next]_vars =>
          [\A r \in Requests :
             client[r] = "send" /\ client'[r] = "sent" /\ Cached(r) => at'[r] = at[r]]_vars
    BY <1>1
  <2> QED
    BY <2>1, Types, PTL DEF Spec, StickyResume

-----------------------------------------------------------------------------
(* What one step does to one request.                                      *)

OutputKept(q) ==
  /\ tokens'[q] = tokens[q] /\ segment'[q] = segment[q]
  /\ minSteps'[q] = minSteps[q] /\ maxSteps'[q] = maxSteps[q]
ReplyKept(q) == stop'[q] = stop[q] /\ steps'[q] = steps[q]

\* Nothing, or a step of its client that generates nothing.
Moves(q) ==
  /\ OutputKept(q) /\ ReplyKept(q)
  /\ \/ client'[q] = client[q] /\ at'[q] = at[q]
     \/ client[q] = "send" /\ client'[q] = "sent"
     \/ client[q] = "sent" /\ client'[q] = "running" /\ at'[q] = at[q]
     \/ client'[q] = "failed" /\ client[q] \in {"sent", "running"}

\* The engine generates a token.
Generates(q) ==
  /\ client[q] = "running" /\ at'[q] = at[q] /\ weights' = weights
  /\ tokens'[q] = tokens[q]
  /\ minSteps'[q] = minSteps[q] /\ maxSteps'[q] = maxSteps[q]
  /\ segment'[q] = Append(segment[q], weights[at[q]])
  /\ \/ /\ client'[q] = "replied"
        /\ stop'[q] = "completed" /\ steps'[q] = label[at[q]]
     \/ /\ client'[q] = "running" /\ ReplyKept(q)
        /\ Len(segment'[q]) # Allowance(q)

Interrupted(q) ==
  /\ client[q] = "running" /\ client'[q] = "replied" /\ at'[q] = at[q]
  /\ OutputKept(q)
  /\ stop'[q] = "aborted" /\ steps'[q] = label[at[q]]

Merges(q) ==
  /\ client[q] = "replied" /\ ReplyKept(q) /\ at'[q] = at[q]
  /\ tokens'[q] = tokens[q] \o segment[q] /\ segment'[q] = <<>>
  /\ minSteps'[q] = IF minSteps[q] = Unset THEN steps[q] ELSE minSteps[q]
  /\ maxSteps'[q] = steps[q]
  /\ client'[q] = IF MustResend(q) THEN "send" ELSE "returned"

\* What one step does to one request.
LEMMA RequestStep ==
  ASSUME TypeInv, [Next]_vars, NEW q \in Requests
  PROVE  Moves(q) \/ Generates(q) \/ Interrupted(q) \/ Merges(q)
<1> DEFINE Done == Moves(q) \/ Generates(q) \/ Interrupted(q) \/ Merges(q)
<1> USE DEF TypeInv, TypeOK
<1>0. ASSUME UNCHANGED <<client, at, segment, replyVars, outputVars>> PROVE Done
  BY <1>0 DEF Moves, OutputKept, ReplyKept, replyVars, outputVars
<1>1. ASSUME NEW r \in Requests, Acquire(r) PROVE Done
  <2>1. UNCHANGED <<segment, replyVars, outputVars>> /\ client[r] = "send"
        /\ client' = [client EXCEPT ![r] = "sent"]
        /\ \E s \in Server : at' = [at EXCEPT ![r] = s]
    BY <1>1 DEF Acquire
  <2>2. q = r => client[q] = "send" /\ client'[q] = "sent"
    BY <2>1
  <2>3. q # r => client'[q] = client[q] /\ at'[q] = at[q]
    BY <2>1
  <2>4. OutputKept(q) /\ ReplyKept(q)
    BY <2>1 DEF OutputKept, ReplyKept, replyVars, outputVars
  <2> QED
    BY <2>2, <2>3, <2>4 DEF Moves
<1>2. ASSUME NEW r \in Requests, Release(r) PROVE Done
  BY <1>2, <1>0 DEF Release
<1>3. ASSUME NEW r \in Requests, Start(r) \/ Raise(r) PROVE Done
  <2>1. OutputKept(q) /\ ReplyKept(q) /\ at' = at
    BY <1>3 DEF Start, Raise, OutputKept, ReplyKept, replyVars, outputVars
  <2>2. q = r => \/ client[q] = "sent" /\ client'[q] = "running"
                 \/ client'[q] = "failed" /\ client[q] \in {"sent", "running"}
    BY <1>3 DEF Start, Raise
  <2>3. q # r => client'[q] = client[q]
    BY <1>3 DEF Start, Raise
  <2> QED
    BY <2>1, <2>2, <2>3 DEF Moves
<1>4. ASSUME NEW r \in Requests, NEW last \in BOOLEAN, Token(r, last) PROVE Done
  <2>1. UNCHANGED <<outputVars, at, weights>>
    BY <1>4 DEF Token
  <2>2. CASE q # r
    <3>1. segment'[q] = segment[q] /\ client'[q] = client[q] /\ ReplyKept(q)
      BY <1>4, <2>2 DEF Token, ReplyKept, replyVars
    <3> QED
      BY <2>1, <3>1 DEF Moves, OutputKept, outputVars
  <2>3. CASE q = r
    <3>1. client[q] = "running" /\ segment'[q] = Append(segment[q], weights[at[q]])
          /\ (Len(segment'[q]) = Allowance(q) => last)
      BY <1>4, <2>3 DEF Token
    <3>2. CASE last
      <4>1. client'[q] = "replied" /\ stop'[q] = "completed" /\ steps'[q] = label[at[q]]
        BY <1>4, <2>3, <3>2 DEF Token
      <4> QED
        BY <2>1, <3>1, <4>1 DEF Generates, outputVars
    <3>3. CASE ~last
      <4>1. client'[q] = "running" /\ ReplyKept(q)
        BY <1>4, <2>3, <3>1, <3>3 DEF Token, ReplyKept, replyVars
      <4> QED
        BY <2>1, <3>1, <3>3, <4>1 DEF Generates, outputVars
    <3> QED
      BY <3>2, <3>3
  <2> QED
    BY <2>2, <2>3
<1>5. ASSUME NEW r \in Requests, Merge(r) PROVE Done
  <2>1. UNCHANGED <<at, replyVars>>
    BY <1>5 DEF Merge
  <2>2. CASE q # r
    BY <1>5, <2>1, <2>2 DEF Merge, Moves, OutputKept, ReplyKept, replyVars
  <2>3. CASE q = r
    BY <1>5, <2>1, <2>3 DEF Merge, Merges, ReplyKept, replyVars
  <2> QED
    BY <2>2, <2>3
<1>6. ASSUME NEW s \in Server, AbortServer(s) PROVE Done
  <2>1. UNCHANGED <<at, segment, outputVars>>
    BY <1>6 DEF AbortServer
  <2>2. CASE q \in Running(s)
    BY <1>6, <2>1, <2>2 DEF AbortServer, Running, Interrupted, OutputKept, outputVars
  <2>3. CASE q \notin Running(s)
    BY <1>6, <2>1, <2>3 DEF AbortServer, Moves, OutputKept, ReplyKept, outputVars
  <2> QED
    BY <2>2, <2>3
<1> QED
  BY <1>0, <1>1, <1>2, <1>3, <1>4, <1>5, <1>6
     DEF Next, SyncStep, Request, BeginSync, GatherDone, LoadWeights, ClearKvCache,
         SetGlobalSteps, ResumeGeneration, vars

-----------------------------------------------------------------------------
(* The length of a response.                                               *)

Have(r) == Len(tokens[r])
Part(r) == Len(segment[r])

\* A call that is not complete has room for a token, so that a request the
\* sync aborted has one when it is sent again.
LengthOf(r) ==
  /\ Have(r) + Part(r) <= ResponseLength + PromptSlack
  /\ client[r] \in {"send", "sent"} => Part(r) = 0 /\ Allowance(r) > 0
  /\ client[r] = "running" => Part(r) < Allowance(r)
  /\ client[r] = "replied" =>
       /\ Part(r) <= Allowance(r)
       /\ stop[r] = "aborted" => Part(r) < Allowance(r)

Lengths == \A r \in Requests : LengthOf(r)

\* Lengths are numbers, and what the engine is still allowed.
LEMMA LengthTypes ==
  ASSUME TypeOK, NEW r \in Requests
  PROVE  /\ Have(r) \in Nat /\ Part(r) \in Nat
         /\ Allowance(r) = IF PromptSlack <= Have(r)
                           THEN ResponseLength + PromptSlack - Have(r)
                           ELSE ResponseLength
<1>1. tokens[r] \in Seq(Nat) /\ segment[r] \in Seq(Nat)
  BY DEF TypeOK
<1> QED
  BY <1>1 DEF Have, Part, Allowance

\* Every step keeps every request within its length.
LEMMA LengthStep == TypeInv /\ Lengths /\ [Next]_vars => Lengths'
<1> SUFFICES ASSUME TypeInv, Lengths, [Next]_vars, NEW q \in Requests
             PROVE  LengthOf(q)'
  BY DEF Lengths
<1>1. LengthOf(q) /\ TypeOK /\ TypeOK'
  BY TypeStep DEF Lengths, TypeInv
<1>2. /\ Have(q) \in Nat /\ Part(q) \in Nat
      /\ Allowance(q) = IF PromptSlack <= Have(q)
                        THEN ResponseLength + PromptSlack - Have(q)
                        ELSE ResponseLength
  BY <1>1, LengthTypes
<1>3. /\ Have(q)' \in Nat /\ Part(q)' \in Nat
      /\ Allowance(q)' = IF PromptSlack <= Have(q)'
                         THEN ResponseLength + PromptSlack - Have(q)'
                         ELSE ResponseLength
  <2>1. tokens'[q] \in Seq(Nat) /\ segment'[q] \in Seq(Nat)
    BY <1>1 DEF TypeOK
  <2> QED
    BY <2>1 DEF Have, Part, Allowance
<1>4. CASE Moves(q)
  <2>1. Have(q)' = Have(q) /\ Part(q)' = Part(q)
    BY <1>4 DEF Moves, OutputKept, Have, Part
  <2>2. /\ stop'[q] = stop[q]
        /\ \/ client'[q] = client[q]
           \/ client[q] = "send" /\ client'[q] = "sent"
           \/ client[q] = "sent" /\ client'[q] = "running"
           \/ client'[q] = "failed"
    BY <1>4 DEF Moves, ReplyKept
  <2> QED
    BY <1>1, <1>2, <1>3, <2>1, <2>2 DEF LengthOf
<1>5. CASE Generates(q)
  <2>1. Have(q)' = Have(q) /\ Part(q)' = Part(q) + 1
    <3>1. segment[q] \in Seq(Nat) /\ tokens'[q] = tokens[q]
          /\ segment'[q] = Append(segment[q], weights[at[q]])
      BY <1>1, <1>5 DEF Generates, TypeOK
    <3>2. Len(Append(segment[q], weights[at[q]])) = Len(segment[q]) + 1
      BY <3>1
    <3> QED
      BY <3>1, <3>2 DEF Have, Part
  <2>2. /\ client[q] = "running"
        /\ \/ client'[q] = "replied" /\ stop'[q] = "completed"
           \/ client'[q] = "running" /\ Part(q)' # Allowance(q)
    BY <1>5 DEF Generates, Part
  <2> QED
    BY <1>1, <1>2, <1>3, <2>1, <2>2 DEF LengthOf
<1>6. CASE Interrupted(q)
  <2>1. Have(q)' = Have(q) /\ Part(q)' = Part(q)
    BY <1>6 DEF Interrupted, OutputKept, Have, Part
  <2>2. client[q] = "running" /\ client'[q] = "replied"
    BY <1>6 DEF Interrupted
  <2> QED
    BY <1>1, <1>2, <1>3, <2>1, <2>2 DEF LengthOf
<1>7. CASE Merges(q)
  <2>1. Have(q)' = Have(q) + Part(q) /\ Part(q)' = 0
    <3>1. tokens[q] \in Seq(Nat) /\ segment[q] \in Seq(Nat)
          /\ tokens'[q] = tokens[q] \o segment[q] /\ segment'[q] = <<>>
      BY <1>1, <1>7 DEF Merges, TypeOK
    <3>2. Len(tokens[q] \o segment[q]) = Len(tokens[q]) + Len(segment[q])
      BY <3>1, ConcatProperties
    <3>3. Len(segment'[q]) = 0
      BY <3>1
    <3> QED
      BY <3>1, <3>2, <3>3 DEF Have, Part
  <2>2. /\ client[q] = "replied"
        /\ \/ client'[q] = "send" /\ stop[q] = "aborted"
           \/ client'[q] = "returned"
    BY <1>7 DEF Merges, MustResend
  <2> QED
    BY <1>1, <1>2, <1>3, <2>1, <2>2 DEF LengthOf
<1> QED
  BY <1>4, <1>5, <1>6, <1>7, RequestStep

\* However often a sync interrupts a response, it is at most PromptSlack
\* tokens longer than response_length, and a request that is sent again has
\* room for a token.
THEOREM ResponsesBounded == Spec => []ResponseBound
<1>1. Init => Lengths
  <2> SUFFICES ASSUME Init, NEW r \in Requests PROVE LengthOf(r)
    BY DEF Lengths
  <2>1. tokens[r] = <<>> /\ segment[r] = <<>> /\ client[r] = "send"
    BY DEF Init
  <2>2. Have(r) = 0 /\ Part(r) = 0
    BY <2>1 DEF Have, Part
  <2>3. Allowance(r) > 0
    BY <2>1 DEF Allowance
  <2> QED
    BY <2>1, <2>2, <2>3 DEF LengthOf
<1>2. Lengths => ResponseBound
  BY DEF Lengths, LengthOf, ResponseBound, Have, Part
<1> QED
  BY <1>1, <1>2, LengthStep, Types, PTL DEF Spec

\* What a reply says.
RepliesTrue ==
  \A r \in Requests :
    /\ client[r] = "replied" =>
         /\ stop[r] # "none"
         /\ stop[r] = "completed" => segment[r] # <<>>
    /\ stop[r] = "completed" => client[r] \in {"replied", "returned"}
    /\ client[r] = "returned" => segment[r] = <<>> /\ stop[r] # "none"

\* Every step keeps the replies true.
LEMMA ReplyStep == TypeInv /\ RepliesTrue /\ [Next]_vars => RepliesTrue'
<1> SUFFICES ASSUME TypeInv, RepliesTrue, [Next]_vars, NEW q \in Requests
             PROVE  (/\ client[q] = "replied" =>
                          /\ stop[q] # "none"
                          /\ stop[q] = "completed" => segment[q] # <<>>
                     /\ stop[q] = "completed" => client[q] \in {"replied", "returned"}
                     /\ client[q] = "returned" => segment[q] = <<>> /\ stop[q] # "none")'
  BY DEF RepliesTrue
<1>1. segment[q] \in Seq(Nat) /\ (client[q] = "running" => weights[at[q]] \in Nat)
  BY DEF TypeInv, TypeOK, Calls, Busy
<1>2. client[q] = "running" => Append(segment[q], weights[at[q]]) # <<>>
  BY <1>1
<1>3. CASE Moves(q)
  BY <1>3 DEF Moves, OutputKept, ReplyKept, RepliesTrue
<1>4. CASE Generates(q)
  BY <1>2, <1>4 DEF Generates, ReplyKept, RepliesTrue
<1>5. CASE Interrupted(q)
  BY <1>5 DEF Interrupted, RepliesTrue
<1>6. CASE Merges(q)
  BY <1>6 DEF Merges, MustResend, ReplyKept, RepliesTrue
<1> QED
  BY <1>3, <1>4, <1>5, <1>6, RequestStep

\* Replies are true in every state.
LEMMA Replies == Spec => []RepliesTrue
<1>1. Init => RepliesTrue
  BY DEF Init, RepliesTrue
<1> QED
  BY <1>1, ReplyStep, Types, PTL DEF Spec

\* With partial rollout, a response that is returned was completed, however
\* often it was aborted on the way.
THEOREM ResponsesComplete ==
  ASSUME PartialRollout PROVE Spec => []CompleteResponses
<1> DEFINE Whole == TypeInv /\ RepliesTrue /\ CompleteResponses
<1>1. Init => Whole
  <2>1. Init => CompleteResponses /\ RepliesTrue
    BY DEF Init, CompleteResponses, RepliesTrue
  <2> QED
    BY <2>1, InitTypeOK, InitCounts DEF TypeInv
<1>2. Whole /\ [Next]_vars => Whole'
  <2> SUFFICES ASSUME Whole, [Next]_vars PROVE Whole'
    OBVIOUS
  <2>1. TypeInv' /\ RepliesTrue'
    BY TypeStep, CallsStep, ReplyStep DEF TypeInv
  <2>2. ASSUME NEW q \in Requests, client'[q] = "returned" PROVE stop'[q] = "completed"
    <3>1. TypeOK /\ stop[q] \in {"none", "completed", "aborted"}
      BY DEF TypeInv, TypeOK
    <3>2. CASE Moves(q)
      BY <2>2, <3>2 DEF Moves, ReplyKept, CompleteResponses
    <3>3. CASE Merges(q)
      BY <2>2, <3>1, <3>3 DEF Merges, MustResend, ReplyKept, RepliesTrue
    <3> QED
      BY <2>2, <3>2, <3>3, RequestStep DEF Generates, Interrupted
  <2> QED
    BY <2>1, <2>2 DEF CompleteResponses
<1> QED
  BY <1>1, <1>2, PTL DEF Spec

-----------------------------------------------------------------------------
(* The stages of a sync.                                                   *)

\* The version the servers serve: a sync replaces it once all have loaded.
Current == IF phase \in {"abort", "load"} THEN version - 1 ELSE version

StagesOf ==
  [idle   |-> {"serving"},
   abort  |-> {"serving", "aborted"},
   load   |-> {"aborted", "loaded", "cleared", "labelled"},
   resume |-> {"labelled", "serving"}]

\* The weights and the label of a server are those its stage says.
ServerInv(s) ==
  /\ stage[s] \in StagesOf[phase]
  /\ weights[s] = IF stage[s] \in {"loaded", "cleared", "labelled"}
                  THEN version ELSE Current
  /\ label[s] = IF stage[s] = "labelled" THEN version ELSE Current

SyncInv == (phase # "idle" => version > 0) /\ \A s \in Server : ServerInv(s)

\* Every step keeps every server at the stage the synchronisation is in.
LEMMA SyncStepInv == TypeInv /\ SyncInv /\ [Next]_vars => SyncInv'
<1> SUFFICES ASSUME TypeInv, SyncInv, [Next]_vars PROVE SyncInv'
  OBVIOUS
<1>0. /\ version \in Nat /\ phase \in {"idle", "abort", "load", "resume"}
      /\ stage \in [Server -> {"serving", "aborted", "loaded", "cleared", "labelled"}]
      /\ weights \in [Server -> Nat] /\ label \in [Server -> Nat]
  BY DEF TypeInv, TypeOK
<1>1. ASSUME UNCHANGED <<version, phase, stage, weights, label>> PROVE SyncInv'
  BY <1>1 DEF SyncInv, ServerInv, Current
<1>2. CASE BeginSync
  <2>1. /\ phase = "idle" /\ version' = version + 1 /\ phase' = "abort"
        /\ UNCHANGED <<stage, weights, label>>
    BY <1>2 DEF BeginSync, serverVars
  <2>2. Current' = version /\ Current = version
    BY <1>0, <2>1 DEF Current
  <2>3. ASSUME NEW s \in Server PROVE ServerInv(s)'
    <3>1. ServerInv(s)
      BY DEF SyncInv
    <3>2. stage[s] = "serving"
      BY <2>1, <3>1 DEF ServerInv, StagesOf
    <3> QED
      BY <2>1, <2>2, <3>1, <3>2 DEF ServerInv, StagesOf
  <2> QED
    BY <1>0, <2>1, <2>3 DEF SyncInv
<1>3. CASE GatherDone
  <2>1. /\ phase # "idle" /\ \A s \in Server : stage[s] = Reached[phase]
        /\ phase' = After[phase] /\ UNCHANGED <<version, stage, weights, label>>
    BY <1>3 DEF GatherDone, serverVars
  <2>2. ASSUME NEW s \in Server PROVE ServerInv(s)'
    <3>1. ServerInv(s)
      BY DEF SyncInv
    <3> QED
      BY <1>0, <2>1, <3>1 DEF ServerInv, Current, StagesOf, Reached, After
  <2>3. version > 0
    BY <2>1 DEF SyncInv
  <2> QED
    BY <2>1, <2>2, <2>3 DEF SyncInv
<1>4. ASSUME NEW t \in Server,
             \/ AbortServer(t) \/ LoadWeights(t) \/ ClearKvCache(t)
             \/ SetGlobalSteps(t) \/ ResumeGeneration(t)
      PROVE  SyncInv'
  <2>1. version' = version /\ phase' = phase /\ Current' = Current
    BY <1>4 DEF AbortServer, LoadWeights, ClearKvCache, SetGlobalSteps,
                ResumeGeneration, Current
  <2>2. ASSUME NEW s \in Server PROVE ServerInv(s)'
    <3>1. ServerInv(s) /\ ServerInv(t)
      BY DEF SyncInv
    <3>2. CASE s # t
      <4>1. stage'[s] = stage[s] /\ weights'[s] = weights[s] /\ label'[s] = label[s]
        BY <1>0, <1>4, <3>2
           DEF AbortServer, LoadWeights, ClearKvCache, SetGlobalSteps,
               ResumeGeneration, Advance
      <4> QED
        BY <2>1, <3>1, <4>1 DEF ServerInv
    <3>3. CASE s = t
      <4>1. CASE AbortServer(t)
        BY <1>0, <2>1, <3>1, <3>3, <4>1 DEF AbortServer, Advance, ServerInv, StagesOf
      <4>2. CASE LoadWeights(t)
        BY <1>0, <2>1, <3>1, <3>3, <4>2 DEF LoadWeights, Advance, ServerInv, StagesOf
      <4>3. CASE ClearKvCache(t)
        BY <1>0, <2>1, <3>1, <3>3, <4>3 DEF ClearKvCache, Advance, ServerInv, StagesOf
      <4>4. CASE SetGlobalSteps(t)
        BY <1>0, <2>1, <3>1, <3>3, <4>4 DEF SetGlobalSteps, Advance, ServerInv, StagesOf
      <4>5. CASE ResumeGeneration(t)
        <5>1. Current = version
          BY <4>5 DEF ResumeGeneration, Current
        <5> QED
          BY <1>0, <2>1, <3>1, <3>3, <4>5, <5>1
             DEF ResumeGeneration, Advance, ServerInv, StagesOf
      <4> QED
        BY <1>4, <4>1, <4>2, <4>3, <4>4, <4>5
    <3> QED
      BY <3>2, <3>3
  <2> QED
    BY <2>1, <2>2 DEF SyncInv
<1> QED
  BY <1>1, <1>2, <1>3, <1>4
     DEF Next, SyncStep, Request, Acquire, Release, Start, Token, Raise, Merge,
         vars, syncVars, serverVars

\* The stages, in every state.
LEMMA Syncs == Spec => [](TypeInv /\ SyncInv)
<1>1. Init => SyncInv
  BY DEF Init, SyncInv, ServerInv, StagesOf, Current
<1> QED
  BY <1>1, SyncStepInv, Types, PTL DEF Spec

-----------------------------------------------------------------------------
(* The pause of the engines.                                               *)

\* A server of the sync is paused from the moment it has aborted: it runs no
\* request and has an empty cache until it resumes.
PauseOf(s) ==
  /\ s \in paused <=> stage[s] # "serving"
  /\ s \in paused => prefixes[s] = {}
  /\ prefixes[s] \subseteq {weights[s]}

PauseInv ==
  /\ \A s \in Server : PauseOf(s)
  /\ \A r \in Requests : client[r] = "running" => at[r] \notin paused

\* Every step keeps the paused servers empty and idle.
LEMMA PauseStep ==
  ASSUME EnginePauses PROVE TypeInv /\ PauseInv /\ [Next]_vars => PauseInv'
<1> SUFFICES ASSUME TypeInv, PauseInv, [Next]_vars PROVE PauseInv'
  OBVIOUS
<1>0. /\ paused \in SUBSET Server /\ prefixes \in [Server -> SUBSET Nat]
      /\ stage \in [Server -> {"serving", "aborted", "loaded", "cleared", "labelled"}]
      /\ weights \in [Server -> Nat]
      /\ client \in [Requests -> ClientStates]
      /\ at \in [Requests -> Server \cup {0}]
  BY DEF TypeInv, TypeOK, ClientStates
<1>1. ASSUME UNCHANGED <<stage, weights, paused, prefixes>>
      PROVE  \A s \in Server : PauseOf(s)'
  BY <1>1 DEF PauseInv, PauseOf
<1>2. ASSUME UNCHANGED <<client, at>>, paused' \subseteq paused
      PROVE  \A r \in Requests : client'[r] = "running" => at'[r] \notin paused'
  BY <1>2 DEF PauseInv
<1>3. ASSUME NEW r \in Requests,
             Acquire(r) \/ Release(r) \/ Start(r) \/ Raise(r) \/ Merge(r)
      PROVE  PauseInv'
  <2>1. UNCHANGED <<stage, weights, paused, prefixes>>
    BY <1>3 DEF Acquire, Release, Start, Raise, Merge, syncVars, serverVars
  <2>2. ASSUME NEW q \in Requests, client'[q] = "running" PROVE at'[q] \notin paused
    <3>1. CASE Acquire(r)
      BY <1>0, <2>2, <3>1 DEF Acquire, PauseInv
    <3>2. CASE Release(r)
      BY <2>2, <3>2 DEF Release, PauseInv
    <3>3. CASE Start(r)
      BY <1>0, <2>2, <3>3 DEF Start, PauseInv
    <3>4. CASE Raise(r)
      BY <1>0, <2>2, <3>4 DEF Raise, PauseInv
    <3>5. CASE Merge(r)
      BY <1>0, <2>2, <3>5 DEF Merge, PauseInv
    <3> QED
      BY <1>3, <3>1, <3>2, <3>3, <3>4, <3>5
  <2> QED
    BY <1>1, <2>1, <2>2 DEF PauseInv
<1>4. ASSUME NEW r \in Requests, NEW last \in BOOLEAN, Token(r, last) PROVE PauseInv'
  <2>1. /\ client[r] = "running" /\ at[r] \in Server /\ at[r] \notin paused
        /\ UNCHANGED <<stage, weights, paused, at>>
        /\ prefixes' = [prefixes EXCEPT ![at[r]] = @ \cup {weights[at[r]]}]
    BY <1>4 DEF Token, TypeInv, Calls, Busy, PauseInv, syncVars
  <2>2. \A q \in Requests : client'[q] = "running" => client[q] = "running"
    BY <1>0, <1>4 DEF Token, replyVars
  <2>3. ASSUME NEW s \in Server PROVE PauseOf(s)'
    <3>1. prefixes'[s] = IF s = at[r] THEN prefixes[s] \cup {weights[s]} ELSE prefixes[s]
      BY <1>0, <2>1
    <3> QED
      BY <2>1, <3>1 DEF PauseInv, PauseOf
  <2> QED
    BY <2>1, <2>2, <2>3 DEF PauseInv
<1>5. ASSUME NEW t \in Server, AbortServer(t) PROVE PauseInv'
  <2>1. /\ paused' = paused \cup {t} /\ prefixes' = [prefixes EXCEPT ![t] = {}]
        /\ stage' = [stage EXCEPT ![t] = "aborted"] /\ weights' = weights /\ at' = at
    BY <1>5 DEF AbortServer, PauseEngine, ResetPrefixCache, Advance
  <2>2. \A q \in Requests : client'[q] = "running" => client[q] = "running" /\ at[q] # t
    BY <1>0, <1>5 DEF AbortServer, Running
  <2>3. ASSUME NEW s \in Server PROVE PauseOf(s)'
    <3>1. /\ prefixes'[s] = IF s = t THEN {} ELSE prefixes[s]
          /\ stage'[s] = IF s = t THEN "aborted" ELSE stage[s]
      BY <1>0, <2>1
    <3> QED
      BY <2>1, <3>1 DEF PauseInv, PauseOf
  <2> QED
    BY <2>1, <2>2, <2>3 DEF PauseInv
<1>6. ASSUME NEW t \in Server,
             LoadWeights(t) \/ ClearKvCache(t) \/ SetGlobalSteps(t)
      PROVE  PauseInv'
  <2>1. UNCHANGED <<client, at, paused>>
    BY <1>6 DEF LoadWeights, ClearKvCache, SetGlobalSteps
  <2>2. /\ stage[t] # "serving"
        /\ \E to \in {"loaded", "cleared", "labelled"} : stage' = [stage EXCEPT ![t] = to]
        /\ weights' = weights \/ weights' = [weights EXCEPT ![t] = version]
        /\ prefixes' = prefixes \/ prefixes' = [prefixes EXCEPT ![t] = {}]
    BY <1>6 DEF LoadWeights, ClearKvCache, SetGlobalSteps, Advance, ResetPrefixCache
  <2>3. ASSUME NEW s \in Server PROVE PauseOf(s)'
    <3>1. CASE s # t
      <4>1. stage'[s] = stage[s] /\ weights'[s] = weights[s] /\ prefixes'[s] = prefixes[s]
        BY <1>0, <2>2, <3>1
      <4> QED
        BY <2>1, <4>1 DEF PauseInv, PauseOf
    <3>2. CASE s = t
      <4>1. stage'[s] # "serving" /\ (prefixes'[s] = prefixes[s] \/ prefixes'[s] = {})
        BY <1>0, <2>2, <3>2
      <4>2. s \in paused /\ prefixes[s] = {}
        BY <2>2, <3>2 DEF PauseInv, PauseOf
      <4> QED
        BY <2>1, <4>1, <4>2 DEF PauseOf
    <3> QED
      BY <3>1, <3>2
  <2> QED
    BY <1>2, <2>1, <2>3 DEF PauseInv
<1>7. ASSUME NEW t \in Server, ResumeGeneration(t) PROVE PauseInv'
  <2>1. /\ UNCHANGED <<client, at, weights, prefixes>> /\ paused' = paused \ {t}
        /\ stage' = [stage EXCEPT ![t] = "serving"]
    BY <1>7 DEF ResumeGeneration, Advance
  <2>2. ASSUME NEW s \in Server PROVE PauseOf(s)'
    <3>1. stage'[s] = IF s = t THEN "serving" ELSE stage[s]
      BY <1>0, <2>1
    <3> QED
      BY <2>1, <3>1 DEF PauseInv, PauseOf
  <2> QED
    BY <1>2, <2>1, <2>2 DEF PauseInv
<1>8. CASE UNCHANGED <<client, at, stage, weights, paused, prefixes>>
  BY <1>1, <1>2, <1>8 DEF PauseInv
<1> QED
  BY <1>3, <1>4, <1>5, <1>6, <1>7, <1>8
     DEF Next, SyncStep, Request, BeginSync, GatherDone, vars, syncVars, serverVars

\* With an engine that pauses, in every state.
LEMMA Pauses == ASSUME EnginePauses PROVE Spec => [](TypeInv /\ SyncInv /\ PauseInv)
<1>1. Init => PauseInv
  BY DEF Init, PauseInv, PauseOf
<1> QED
  BY <1>1, PauseStep, Syncs, PTL DEF Spec

\* With an engine that pauses, a request never runs on a server whose cache
\* holds a prefix computed with other weights than the server has.
THEOREM NoPrefixStale == ASSUME EnginePauses PROVE Spec => []NoStalePrefix
<1>1. PauseInv => NoStalePrefix
  BY DEF PauseInv, PauseOf, NoStalePrefix
<1> QED
  BY <1>1, Pauses, PTL

-----------------------------------------------------------------------------
(* The labels of a response.                                               *)

\* Every token of q was generated with a version from low to high.
Within(q, low, high) == \A i \in 1 .. Len(q) : low <= q[i] /\ q[i] <= high

\* Versions of no token are within any bounds.
LEMMA WithinEmpty == \A low, high : Within(<<>>, low, high)
BY DEF Within

\* One more token of the same version.
LEMMA WithinAppend ==
  ASSUME NEW q \in Seq(Nat), NEW v \in Nat, Within(q, v, v)
  PROVE  Within(Append(q, v), v, v)
<1>1. /\ Len(Append(q, v)) = Len(q) + 1
      /\ \A i \in 1 .. Len(q) : Append(q, v)[i] = q[i]
      /\ Append(q, v)[Len(q) + 1] = v
  OBVIOUS
<1>2. ASSUME NEW i \in 1 .. Len(Append(q, v))
      PROVE  v <= Append(q, v)[i] /\ Append(q, v)[i] <= v
  <2>1. i \in 1 .. Len(q) \/ i = Len(q) + 1
    BY <1>1
  <2> QED
    BY <1>1, <2>1 DEF Within
<1> QED
  BY <1>2 DEF Within

\* Tokens of a later version v after those of the versions low to high.
LEMMA WithinConcat ==
  ASSUME NEW p \in Seq(Nat), NEW q \in Seq(Nat), NEW low \in Int, NEW high \in Int,
         NEW v \in Int, low <= high, high <= v, Within(p, low, high), Within(q, v, v)
  PROVE  Within(p \o q, low, v)
<1>1. /\ p \o q \in Seq(Nat) /\ Len(p \o q) = Len(p) + Len(q)
      /\ \A i \in 1 .. Len(p) + Len(q) :
           (p \o q)[i] = IF i <= Len(p) THEN p[i] ELSE q[i - Len(p)]
  BY ConcatProperties
<1>2. Len(p) \in Nat /\ Len(q) \in Nat
  OBVIOUS
<1>3. ASSUME NEW i \in 1 .. Len(p) + Len(q)
      PROVE  low <= (p \o q)[i] /\ (p \o q)[i] <= v
  <2>1. CASE i <= Len(p)
    <3>1. i \in 1 .. Len(p) /\ p[i] \in Nat /\ (p \o q)[i] = p[i]
      BY <1>1, <1>2, <2>1
    <3>2. low <= p[i] /\ p[i] <= high
      BY <3>1 DEF Within
    <3> QED
      BY <3>1, <3>2
  <2>2. CASE ~(i <= Len(p))
    <3>1. /\ i - Len(p) \in 1 .. Len(q) /\ q[i - Len(p)] \in Nat
          /\ (p \o q)[i] = q[i - Len(p)]
      BY <1>1, <1>2, <2>2
    <3>2. v <= q[i - Len(p)] /\ q[i - Len(p)] <= v
      BY <3>1 DEF Within
    <3> QED
      BY <3>1, <3>2
  <2> QED
    BY <2>1, <2>2
<1> QED
  BY <1>1, <1>3 DEF Within

\* The last token of a response is the last of its last part.
LEMMA LastOfConcat ==
  ASSUME NEW p \in Seq(Nat), NEW q \in Seq(Nat), q # <<>>,
         NEW v \in Int, Within(q, v, v)
  PROVE  p \o q # <<>> /\ (p \o q)[Len(p \o q)] = v
<1>1. /\ p \o q \in Seq(Nat) /\ Len(p \o q) = Len(p) + Len(q)
      /\ \A i \in 1 .. Len(p) + Len(q) :
           (p \o q)[i] = IF i <= Len(p) THEN p[i] ELSE q[i - Len(p)]
  BY ConcatProperties
<1>2. Len(p) \in Nat /\ Len(q) \in Nat /\ Len(q) > 0
  OBVIOUS
<1>3. q[Len(q)] \in Nat /\ v <= q[Len(q)] /\ q[Len(q)] <= v
  BY <1>2 DEF Within
<1>4. (p \o q)[Len(p) + Len(q)] = q[Len(q)]
  <2>1. /\ Len(p) + Len(q) \in 1 .. Len(p) + Len(q)
        /\ ~(Len(p) + Len(q) <= Len(p)) /\ (Len(p) + Len(q)) - Len(p) = Len(q)
    BY <1>2
  <2> QED
    BY <1>1, <2>1
<1>5. Len(p \o q) > 0
  BY <1>1, <1>2
<1> QED
  BY <1>1, <1>3, <1>4, <1>5

LastIs(q, v) == q # <<>> /\ q[Len(q)] = v

LabelOf(r) ==
  /\ client[r] \in {"send", "sent"} => segment[r] = <<>>
  /\ client[r] = "running" => Within(segment[r], Current, Current)
  /\ client[r] = "replied" =>
       /\ steps[r] \in Nat /\ maxSteps[r] <= steps[r] /\ steps[r] <= Current
       /\ Within(segment[r], steps[r], steps[r])
  /\ maxSteps[r] <= Current /\ minSteps[r] <= maxSteps[r]
  /\ Within(tokens[r], minSteps[r], maxSteps[r])
  /\ minSteps[r] = Unset => tokens[r] = <<>>
  /\ client[r] = "returned" /\ stop[r] = "completed" => LastIs(tokens[r], maxSteps[r])

LabelInv == \A r \in Requests : LabelOf(r)

\* The version served never falls, and rises only while no request runs.
LEMMA CurrentStep ==
  ASSUME TypeInv, SyncInv, PauseInv, [Next]_vars
  PROVE  /\ Current \in Nat /\ Current' \in Nat /\ Current <= Current'
         /\ Current' # Current =>
              client' = client /\ \A r \in Requests : client[r] # "running"
<1>0. version \in Nat /\ phase \in {"idle", "abort", "load", "resume"}
      /\ (phase # "idle" => version > 0)
  BY DEF TypeInv, TypeOK, SyncInv
<1>1. CASE BeginSync
  BY <1>0, <1>1 DEF BeginSync, Current
<1>2. CASE GatherDone
  <2>1. CASE phase = "load"
    <3>1. \A s \in Server : stage[s] = "labelled"
      BY <1>2, <2>1 DEF GatherDone, Reached
    <3>2. \A s \in Server : s \in paused
      BY <3>1 DEF PauseInv, PauseOf
    <3>3. \A r \in Requests : client[r] # "running"
      BY <3>2 DEF PauseInv, TypeInv, Calls, Busy
    <3> QED
      BY <1>0, <1>2, <2>1, <3>3 DEF GatherDone, After, Current
  <2>2. CASE phase # "load"
    BY <1>0, <1>2, <2>2 DEF GatherDone, After, Current
  <2> QED
    BY <2>1, <2>2
<1>3. CASE UNCHANGED <<version, phase>>
  BY <1>0, <1>3 DEF Current
<1> QED
  BY <1>1, <1>2, <1>3
     DEF Next, SyncStep, AbortServer, LoadWeights, ClearKvCache, SetGlobalSteps,
         ResumeGeneration, Request, Acquire, Release, Start, Token, Raise, Merge,
         vars, syncVars

\* A running request generates with the version served.
LEMMA RunningCurrent ==
  ASSUME TypeInv, SyncInv, PauseInv, NEW r \in Requests, client[r] = "running"
  PROVE  weights[at[r]] = Current /\ label[at[r]] = Current
<1>1. at[r] \in Server /\ at[r] \notin paused
  BY DEF TypeInv, Calls, Busy, PauseInv
<1>2. stage[at[r]] = "serving"
  BY <1>1 DEF PauseInv, PauseOf
<1> QED
  BY <1>1, <1>2 DEF SyncInv, ServerInv

\* Every step keeps the labels of every request true.
LEMMA LabelStep ==
  TypeInv /\ RepliesTrue /\ SyncInv /\ PauseInv /\ LabelInv /\ [Next]_vars => LabelInv'
<1> SUFFICES ASSUME TypeInv, RepliesTrue, SyncInv, PauseInv, LabelInv, [Next]_vars,
                    NEW q \in Requests
             PROVE  LabelOf(q)'
  BY DEF LabelInv
<1>1. LabelOf(q)
  BY DEF LabelInv
<1>2. /\ tokens[q] \in Seq(Nat) /\ segment[q] \in Seq(Nat)
      /\ minSteps[q] \in Int /\ maxSteps[q] \in Int /\ steps[q] \in Int
      /\ (minSteps[q] # Unset => minSteps[q] \in Nat)
  BY DEF TypeInv, TypeOK, Unset
<1>3. /\ Current \in Nat /\ Current' \in Nat /\ Current <= Current'
      /\ client[q] = "running" => Current' = Current
      /\ client'[q] # client[q] => Current' = Current
  BY CurrentStep
<1>4. CASE Moves(q)
  <2>1. /\ tokens'[q] = tokens[q] /\ segment'[q] = segment[q]
        /\ minSteps'[q] = minSteps[q] /\ maxSteps'[q] = maxSteps[q]
        /\ stop'[q] = stop[q] /\ steps'[q] = steps[q]
    BY <1>4 DEF Moves, OutputKept, ReplyKept
  <2>2. \/ client'[q] = client[q]
        \/ client[q] = "send" /\ client'[q] = "sent"
        \/ client[q] = "sent" /\ client'[q] = "running"
        \/ client'[q] = "failed"
    BY <1>4 DEF Moves
  <2>3. client[q] = "sent" => Within(segment[q], Current', Current')
    BY <1>1, WithinEmpty DEF LabelOf
  <2>4. maxSteps'[q] <= Current' /\ (steps[q] <= Current => steps'[q] <= Current')
    BY <1>1, <1>2, <1>3, <2>1 DEF LabelOf
  <2> QED
    BY <1>1, <1>3, <2>1, <2>2, <2>3, <2>4 DEF LabelOf
<1>5. CASE Generates(q)
  <2>1. /\ client[q] = "running" /\ Current' = Current
        /\ segment'[q] = Append(segment[q], Current)
        /\ client'[q] = "replied" => steps'[q] = Current
        /\ client'[q] \in {"running", "replied"}
    BY <1>3, <1>5, RunningCurrent DEF Generates
  <2>2. Within(segment'[q], Current', Current')
    BY <1>1, <1>2, <1>3, <2>1, WithinAppend DEF LabelOf
  <2>3. /\ tokens'[q] = tokens[q]
        /\ minSteps'[q] = minSteps[q] /\ maxSteps'[q] = maxSteps[q]
    BY <1>5 DEF Generates
  <2> QED
    BY <1>1, <1>3, <2>1, <2>2, <2>3 DEF LabelOf
<1>6. CASE Interrupted(q)
  <2>1. /\ client[q] = "running" /\ client'[q] = "replied" /\ Current' = Current
        /\ steps'[q] = Current
    BY <1>3, <1>6, RunningCurrent DEF Interrupted
  <2>2. /\ tokens'[q] = tokens[q] /\ segment'[q] = segment[q]
        /\ minSteps'[q] = minSteps[q] /\ maxSteps'[q] = maxSteps[q]
    BY <1>6 DEF Interrupted, OutputKept
  <2> QED
    BY <1>1, <1>3, <2>1, <2>2 DEF LabelOf
<1>7. CASE Merges(q)
  <2>1. /\ client[q] = "replied" /\ stop'[q] = stop[q] /\ steps'[q] = steps[q]
        /\ tokens'[q] = tokens[q] \o segment[q] /\ segment'[q] = <<>>
        /\ minSteps'[q] = IF minSteps[q] = Unset THEN steps[q] ELSE minSteps[q]
        /\ maxSteps'[q] = steps[q]
        /\ client'[q] \in {"send", "returned"} /\ Current' = Current
    BY <1>3, <1>7 DEF Merges, ReplyKept
  <2>2. /\ steps[q] \in Nat /\ maxSteps[q] <= steps[q] /\ steps[q] <= Current
        /\ Within(segment[q], steps[q], steps[q])
        /\ minSteps[q] <= maxSteps[q] /\ Within(tokens[q], minSteps[q], maxSteps[q])
        /\ (minSteps[q] = Unset => tokens[q] = <<>>)
    BY <1>1, <2>1 DEF LabelOf
  <2>3. minSteps'[q] # Unset /\ minSteps'[q] <= maxSteps'[q]
    BY <1>2, <2>1, <2>2 DEF Unset
  <2>4. Within(tokens'[q], minSteps'[q], maxSteps'[q])
    <3>1. CASE minSteps[q] = Unset
      <4>1. tokens'[q] = segment[q]
        <5>1. <<>> \o segment[q] = segment[q]
          BY <1>2, ConcatEmptySeq
        <5> QED
          BY <2>1, <2>2, <3>1, <5>1
      <4> QED
        BY <2>1, <2>2, <3>1, <4>1
    <3>2. CASE minSteps[q] # Unset
      BY <1>2, <2>1, <2>2, <3>2, WithinConcat
    <3> QED
      BY <3>1, <3>2
  <2>5. stop'[q] = "completed" => LastIs(tokens'[q], maxSteps'[q])
    <3>1. stop[q] = "completed" => segment[q] # <<>>
      BY <2>1 DEF RepliesTrue
    <3>2. segment[q] # <<>> => LastIs(tokens[q] \o segment[q], steps[q])
      BY <1>2, <2>2, LastOfConcat DEF LastIs
    <3> QED
      BY <2>1, <3>1, <3>2
  <2> QED
    BY <1>3, <2>1, <2>2, <2>3, <2>4, <2>5 DEF LabelOf
<1> QED
  BY <1>4, <1>5, <1>6, <1>7, RequestStep

\* With an engine that pauses, a returned response is labelled truly: each of
\* its tokens is of a version from min_global_steps to max_global_steps, and
\* the last token of a completed one is of the latter.
THEOREM ResponsesLabelled == ASSUME EnginePauses PROVE Spec => []LabelsTrue
<1>1. Init => LabelInv
  <2> SUFFICES ASSUME Init, NEW r \in Requests PROVE LabelOf(r)
    BY DEF LabelInv
  <2>1. /\ client[r] = "send" /\ segment[r] = <<>> /\ tokens[r] = <<>>
        /\ minSteps[r] = -1 /\ maxSteps[r] = -1 /\ Current = 0
    BY DEF Init, Current, Unset
  <2> QED
    BY <2>1, WithinEmpty DEF LabelOf
<1>2. LabelInv => LabelsTrue
  BY DEF LabelInv, LabelOf, Within, LastIs, LabelsTrue
<1> QED
  BY <1>1, <1>2, LabelStep, Pauses, Replies, PTL DEF Spec

-----------------------------------------------------------------------------
(* A sync is one step to the responses.                                    *)

Returned == {r \in Requests : client[r] = "returned"}

\* Appending to the second part appends to the whole.
LEMMA ConcatAppend ==
  ASSUME NEW p \in Seq(Nat), NEW q \in Seq(Nat), NEW v \in Nat
  PROVE  p \o Append(q, v) = Append(p \o q, v)
BY ConcatProperties, AppendProperties

\* The version the servers serve, by phase.
LEMMA ServedIs ==
  ASSUME TypeInv, SyncInv
  PROVE  /\ version \in Nat
         /\ phase \in {"idle", "resume"} => Served = version
         /\ phase = "abort" => Served = version - 1 /\ version > 0
<1>1. 1 \in Server
  BY DEF Server
<1>2. phase \in {"idle", "resume"} => \A s \in Server : weights[s] = version
  BY DEF SyncInv, ServerInv, Current
<1>3. phase = "abort" => weights[1] = version - 1 /\ version > 0
  BY <1>1 DEF SyncInv, ServerInv, Current, StagesOf
<1>4. version \in Nat
  BY DEF TypeInv, TypeOK
<1> QED
  BY <1>1, <1>2, <1>3, <1>4 DEF Served

\* Only the load of the last server changes the version served.
LEMMA ServedStep ==
  ASSUME TypeInv, SyncInv, [Next]_vars, TypeInv', SyncInv'
  PROVE  \/ Served' = Served
         \/ Served' = Served + 1 /\ UNCHANGED <<client, tokens, segment>>
<1>0. version \in Nat /\ weights \in [Server -> Nat]
  BY DEF TypeInv, TypeOK
<1>1. CASE BeginSync
  <2>1. Served = version
    BY <1>1, ServedIs DEF BeginSync
  <2>2. \E s \in Server : weights'[s] # version'
    <3>1. 1 \in Server
      BY DEF Server
    <3>2. weights[1] = version
      BY <1>1, <3>1 DEF BeginSync, SyncInv, ServerInv, Current, StagesOf
    <3> QED
      BY <1>0, <1>1, <3>1, <3>2 DEF BeginSync, serverVars
  <2>3. Served' = version' - 1 /\ version' = version + 1
    BY <1>1, <2>2 DEF Served, BeginSync
  <2> QED
    BY <1>0, <2>1, <2>3
<1>2. ASSUME NEW t \in Server, LoadWeights(t)
      PROVE  \/ Served' = Served
             \/ Served' = Served + 1 /\ UNCHANGED <<client, tokens, segment>>
  <2>1. version' = version /\ UNCHANGED <<client, tokens, segment>>
    BY <1>2 DEF LoadWeights, outputVars
  <2>2. weights[t] # version
    BY <1>0, <1>2 DEF LoadWeights, Advance, SyncInv, ServerInv, Current
  <2>3. Served = version - 1
    BY <2>2 DEF Served
  <2>4. Served' = version \/ Served' = version - 1
    BY <2>1 DEF Served
  <2> QED
    BY <1>0, <2>1, <2>3, <2>4
<1>3. CASE UNCHANGED <<version, weights>>
  BY <1>3 DEF Served
<1> QED
  BY <1>1, <1>2, <1>3
     DEF Next, SyncStep, GatherDone, AbortServer, ClearKvCache, SetGlobalSteps,
         ResumeGeneration, Request, Acquire, Release, Start, Token, Raise, Merge,
         vars, syncVars, serverVars

\* A request runs on the version that is served.
LEMMA RunningServed ==
  ASSUME TypeInv, SyncInv, PauseInv, NEW r \in Requests, client[r] = "running"
  PROVE  weights[at[r]] = Served
<1>1. weights[at[r]] = Current
  BY RunningCurrent
<1>2. phase # "load"
  <2>1. at[r] \in Server /\ stage[at[r]] = "serving"
    BY DEF TypeInv, Calls, Busy, PauseInv, PauseOf
  <2> QED
    BY <2>1 DEF SyncInv, ServerInv, StagesOf
<1>3. phase \in {"idle", "abort", "load", "resume"}
  BY DEF TypeInv, TypeOK
<1> QED
  BY <1>1, <1>2, <1>3, ServedIs DEF Current

\* Every step is one of AtomicSync, or leaves its variables alone.
LEMMA AtomicStep ==
  ASSUME PartialRollout, TypeInv, TypeInv', RepliesTrue, SyncInv, SyncInv', PauseInv,
         [Next]_vars
  PROVE  Atomic!Next \/ UNCHANGED Atomic!vars
<1> DEFINE Response0 == [r \in Requests |-> tokens[r] \o segment[r]]
<1> USE DEF Atomic!Next, Atomic!vars
<1>1. ASSUME UNCHANGED <<tokens, segment>>, Returned' = Returned
      PROVE  Atomic!Next \/ UNCHANGED Atomic!vars
  <2>1. Response0' = Response0
    BY <1>1
  <2> QED
    BY <1>1, <2>1, ServedStep DEF Atomic!Sync, Returned
<1>0. /\ client \in [Requests -> ClientStates]
      /\ tokens \in [Requests -> Seq(Nat)] /\ segment \in [Requests -> Seq(Nat)]
  BY DEF TypeInv, TypeOK, ClientStates
<1>2. ASSUME NEW r \in Requests, Acquire(r) \/ Release(r) \/ Start(r) \/ Raise(r)
      PROVE  Atomic!Next \/ UNCHANGED Atomic!vars
  <2>1. UNCHANGED <<tokens, segment>>
    BY <1>2 DEF Acquire, Release, Start, Raise, outputVars
  <2>2. \/ client' = client
        \/ client[r] # "returned" /\ client' = [client EXCEPT ![r] = "sent"]
        \/ client[r] # "returned" /\ client' = [client EXCEPT ![r] = "running"]
        \/ client[r] # "returned" /\ client' = [client EXCEPT ![r] = "failed"]
    BY <1>2 DEF Acquire, Release, Start, Raise
  <2>3. Returned' = Returned
    BY <1>0, <2>2 DEF Returned
  <2> QED
    BY <1>1, <2>1, <2>3
<1>3. ASSUME NEW t \in Server, AbortServer(t) PROVE Atomic!Next \/ UNCHANGED Atomic!vars
  <2>1. UNCHANGED <<tokens, segment>>
    BY <1>3 DEF AbortServer, outputVars
  <2>2. Returned' = Returned
    BY <1>0, <1>3 DEF AbortServer, Returned, Running
  <2> QED
    BY <1>1, <2>1, <2>2
<1>4. ASSUME NEW r \in Requests, NEW last \in BOOLEAN, Token(r, last)
      PROVE  Atomic!Next
  <2>1. /\ client[r] = "running" /\ tokens' = tokens /\ weights[at[r]] \in Nat
        /\ segment' = [segment EXCEPT ![r] = Append(@, weights[at[r]])]
        /\ client' = client \/ client' = [client EXCEPT ![r] = "replied"]
        /\ UNCHANGED <<version, weights>>
    BY <1>4 DEF Token, TypeInv, TypeOK, Calls, Busy, outputVars, syncVars
  <2>2. weights[at[r]] = Served /\ Served' = Served
    BY <2>1, RunningServed DEF Served
  <2>3. r \notin Returned /\ Returned' = Returned
    BY <1>0, <2>1 DEF Returned
  <2>4. tokens[r] \o Append(segment[r], Served) = Append(tokens[r] \o segment[r], Served)
    BY <1>0, <2>1, <2>2, ConcatAppend
  <2>5. ASSUME NEW q \in Requests
        PROVE  tokens'[q] \o segment'[q] =
                 IF q = r THEN Append(tokens[q] \o segment[q], Served)
                 ELSE tokens[q] \o segment[q]
    BY <1>0, <2>1, <2>2, <2>4
  <2>6. Response0' = [Response0 EXCEPT ![r] = Append(@, Served)]
    BY <2>5
  <2>7. Atomic!Generate(r)
    BY <2>2, <2>3, <2>6 DEF Atomic!Generate, Returned
  <2> QED
    BY <2>7
<1>5. ASSUME NEW r \in Requests, Merge(r) PROVE Atomic!Next \/ UNCHANGED Atomic!vars
  <2>1. /\ client[r] = "replied"
        /\ tokens' = [tokens EXCEPT ![r] = @ \o segment[r]]
        /\ segment' = [segment EXCEPT ![r] = <<>>]
        /\ client' = [client EXCEPT ![r] = IF MustResend(r) THEN "send" ELSE "returned"]
        /\ UNCHANGED <<version, weights>>
    BY <1>5 DEF Merge, syncVars, serverVars
  <2>2. Served' = Served
    BY <2>1 DEF Served
  <2>3. ASSUME NEW q \in Requests
        PROVE  tokens'[q] \o segment'[q] = tokens[q] \o segment[q]
    <3>1. CASE q # r
      BY <1>0, <2>1, <3>1
    <3>2. CASE q = r
      <4>1. /\ tokens'[q] = tokens[q] \o segment[q] /\ segment'[q] = <<>>
            /\ tokens[q] \o segment[q] \in Seq(Nat)
        BY <1>0, <2>1, <3>2
      <4> QED
        BY <4>1, ConcatEmptySeq
    <3> QED
      BY <3>1, <3>2
  <2>4. Response0' = Response0
    BY <2>3
  <2>5. CASE MustResend(r)
    <3>1. Returned' = Returned
      BY <1>0, <2>1, <2>5 DEF Returned
    <3> QED
      BY <2>2, <2>4, <3>1 DEF Returned
  <2>6. CASE ~MustResend(r)
    <3>1. Returned' = Returned \cup {r}
      BY <1>0, <2>1, <2>6 DEF Returned
    <3>2. segment[r] # <<>>
      BY <2>1, <2>6 DEF MustResend, RepliesTrue, TypeInv, TypeOK
    <3>3. tokens[r] \o segment[r] # <<>>
      BY <1>0, <3>2, ConcatEqualIffEmpty
    <3>4. Atomic!Return(r)
      BY <2>2, <2>4, <3>1, <3>3 DEF Atomic!Return, Returned
    <3> QED
      BY <3>4
  <2> QED
    BY <2>5, <2>6
<1>6. CASE UNCHANGED <<client, tokens, segment>>
  BY <1>1, <1>6 DEF Returned
<1> QED
  BY <1>2, <1>3, <1>4, <1>5, <1>6
     DEF Next, SyncStep, BeginSync, GatherDone, LoadWeights, ClearKvCache,
         SetGlobalSteps, ResumeGeneration, Request, vars, outputVars

\* With an engine that pauses and partial rollout, a sync is one step to the
\* responses: AbortServer, LoadWeights of every server but the last and the
\* rest of it are stutters, a merge is a return or a stutter, and a token is
\* generated with the version served.
THEOREM SyncImplementsAtomic ==
  ASSUME EnginePauses, PartialRollout PROVE Spec => ImplementsAtomicSync
<1>1. Init => Atomic!Init
  <2> SUFFICES ASSUME Init PROVE Atomic!Init
    OBVIOUS
  <2>1. Served = 0
    BY DEF Init, Served
  <2>2. \A r \in Requests : tokens[r] \o segment[r] = <<>>
    BY ConcatEmptySeq DEF Init
  <2> QED
    BY <2>1, <2>2 DEF Atomic!Init, Init
<1>2. /\ TypeInv /\ TypeInv' /\ RepliesTrue /\ SyncInv /\ SyncInv' /\ PauseInv
      /\ [Next]_vars
      => [Atomic!Next]_Atomic!vars
  BY AtomicStep
<1> QED
  BY <1>1, <1>2, Pauses, Replies, PTL DEF Spec, ImplementsAtomicSync, Atomic!Spec
=============================================================================
