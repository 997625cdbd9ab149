----------------------------- MODULE LoadBalancer -----------------------------
(***************************************************************************)
(* GlobalRequestLoadBalancer (experimental/agent_loop/agent_loop.py): one  *)
(* actor shared by every agent loop worker.  It counts the requests in     *)
(* flight on each server and remembers, in an LRU cache, which server a    *)
(* request was sent to.  The actor runs one call at a time, so a call is   *)
(* one atomic operation.                                                   *)
(***************************************************************************)
EXTENDS Integers, SequencesExt

CONSTANTS
  NumServers,    \* server_actor_ids, numbered in the order of the list
  Requests,      \* request ids
  MaxCacheSize   \* max_cache_size

ASSUME LoadBalancerAssumption ==
  NumServers \in Nat \ {0} /\ MaxCacheSize \in Nat \ {0}

Server == 1 .. NumServers

VARIABLES
  inflight,   \* _inflight_requests
  routes      \* _request_id_to_server: <<request, server>>, oldest use first

lbVars == <<inflight, routes>>

LBInit == inflight = [s \in Server |-> 0] /\ routes = <<>>

Cached(r) == \E i \in 1 .. Len(routes) : routes[i][1] = r
Position(r) == CHOOSE i \in 1 .. Len(routes) : routes[i][1] = r
RouteOf(r) == routes[Position(r)][2]

\* min() over a dictionary: the first server among the least loaded.
LeastLoaded ==
  CHOOSE s \in Server : \A t \in Server :
    inflight[s] < inflight[t] \/ (inflight[s] = inflight[t] /\ s <= t)

\* Mutation: no sticky session.
Mut_NotSticky(r) == LeastLoaded

Choice(r) == IF Cached(r) THEN RouteOf(r) ELSE LeastLoaded

Others(r) == IF Cached(r) THEN RemoveAt(routes, Position(r)) ELSE routes

\* A use of the cache makes the request its most recent one; a new request
\* evicts the oldest when the cache is full (cachetools.LRUCache).
Used(r, s) ==
  Append(IF Len(Others(r)) = MaxCacheSize THEN Tail(Others(r)) ELSE Others(r),
         <<r, s>>)

\* Mutation: a request that finds its server in the cache is not counted.
Mut_StickyUncounted(r, s) ==
  /\ s = Choice(r)
  /\ inflight' = IF Cached(r) THEN inflight ELSE [inflight EXCEPT ![s] = @ + 1]
  /\ routes' = Used(r, s)

AcquireServer(r, s) ==
  /\ s = Choice(r)
  /\ inflight' = [inflight EXCEPT ![s] = @ + 1]
  /\ routes' = Used(r, s)

\* release_server raises when the count is zero, and changes nothing.
ReleaseServer(s) ==
  /\ inflight' = [inflight EXCEPT ![s] = IF @ > 0 THEN @ - 1 ELSE 0]
  /\ UNCHANGED routes
=============================================================================
