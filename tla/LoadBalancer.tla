---------------------------- MODULE LoadBalancer ----------------------------
(***************************************************************************)
(* The Ray actor GlobalRequestLoadBalancer of                              *)
(* verl/experimental/agent_loop/agent_loop.py.  Both handlers run to       *)
(* completion, so each is one action; PartialRollout composes them.        *)
(***************************************************************************)
EXTENDS Integers, Sequences, FiniteSets

CONSTANTS
    Requests,       \* request ids: one per call of generate
    ServerCount,    \* len(server_actor_ids)
    CacheSize       \* DEFAULT_ROUTING_CACHE_SIZE (10000)

ASSUME LoadBalancerAssumption ==
    /\ IsFiniteSet(Requests)
    /\ {ServerCount, CacheSize} \subseteq Nat \ {0}

Servers == 1..ServerCount       \* in the order of server_actor_ids

VARIABLES
    inflight,       \* _inflight_requests
    routes          \* _request_id_to_server: LRU cache, next victim first

balancerVars == <<inflight, routes>>

BalancerInit == inflight = [s \in Servers |-> 0] /\ routes = <<>>

\* min(self._inflight_requests, key=...): the first one of the least loaded.
LeastLoaded ==
    CHOOSE s \in Servers : \A t \in Servers :
        inflight[s] < inflight[t] \/ (inflight[s] = inflight[t] /\ s <= t)

Routed(r) == \E i \in 1..Len(routes) : routes[i].request = r

RouteOf(r) == (CHOOSE route \in {routes[i] : i \in 1..Len(routes)} : route.request = r).server

\* Reading or storing an entry of the LRU cache makes it the last victim.
Remember(r, s) ==
    LET others == SelectSeq(routes, LAMBDA route : route.request # r)
    IN  Append(IF Len(others) = CacheSize THEN Tail(others) ELSE others,
               [request |-> r, server |-> s])

\* acquire_server(request_id), which answers s.
AcquireStickyUncounted(r, s) ==
    /\ s = IF Routed(r) THEN RouteOf(r) ELSE LeastLoaded
    /\ routes' = Remember(r, s)
    /\ inflight' = IF Routed(r) THEN inflight ELSE [inflight EXCEPT ![s] = @ + 1]

AcquireServer(r, s) ==
    /\ s = IF Routed(r) THEN RouteOf(r) ELSE LeastLoaded
    /\ routes' = Remember(r, s)
    /\ inflight' = [inflight EXCEPT ![s] = @ + 1]

\* release_server(server_id); it raises when nothing is in flight there.
ReleaseServer(s) ==
    /\ inflight' = IF inflight[s] <= 0 THEN inflight ELSE [inflight EXCEPT ![s] = @ - 1]
    /\ UNCHANGED routes

=============================================================================
