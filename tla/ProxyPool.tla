------------------------------ MODULE ProxyPool ------------------------------
(***************************************************************************)
(* The proxy pool of the crawler (src/sahabino/crawler/infrastructure/     *)
(* proxy/): the health of each endpoint, the leases of the application     *)
(* contexts and the rotation between endpoints, one step per critical      *)
(* section.  A lease is known by its egress; time is reduced to whether    *)
(* the cooldown of an endpoint has elapsed.  A pool without endpoints and  *)
(* with direct fallback is the NoProxyProvider.                            *)
(***************************************************************************)
EXTENDS Naturals

CONSTANTS
    Contexts,           \* application contexts
    Count,              \* number of endpoints
    ProxyThreshold,     \* failure_threshold
    DirectFallback      \* direct_fallback

ASSUME PoolAssumption ==
    /\ Count \in Nat
    /\ ProxyThreshold \in Nat \ {0}
    /\ DirectFallback \in BOOLEAN

Proxies == 1 .. Count
Direct == 0
Egress == Proxies \cup {Direct}
NoLease == Count + 1

VARIABLES
    endpoint,       \* ProxyEndpoint of each proxy
    next,           \* _next_index, as the proxy it points at
    leases          \* _leases: the egress of the live lease of each context

poolVars == <<endpoint, next, leases>>

PoolType ==
    /\ endpoint \in [Proxies -> [state : {"healthy", "cooldown", "unhealthy"},
                                 failures : Nat,
                                 cooled : BOOLEAN]]
    /\ next \in 1 .. Count + 1
    /\ leases \in [Contexts -> Egress \cup {NoLease}]

Fresh == [state |-> "healthy", failures |-> 0, cooled |-> FALSE]

PoolInit ==
    /\ endpoint = [p \in Proxies |-> Fresh]
    /\ next = 1
    /\ leases = [c \in Contexts |-> NoLease]

-----------------------------------------------------------------------------
(* ProxyEndpoint.                                                          *)

usable(p) ==
    \/ endpoint[p].state = "healthy"
    \/ endpoint[p].state = "cooldown" /\ endpoint[p].cooled

(* usable() turns an endpoint whose cooldown has elapsed healthy again. *)
Revived(p) ==
    IF usable(p) /\ endpoint[p].state = "cooldown" THEN Fresh ELSE endpoint[p]

Succeeded(e) == IF e.state = "unhealthy" THEN e ELSE Fresh

Cooling(e) ==
    IF e.state = "unhealthy" THEN e
    ELSE [e EXCEPT !.state = "cooldown", !.cooled = FALSE]

(* record_failure; at the threshold the endpoint cools down. *)
Failed(e) ==
    LET counted == [e EXCEPT !.failures = @ + 1]
    IN  IF e.state = "unhealthy" THEN e
        ELSE IF counted.failures < ProxyThreshold THEN counted ELSE Cooling(counted)

ReachesThreshold(e) == e.state # "unhealthy" /\ e.failures + 1 >= ProxyThreshold

-----------------------------------------------------------------------------
(* ProxyPool and its providers; lease is the caller's egress.              *)

Candidates(excluded) == {p \in Proxies \ {excluded} : usable(p)}

(* Distance of p from _next_index in the round of _select. *)
Offset(p) == (p + Count - next) % Count

_select(excluded) ==
    CHOOSE p \in Candidates(excluded) :
        \A q \in Candidates(excluded) : Offset(p) <= Offset(q)

(* acquire gives context c a new lease of egress g: the next usable        *)
(* endpoint, or the direct egress.  (A context that has a live lease would *)
(* get it back; its only owner has released it before it acquires again.)  *)
acquire(c, excluded, g) ==
    \/ /\ Candidates(excluded) # {}
       /\ g = _select(excluded)
       /\ endpoint' = [endpoint EXCEPT ![g] = Revived(g)]
       /\ next' = (g % Count) + 1
       /\ leases' = [leases EXCEPT ![c] = g]
    \/ /\ Candidates(excluded) = {}
       /\ DirectFallback
       /\ g = Direct
       /\ leases' = [leases EXCEPT ![c] = g]
       /\ UNCHANGED <<endpoint, next>>

(* acquire raises ProxyUnavailable. *)
acquire_raises(excluded) == Candidates(excluded) = {} /\ ~DirectFallback

(* rotate: the lease is released, and another endpoint is acquired; when   *)
(* there is none the release stands.                                       *)
rotate(c, lease, g) == acquire(c, lease, g)

rotate_raises(c, lease) ==
    /\ acquire_raises(lease)
    /\ leases' = [leases EXCEPT ![c] = NoLease]
    /\ UNCHANGED <<endpoint, next>>

release(c) ==
    /\ leases' = [leases EXCEPT ![c] = NoLease]
    /\ UNCHANGED <<endpoint, next>>

(* record_success, record_failure, start_cooldown, mark_unhealthy: the     *)
(* endpoint of the lease becomes e; a direct lease has none.               *)
Update(lease, e) ==
    /\ endpoint' = [p \in Proxies |-> IF p = lease THEN e ELSE endpoint[p]]
    /\ UNCHANGED <<next, leases>>

(* The cooldown of an endpoint elapses. *)
proxy_cools(p) ==
    /\ endpoint[p].state = "cooldown"
    /\ ~endpoint[p].cooled
    /\ endpoint' = [endpoint EXCEPT ![p].cooled = TRUE]
    /\ UNCHANGED <<next, leases>>

=============================================================================
