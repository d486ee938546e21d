----------------------------- MODULE CrawlClient -----------------------------
(***************************************************************************)
(* The resilient Play Store client: application contexts that share one    *)
(* circuit breaker, one proxy pool and one network policy.  Every context  *)
(* is opened, executes two operations (the details, then the reviews of an *)
(* application) with retries, rotation of the egress and a secondary       *)
(* adapter, and is closed; the next run opens it again.                    *)
(*                                                                         *)
(*   application/client.py             open_application, _execute, close   *)
(*   application/policies/*.py         retry, network and fallback policy  *)
(*   application/tasks.py              the hooks and what follows a result *)
(*                                                                         *)
(* Errors are the classes the policies tell apart.  A step ends where      *)
(* another thread can get in between: at a lock, a transaction, a request. *)
(***************************************************************************)
EXTENDS CircuitBreaker, ProxyPool

CONSTANTS
    Errors,         \* the kinds of errors that requests run into
    RotateAfter,    \* rate_limit_rotate_after
    MaxAttempts,    \* max_attempts of the retry policy
    MaxErrors,      \* bound on failed requests
    MaxHookFaults   \* bound on hooks whose transaction fails

ErrorKinds ==
    {"forbidden", "proxy_auth", "proxy_connection", "rate_limited", "timeout", "gateway",
     "upstream", "parse", "other"}

ASSUME ClientAssumption ==
    /\ Errors \subseteq ErrorKinds
    /\ RotateAfter \in Nat \ {0}
    /\ MaxAttempts \in Nat \ {0}
    /\ MaxErrors \in Nat
    /\ MaxHookFaults \in Nat

NoAdapter == Count + 1

Steps ==
    {"closed", "refresh", "admit", "begin", "request", "limited", "rotate", "check",
     "retry", "record", "secondary_retry", "secondary_begin", "secondary", "forget",
     "succeed", "ok", "failed", "close"}

TaskStatus == {"pending", "running", "retrying"}

VARIABLES
    limits,         \* _rate_limits of the network policy
    pc,             \* where the thread of each context is
    reviews,        \* whether it is at its second operation
    lease,          \* _lease: its egress
    released,       \* whether that lease has been released
    primary,        \* _primary: the egress of the adapter's transport
    refresh,        \* _refresh_egress_before_operation
    attempt,        \* attempt number of the primary
    token,          \* circuit_call_token
    error,          \* the error being handled
    task,           \* status of its current task, as the hooks leave it
    probe,          \* history: admitted as the probe of a half-open circuit
    errors,         \* failed requests so far
    hookFaults      \* failed hooks so far

egressVars == <<lease, released, primary, refresh>>
callVars == <<attempt, token, error, probe>>
vars == <<circuit, poolVars, limits, pc, reviews, egressVars, callVars, task,
          errors, hookFaults>>

TypeOK ==
    /\ CircuitType
    /\ PoolType
    /\ limits \in [Egress -> Nat]
    /\ pc \in [Contexts -> Steps]
    /\ reviews \in [Contexts -> BOOLEAN]
    /\ lease \in [Contexts -> Egress]
    /\ released \in [Contexts -> BOOLEAN]
    /\ primary \in [Contexts -> Egress \cup {NoAdapter}]
    /\ refresh \in [Contexts -> BOOLEAN]
    /\ attempt \in [Contexts -> 0 .. MaxAttempts]
    /\ token \in [Contexts -> Nat]
    /\ error \in [Contexts -> ErrorKinds \cup {"none", "proxy_unavailable"}]
    /\ task \in [Contexts -> TaskStatus]
    /\ probe \in [Contexts -> BOOLEAN]
    /\ errors \in Nat
    /\ hookFaults \in Nat

Init ==
    /\ CircuitInit
    /\ PoolInit
    /\ limits = [g \in Egress |-> 0]
    /\ pc = [c \in Contexts |-> "closed"]
    /\ reviews = [c \in Contexts |-> FALSE]
    /\ lease = [c \in Contexts |-> Direct]
    /\ released = [c \in Contexts |-> TRUE]
    /\ primary = [c \in Contexts |-> NoAdapter]
    /\ refresh = [c \in Contexts |-> FALSE]
    /\ attempt = [c \in Contexts |-> 0]
    /\ token = [c \in Contexts |-> 0]
    /\ error = [c \in Contexts |-> "none"]
    /\ task = [c \in Contexts |-> "pending"]
    /\ probe = [c \in Contexts |-> FALSE]
    /\ errors = 0
    /\ hookFaults = 0

-----------------------------------------------------------------------------
(* The policies.                                                           *)

(* RetryPolicy.is_retryable; 403 and 407 are when the egress was a proxy. *)
is_retryable(e, proxied) ==
    \/ e \in {"rate_limited", "timeout", "proxy_connection", "gateway", "upstream"}
    \/ e \in {"forbidden", "proxy_auth"} /\ proxied

(* Another attempt will follow, so the network policy may rotate. *)
WillRetry(c, e) == attempt[c] < MaxAttempts /\ is_retryable(e, lease[c] # Direct)

(* The relevance that record_failure gives an error. *)
Relevant(e, proxied) ==
    \/ e \in {"upstream", "gateway", "rate_limited"}
    \/ e \in {"forbidden", "timeout"} /\ ~proxied

(* AdapterFallbackPolicy, with the secondary enabled. *)
should_use_secondary(e) == e = "parse"

(* What handle_failure does to the endpoint of the lease. *)
Accounted(c, e) ==
    LET p == endpoint[lease[c]]
    IN  CASE e = "forbidden" -> Cooling(p)
          [] e = "proxy_auth" -> [p EXCEPT !.state = "unhealthy"]
          [] e \in {"proxy_connection", "timeout", "gateway"} -> Failed(p)
          [] OTHER -> p

(* Whether it asks for another egress. *)
WantsRotation(c, e) ==
    /\ lease[c] # Direct
    /\ \/ e \in {"forbidden", "proxy_auth"}
       \/ /\ e \in {"proxy_connection", "timeout", "gateway"}
          /\ ReachesThreshold(endpoint[lease[c]])

-----------------------------------------------------------------------------
(* The client.                                                             *)

Step(c, from, to) ==
    /\ pc[c] = from
    /\ pc' = [pc EXCEPT ![c] = to]

(* open_application: a lease, or ProxyUnavailable and nothing is opened. *)
open_application(c) ==
    /\ Step(c, "closed", "refresh")
    /\ \E g \in Egress :
         /\ acquire(c, NoLease, g)
         /\ lease' = [lease EXCEPT ![c] = g]
    /\ released' = [released EXCEPT ![c] = FALSE]
    /\ UNCHANGED <<circuit, limits, reviews, primary, refresh, callVars, task, errors,
                   hookFaults>>

(* Another egress replaces the lease of c. *)
NewLease(c) ==
    /\ \E g \in Egress :
         /\ rotate(c, lease[c], g)
         /\ lease' = [lease EXCEPT ![c] = g]
    /\ released' = [released EXCEPT ![c] = FALSE]

(* There is none: the lease of c is left released. *)
NoNewLease(c) ==
    /\ rotate_raises(c, lease[c])
    /\ released' = [released EXCEPT ![c] = TRUE]
    /\ UNCHANGED lease

(* _refresh_egress_if_needed, at the start of an operation. *)
refresh_egress(c) ==
    /\ \/ ~refresh[c] /\ Step(c, "refresh", "admit") /\ UNCHANGED <<egressVars, poolVars>>
       \/ /\ refresh[c]
          /\ primary' = [primary EXCEPT ![c] = NoAdapter]
          /\ \/ /\ Step(c, "refresh", "admit")
                /\ NewLease(c)
                /\ refresh' = [refresh EXCEPT ![c] = FALSE]
             \/ /\ Step(c, "refresh", "failed")
                /\ NoNewLease(c)
                /\ UNCHANGED refresh
    /\ UNCHANGED <<circuit, limits, reviews, callVars, task, errors, hookFaults>>

(* before_call, which admits the operation or raises CircuitOpen. *)
before_call(c) ==
    /\ \/ /\ Step(c, "admit", "begin")
          /\ before_call_admits
          /\ token' = [token EXCEPT ![c] = circuit.generation]
          /\ probe' = [probe EXCEPT ![c] = circuit'.state = "half_open"]
       \/ /\ Step(c, "admit", "failed")
          /\ before_call_refuses
          /\ UNCHANGED <<token, probe>>
    /\ UNCHANGED <<poolVars, limits, reviews, egressVars, attempt, error, task, errors,
                   hookFaults>>

(* A hook: a transition of the task in a transaction of its own. *)
Hook(c, step, to, from, status) ==
    /\ Step(c, step, to)
    /\ task[c] \in from
    /\ task' = [task EXCEPT ![c] = status]
    /\ UNCHANGED hookFaults

(* The transaction raises, for an illegal transition or by a database      *)
(* error: the exception is no CrawlerError, leaves _execute as it is and   *)
(* closes the context.                                                     *)
HookRaises(c, step, from) ==
    /\ Step(c, step, "close")
    /\ task[c] \notin from \/ hookFaults < MaxHookFaults
    /\ hookFaults' = IF task[c] \notin from THEN hookFaults ELSE hookFaults + 1
    /\ UNCHANGED task

Beginnable == {"pending", "retrying"}

(* hooks.before_attempt: repository.begin_attempt. *)
before_attempt(c) ==
    /\ \/ /\ Hook(c, "begin", "request", Beginnable, "running")
          /\ attempt' = [attempt EXCEPT ![c] = @ + 1]
       \/ HookRaises(c, "begin", Beginnable) /\ UNCHANGED attempt
    /\ UNCHANGED <<circuit, poolVars, limits, reviews, egressVars, token, error, probe, errors>>

(* hooks.before_retry: repository.mark_retrying. *)
before_retry(c) ==
    /\ \/ Hook(c, "retry", "begin", {"running"}, "retrying")
       \/ HookRaises(c, "retry", {"running"})
    /\ UNCHANGED <<circuit, poolVars, limits, reviews, egressVars, callVars, errors>>

(* The egress of the adapter that _get_primary gives c. *)
_get_primary(c) == IF primary[c] = NoAdapter THEN lease[c] ELSE primary[c]

(* An attempt succeeds: the endpoint is told, and after it the rate limits. *)
primary_succeeds(c) ==
    /\ Step(c, "request", "forget")
    /\ primary' = [primary EXCEPT ![c] = _get_primary(c)]
    /\ Update(lease[c], Succeeded(endpoint[lease[c]]))
    /\ UNCHANGED <<circuit, limits, reviews, lease, released, refresh, callVars, task,
                   errors, hookFaults>>

forget_limits(c) ==
    /\ Step(c, "forget", "succeed")
    /\ limits' = [limits EXCEPT ![lease[c]] = 0]
    /\ UNCHANGED <<circuit, poolVars, reviews, egressVars, callVars, task, errors, hookFaults>>

(* An attempt fails: the error is classified and accounted to the egress;  *)
(* of 429 responses the policy keeps a count of its own.                   *)
primary_fails(c) ==
    /\ errors < MaxErrors
    /\ errors' = errors + 1
    /\ primary' = [primary EXCEPT ![c] = _get_primary(c)]
    /\ \E e \in Errors :
         /\ error' = [error EXCEPT ![c] = e]
         /\ IF e = "rate_limited"
            THEN /\ limits' = [limits EXCEPT ![lease[c]] = @ + 1]
                 /\ Step(c, "request",
                         IF limits'[lease[c]] >= RotateAfter /\ lease[c] # Direct
                         THEN "limited" ELSE "check")
                 /\ UNCHANGED poolVars
            ELSE /\ Step(c, "request",
                         IF WantsRotation(c, e) /\ WillRetry(c, e) THEN "rotate" ELSE "check")
                 /\ Update(lease[c], Accounted(c, e))
                 /\ UNCHANGED limits
    /\ UNCHANGED <<circuit, reviews, lease, released, refresh, attempt, token, probe,
                   task, hookFaults>>

(* The count has reached its threshold: the endpoint cools down. *)
limit_cooldown(c) ==
    /\ Step(c, "limited", IF WillRetry(c, error[c]) THEN "rotate" ELSE "check")
    /\ Update(lease[c], Cooling(endpoint[lease[c]]))
    /\ UNCHANGED <<circuit, limits, reviews, egressVars, callVars, task, errors, hookFaults>>

(* Mutant: the adapter of the old egress is kept. *)
rotate_egress_Mutant(c) ==
    /\ \/ /\ Step(c, "rotate", "retry")
          /\ NewLease(c)
          /\ UNCHANGED <<primary, refresh, error>>
       \/ /\ Step(c, "rotate", "record")
          /\ NoNewLease(c)
          /\ error' = [error EXCEPT ![c] = "proxy_unavailable"]
          /\ UNCHANGED <<primary, refresh>>
    /\ UNCHANGED <<circuit, limits, reviews, attempt, token, probe, task, errors, hookFaults>>

(* The network policy rotates the egress: the adapter of the old one is    *)
(* closed.  When no egress is left ProxyUnavailable replaces the error,    *)
(* except for a 403, after which the next operation asks again.            *)
rotate_egress(c) ==
    /\ \/ /\ Step(c, "rotate", "retry")
          /\ NewLease(c)
          /\ primary' = [primary EXCEPT ![c] = NoAdapter]
          /\ UNCHANGED <<refresh, error>>
       \/ /\ Step(c, "rotate", "record")
          /\ NoNewLease(c)
          /\ IF error[c] = "forbidden"
             THEN /\ primary' = [primary EXCEPT ![c] = NoAdapter]
                  /\ refresh' = [refresh EXCEPT ![c] = TRUE]
                  /\ UNCHANGED error
             ELSE /\ error' = [error EXCEPT ![c] = "proxy_unavailable"]
                  /\ UNCHANGED <<primary, refresh>>
    /\ UNCHANGED <<circuit, limits, reviews, attempt, token, probe, task, errors, hookFaults>>

(* Without a rotation: is_usable, which the next operation acts on. *)
check_egress(c) ==
    /\ Step(c, "check", IF WillRetry(c, error[c]) THEN "retry" ELSE "record")
    /\ LET ok == ~released[c] /\ (lease[c] = Direct \/ usable(lease[c]))
       IN  /\ refresh' = [refresh EXCEPT ![c] = @ \/ ~ok]
           /\ IF ok /\ lease[c] # Direct THEN Update(lease[c], Revived(lease[c]))
              ELSE UNCHANGED poolVars
    /\ UNCHANGED <<circuit, limits, reviews, lease, released, primary, callVars, task,
                   errors, hookFaults>>

(* The primary has failed for good: the circuit is told; an error of the   *)
(* adapter leads to the secondary.                                         *)
record_primary_failure(c) ==
    /\ Step(c, "record",
            IF should_use_secondary(error[c]) THEN "secondary_retry" ELSE "failed")
    /\ record_failure(Relevant(error[c], lease[c] # Direct), token[c])
    /\ UNCHANGED <<poolVars, limits, reviews, egressVars, callVars, task, errors, hookFaults>>

(* Mutant: the secondary is not announced as a retry. *)
secondary_retry_Mutant(c) ==
    /\ Step(c, "secondary_retry", "secondary_begin")
    /\ UNCHANGED <<circuit, poolVars, limits, reviews, egressVars, callVars, task, errors,
                   hookFaults>>

(* The two hooks before the secondary. *)
secondary_retry(c) ==
    /\ \/ Hook(c, "secondary_retry", "secondary_begin", {"running"}, "retrying")
       \/ HookRaises(c, "secondary_retry", {"running"})
    /\ UNCHANGED <<circuit, poolVars, limits, reviews, egressVars, callVars, errors>>

secondary_begin(c) ==
    /\ \/ Hook(c, "secondary_begin", "secondary", Beginnable, "running")
       \/ HookRaises(c, "secondary_begin", Beginnable)
    /\ UNCHANGED <<circuit, poolVars, limits, reviews, egressVars, callVars, errors>>

(* The secondary, always direct, succeeds or fails; the circuit is told. *)
secondary_operation(c) ==
    /\ \/ /\ Step(c, "secondary", "ok")
          /\ record_success(token[c])
          /\ UNCHANGED errors
       \/ /\ Step(c, "secondary", "failed")
          /\ errors < MaxErrors
          /\ errors' = errors + 1
          /\ \E e \in Errors : record_failure(Relevant(e, FALSE), token[c])
    /\ UNCHANGED <<poolVars, limits, reviews, egressVars, callVars, task, hookFaults>>

(* The success of the primary is recorded in the circuit. *)
record_primary_success(c) ==
    /\ Step(c, "succeed", "ok")
    /\ record_success(token[c])
    /\ UNCHANGED <<poolVars, limits, reviews, egressVars, callVars, task, errors, hookFaults>>

(* What _execute keeps in local variables is gone when it returns. *)
ForgetCall(c) ==
    /\ attempt' = [attempt EXCEPT ![c] = 0]
    /\ token' = [token EXCEPT ![c] = 0]
    /\ error' = [error EXCEPT ![c] = "none"]
    /\ probe' = [probe EXCEPT ![c] = FALSE]

(* _run_details or _run_reviews marks its task; the next one follows. *)
finish_task(c) ==
    /\ \E from \in {"ok", "failed"} : Step(c, from, IF reviews[c] THEN "close" ELSE "refresh")
    /\ task' = [task EXCEPT ![c] = "pending"]
    /\ reviews' = [reviews EXCEPT ![c] = TRUE]
    /\ ForgetCall(c)
    /\ UNCHANGED <<circuit, poolVars, limits, egressVars, errors, hookFaults>>

(* close: the adapter is closed, the lease released, and the client and    *)
(* its tasks are done with.                                                *)
close(c) ==
    /\ Step(c, "close", "closed")
    /\ primary' = [primary EXCEPT ![c] = NoAdapter]
    /\ release(c)
    /\ released' = [released EXCEPT ![c] = TRUE]
    /\ lease' = [lease EXCEPT ![c] = Direct]
    /\ refresh' = [refresh EXCEPT ![c] = FALSE]
    /\ reviews' = [reviews EXCEPT ![c] = FALSE]
    /\ task' = [task EXCEPT ![c] = "pending"]
    /\ ForgetCall(c)
    /\ UNCHANGED <<circuit, limits, errors, hookFaults>>

-----------------------------------------------------------------------------
Execute(c) ==
    \/ refresh_egress(c)
    \/ before_call(c)
    \/ before_attempt(c)
    \/ primary_succeeds(c)
    \/ forget_limits(c)
    \/ primary_fails(c)
    \/ limit_cooldown(c)
    \/ rotate_egress(c)
    \/ check_egress(c)
    \/ before_retry(c)
    \/ record_primary_failure(c)
    \/ secondary_retry(c)
    \/ secondary_begin(c)
    \/ secondary_operation(c)
    \/ record_primary_success(c)
    \/ finish_task(c)
    \/ close(c)

clientVars == <<limits, pc, reviews, egressVars, callVars, task, errors, hookFaults>>

TimePasses ==
    /\ \/ circuit_cools /\ UNCHANGED poolVars
       \/ (\E p \in Proxies : proxy_cools(p)) /\ UNCHANGED circuit
    /\ UNCHANGED clientVars

Next ==
    \/ \E c \in Contexts : open_application(c) \/ Execute(c)
    \/ TimePasses

Spec == Init /\ [][Next]_vars

-----------------------------------------------------------------------------
(* The steps at which a call that before_call admitted is still running. *)
InCall ==
    {"begin", "request", "limited", "rotate", "check", "retry", "record",
     "secondary_retry", "secondary_begin", "secondary", "forget", "succeed"}

Probing == {c \in Contexts : pc[c] \in InCall /\ probe[c] /\ token[c] = circuit.generation}

(* The state of an open or half-open circuit is decided by probes alone:   *)
(* results of calls that were admitted before it opened, however late they *)
(* arrive, neither close it nor open it again.                             *)
OnlyProbesDecide ==
    [][circuit.state # "closed" /\ circuit'.state \in {"closed", "open"} /\
       circuit'.state # circuit.state =>
          circuit.state = "half_open" /\ \E c \in Probing : pc'[c] # pc[c]]_vars

(* As long as no hook has raised, _probe_in_flight is set only while a     *)
(* probe is running, as "HALF_OPEN with probe already running ->           *)
(* CircuitOpen" (docs/crawler/02-developer-reference.md:810) says: a       *)
(* caller that is refused for it waits for somebody, through every         *)
(* interleaving of openings, late results and probes that end in an error  *)
(* that says nothing of the upstream.                                      *)
ProbeIsRunning == circuit.probe /\ hookFaults = 0 => Probing # {}

(* A half-open circuit lets one call through: "HALF_OPEN with probe        *)
(* already running -> CircuitOpen"                                         *)
(* (docs/crawler/02-developer-reference.md:810), and                       *)
(* test_exactly_one_concurrent_half_open_probe_is_permitted.  It does      *)
(* unless a probe fails in the adapter, when its failure is recorded and   *)
(* the call goes on with the secondary.                                    *)
OneProbe ==
    circuit.state = "half_open" /\ (\A e \in Errors : ~should_use_secondary(e)) =>
        \A c, d \in Probing : c = d

(* An endpoint that the pool hands out has fewer failures than the         *)
(* threshold, whatever order the contexts sharing it report in.            *)
HealthyBelowThreshold ==
    \A p \in Proxies : endpoint[p].state = "healthy" => endpoint[p].failures < ProxyThreshold

(* The pool, the client and its transport agree: the registered lease is   *)
(* the one the client holds, an adapter belongs to that lease, and a       *)
(* closed context holds neither.                                           *)
EgressAgrees ==
    \A c \in Contexts :
        /\ leases[c] = IF released[c] THEN NoLease ELSE lease[c]
        /\ primary[c] \in {NoAdapter, lease[c]}
        /\ pc[c] = "closed" => released[c] /\ primary[c] = NoAdapter

(* The hooks of an operation, over retries and the secondary, are legal    *)
(* transitions of the task: none of them raises ValueError.                *)
HooksAreLegal ==
    \A c \in Contexts :
        /\ pc[c] \in {"begin", "secondary_begin"} => task[c] \in Beginnable
        /\ pc[c] \in {"retry", "secondary_retry"} => task[c] = "running"

=============================================================================
