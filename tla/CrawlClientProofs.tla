-------------------------- MODULE CrawlClientProofs --------------------------
(***************************************************************************)
(* The shared state of the crawler's client stays consistent for any       *)
(* number of contexts, proxies, attempts and errors: the health of the     *)
(* endpoints, the agreement of pool, client and transport, the order of    *)
(* the hooks, and that only probes decide the state of the circuit.        *)
(***************************************************************************)
EXTENDS CrawlClient, TLAPS

Endpoints ==
    [state : {"healthy", "cooldown", "unhealthy"}, failures : Nat, cooled : BOOLEAN]

\* The endpoints that the pool may hand out, or keeps back.
Good == {e \in Endpoints : e.state = "healthy" => e.failures < ProxyThreshold}

\* A context that can reach another attempt has one left.
AttemptsLeft ==
    \A c \in Contexts :
        pc[c] \in {"closed", "refresh", "admit", "begin", "rotate", "retry"} =>
            attempt[c] < MaxAttempts

\* The part of the type invariant that is about the contexts.
ContextType ==
    /\ limits \in [Egress -> Nat]
    /\ pc \in [Contexts -> Steps]
    /\ reviews \in [Contexts -> BOOLEAN]
    /\ lease \in [Contexts -> Egress]
    /\ released \in [Contexts -> BOOLEAN]
    /\ primary \in [Contexts -> Egress \cup {NoAdapter}]
    /\ refresh \in [Contexts -> BOOLEAN]
    /\ attempt \in [Contexts -> 0 .. MaxAttempts]
    /\ token \in [Contexts -> Nat]
    /\ error \in [Contexts -> ErrorKinds \cup {"none", "proxy_unavailable"}]
    /\ task \in [Contexts -> TaskStatus]
    /\ probe \in [Contexts -> BOOLEAN]
    /\ errors \in Nat
    /\ hookFaults \in Nat

\* The pool: every endpoint is good.
PoolGood ==
    /\ endpoint \in [Proxies -> Good]
    /\ next \in 1 .. Count + 1
    /\ leases \in [Contexts -> Egress \cup {NoLease}]

TypeInv == CircuitType /\ PoolGood /\ ContextType /\ AttemptsLeft

-----------------------------------------------------------------------------
\* The operations of ProxyEndpoint keep an endpoint good.
LEMMA EndpointOperations ==
    ASSUME NEW e \in Good
    PROVE  /\ Fresh \in Good
           /\ Succeeded(e) \in Good
           /\ Cooling(e) \in Good
           /\ Failed(e) \in Good
           /\ [e EXCEPT !.state = "unhealthy"] \in Good
<1>1. e \in Endpoints
  BY DEF Good
<1>2. Fresh \in Good
  BY PoolAssumption DEF Good, Endpoints, Fresh
<1>3. Succeeded(e) \in Good
  BY <1>2 DEF Succeeded
<1>4. \A f \in Endpoints : f.state # "unhealthy" => Cooling(f) \in Good
  BY ZenonT(20) DEF Good, Endpoints, Cooling
<1>5. Cooling(e) \in Good
  BY ZenonT(20), <1>1, <1>4 DEF Cooling
<1>6. Failed(e) \in Good
  <2> DEFINE counted == [e EXCEPT !.failures = @ + 1]
  <2>1. counted \in Endpoints /\ counted.state = e.state
    BY <1>1 DEF Endpoints
  <2>2. counted.failures < ProxyThreshold => counted \in Good
    BY ZenonT(20), <2>1 DEF Good
  <2>3. e.state # "unhealthy" => Cooling(counted) \in Good
    BY ZenonT(20), <2>1, <1>4
  <2> HIDE DEF counted
  <2>4. CASE e.state = "unhealthy"
    BY <2>4 DEF Failed
  <2>5. CASE e.state # "unhealthy"
    <3>1. Failed(e) = IF counted.failures < ProxyThreshold THEN counted ELSE Cooling(counted)
      BY <2>5 DEF Failed, counted
    <3> QED
      BY <3>1, <2>2, <2>3, <2>5
  <2> QED
    BY <2>4, <2>5
<1>7. [e EXCEPT !.state = "unhealthy"] \in Good
  BY <1>1 DEF Good, Endpoints
<1> QED
  BY <1>2, <1>3, <1>5, <1>6, <1>7

\* acquire keeps the pool well formed and gives the context the lease.
LEMMA AcquireFacts ==
    ASSUME PoolGood, NEW c \in Contexts,
           NEW x \in Egress \cup {NoLease}, NEW g \in Egress, acquire(c, x, g)
    PROVE  PoolGood' /\ leases' = [leases EXCEPT ![c] = g]
<1>1. leases' = [leases EXCEPT ![c] = g]
  BY DEF acquire
<1>2. endpoint' \in [Proxies -> Good]
  <2>1. \A p \in Proxies : Revived(p) \in Good
    BY ZenonT(20), EndpointOperations DEF Revived, PoolGood
  <2> QED
    BY <2>1 DEF acquire, PoolGood
<1>3. next' \in 1 .. Count + 1
  <2>1. CASE Candidates(x) = {}
    BY <2>1 DEF acquire, PoolGood
  <2>2. CASE Candidates(x) # {}
    <3>1. Count \in Nat \ {0}
      BY <2>2, PoolAssumption DEF Candidates, Proxies
    <3>2. g \in Nat
      BY PoolAssumption DEF Egress, Proxies, Direct
    <3>3. g % Count \in 0 .. Count - 1
      BY <3>1, <3>2
    <3> QED
      BY <2>2, <3>1, <3>3 DEF acquire
  <2> QED
    BY <2>1, <2>2
<1> QED
  BY <1>1, <1>2, <1>3 DEF PoolGood

\* Recording an outcome for a lease keeps the pool well formed.
LEMMA UpdateFacts ==
    ASSUME PoolGood, NEW l, NEW e,
           l \in Proxies => e \in Good, Update(l, e)
    PROVE  PoolGood' /\ UNCHANGED leases
BY DEF Update, PoolGood

Circuits ==
    [state : {"closed", "open", "half_open"}, failures : Nat, cooled : BOOLEAN,
     probe : BOOLEAN, generation : Nat]

\* What a failed call can make of the circuit.
LEMMA CircuitUpdates ==
    ASSUME NEW x \in Circuits
    PROVE  /\ [x EXCEPT !.probe = FALSE] \in Circuits
           /\ [x EXCEPT !.failures = @ + 1] \in Circuits
           /\ _open(x) \in Circuits
<1>1. [x EXCEPT !.probe = FALSE] \in Circuits
  BY ZenonT(20) DEF Circuits
<1>2. [x EXCEPT !.failures = @ + 1] \in Circuits
  BY DEF Circuits
<1>3. _open(x) \in Circuits
  <2> DEFINE a == [x EXCEPT !.state = "open"]
             b == [a EXCEPT !.cooled = FALSE]
             d == [b EXCEPT !.probe = FALSE]
             n == x.generation + 1
  <2>1. a \in Circuits
    BY DEF Circuits
  <2>2. b \in Circuits
    <3> HIDE DEF a
    <3> QED  BY ZenonT(20), <2>1 DEF Circuits
  <2>3. d \in Circuits
    <3> HIDE DEF b
    <3> QED  BY ZenonT(20), <2>2 DEF Circuits
  <2>4. n \in Nat
    BY DEF Circuits
  <2>5. [d EXCEPT !.generation = n] \in Circuits
    <3> HIDE DEF d, n
    <3> QED  BY <2>3, <2>4 DEF Circuits
  <2> QED
    BY <2>5, Zenon DEF _open
<1> QED
  BY <1>1, <1>2, <1>3

\* The critical sections of the circuit breaker keep its state well formed.
LEMMA CircuitFacts ==
    ASSUME CircuitType, NEW t, NEW r \in BOOLEAN,
           \/ before_call_admits \/ before_call_refuses \/ circuit_cools
           \/ record_success(t) \/ record_failure(r, t) \/ UNCHANGED circuit
    PROVE  CircuitType'
<1>1. CASE before_call_admits \/ before_call_refuses \/ circuit_cools \/ UNCHANGED circuit
  BY ZenonT(20), <1>1 DEF CircuitType, before_call_admits, before_call_refuses, circuit_cools
<1>2. CASE record_success(t)
  BY ZenonT(20), <1>2 DEF CircuitType, record_success
<1>3. CASE record_failure(r, t)
  <2> DEFINE counted == [circuit EXCEPT !.failures = @ + 1]
  <2>1. circuit \in Circuits
    BY DEF CircuitType, Circuits
  <2>2. counted \in Circuits /\ [circuit EXCEPT !.probe = FALSE] \in Circuits
    BY <2>1, CircuitUpdates
  <2>3. \/ circuit' = circuit
        \/ circuit' = [circuit EXCEPT !.probe = FALSE]
        \/ circuit' = _open(circuit)
        \/ circuit' = _open(counted)
        \/ circuit' = counted
    BY <1>3 DEF record_failure
  <2> HIDE DEF counted
  <2>4. _open(circuit) \in Circuits /\ _open(counted) \in Circuits
    BY ZenonT(20), <2>1, <2>2, CircuitUpdates
  <2>5. circuit' \in Circuits
    BY <2>1, <2>2, <2>3, <2>4, Zenon
  <2> QED
    BY <2>5 DEF CircuitType, Circuits
<1> QED
  BY <1>1, <1>2, <1>3

-----------------------------------------------------------------------------
\* Init establishes the types.
LEMMA TypeInit == Init => TypeInv
<1> SUFFICES ASSUME Init PROVE TypeInv
  OBVIOUS
<1>1. CircuitType
  BY DEF Init, CircuitInit, CircuitType
<1>2. PoolGood
  <2>1. Fresh \in Good
    BY PoolAssumption DEF Good, Endpoints, Fresh
  <2> QED
    BY <2>1, PoolAssumption DEF Init, PoolInit, PoolGood
<1>3. ContextType /\ AttemptsLeft
  BY ClientAssumption
  DEF Init, ContextType, AttemptsLeft, Steps, Egress, Direct, TaskStatus
<1> QED
  BY <1>1, <1>2, <1>3 DEF TypeInv

\* The type invariant is part of it.
LEMMA TypeInvIsType == TypeInv => TypeOK
BY DEF TypeInv, PoolGood, ContextType, Good, Endpoints, TypeOK, PoolType

\* What the egress of a context may become.
LEMMA LeaseFacts ==
    ASSUME TypeInv, NEW c \in Contexts, NewLease(c) \/ NoNewLease(c)
    PROVE  /\ PoolGood'
           /\ lease' \in [Contexts -> Egress]
           /\ released' \in [Contexts -> BOOLEAN]
           /\ \/ \E g \in Egress : /\ leases' = [leases EXCEPT ![c] = g]
                                   /\ lease' = [lease EXCEPT ![c] = g]
                                   /\ released' = [released EXCEPT ![c] = FALSE]
              \/ /\ leases' = [leases EXCEPT ![c] = NoLease]
                 /\ released' = [released EXCEPT ![c] = TRUE]
                 /\ lease' = lease
<1>1. CASE NewLease(c)
  <2>1. PICK g \in Egress : rotate(c, lease[c], g) /\ lease' = [lease EXCEPT ![c] = g]
    BY ZenonT(20), <1>1 DEF NewLease
  <2>2. lease[c] \in Egress
    BY DEF TypeInv, ContextType
  <2>3. PoolGood' /\ leases' = [leases EXCEPT ![c] = g]
    BY <2>1, <2>2, AcquireFacts DEF rotate, TypeInv
  <2>4. released' = [released EXCEPT ![c] = FALSE]
    BY <1>1 DEF NewLease
  <2> QED
    BY ZenonT(20), <2>1, <2>3, <2>4 DEF TypeInv, ContextType
<1>2. CASE NoNewLease(c)
  BY <1>2 DEF NoNewLease, rotate_raises, TypeInv, ContextType, PoolGood
<1> QED
  BY <1>1, <1>2

\* Every step of a context keeps the types.
LEMMA ContextTypeStep ==
    ASSUME TypeInv, NEW c \in Contexts, open_application(c) \/ Execute(c)
    PROVE  TypeInv'
<1> USE DEF callVars, egressVars, poolVars
<1>0. /\ pc \in [Contexts -> Steps] /\ lease[c] \in Egress /\ NoLease \in Egress \cup {NoLease}
      /\ lease[c] \in Proxies => endpoint[lease[c]] \in Good
  BY DEF TypeInv, ContextType, PoolGood
<1>1. CASE open_application(c)
  <2>1. PICK g \in Egress : acquire(c, NoLease, g) /\ lease' = [lease EXCEPT ![c] = g]
    BY ZenonT(20), <1>1 DEF open_application
  <2>2. PoolGood'
    BY <2>1, AcquireFacts DEF TypeInv
  <2>3. CircuitType'
    BY <1>1 DEF open_application, TypeInv, CircuitType
  <2>4. ContextType' /\ AttemptsLeft'
    BY <1>1, <2>1 DEF open_application, Step, TypeInv, ContextType, AttemptsLeft, Steps
  <2> QED
    BY <2>2, <2>3, <2>4 DEF TypeInv
<1>2. CASE refresh_egress(c)
  <2>1. PoolGood' /\ lease' \in [Contexts -> Egress] /\ released' \in [Contexts -> BOOLEAN]
    BY <1>2, LeaseFacts DEF refresh_egress, TypeInv, PoolGood, ContextType
  <2>2. CircuitType'
    BY <1>2 DEF refresh_egress, TypeInv, CircuitType
  <2>3. ContextType' /\ AttemptsLeft'
    BY ZenonT(20), <1>2, <2>1 DEF refresh_egress, Step, TypeInv, ContextType, AttemptsLeft, Steps
  <2> QED
    BY <2>1, <2>2, <2>3 DEF TypeInv
<1>3. CASE before_call(c)
  <2>1. CircuitType'
    BY ZenonT(20), <1>3, CircuitFacts DEF before_call, TypeInv
  <2>2. PoolGood'
    BY <1>3 DEF before_call, TypeInv, PoolGood
  <2>3. token' \in [Contexts -> Nat] /\ probe' \in [Contexts -> BOOLEAN]
    BY ZenonT(20), <1>3 DEF before_call, TypeInv, ContextType, CircuitType
  <2>4. ContextType' /\ AttemptsLeft'
    BY <1>3, <2>3 DEF before_call, Step, TypeInv, ContextType, AttemptsLeft, Steps
  <2> QED
    BY <2>1, <2>2, <2>4 DEF TypeInv
<1>4. CASE before_attempt(c)
  <2>1. CircuitType' /\ PoolGood'
    BY <1>4 DEF before_attempt, TypeInv, CircuitType, PoolGood
  <2>2. ContextType'
    BY <1>4, ClientAssumption DEF before_attempt, Hook, HookRaises, Step, TypeInv, ContextType, AttemptsLeft, Steps, TaskStatus
  <2>3. AttemptsLeft'
    BY <1>4, ClientAssumption DEF before_attempt, Hook, HookRaises, Step, TypeInv, ContextType, AttemptsLeft
  <2> QED
    BY <2>1, <2>2, <2>3 DEF TypeInv
<1>5. CASE primary_succeeds(c)
  <2>1. PoolGood'
    BY ZenonT(20), <1>5, <1>0, EndpointOperations, UpdateFacts DEF primary_succeeds, TypeInv
  <2>2. CircuitType'
    BY ZenonT(20), <1>5 DEF primary_succeeds, TypeInv, CircuitType
  <2>3. ContextType' /\ AttemptsLeft'
    BY <1>5 DEF primary_succeeds, _get_primary, Step, TypeInv, ContextType, AttemptsLeft, Steps
  <2> QED
    BY <2>1, <2>2, <2>3 DEF TypeInv
<1>6. CASE forget_limits(c)
  <2>1. CircuitType' /\ PoolGood'
    BY <1>6 DEF forget_limits, TypeInv, CircuitType, PoolGood
  <2>2. ContextType'
    BY <1>6, ClientAssumption DEF forget_limits, Step, TypeInv, ContextType, AttemptsLeft, Steps, TaskStatus
  <2>3. AttemptsLeft'
    BY <1>6, ClientAssumption DEF forget_limits, Step, TypeInv, ContextType, AttemptsLeft
  <2> QED
    BY <2>1, <2>2, <2>3 DEF TypeInv
<1>7. CASE primary_fails(c)
  <2>1. PICK e \in Errors :
           /\ error' = [error EXCEPT ![c] = e]
           /\ \/ /\ limits' = [limits EXCEPT ![lease[c]] = @ + 1]
                 /\ \E to \in {"limited", "check"} : Step(c, "request", to)
                 /\ UNCHANGED poolVars
              \/ /\ Step(c, "request",
                         IF WantsRotation(c, e) /\ WillRetry(c, e) THEN "rotate" ELSE "check")
                 /\ Update(lease[c], Accounted(c, e))
                 /\ UNCHANGED limits
    BY ZenonT(20), <1>7 DEF primary_fails
  <2>2. lease[c] \in Proxies => Accounted(c, e) \in Good
    BY <1>0, EndpointOperations DEF Accounted
  <2>3. PoolGood'
    BY <2>1, <2>2, UpdateFacts DEF TypeInv, PoolGood
  <2>4. CircuitType'
    BY <1>7 DEF primary_fails, TypeInv, CircuitType
  <2>5. e \in ErrorKinds
    BY ClientAssumption
  <2>6. ContextType'
    BY <1>7, <2>1, <2>5 DEF primary_fails, _get_primary, Step, TypeInv, ContextType, Steps
  <2>7. AttemptsLeft'
    BY ZenonT(20), <1>7, <2>1 DEF primary_fails, Step, WillRetry, TypeInv, ContextType, AttemptsLeft
  <2> QED
    BY <2>3, <2>4, <2>6, <2>7 DEF TypeInv
<1>8. CASE limit_cooldown(c)
  <2>1. PoolGood'
    BY ZenonT(20), <1>8, <1>0, EndpointOperations, UpdateFacts DEF limit_cooldown, TypeInv
  <2>2. CircuitType'
    BY ZenonT(20), <1>8 DEF limit_cooldown, TypeInv, CircuitType
  <2>3. ContextType' /\ AttemptsLeft'
    BY <1>8 DEF limit_cooldown, WillRetry, Step, TypeInv, ContextType, AttemptsLeft, Steps
  <2> QED
    BY <2>1, <2>2, <2>3 DEF TypeInv
<1>9. CASE rotate_egress(c)
  <2>1. PoolGood' /\ lease' \in [Contexts -> Egress] /\ released' \in [Contexts -> BOOLEAN]
    BY <1>9, LeaseFacts DEF rotate_egress
  <2>2. CircuitType'
    BY <1>9 DEF rotate_egress, TypeInv, CircuitType
  <2>3. ContextType' /\ AttemptsLeft'
    BY ZenonT(20), <1>9, <2>1 DEF rotate_egress, Step, TypeInv, ContextType, AttemptsLeft, Steps
  <2> QED
    BY <2>1, <2>2, <2>3 DEF TypeInv
<1>10. CASE check_egress(c)
  <2>1. PoolGood'
    <3>1. lease[c] \in Proxies => Revived(lease[c]) \in Good
      BY ZenonT(20), <1>0, EndpointOperations DEF Revived
    <3>2. Update(lease[c], Revived(lease[c])) \/ UNCHANGED poolVars
      BY <1>10 DEF check_egress
    <3> QED
      BY <3>1, <3>2, UpdateFacts DEF TypeInv, PoolGood
  <2>2. CircuitType'
    BY <1>10 DEF check_egress, TypeInv, CircuitType
  <2>3. ContextType' /\ AttemptsLeft'
    BY <1>10 DEF check_egress, WillRetry, Step, TypeInv, ContextType, AttemptsLeft, Steps
  <2> QED
    BY <2>1, <2>2, <2>3 DEF TypeInv
<1>11. CASE before_retry(c)
  <2>1. CircuitType' /\ PoolGood'
    BY <1>11 DEF before_retry, TypeInv, CircuitType, PoolGood
  <2>2. ContextType'
    BY <1>11, ClientAssumption DEF before_retry, Hook, HookRaises, Step, TypeInv, ContextType, AttemptsLeft, Steps, TaskStatus
  <2>3. AttemptsLeft'
    BY <1>11, ClientAssumption DEF before_retry, Hook, HookRaises, Step, TypeInv, ContextType, AttemptsLeft
  <2> QED
    BY <2>1, <2>2, <2>3 DEF TypeInv
<1>12. CASE record_primary_failure(c)
  <2>1. CircuitType'
    BY ZenonT(20), <1>12, CircuitFacts DEF record_primary_failure, Relevant, TypeInv
  <2>2. PoolGood'
    BY ZenonT(20), <1>12 DEF record_primary_failure, TypeInv, PoolGood
  <2>3. ContextType' /\ AttemptsLeft'
    BY <1>12 DEF record_primary_failure, Step, TypeInv, ContextType, AttemptsLeft, Steps
  <2> QED
    BY <2>1, <2>2, <2>3 DEF TypeInv
<1>13. CASE secondary_retry(c)
  <2>1. CircuitType' /\ PoolGood'
    BY <1>13 DEF secondary_retry, TypeInv, CircuitType, PoolGood
  <2>2. ContextType'
    BY <1>13, ClientAssumption DEF secondary_retry, Hook, HookRaises, Step, TypeInv, ContextType, AttemptsLeft, Steps, TaskStatus
  <2>3. AttemptsLeft'
    BY <1>13, ClientAssumption DEF secondary_retry, Hook, HookRaises, Step, TypeInv, ContextType, AttemptsLeft
  <2> QED
    BY <2>1, <2>2, <2>3 DEF TypeInv
<1>14. CASE secondary_begin(c)
  <2>1. CircuitType' /\ PoolGood'
    BY <1>14 DEF secondary_begin, TypeInv, CircuitType, PoolGood
  <2>2. ContextType'
    BY <1>14, ClientAssumption DEF secondary_begin, Hook, HookRaises, Step, TypeInv, ContextType, AttemptsLeft, Steps, TaskStatus
  <2>3. AttemptsLeft'
    BY <1>14, ClientAssumption DEF secondary_begin, Hook, HookRaises, Step, TypeInv, ContextType, AttemptsLeft
  <2> QED
    BY <2>1, <2>2, <2>3 DEF TypeInv
<1>15. CASE secondary_operation(c)
  <2>1. CircuitType'
    <3>1. record_success(token[c]) \/ \E r \in BOOLEAN : record_failure(r, token[c])
      BY ZenonT(20), <1>15 DEF secondary_operation, Relevant
    <3> QED
      BY ZenonT(20), <3>1, CircuitFacts DEF TypeInv
  <2>2. PoolGood'
    BY <1>15 DEF secondary_operation, TypeInv, PoolGood
  <2>3. ContextType' /\ AttemptsLeft'
    <3>1. Step(c, "secondary", "ok") \/ Step(c, "secondary", "failed")
      BY <1>15, Zenon DEF secondary_operation
    <3>2. errors' = errors \/ errors' = errors + 1
      BY <1>15, Zenon DEF secondary_operation
    <3>3. UNCHANGED <<limits, reviews, egressVars, callVars, task, hookFaults>>
      BY <1>15, Zenon DEF secondary_operation
    <3> QED
      BY <3>1, <3>2, <3>3 DEF Step, TypeInv, ContextType, AttemptsLeft, Steps
  <2> QED
    BY <2>1, <2>2, <2>3 DEF TypeInv
<1>16. CASE record_primary_success(c)
  <2>1. CircuitType'
    BY ZenonT(20), <1>16, CircuitFacts DEF record_primary_success, TypeInv
  <2>2. PoolGood'
    BY <1>16 DEF record_primary_success, TypeInv, PoolGood
  <2>3. ContextType' /\ AttemptsLeft'
    BY <1>16 DEF record_primary_success, Step, TypeInv, ContextType, AttemptsLeft, Steps
  <2> QED
    BY <2>1, <2>2, <2>3 DEF TypeInv
<1>17. CASE finish_task(c)
  <2>1. CircuitType' /\ PoolGood'
    BY <1>17 DEF finish_task, TypeInv, CircuitType, PoolGood
  <2>2. ContextType'
    BY <1>17, ClientAssumption DEF finish_task, ForgetCall, Step, TypeInv, ContextType, AttemptsLeft, Steps, TaskStatus
  <2>3. AttemptsLeft'
    BY <1>17, ClientAssumption DEF finish_task, ForgetCall, Step, TypeInv, ContextType, AttemptsLeft
  <2> QED
    BY <2>1, <2>2, <2>3 DEF TypeInv
<1>18. CASE close(c)
  <2>1. CircuitType' /\ PoolGood'
    BY <1>18 DEF close, release, TypeInv, CircuitType, PoolGood
  <2>2. ContextType'
    BY <1>18, ClientAssumption
    DEF close, ForgetCall, Step, TypeInv, ContextType, Steps, TaskStatus, Egress, Direct
  <2>3. AttemptsLeft'
    BY <1>18, ClientAssumption DEF close, ForgetCall, Step, TypeInv, ContextType, AttemptsLeft
  <2> QED
    BY <2>1, <2>2, <2>3 DEF TypeInv
<1> QED
  BY <1>1, <1>2, <1>3, <1>4, <1>5, <1>6, <1>7, <1>8, <1>9, <1>10, <1>11, <1>12, <1>13, <1>14, <1>15, <1>16, <1>17, <1>18 DEF Execute

\* Time changes no context.
LEMMA TimeTypeStep ==
    ASSUME TypeInv, TimePasses
    PROVE  TypeInv'
<1>1. CircuitType'
  BY ZenonT(20), CircuitFacts DEF TimePasses, TypeInv
<1>2. PoolGood'
  <2>1. CASE \E p \in Proxies : proxy_cools(p)
    <3>1. PICK p \in Proxies : proxy_cools(p)
      BY <2>1
    <3>2. [endpoint[p] EXCEPT !.cooled = TRUE] \in Good
      <4>1. endpoint[p] \in Good
        BY DEF TypeInv, PoolGood
      <4> QED
        BY ZenonT(20), <4>1 DEF Good, Endpoints
    <3>3. endpoint' = [endpoint EXCEPT ![p] = [endpoint[p] EXCEPT !.cooled = TRUE]]
      BY <3>1, Zenon DEF proxy_cools
    <3> QED
      BY <3>1, <3>2, <3>3 DEF proxy_cools, TypeInv, PoolGood
  <2> QED
    BY <2>1 DEF TimePasses, poolVars, TypeInv, PoolGood
<1>3. ContextType' /\ AttemptsLeft'
  BY DEF TimePasses, clientVars, callVars, egressVars, TypeInv, ContextType, AttemptsLeft
<1> QED
  BY <1>1, <1>2, <1>3 DEF TypeInv

\* Every step keeps the types.
LEMMA TypeStep == TypeInv /\ [Next]_vars => TypeInv'
<1> SUFFICES ASSUME TypeInv, [Next]_vars PROVE TypeInv'
  OBVIOUS
<1>1. CASE UNCHANGED vars
  BY ZenonT(20), <1>1
  DEF vars, poolVars, egressVars, callVars, TypeInv, CircuitType, PoolGood, ContextType,
      AttemptsLeft
<1> QED
  BY <1>1, ContextTypeStep, TimeTypeStep DEF Next

\* Every context, endpoint and the circuit keep their shape, and an operation
\* never makes more attempts than the retry policy allows.
THEOREM TypeCorrect == Spec => []TypeOK
<1>1. Spec => []TypeInv
  BY TypeInit, TypeStep, PTL DEF Spec
<1> QED
  BY <1>1, TypeInvIsType, PTL

\* An endpoint that the pool hands out is below the failure threshold, whatever
\* order the contexts that share it report in (ProxyEndpoint.record_failure,
\* record_success, usable).
THEOREM HealthyAreBelowThreshold == Spec => []HealthyBelowThreshold
<1>1. TypeInv => HealthyBelowThreshold
  BY DEF TypeInv, PoolGood, Good, HealthyBelowThreshold
<1>2. Spec => []TypeInv
  BY TypeInit, TypeStep, PTL DEF Spec
<1> QED
  BY <1>1, <1>2, PTL

-----------------------------------------------------------------------------
\* A step of a context leaves the other contexts where they are; only
\* open_application leaves, and only close reaches, the closed state.
LEMMA StepFrame ==
    ASSUME TypeInv, NEW c \in Contexts, open_application(c) \/ Execute(c)
    PROVE  \E to \in Steps : /\ pc' = [pc EXCEPT ![c] = to]
                             /\ to = "closed" => close(c)
                             /\ to = "begin" => before_call(c) \/ before_retry(c)
<1>1. CASE open_application(c)
  BY <1>1 DEF open_application, Step, Steps
<1>2. CASE refresh_egress(c)
  BY <1>2 DEF refresh_egress, Step, Steps
<1>3. CASE before_call(c)
  BY <1>3 DEF before_call, Step, Steps
<1>4. CASE before_attempt(c)
  BY <1>4 DEF before_attempt, Hook, HookRaises, Step, Steps
<1>5. CASE primary_succeeds(c) \/ forget_limits(c)
  BY ZenonT(20), <1>5 DEF primary_succeeds, forget_limits, Step, Steps
<1>6. CASE primary_fails(c)
  <2>1. \E to \in {"limited", "rotate", "check"} : Step(c, "request", to)
    BY <1>6, Zenon DEF primary_fails
  <2> QED
    BY ZenonT(20), <2>1 DEF Step, Steps
<1>7. CASE limit_cooldown(c) \/ check_egress(c)
  BY ZenonT(20), <1>7 DEF limit_cooldown, check_egress, Step, Steps
<1>8. CASE rotate_egress(c)
  BY <1>8 DEF rotate_egress, Step, Steps
<1>9. CASE before_retry(c) \/ secondary_retry(c) \/ secondary_begin(c)
  BY <1>9 DEF before_retry, secondary_retry, secondary_begin, Hook, HookRaises, Step, Steps
<1>10. CASE record_primary_failure(c) \/ record_primary_success(c)
  BY ZenonT(20), <1>10 DEF record_primary_failure, record_primary_success, Step, Steps
<1>11. CASE secondary_operation(c)
  <2>1. Step(c, "secondary", "ok") \/ Step(c, "secondary", "failed")
    BY <1>11, Zenon DEF secondary_operation
  <2> QED
    BY <2>1 DEF Step, Steps
<1>12. CASE finish_task(c)
  BY ZenonT(20), <1>12 DEF finish_task, Step, Steps
<1>13. CASE close(c)
  BY <1>13 DEF close, Step, Steps
<1> QED
  BY ZenonT(20), <1>1, <1>2, <1>3, <1>4, <1>5, <1>6, <1>7, <1>8, <1>9, <1>10, <1>11, <1>12, <1>13 DEF Execute

\* Pool, client and transport agree after every step of a context.
LEMMA EgressStep ==
    ASSUME TypeInv, EgressAgrees, NEW c \in Contexts, open_application(c) \/ Execute(c)
    PROVE  EgressAgrees'
<1> USE DEF poolVars, egressVars
<1>0. PICK to \in Steps : pc' = [pc EXCEPT ![c] = to] /\ (to = "closed" => close(c))
  BY StepFrame
<1>1. CASE open_application(c)
  <2>1. PICK g \in Egress : acquire(c, NoLease, g) /\ lease' = [lease EXCEPT ![c] = g]
    BY ZenonT(20), <1>1 DEF open_application
  <2>2. leases' = [leases EXCEPT ![c] = g]
    BY <2>1, AcquireFacts DEF TypeInv
  <2>3. pc[c] = "closed" /\ pc' = [pc EXCEPT ![c] = "refresh"] /\ UNCHANGED primary
        /\ released' = [released EXCEPT ![c] = FALSE]
    BY <1>1 DEF open_application, Step
  <2> QED
    BY ZenonT(20), <2>1, <2>2, <2>3 DEF EgressAgrees, TypeInv, ContextType, PoolGood
<1>2. CASE refresh_egress(c) \/ rotate_egress(c)
  <2>1. \/ UNCHANGED <<leases, lease, released, primary>>
        \/ NewLease(c) /\ primary' = [primary EXCEPT ![c] = NoAdapter]
        \/ NoNewLease(c) /\ primary' \in {primary, [primary EXCEPT ![c] = NoAdapter]}
    BY <1>2 DEF refresh_egress, rotate_egress
  <2>2. to # "closed"
    BY ZenonT(20), <1>0, <1>2 DEF refresh_egress, rotate_egress, Step, TypeInv, ContextType
  <2>3. CASE UNCHANGED <<leases, lease, released, primary>>
    BY ZenonT(20), <1>0, <2>2, <2>3 DEF EgressAgrees, TypeInv, ContextType
  <2>4. CASE NewLease(c) /\ primary' = [primary EXCEPT ![c] = NoAdapter]
    <3>1. PICK g \in Egress : rotate(c, lease[c], g) /\ lease' = [lease EXCEPT ![c] = g]
      BY ZenonT(20), <2>4 DEF NewLease
    <3>2. leases' = [leases EXCEPT ![c] = g]
      <4>1. lease[c] \in Egress
        BY DEF TypeInv, ContextType
      <4> QED
        BY <3>1, <4>1, AcquireFacts DEF rotate, TypeInv
    <3>3. released' = [released EXCEPT ![c] = FALSE]
      BY <2>4 DEF NewLease
    <3> QED
      BY ZenonT(20), <1>0, <2>2, <2>4, <3>1, <3>2, <3>3 DEF EgressAgrees, TypeInv, ContextType, PoolGood
  <2>5. CASE NoNewLease(c) /\ primary' \in {primary, [primary EXCEPT ![c] = NoAdapter]}
    BY <1>0, <2>2, <2>5
    DEF NoNewLease, rotate_raises, EgressAgrees, TypeInv, ContextType, PoolGood
  <2> QED
    BY <2>1, <2>3, <2>4, <2>5
<1>3. CASE primary_succeeds(c) \/ primary_fails(c)
  <2>1. /\ UNCHANGED <<leases, lease, released>>
        /\ primary' = [primary EXCEPT ![c] = _get_primary(c)]
    BY <1>3 DEF primary_succeeds, primary_fails, Update
  <2>2. to # "closed"
    BY ZenonT(20), <1>0, <1>3 DEF primary_succeeds, primary_fails, close, Step, TypeInv, ContextType
  <2> QED
    BY ZenonT(20), <1>0, <2>1, <2>2 DEF EgressAgrees, _get_primary, TypeInv, ContextType
<1>4. CASE close(c)
  BY ZenonT(20), <1>4 DEF close, release, Step, EgressAgrees, TypeInv, ContextType, PoolGood
<1>5. CASE \/ before_call(c) \/ before_attempt(c) \/ before_retry(c) \/ secondary_retry(c)
           \/ secondary_begin(c) \/ forget_limits(c) \/ limit_cooldown(c) \/ check_egress(c)
           \/ record_primary_failure(c) \/ secondary_operation(c) \/ record_primary_success(c)
           \/ finish_task(c)
  <2>1. UNCHANGED <<leases, lease, released, primary>>
    BY ZenonT(20), <1>5
    DEF before_call, before_attempt, before_retry, secondary_retry, secondary_begin,
        forget_limits, limit_cooldown, check_egress, record_primary_failure,
        secondary_operation, record_primary_success, finish_task, Update
  <2>2. to = "closed" => close(c)
    BY <1>0
  <2> QED
    BY ZenonT(20), <1>0, <1>4, <2>1, <2>2 DEF EgressAgrees, TypeInv, ContextType
<1> QED
  BY <1>1, <1>2, <1>3, <1>4, <1>5 DEF Execute

\* The pool, the client and its transport agree on the egress of every context
\* (client.py close, _execute, _refresh_egress_if_needed; pool.py rotate).
THEOREM EgressesAgree == Spec => []EgressAgrees
<1>1. Init => EgressAgrees
  BY DEF Init, PoolInit, EgressAgrees
<1>2. TypeInv /\ EgressAgrees /\ [Next]_vars => EgressAgrees'
  <2> SUFFICES ASSUME TypeInv, EgressAgrees, [Next]_vars PROVE EgressAgrees'
    OBVIOUS
  <2>1. CASE TimePasses \/ UNCHANGED vars
    <3>1. UNCHANGED <<leases, lease, released, primary, pc>>
      BY <2>1 DEF TimePasses, clientVars, vars, poolVars, egressVars, proxy_cools
    <3> QED
      BY ZenonT(20), <3>1 DEF EgressAgrees
  <2> QED
    BY <2>1, EgressStep DEF Next
<1>3. Spec => []TypeInv
  BY TypeInit, TypeStep, PTL DEF Spec
<1> QED
  BY <1>1, <1>2, <1>3, PTL DEF Spec

-----------------------------------------------------------------------------
\* The status that the hooks have given the task, at each step of the context.
HooksByStep ==
    \A c \in Contexts :
        /\ pc[c] \in {"closed", "refresh", "admit", "begin"} => task[c] \in Beginnable
        /\ pc[c] \in {"request", "limited", "rotate", "check", "retry", "record",
                      "secondary_retry"} => task[c] = "running"
        /\ pc[c] = "secondary_begin" => task[c] = "retrying"

\* A step of a context keeps its task in the status of its step.
LEMMA HooksStep ==
    ASSUME TypeInv, HooksByStep, NEW c \in Contexts, open_application(c) \/ Execute(c)
    PROVE  HooksByStep'
<1> USE DEF HooksByStep, Beginnable, TypeInv, ContextType
<1>1. CASE open_application(c) \/ refresh_egress(c) \/ before_call(c)
  BY ZenonT(20), <1>1 DEF open_application, refresh_egress, before_call, Step
<1>2. CASE before_attempt(c)
  BY ZenonT(20), <1>2 DEF before_attempt, Hook, HookRaises, Step
<1>3. CASE before_retry(c)
  BY ZenonT(20), <1>3 DEF before_retry, Hook, HookRaises, Step
<1>4. CASE secondary_retry(c)
  BY ZenonT(20), <1>4 DEF secondary_retry, Hook, HookRaises, Step
<1>5. CASE secondary_begin(c)
  BY ZenonT(20), <1>5 DEF secondary_begin, Hook, HookRaises, Step
<1>6. CASE primary_succeeds(c) \/ forget_limits(c) \/ record_primary_success(c)
  BY ZenonT(20), <1>6 DEF primary_succeeds, forget_limits, record_primary_success, Step
<1>7. CASE primary_fails(c)
  <2>1. \E to \in {"limited", "rotate", "check"} : Step(c, "request", to)
    BY <1>7, Zenon DEF primary_fails
  <2>2. task' = task
    BY ZenonT(20), <1>7 DEF primary_fails
  <2> QED
    BY ZenonT(20), <2>1, <2>2 DEF Step
<1>8. CASE limit_cooldown(c) \/ check_egress(c) \/ rotate_egress(c) \/ record_primary_failure(c)
  BY ZenonT(20), <1>8 DEF limit_cooldown, check_egress, rotate_egress, record_primary_failure, Step
<1>9. CASE secondary_operation(c)
  <2>1. Step(c, "secondary", "ok") \/ Step(c, "secondary", "failed")
    BY <1>9, Zenon DEF secondary_operation
  <2>2. task' = task
    BY <1>9, Zenon DEF secondary_operation
  <2> QED
    BY ZenonT(20), <2>1, <2>2 DEF Step
<1>10. CASE finish_task(c)
  BY ZenonT(20), <1>10 DEF finish_task, Step
<1>11. CASE close(c)
  BY ZenonT(20), <1>11 DEF close, Step
<1> QED
  BY ZenonT(20), <1>1, <1>2, <1>3, <1>4, <1>5, <1>6, <1>7, <1>8, <1>9, <1>10, <1>11 DEF Execute

\* No hook of an operation raises for an illegal transition of its task, over
\* any number of retries, rotations and the secondary (tasks.py _hooks).
THEOREM HooksAreAlwaysLegal == Spec => []HooksAreLegal
<1>1. Init => HooksByStep
  BY DEF Init, HooksByStep, Beginnable
<1>2. TypeInv /\ HooksByStep /\ [Next]_vars => HooksByStep'
  <2> SUFFICES ASSUME TypeInv, HooksByStep, [Next]_vars PROVE HooksByStep'
    OBVIOUS
  <2>1. CASE TimePasses \/ UNCHANGED vars
    BY ZenonT(20), <2>1 DEF TimePasses, clientVars, vars, HooksByStep, Beginnable
  <2> QED
    BY <2>1, HooksStep DEF Next
<1>3. HooksByStep => HooksAreLegal
  BY DEF HooksByStep, HooksAreLegal, Beginnable
<1>4. Spec => []TypeInv
  BY TypeInit, TypeStep, PTL DEF Spec
<1> QED
  BY <1>1, <1>2, <1>3, <1>4, PTL DEF Spec

-----------------------------------------------------------------------------
\* A call in progress was admitted in this generation or an earlier one: an
\* earlier one if the circuit is open, and as a probe if it is half open.
TokensByGeneration ==
    \A c \in Contexts : pc[c] \in InCall =>
        /\ token[c] <= circuit.generation
        /\ circuit.state = "open" => token[c] < circuit.generation
        /\ circuit.state = "half_open" /\ token[c] = circuit.generation => probe[c]

\* What a result can do to the circuit: nothing from an older generation, and
\* a new generation whenever it opens.
LEMMA RecordFacts ==
    ASSUME CircuitType, NEW t \in Nat,
           record_success(t) \/ \E r \in BOOLEAN : record_failure(r, t)
    PROVE  /\ t # circuit.generation => circuit' = circuit
           /\ \/ circuit' = circuit
              \/ circuit'.state = "open" /\ circuit'.generation = circuit.generation + 1
              \/ circuit'.state = "closed" /\ circuit'.generation = circuit.generation
              \/ circuit'.state = circuit.state /\ circuit'.generation = circuit.generation
<1> USE DEF CircuitType
<1>1. CASE record_success(t)
  BY <1>1 DEF record_success
<1>2. ASSUME NEW r \in BOOLEAN, record_failure(r, t)
      PROVE  /\ t # circuit.generation => circuit' = circuit
             /\ \/ circuit' = circuit
                \/ circuit'.state = "open" /\ circuit'.generation = circuit.generation + 1
                \/ circuit'.state = circuit.state /\ circuit'.generation = circuit.generation
  <2> DEFINE counted == [circuit EXCEPT !.failures = @ + 1]
  <2>1. /\ counted.state = circuit.state /\ counted.generation = circuit.generation
        /\ counted \in Circuits /\ circuit \in Circuits
    BY CircuitUpdates DEF Circuits
  <2>2. \A x \in Circuits : _open(x).state = "open" /\ _open(x).generation = x.generation + 1
    BY DEF _open, Circuits
  <2>3. LET p == [circuit EXCEPT !.probe = FALSE]
        IN  p.state = circuit.state /\ p.generation = circuit.generation
    OBVIOUS
  <2>4. t # circuit.generation => circuit' = circuit
    BY <1>2 DEF record_failure
  <2>5. \/ circuit' = circuit
        \/ circuit' = [circuit EXCEPT !.probe = FALSE]
        \/ circuit' = _open(circuit)
        \/ circuit' = _open(counted)
        \/ circuit' = counted
    BY <1>2 DEF record_failure
  <2>6. /\ _open(circuit).state = "open"
        /\ _open(circuit).generation = circuit.generation + 1
        /\ _open(counted).state = "open"
        /\ _open(counted).generation = circuit.generation + 1
    BY <2>1, <2>2
  <2> HIDE DEF counted
  <2> QED
    BY <2>1, <2>3, <2>4, <2>5, <2>6, Zenon
<1> QED
  BY <1>1, <1>2

\* Recording a result: one call in progress moves on, and the circuit is told.
Records(c) ==
    /\ pc[c] \in InCall
    /\ pc'[c] # pc[c]
    /\ record_success(token[c]) \/ \E r \in BOOLEAN : record_failure(r, token[c])

\* Besides admissions and results no step of a context touches the circuit, and
\* only an admission starts a call.
LEMMA CallFrame ==
    ASSUME TypeInv, NEW c \in Contexts, open_application(c) \/ Execute(c), ~before_call(c)
    PROVE  /\ \A d \in Contexts : pc'[d] \in InCall =>
                 pc[d] \in InCall /\ token'[d] = token[d] /\ probe'[d] = probe[d]
           /\ UNCHANGED circuit \/ Records(c)
<1> USE DEF callVars, InCall
<1>0. pc \in [Contexts -> Steps]
  BY DEF TypeInv, ContextType
<1>1. CASE open_application(c) \/ refresh_egress(c)
  BY ZenonT(20), <1>0, <1>1 DEF open_application, refresh_egress, Step
<1>2. CASE before_attempt(c) \/ before_retry(c) \/ secondary_retry(c) \/ secondary_begin(c)
  BY ZenonT(20), <1>0, <1>2
  DEF before_attempt, before_retry, secondary_retry, secondary_begin, Hook, HookRaises, Step
<1>3. CASE primary_succeeds(c) \/ forget_limits(c) \/ limit_cooldown(c) \/ check_egress(c)
  BY ZenonT(20), <1>0, <1>3 DEF primary_succeeds, forget_limits, limit_cooldown, check_egress, Step
<1>4. CASE primary_fails(c)
  <2>1. \E to \in {"limited", "rotate", "check"} : Step(c, "request", to)
    BY <1>4, Zenon DEF primary_fails
  <2>2. UNCHANGED <<circuit, token, probe>>
    BY ZenonT(20), <1>4 DEF primary_fails
  <2> QED
    BY ZenonT(20), <1>0, <2>1, <2>2 DEF Step
<1>5. CASE rotate_egress(c)
  BY ZenonT(20), <1>0, <1>5 DEF rotate_egress, Step
<1>6. CASE record_primary_failure(c)
  <2>1. \E r \in BOOLEAN : record_failure(r, token[c])
    BY ZenonT(20), <1>6 DEF record_primary_failure, Relevant
  <2>2. /\ \E to \in {"secondary_retry", "failed"} : Step(c, "record", to)
        /\ UNCHANGED callVars
    BY ZenonT(20), <1>6 DEF record_primary_failure
  <2> QED
    BY ZenonT(20), <1>0, <2>1, <2>2 DEF Step, Records
<1>7. CASE record_primary_success(c)
  BY ZenonT(20), <1>0, <1>7 DEF record_primary_success, Step, Records
<1>8. CASE secondary_operation(c)
  <2>1. record_success(token[c]) \/ \E r \in BOOLEAN : record_failure(r, token[c])
    BY ZenonT(20), <1>8 DEF secondary_operation, Relevant
  <2>2. Step(c, "secondary", "ok") \/ Step(c, "secondary", "failed")
    BY <1>8, Zenon DEF secondary_operation
  <2>3. UNCHANGED callVars
    BY <1>8, Zenon DEF secondary_operation
  <2> QED
    BY ZenonT(20), <1>0, <2>1, <2>2, <2>3 DEF Step, Records
<1>9. CASE finish_task(c) \/ close(c)
  <2>1. \E from \in Steps, to \in {"refresh", "close", "closed"} : Step(c, from, to)
    BY <1>9 DEF finish_task, close, Steps
  <2>2. UNCHANGED circuit /\ ForgetCall(c)
    BY <1>9, Zenon DEF finish_task, close
  <2>3. pc'[c] \notin InCall /\ \A d \in Contexts \ {c} : pc'[d] = pc[d]
    BY <1>0, <2>1 DEF Step
  <2>4. token \in [Contexts -> Nat] /\ probe \in [Contexts -> BOOLEAN]
    BY DEF TypeInv, ContextType
  <2>5. \A d \in Contexts \ {c} : token'[d] = token[d] /\ probe'[d] = probe[d]
    BY <2>2, <2>4 DEF ForgetCall
  <2> HIDE DEF InCall
  <2> QED
    BY ZenonT(20), <2>2, <2>3, <2>5
<1> QED
  BY ZenonT(20), <1>1, <1>2, <1>3, <1>4, <1>5, <1>6, <1>7, <1>8, <1>9 DEF Execute

\* Admissions, results and the passage of time keep the tokens in order.
LEMMA TokensStep ==
    ASSUME TypeInv, TokensByGeneration, Next
    PROVE  TokensByGeneration'
<1>0. /\ circuit.generation \in Nat /\ pc \in [Contexts -> Steps]
      /\ token \in [Contexts -> Nat] /\ CircuitType
  BY DEF TypeInv, ContextType, CircuitType
<1>1. ASSUME NEW c \in Contexts, before_call(c) PROVE TokensByGeneration'
  <2>1. CASE before_call_refuses
    <3>1. \/ UNCHANGED <<circuit, token, probe>> /\ pc' = [pc EXCEPT ![c] = "failed"]
          \/ before_call_admits
      BY <1>1 DEF before_call, Step, before_call_refuses
    <3>2. ~before_call_admits
      BY <2>1, <1>0 DEF before_call_refuses, before_call_admits, CircuitType
    <3> QED
      BY <1>0, <3>1, <3>2 DEF TokensByGeneration, InCall
  <2>2. CASE ~before_call_refuses
    <3>1. /\ before_call_admits
          /\ pc' = [pc EXCEPT ![c] = "begin"]
          /\ token' = [token EXCEPT ![c] = circuit.generation]
          /\ probe' = [probe EXCEPT ![c] = circuit'.state = "half_open"]
      BY <1>1, <2>2 DEF before_call, Step
    <3>2. \/ circuit.state = "closed" /\ circuit' = circuit
          \/ /\ circuit.state \in {"open", "half_open"} /\ circuit'.state = "half_open"
             /\ circuit'.generation = circuit.generation
      BY ZenonT(20), <3>1, <1>0 DEF before_call_admits, CircuitType
    <3>3. probe \in [Contexts -> BOOLEAN]
      BY DEF TypeInv, ContextType
    <3>4. ASSUME NEW d \in Contexts, d # c
          PROVE  pc'[d] = pc[d] /\ token'[d] = token[d] /\ probe'[d] = probe[d]
      BY <1>0, <3>1, <3>3, <3>4
    <3>5. /\ token'[c] = circuit.generation
          /\ circuit'.state = "half_open" => probe'[c]
      BY ZenonT(20), <1>0, <3>1, <3>3
    <3>6. circuit'.generation = circuit.generation /\ circuit'.state # "open"
      BY <3>2
    <3>7. ASSUME NEW d \in Contexts, pc'[d] \in InCall
          PROVE  /\ token'[d] <= circuit'.generation
                 /\ circuit'.state = "half_open" /\ token'[d] = circuit'.generation => probe'[d]
      <4>1. CASE d = c
        BY <1>0, <3>5, <3>6, <4>1
      <4>2. CASE d # c
        BY <1>0, <3>2, <3>4, <3>7, <4>2 DEF TokensByGeneration
      <4> QED
        BY <4>1, <4>2
    <3> QED
      BY ZenonT(20), <3>6, <3>7 DEF TokensByGeneration
  <2> QED
    BY <2>1, <2>2
<1>2. ASSUME NEW c \in Contexts, open_application(c) \/ Execute(c), ~before_call(c)
      PROVE  TokensByGeneration'
  <2>1. \A d \in Contexts : pc'[d] \in InCall =>
           pc[d] \in InCall /\ token'[d] = token[d] /\ probe'[d] = probe[d]
    BY ZenonT(20), <1>2, CallFrame
  <2>2. CASE UNCHANGED circuit
    BY ZenonT(20), <2>1, <2>2 DEF TokensByGeneration
  <2>3. CASE Records(c)
    <3>1. \/ circuit' = circuit
          \/ circuit'.state = "open" /\ circuit'.generation = circuit.generation + 1
          \/ circuit'.state = "closed" /\ circuit'.generation = circuit.generation
          \/ circuit'.state = circuit.state /\ circuit'.generation = circuit.generation
      BY <1>0, <2>3, RecordFacts DEF Records
    <3> QED
      BY <1>0, <2>1, <3>1 DEF TokensByGeneration
  <2> QED
    BY ZenonT(20), <1>2, <2>2, <2>3, CallFrame
<1>3. CASE TimePasses
  <2>1. UNCHANGED <<pc, token, probe>>
    BY <1>3 DEF TimePasses, clientVars, callVars
  <2>2. circuit'.state = circuit.state /\ circuit'.generation = circuit.generation
    BY <1>0, <1>3 DEF TimePasses, circuit_cools, CircuitType
  <2> QED
    BY ZenonT(20), <2>1, <2>2 DEF TokensByGeneration
<1> QED
  BY <1>1, <1>2, <1>3 DEF Next

\* An open or half-open circuit changes by admissions, or by the result of a
\* probe of its generation.
LEMMA DecisionStep ==
    ASSUME TypeInv, TokensByGeneration, Next,
           circuit.state # "closed", circuit'.state \in {"closed", "open"},
           circuit'.state # circuit.state
    PROVE  circuit.state = "half_open" /\ \E c \in Probing : pc'[c] # pc[c]
<1>0. CircuitType /\ token \in [Contexts -> Nat] /\ circuit.generation \in Nat
  BY DEF TypeInv, ContextType, CircuitType
<1>1. ~TimePasses
  BY <1>0 DEF TimePasses, circuit_cools, CircuitType
<1>2. PICK c \in Contexts : open_application(c) \/ Execute(c)
  BY <1>1 DEF Next
<1>3. ~before_call(c)
  BY ZenonT(20), <1>0 DEF before_call, before_call_admits, before_call_refuses, CircuitType
<1>4. Records(c)
  BY <1>2, <1>3, CallFrame
<1>5. token[c] = circuit.generation
  BY <1>0, <1>4, RecordFacts DEF Records
<1>6. circuit.state # "open"
  BY SMTT(60), <1>0, <1>4, <1>5 DEF TokensByGeneration, Records
<1>7. circuit.state = "half_open"
  BY <1>0, <1>6 DEF CircuitType
<1>8. c \in Probing
  BY <1>4, <1>5, <1>7 DEF TokensByGeneration, Records, Probing
<1> QED
  BY <1>4, <1>7, <1>8 DEF Records

\* However late they arrive, results of calls admitted before the circuit opened
\* neither close it nor open it again: only probes of the current generation
\* decide it (circuit_breaker.py, _generation).
THEOREM ProbesDecide == Spec => OnlyProbesDecide
<1>1. Init => TokensByGeneration
  BY DEF Init, TokensByGeneration, InCall
<1>2. TypeInv /\ TokensByGeneration /\ [Next]_vars => TokensByGeneration'
  <2>1. TypeInv /\ TokensByGeneration /\ UNCHANGED vars => TokensByGeneration'
    BY ZenonT(20) DEF vars, callVars, TokensByGeneration
  <2> QED
    BY <2>1, TokensStep
<1>3. TypeInv /\ TokensByGeneration /\ [Next]_vars =>
        [circuit.state # "closed" /\ circuit'.state \in {"closed", "open"} /\
         circuit'.state # circuit.state =>
            circuit.state = "half_open" /\ \E c \in Probing : pc'[c] # pc[c]]_vars
  BY DecisionStep
<1>4. Spec => []TypeInv
  BY TypeInit, TypeStep, PTL DEF Spec
<1> QED
  BY <1>1, <1>2, <1>3, <1>4, PTL DEF Spec, OnlyProbesDecide

-----------------------------------------------------------------------------
(* Who holds the probe *)

Secondary == {"secondary_retry", "secondary_begin", "secondary"}

\* Only a half-open circuit has its probe out.
ProbeMeansHalfOpen == circuit.probe => circuit.state = "half_open"

\* The probe that is out has not told the circuit its result yet.
ProbeRuns ==
    circuit.probe /\ hookFaults = 0 =>
        \E c \in Contexts : /\ pc[c] \in InCall \ Secondary
                            /\ probe[c] /\ token[c] = circuit.generation

\* No error of the adapter, no secondary.
NoFallback == \A e \in Errors : ~should_use_secondary(e)

PrimaryOnly ==
    NoFallback => \A c \in Contexts : error[c] # "parse" /\ pc[c] \notin Secondary

\* A call that is the probe of a half-open circuit is known to it, and alone.
ProbeIsKnown ==
    NoFallback /\ circuit.state = "half_open" =>
        /\ Probing # {} => circuit.probe
        /\ \A c, d \in Probing : c = d

\* Any result of this generation takes the probe back.
LEMMA RecordProbe ==
    ASSUME CircuitType, ProbeMeansHalfOpen, NEW t, t = circuit.generation,
           record_success(t) \/ \E r \in BOOLEAN : record_failure(r, t)
    PROVE  /\ ~circuit'.probe
           /\ circuit'.state = "half_open" => circuit.state = "half_open"
<1> USE DEF CircuitType
<1>1. CASE record_success(t)
  BY <1>1 DEF record_success
<1>2. ASSUME NEW r \in BOOLEAN, record_failure(r, t)
      PROVE  /\ ~circuit'.probe
             /\ circuit'.state = "half_open" => circuit.state = "half_open"
  <2> DEFINE counted == [circuit EXCEPT !.failures = @ + 1]
  <2>1. /\ counted.state = circuit.state /\ counted.probe = circuit.probe
        /\ counted \in Circuits /\ circuit \in Circuits
    BY CircuitUpdates DEF Circuits
  <2>2. \A x \in Circuits : _open(x).state = "open" /\ _open(x).probe = FALSE
    BY DEF _open, Circuits
  <2>3. LET p == [circuit EXCEPT !.probe = FALSE]
        IN  p.state = circuit.state /\ p.probe = FALSE
    OBVIOUS
  <2>4. \/ circuit' = circuit /\ circuit.state = "open"
        \/ circuit' = [circuit EXCEPT !.probe = FALSE]
        \/ circuit' = _open(circuit)
        \/ circuit' = _open(counted)
        \/ circuit' = counted /\ circuit.state # "half_open"
    BY ZenonT(20), <1>2 DEF record_failure
  <2>5. /\ _open(circuit).state = "open" /\ _open(circuit).probe = FALSE
        /\ _open(counted).state = "open" /\ _open(counted).probe = FALSE
    BY ZenonT(20), <2>1, <2>2
  <2>6. circuit.state # "half_open" => ~circuit.probe
    BY DEF ProbeMeansHalfOpen
  <2>7. circuit.state = "open" => circuit.state # "half_open"
    OBVIOUS
  <2> HIDE DEF counted
  <2>8. CASE circuit' = circuit /\ circuit.state = "open"
    BY ZenonT(20), <2>6, <2>7, <2>8
  <2>9. CASE circuit' = [circuit EXCEPT !.probe = FALSE]
    BY ZenonT(20), <2>3, <2>9
  <2>10. CASE circuit' = _open(circuit) \/ circuit' = _open(counted)
    BY ZenonT(20), <2>5, <2>10
  <2>11. CASE circuit' = counted /\ circuit.state # "half_open"
    BY ZenonT(20), <2>1, <2>6, <2>11
  <2> QED
    BY ZenonT(20), <2>4, <2>8, <2>9, <2>10, <2>11
<1> QED
  BY ZenonT(20), <1>1, <1>2

\* What before_call does to the circuit when it admits a call.
LEMMA AdmitFacts ==
    ASSUME TypeInv, NEW c \in Contexts, before_call(c)
    PROVE  \/ /\ circuit' = circuit /\ pc' = [pc EXCEPT ![c] = "failed"]
              /\ token' = token /\ probe' = probe
           \/ /\ pc' = [pc EXCEPT ![c] = "begin"]
              /\ token' = [token EXCEPT ![c] = circuit.generation]
              /\ probe' = [probe EXCEPT ![c] = circuit'.state = "half_open"]
              /\ \/ circuit.state = "closed" /\ circuit' = circuit
                 \/ /\ \/ circuit.state = "open"
                       \/ circuit.state = "half_open" /\ ~circuit.probe
                    /\ circuit'.state = "half_open" /\ circuit'.probe
                    /\ circuit'.generation = circuit.generation
<1>1. LET new == [circuit EXCEPT !.state = "half_open", !.probe = TRUE]
      IN  new.state = "half_open" /\ new.probe /\ new.generation = circuit.generation
  BY DEF TypeInv, CircuitType
<1> QED
  BY ZenonT(20), <1>1
  DEF before_call, before_call_admits, before_call_refuses, Step

\* The steps that tell the circuit a result.
Ends(c) ==
    record_primary_failure(c) \/ record_primary_success(c) \/ secondary_operation(c)

\* Besides them only an admission touches the circuit.
LEMMA QuietCircuit ==
    ASSUME NEW c \in Contexts, open_application(c) \/ Execute(c), ~before_call(c), ~Ends(c)
    PROVE  UNCHANGED circuit
<1>1. CASE open_application(c) \/ refresh_egress(c) \/ before_attempt(c) \/ before_retry(c)
  BY ZenonT(20), <1>1 DEF open_application, refresh_egress, before_attempt, before_retry
<1>2. CASE secondary_retry(c) \/ secondary_begin(c) \/ primary_succeeds(c) \/ primary_fails(c)
  BY ZenonT(20), <1>2 DEF secondary_retry, secondary_begin, primary_succeeds, primary_fails
<1>3. CASE forget_limits(c) \/ limit_cooldown(c) \/ check_egress(c) \/ rotate_egress(c)
  BY ZenonT(20), <1>3 DEF forget_limits, limit_cooldown, check_egress, rotate_egress
<1>4. CASE finish_task(c) \/ close(c)
  BY ZenonT(20), <1>4 DEF finish_task, close
<1> QED
  BY ZenonT(20), <1>1, <1>2, <1>3, <1>4 DEF Execute, Ends

\* A result ends the call, unless the secondary is to be tried.
LEMMA EndFrame ==
    ASSUME TypeInv, NEW c \in Contexts, Ends(c)
    PROVE  /\ pc[c] \in InCall /\ pc'[c] \in {"secondary_retry", "failed", "ok"}
           /\ \A d \in Contexts \ {c} : pc'[d] = pc[d]
           /\ UNCHANGED <<token, probe, hookFaults>>
           /\ record_success(token[c]) \/ \E r \in BOOLEAN : record_failure(r, token[c])
<1>0. pc \in [Contexts -> Steps]
  BY DEF TypeInv, ContextType
<1>1. record_success(token[c]) \/ \E r \in BOOLEAN : record_failure(r, token[c])
  BY ZenonT(20) DEF Ends, record_primary_failure, record_primary_success,
     secondary_operation, Relevant
<1>2. PICK from \in {"record", "succeed", "secondary"},
           to \in {"secondary_retry", "failed", "ok"} : Step(c, from, to)
  BY ZenonT(20) DEF Ends, record_primary_failure, record_primary_success, secondary_operation
<1>3. {"record", "succeed", "secondary"} \subseteq InCall
  BY DEF InCall
<1>4. pc[c] = from /\ pc'[c] = to /\ \A d \in Contexts \ {c} : pc'[d] = pc[d]
  BY <1>0, <1>2 DEF Step
<1>5. UNCHANGED <<token, probe, hookFaults>>
  BY ZenonT(20) DEF Ends, record_primary_failure, record_primary_success,
     secondary_operation, callVars
<1> QED
  BY ZenonT(20), <1>1, <1>2, <1>3, <1>4, <1>5

\* A call in the hands of the primary stays there until it records its result,
\* unless a hook raises.
LEMMA PrimaryFrame ==
    ASSUME TypeInv, HooksByStep, NEW c \in Contexts, open_application(c) \/ Execute(c),
           ~before_call(c), ~Ends(c)
    PROVE  /\ \A d \in Contexts \ {c} : pc'[d] = pc[d]
           /\ pc[c] \in InCall \ Secondary =>
                 pc'[c] \in InCall \ Secondary \/ hookFaults' = hookFaults + 1
           /\ hookFaults' = hookFaults \/ hookFaults' = hookFaults + 1
<1> DEFINE Inside == InCall \ Secondary
           Outside == {"closed", "refresh", "ok", "failed", "close"} \cup Secondary
           From(S, T) == \E from \in S, to \in T : Step(c, from, to)
<1>0. pc \in [Contexts -> Steps]
  BY DEF TypeInv, ContextType
<1>h. ASSUME NEW from, NEW to, Step(c, from, to)
      PROVE  pc[c] = from /\ pc'[c] = to /\ \A d \in Contexts \ {c} : pc'[d] = pc[d]
  BY <1>0, <1>h DEF Step
<1>i. /\ {"begin", "request", "limited", "rotate", "check", "retry", "record", "forget",
          "succeed"} \subseteq Inside
      /\ \A x \in Outside : x \notin Inside
  BY DEF InCall, Secondary
<1> HIDE DEF Inside
<1>a. CASE From(Outside, Steps) /\ hookFaults' = hookFaults
  BY ZenonT(20), <1>h, <1>i, <1>a DEF Inside
<1>b. CASE From(Steps, Inside) /\ hookFaults' = hookFaults
  BY ZenonT(20), <1>h, <1>i, <1>b DEF Inside
<1>c. CASE From(Steps, Steps) /\ hookFaults' = hookFaults + 1
  BY ZenonT(20), <1>h, <1>c
<1> HIDE DEF Outside
<1>o. /\ {"closed", "refresh", "ok", "failed", "close"} \subseteq Outside
      /\ {"secondary_retry", "secondary_begin"} \subseteq Outside
      /\ {"closed", "refresh", "admit", "begin", "request", "limited", "rotate", "check",
          "retry", "record", "secondary_retry", "secondary_begin", "secondary", "forget",
          "succeed", "ok", "failed", "close"} \subseteq Steps
  BY DEF Outside, Secondary, Steps
<1>1. CASE open_application(c) \/ refresh_egress(c)
  <2>1. From(Outside, Steps) /\ hookFaults' = hookFaults
    BY ZenonT(20), <1>1, <1>o DEF open_application, refresh_egress
  <2> QED
    BY <1>a, <2>1
<1>2. CASE before_attempt(c) \/ before_retry(c)
  <2>1. /\ pc[c] = "begin" => task[c] \in Beginnable
        /\ pc[c] = "retry" => task[c] \in {"running"}
    BY DEF HooksByStep
  <2>2. CASE /\ HookRaises(c, "begin", Beginnable) \/ HookRaises(c, "retry", {"running"})
    <3>1. From(Steps, Steps)
      BY ZenonT(20), <1>o, <2>2 DEF HookRaises
    <3>2. hookFaults' = hookFaults + 1
      BY ZenonT(20), <1>h, <2>1, <2>2 DEF HookRaises
    <3> QED
      BY <1>c, <3>1, <3>2
  <2>3. CASE \/ Hook(c, "begin", "request", Beginnable, "running")
             \/ \E to \in {"begin", "record"} : \E from, st : Hook(c, "retry", to, from, st)
    <3>1. From(Steps, Inside) /\ hookFaults' = hookFaults
      BY ZenonT(20), <1>i, <1>o, <2>3 DEF Hook
    <3> QED
      BY <1>b, <3>1
  <2> QED
    BY ZenonT(20), <1>2, <2>2, <2>3 DEF before_attempt, before_retry
<1>4. CASE secondary_retry(c) \/ secondary_begin(c)
  <2>1. From(Outside, Steps)
    BY ZenonT(20), <1>4, <1>o DEF secondary_retry, secondary_begin, Hook, HookRaises
  <2>2. hookFaults' = hookFaults \/ hookFaults' = hookFaults + 1
    BY ZenonT(20), <1>4 DEF secondary_retry, secondary_begin, Hook, HookRaises
  <2>3. From(Steps, Steps)
    BY ZenonT(20), <1>4, <1>o DEF secondary_retry, secondary_begin, Hook, HookRaises
  <2> QED
    BY <1>a, <1>c, <2>1, <2>2, <2>3
<1>5. CASE \/ primary_succeeds(c) \/ forget_limits(c) \/ limit_cooldown(c)
           \/ check_egress(c) \/ rotate_egress(c)
  <2>1. From(Steps, Inside) /\ hookFaults' = hookFaults
    BY ZenonT(20), <1>5, <1>i, <1>o
    DEF primary_succeeds, forget_limits, limit_cooldown, check_egress, rotate_egress
  <2> QED
    BY <1>b, <2>1
<1>6. CASE primary_fails(c)
  <2>1. \E to \in {"limited", "rotate", "check"} : Step(c, "request", to)
    BY <1>6, Zenon DEF primary_fails
  <2>2. hookFaults' = hookFaults
    BY ZenonT(20), <1>6 DEF primary_fails
  <2>3. From(Steps, Inside)
    BY ZenonT(20), <1>i, <1>o, <2>1
  <2> QED
    BY <1>b, <2>2, <2>3
<1>9. CASE finish_task(c) \/ close(c)
  <2>1. From(Outside, Steps)
    BY ZenonT(20), <1>9, <1>o DEF finish_task, close
  <2>2. hookFaults' = hookFaults
    BY ZenonT(20), <1>9 DEF finish_task, close
  <2> QED
    BY <1>a, <2>1, <2>2
<1> QED
  BY ZenonT(20), <1>1, <1>2, <1>4, <1>5, <1>6, <1>9 DEF Execute, Ends

\* The error of a call is one of the adapter's or of the client's own, and only
\* an error of the adapter's parser leads to the secondary.
LEMMA ErrorFrame ==
    ASSUME TypeInv, NEW c \in Contexts, open_application(c) \/ Execute(c)
    PROVE  /\ \A d \in Contexts \ {c} : error'[d] = error[d] /\ pc'[d] = pc[d]
           /\ error'[c] \in {error[c], "none", "proxy_unavailable"} \cup Errors
           /\ pc'[c] \in Secondary => pc[c] \in Secondary \/ error[c] = "parse"
<1> DEFINE Kept == error' = error
           Clear == error' = [error EXCEPT ![c] = "none"]
           Outside == Steps \ Secondary
<1>0. /\ pc \in [Contexts -> Steps]
      /\ error \in [Contexts -> ErrorKinds \cup {"none", "proxy_unavailable"}]
  BY DEF TypeInv, ContextType
<1>h. ASSUME NEW from, NEW to, Step(c, from, to)
      PROVE  pc[c] = from /\ pc'[c] = to /\ \A d \in Contexts \ {c} : pc'[d] = pc[d]
  BY <1>0, <1>h DEF Step
<1>e. ASSUME NEW e \in {"none", "proxy_unavailable"} \cup Errors, error' = [error EXCEPT ![c] = e]
      PROVE  error'[c] = e /\ \A d \in Contexts \ {c} : error'[d] = error[d]
  BY <1>0, <1>e
<1>o. /\ {"closed", "refresh", "admit", "begin", "request", "limited", "rotate", "check",
          "retry", "record", "forget", "succeed", "ok", "failed", "close"} \subseteq Outside
      /\ \A x \in Outside : x \notin Secondary
      /\ {"secondary_retry", "secondary_begin", "secondary"} \subseteq Secondary
  BY DEF Secondary, Steps
<1> HIDE DEF Outside
<1>a. CASE /\ \E from, to \in Outside : Step(c, from, to)
           /\ Kept \/ \E e \in {"none", "proxy_unavailable"} \cup Errors :
                         error' = [error EXCEPT ![c] = e]
  <2>1. pc'[c] \notin Secondary /\ \A d \in Contexts \ {c} : pc'[d] = pc[d]
    BY ZenonT(20), <1>h, <1>a, <1>o
  <2> QED
    BY ZenonT(20), <1>e, <1>a, <2>1
<1>b. CASE (\E from \in Secondary : \E to : Step(c, from, to)) /\ Kept
  BY ZenonT(20), <1>h, <1>b
<1>1. CASE open_application(c) \/ refresh_egress(c) \/ before_call(c)
  <2>1. (\E from, to \in Outside : Step(c, from, to)) /\ Kept
    BY ZenonT(20), <1>1, <1>o DEF open_application, refresh_egress, before_call, callVars
  <2> QED
    BY <1>a, <2>1
<1>2. CASE before_attempt(c) \/ before_retry(c)
  <2>1. (\E from, to \in Outside : Step(c, from, to)) /\ Kept
    BY ZenonT(20), <1>2, <1>o DEF before_attempt, before_retry, Hook, HookRaises, callVars
  <2> QED
    BY <1>a, <2>1
<1>3. CASE secondary_retry(c) \/ secondary_begin(c) \/ secondary_operation(c)
  <2>1. (\E from \in Secondary : \E to : Step(c, from, to)) /\ Kept
    BY ZenonT(20), <1>3, <1>o
    DEF secondary_retry, secondary_begin, secondary_operation, Hook, HookRaises, callVars
  <2> QED
    BY <1>b, <2>1
<1>4. CASE primary_succeeds(c) \/ forget_limits(c) \/ limit_cooldown(c) \/ check_egress(c)
  <2>1. (\E from, to \in Outside : Step(c, from, to)) /\ Kept
    BY ZenonT(20), <1>4, <1>o
    DEF primary_succeeds, forget_limits, limit_cooldown, check_egress, callVars
  <2> QED
    BY <1>a, <2>1
<1>5. CASE primary_fails(c)
  <2>1. \E to \in {"limited", "rotate", "check"} : Step(c, "request", to)
    BY <1>5, Zenon DEF primary_fails
  <2>2. \E e \in Errors : error' = [error EXCEPT ![c] = e]
    BY <1>5, Zenon DEF primary_fails
  <2>3. \E from, to \in Outside : Step(c, from, to)
    BY ZenonT(20), <1>o, <2>1
  <2> QED
    BY <1>a, <2>2, <2>3
<1>6. CASE rotate_egress(c)
  <2>1. \E from, to \in Outside : Step(c, from, to)
    BY ZenonT(20), <1>6, <1>o DEF rotate_egress
  <2>2. Kept \/ error' = [error EXCEPT ![c] = "proxy_unavailable"]
    BY ZenonT(20), <1>6 DEF rotate_egress
  <2> QED
    BY <1>a, <2>1, <2>2
<1>7. CASE record_primary_success(c)
  <2>1. (\E from, to \in Outside : Step(c, from, to)) /\ Kept
    BY ZenonT(20), <1>7, <1>o DEF record_primary_success, callVars
  <2> QED
    BY <1>a, <2>1
<1>8. CASE record_primary_failure(c)
  <2>1. Kept
    BY ZenonT(20), <1>8 DEF record_primary_failure, callVars
  <2>2. CASE error[c] = "parse"
    <3>1. \E from, to : Step(c, from, to)
      BY ZenonT(20), <1>8 DEF record_primary_failure
    <3> QED
      BY ZenonT(20), <1>h, <2>1, <2>2, <3>1
  <2>3. CASE error[c] # "parse"
    <3>1. Step(c, "record", "failed")
      BY ZenonT(20), <1>8, <2>3 DEF record_primary_failure, should_use_secondary
    <3>2. \E from, to \in Outside : Step(c, from, to)
      BY ZenonT(20), <1>o, <3>1
    <3> QED
      BY <1>a, <2>1, <3>2
  <2> QED
    BY <2>2, <2>3
<1>9. CASE finish_task(c) \/ close(c)
  <2>1. \E from, to \in Outside : Step(c, from, to)
    BY ZenonT(20), <1>9, <1>o DEF finish_task, close
  <2>2. Clear
    BY ZenonT(20), <1>9 DEF finish_task, close, ForgetCall
  <2> QED
    BY <1>a, <2>1, <2>2
<1> QED
  BY ZenonT(20), <1>1, <1>2, <1>3, <1>4, <1>5, <1>6, <1>7, <1>8, <1>9 DEF Execute

\* What holds of the probe in every state.
ProbeInv == ProbeMeansHalfOpen /\ ProbeRuns /\ PrimaryOnly /\ ProbeIsKnown

\* An admission that makes a call the probe finds no other.
LEMMA ProbeAdmit ==
    ASSUME TypeInv, TokensByGeneration, ProbeInv, NEW c \in Contexts, before_call(c)
    PROVE  ProbeMeansHalfOpen' /\ ProbeRuns' /\ ProbeIsKnown'
<1>0. /\ pc \in [Contexts -> Steps] /\ token \in [Contexts -> Nat]
      /\ probe \in [Contexts -> BOOLEAN] /\ circuit.generation \in Nat
  BY DEF TypeInv, ContextType, CircuitType
<1>1. hookFaults' = hookFaults
  BY ZenonT(20) DEF before_call
<1>2. pc[c] = "admit"
  BY ZenonT(20) DEF before_call, Step
<1>3. "admit" \notin InCall /\ "failed" \notin InCall /\ "begin" \in InCall \ Secondary
  BY DEF InCall, Secondary
<1>4. CASE /\ circuit' = circuit /\ pc' = [pc EXCEPT ![c] = "failed"]
           /\ token' = token /\ probe' = probe
  <2>1. /\ pc'[c] = "failed"
        /\ \A d \in Contexts \ {c} : pc'[d] = pc[d]
    BY <1>0, <1>4
  <2>2. Probing' = Probing
    BY ZenonT(20), <1>2, <1>3, <1>4, <2>1 DEF Probing
  <2>3. ProbeRuns'
    BY ZenonT(20), <1>1, <1>2, <1>3, <1>4, <2>1 DEF ProbeInv, ProbeRuns
  <2> QED
    BY ZenonT(20), <1>4, <2>2, <2>3
    DEF ProbeInv, ProbeMeansHalfOpen, ProbeIsKnown, NoFallback
<1>5. CASE /\ pc' = [pc EXCEPT ![c] = "begin"]
           /\ token' = [token EXCEPT ![c] = circuit.generation]
           /\ probe' = [probe EXCEPT ![c] = circuit'.state = "half_open"]
           /\ \/ circuit.state = "closed" /\ circuit' = circuit
              \/ /\ \/ circuit.state = "open"
                    \/ circuit.state = "half_open" /\ ~circuit.probe
                 /\ circuit'.state = "half_open" /\ circuit'.probe
                 /\ circuit'.generation = circuit.generation
  <2>1. /\ pc'[c] = "begin" /\ token'[c] = circuit.generation
        /\ circuit'.state = "half_open" => probe'[c]
        /\ \A d \in Contexts \ {c} :
              pc'[d] = pc[d] /\ token'[d] = token[d] /\ probe'[d] = probe[d]
    BY ZenonT(20), <1>0, <1>5
  <2>2. CASE circuit.state = "closed" /\ circuit' = circuit
    <3>1. circuit'.state # "half_open" /\ ~circuit'.probe
      BY <2>2 DEF ProbeInv, ProbeMeansHalfOpen
    <3> QED
      BY ZenonT(20), <3>1 DEF ProbeMeansHalfOpen, ProbeRuns, ProbeIsKnown
  <2>3. CASE /\ \/ circuit.state = "open"
                \/ circuit.state = "half_open" /\ ~circuit.probe
             /\ circuit'.state = "half_open" /\ circuit'.probe
             /\ circuit'.generation = circuit.generation
    <3>1. ProbeRuns'
      BY ZenonT(20), <1>3, <2>1, <2>3 DEF ProbeRuns
    <3>2. ASSUME NoFallback PROVE Probing = {}
      <4>1. CASE circuit.state = "open"
        <5>1. ASSUME NEW d \in Contexts, pc[d] \in InCall PROVE token[d] < circuit.generation
          BY ZenonT(20), <4>1, <5>1 DEF TokensByGeneration
        <5>2. ASSUME NEW d \in Contexts, pc[d] \in InCall PROVE token[d] # circuit.generation
          BY <1>0, <5>1, <5>2
        <5> QED
          BY ZenonT(20), <5>2 DEF Probing
      <4>2. CASE circuit.state = "half_open" /\ ~circuit.probe
        BY ZenonT(20), <3>2, <4>2 DEF ProbeInv, ProbeIsKnown
      <4> QED
        BY ZenonT(20), <2>3, <4>1, <4>2
    <3>3. ASSUME NoFallback, NEW d \in Contexts, d \in Probing' PROVE d = c
      BY ZenonT(20), <2>1, <2>3, <3>2, <3>3 DEF Probing
    <3>4. Probing' \subseteq Contexts
      BY ZenonT(20) DEF Probing
    <3>5. ProbeIsKnown'
      BY ZenonT(20), <2>3, <3>3, <3>4 DEF ProbeIsKnown, NoFallback
    <3> QED
      BY ZenonT(20), <2>3, <3>1, <3>5 DEF ProbeMeansHalfOpen
  <2> QED
    BY ZenonT(20), <1>5, <2>2, <2>3
<1> QED
  BY ZenonT(20), <1>4, <1>5, AdmitFacts

\* A result of this generation takes the probe back, and the call that brings it
\* is over when there is no secondary; an older result changes nothing.
LEMMA ProbeRecord ==
    ASSUME TypeInv, TokensByGeneration, ProbeInv, PrimaryOnly', NEW c \in Contexts, Ends(c)
    PROVE  ProbeMeansHalfOpen' /\ ProbeRuns' /\ ProbeIsKnown'
<1>0. CircuitType /\ token[c] \in Nat
  BY DEF TypeInv, ContextType
<1>1. /\ pc[c] \in InCall /\ pc'[c] \in {"secondary_retry", "failed", "ok"}
      /\ \A d \in Contexts \ {c} : pc'[d] = pc[d]
      /\ UNCHANGED <<token, probe, hookFaults>>
  BY ZenonT(20), EndFrame
<1>2. record_success(token[c]) \/ \E r \in BOOLEAN : record_failure(r, token[c])
  BY ZenonT(20), EndFrame
<1>3. CASE token[c] # circuit.generation
  <2>1. circuit' = circuit
    BY ZenonT(20), <1>0, <1>2, <1>3, RecordFacts
  <2>2. ProbeRuns'
    BY ZenonT(20), <1>1, <1>3, <2>1 DEF ProbeInv, ProbeRuns
  <2>3. Probing' \subseteq Probing
    BY ZenonT(20), <1>1, <1>3, <2>1 DEF Probing
  <2> QED
    BY ZenonT(20), <2>1, <2>2, <2>3
    DEF ProbeInv, ProbeMeansHalfOpen, ProbeIsKnown, NoFallback
<1>4. CASE token[c] = circuit.generation
  <2>1. /\ ~circuit'.probe
        /\ circuit'.state = "half_open" => circuit.state = "half_open"
    BY ZenonT(20), <1>0, <1>2, <1>4, RecordProbe DEF ProbeInv
  <2>2. ASSUME NoFallback, circuit'.state = "half_open" PROVE Probing' = {}
    <3>1. \A d \in Probing : d = c
      <4>1. CASE c \in Probing
        BY ZenonT(20), <2>1, <2>2, <4>1 DEF ProbeInv, ProbeIsKnown
      <4>2. CASE c \notin Probing
        <5>1. probe[c]
          BY ZenonT(20), <1>1, <1>4, <2>1, <2>2 DEF TokensByGeneration
        <5> QED
          BY ZenonT(20), <1>1, <1>4, <4>2, <5>1 DEF Probing
      <4> QED
        BY <4>1, <4>2
    <3>2. pc'[c] \notin InCall
      <4>1. pc'[c] \notin Secondary
        BY ZenonT(20), <2>2 DEF PrimaryOnly, NoFallback
      <4> QED
        BY <1>1, <4>1 DEF InCall, Secondary
    <3>3. circuit'.generation = circuit.generation
      BY <1>0, <1>2, <2>2, RecordFacts DEF CircuitType
    <3> QED
      BY ZenonT(20), <1>1, <3>1, <3>2, <3>3 DEF Probing
  <2> QED
    BY ZenonT(20), <2>1, <2>2 DEF ProbeMeansHalfOpen, ProbeRuns, ProbeIsKnown, NoFallback
<1> QED
  BY <1>3, <1>4

\* No other step ends a call of the primary, unless a hook raises.
LEMMA ProbeQuiet ==
    ASSUME TypeInv, HooksByStep, ProbeInv, NEW c \in Contexts,
           open_application(c) \/ Execute(c), ~before_call(c), ~Ends(c)
    PROVE  ProbeMeansHalfOpen' /\ ProbeRuns' /\ ProbeIsKnown'
<1>0. hookFaults \in Nat
  BY DEF TypeInv, ContextType
<1>1. circuit' = circuit
  BY ZenonT(20), QuietCircuit
<1>2. \A d \in Contexts : pc'[d] \in InCall =>
         pc[d] \in InCall /\ token'[d] = token[d] /\ probe'[d] = probe[d]
  BY ZenonT(20), CallFrame
<1>3. /\ \A d \in Contexts \ {c} : pc'[d] = pc[d]
      /\ pc[c] \in InCall \ Secondary =>
            pc'[c] \in InCall \ Secondary \/ hookFaults' = hookFaults + 1
      /\ hookFaults' = hookFaults \/ hookFaults' = hookFaults + 1
  BY ZenonT(20), PrimaryFrame
<1>4. hookFaults' = 0 => hookFaults = 0 /\ hookFaults' # hookFaults + 1
  BY <1>0, <1>3
<1>5. Probing' \subseteq Probing
  BY ZenonT(20), <1>1, <1>2 DEF Probing
<1>6. ASSUME circuit'.probe, hookFaults' = 0
      PROVE  \E d \in Contexts : /\ pc'[d] \in InCall \ Secondary
                                 /\ probe'[d] /\ token'[d] = circuit'.generation
  <2>1. PICK d \in Contexts : /\ pc[d] \in InCall \ Secondary
                              /\ probe[d] /\ token[d] = circuit.generation
    BY ZenonT(20), <1>1, <1>4, <1>6 DEF ProbeInv, ProbeRuns
  <2>2. pc'[d] \in InCall \ Secondary
    BY ZenonT(20), <1>3, <1>4, <1>6, <2>1
  <2> QED
    BY ZenonT(20), <1>1, <1>2, <2>1, <2>2
<1>7. ProbeRuns'
  BY ZenonT(20), <1>6 DEF ProbeRuns
<1> QED
  BY ZenonT(20), <1>1, <1>5, <1>7
  DEF ProbeInv, ProbeMeansHalfOpen, ProbeIsKnown, NoFallback

\* Every step keeps what holds of the probe.
LEMMA ProbeStep ==
    ASSUME TypeInv, HooksByStep, TokensByGeneration, ProbeInv, Next
    PROVE  ProbeInv'
<1>1. ASSUME NEW c \in Contexts, open_application(c) \/ Execute(c) PROVE ProbeInv'
  <2>1. PrimaryOnly'
    <3>1. ASSUME NoFallback PROVE "parse" \notin {"none", "proxy_unavailable"} \cup Errors
      BY <3>1 DEF NoFallback, should_use_secondary
    <3> QED
      BY ZenonT(20), <1>1, <3>1, ErrorFrame DEF ProbeInv, PrimaryOnly, NoFallback
  <2> QED
    BY ZenonT(20), <1>1, <2>1, ProbeAdmit, ProbeRecord, ProbeQuiet DEF ProbeInv
<1>2. CASE TimePasses
  <2>1. UNCHANGED <<pc, token, probe, error, hookFaults>>
    BY <1>2 DEF TimePasses, clientVars, callVars
  <2>2. /\ circuit'.state = circuit.state /\ circuit'.generation = circuit.generation
        /\ circuit'.probe = circuit.probe
    BY <1>2 DEF TypeInv, TimePasses, circuit_cools, CircuitType
  <2>3. Probing' = Probing
    BY ZenonT(20), <2>1, <2>2 DEF Probing
  <2> QED
    BY ZenonT(20), <2>1, <2>2, <2>3
    DEF ProbeInv, ProbeMeansHalfOpen, ProbeRuns, PrimaryOnly, ProbeIsKnown, NoFallback
<1> QED
  BY ZenonT(20), <1>1, <1>2 DEF Next

\* It holds of every behaviour, with the invariants it rests on.
LEMMA ProbeAlways == Spec => []ProbeInv
<1>1. Init => ProbeInv
  <2> SUFFICES ASSUME Init PROVE ProbeInv
    OBVIOUS
  <2>1. circuit.probe = FALSE /\ circuit.state = "closed"
    BY DEF Init, CircuitInit
  <2>2. ASSUME NEW c \in Contexts PROVE error[c] = "none" /\ pc[c] = "closed"
    BY DEF Init
  <2> QED
    BY <2>1, <2>2
    DEF ProbeInv, ProbeMeansHalfOpen, ProbeRuns, PrimaryOnly, ProbeIsKnown, Secondary
<1>2. Init => TokensByGeneration /\ HooksByStep
  BY DEF Init, TokensByGeneration, InCall, HooksByStep, Beginnable
<1>3. TypeInv /\ TokensByGeneration /\ HooksByStep /\ ProbeInv /\ [Next]_vars =>
        TokensByGeneration' /\ HooksByStep' /\ ProbeInv'
  <2>1. TokensByGeneration /\ HooksByStep /\ UNCHANGED vars =>
          TokensByGeneration' /\ HooksByStep'
    BY ZenonT(20) DEF vars, callVars, TokensByGeneration, HooksByStep
  <2>2. ProbeInv /\ UNCHANGED vars => ProbeInv'
    BY ZenonT(20) DEF vars, callVars, ProbeInv, ProbeMeansHalfOpen, ProbeRuns, PrimaryOnly,
       ProbeIsKnown, NoFallback, Probing
  <2>3. TypeInv /\ HooksByStep /\ Next => HooksByStep'
    <3>1. HooksByStep /\ TimePasses => HooksByStep'
      BY ZenonT(20) DEF TimePasses, clientVars, HooksByStep
    <3> QED
      BY ZenonT(20), <3>1, HooksStep DEF Next
  <2> QED
    BY ZenonT(20), <2>1, <2>2, <2>3, TokensStep, ProbeStep
<1>4. Spec => []TypeInv
  BY TypeInit, TypeStep, PTL DEF Spec
<1> QED
  BY <1>1, <1>2, <1>3, <1>4, PTL DEF Spec

\* As long as no hook of a task has raised, a circuit whose probe is out has a
\* call in progress that was admitted as that probe: it is never stuck half open
\* waiting for a result nobody will bring (before_call, record_success,
\* record_failure and execute's hooks).
THEOREM ProbesReturn == Spec => []ProbeIsRunning
<1>1. ProbeInv => ProbeIsRunning
  BY ZenonT(20) DEF ProbeInv, ProbeRuns, ProbeIsRunning, Probing
<1> QED
  BY <1>1, ProbeAlways, PTL

\* Where no error leads to the secondary, a half-open circuit has one probe at
\* most: before_call never admits a second call before the first is over.
THEOREM ProbesAreAlone == Spec => []OneProbe
<1>1. ProbeInv => OneProbe
  BY ZenonT(20) DEF ProbeInv, ProbeIsKnown, NoFallback, OneProbe
<1> QED
  BY <1>1, ProbeAlways, PTL

=============================================================================
