--------------------------- MODULE CircuitBreaker ---------------------------
(***************************************************************************)
(* The process-wide circuit breaker of the crawler                         *)
(* (src/sahabino/crawler/infrastructure/resilience/circuit_breaker.py):    *)
(* its state and its critical sections, each one step under _lock.  The    *)
(* clock is reduced to the one fact before_call asks for: whether the      *)
(* cooldown has elapsed since the circuit opened.                          *)
(***************************************************************************)
EXTENDS Naturals

CONSTANT CircuitThreshold   \* failure_threshold

ASSUME CircuitAssumption == CircuitThreshold \in Nat \ {0}

VARIABLE circuit

CircuitType ==
    circuit \in [state : {"closed", "open", "half_open"},
                 failures : Nat,
                 cooled : BOOLEAN,          \* cooldown_seconds since _opened_at
                 probe : BOOLEAN,           \* _probe_in_flight
                 generation : Nat]

CircuitInit ==
    circuit = [state |-> "closed", failures |-> 0, cooled |-> FALSE,
               probe |-> FALSE, generation |-> 0]

(* before_call raises CircuitOpen. *)
before_call_refuses ==
    /\ \/ circuit.state = "open" /\ ~circuit.cooled
       \/ circuit.state = "half_open" /\ circuit.probe
    /\ UNCHANGED circuit

(* Mutant: a half-open circuit admits every call. *)
before_call_admits_Mutant ==
    \/ circuit.state = "closed" /\ UNCHANGED circuit
    \/ /\ circuit.state = "half_open" \/ circuit.cooled
       /\ circuit' = [circuit EXCEPT !.state = "half_open", !.probe = TRUE]

(* before_call admits the call, which takes the generation as its token.   *)
(* An open circuit whose cooldown has elapsed becomes half open, and a     *)
(* half-open circuit admits the call as its probe.                         *)
before_call_admits ==
    \/ circuit.state = "closed" /\ UNCHANGED circuit
    \/ /\ \/ circuit.state = "open" /\ circuit.cooled
          \/ circuit.state = "half_open" /\ ~circuit.probe
       /\ circuit' = [circuit EXCEPT !.state = "half_open", !.probe = TRUE]

(* record_success: a call of this generation closes the circuit. *)
record_success(token) ==
    circuit' = IF token # circuit.generation THEN circuit
               ELSE [circuit EXCEPT !.state = "closed", !.failures = 0,
                                    !.cooled = FALSE, !.probe = FALSE]

(* Mutant: a new opening does not start a new generation. *)
_open_Mutant(c) ==
    [c EXCEPT !.state = "open", !.cooled = FALSE, !.probe = FALSE]

(* _open: a new generation, so that results of older calls are ignored. *)
_open(c) ==
    [c EXCEPT !.state = "open", !.cooled = FALSE, !.probe = FALSE,
              !.generation = @ + 1]

(* Mutant: a failure that says nothing of the upstream keeps the probe. *)
record_failure_Mutant(relevant, token) ==
    LET counted == [circuit EXCEPT !.failures = @ + 1]
    IN  circuit' =
          IF token # circuit.generation \/ circuit.state = "open" THEN circuit
          ELSE IF ~relevant THEN circuit
          ELSE IF circuit.state = "half_open" THEN _open(circuit)
          ELSE IF counted.failures >= CircuitThreshold THEN _open(counted) ELSE counted

(* record_failure: a failure that says nothing of the upstream frees the   *)
(* probe; one that does opens a half-open circuit, and a closed one at the *)
(* threshold.                                                              *)
record_failure(relevant, token) ==
    LET counted == [circuit EXCEPT !.failures = @ + 1]
    IN  circuit' =
          IF token # circuit.generation \/ circuit.state = "open" THEN circuit
          ELSE IF ~relevant THEN [circuit EXCEPT !.probe = FALSE]
          ELSE IF circuit.state = "half_open" THEN _open(circuit)
          ELSE IF counted.failures >= CircuitThreshold THEN _open(counted) ELSE counted

(* The cooldown elapses. *)
circuit_cools ==
    /\ circuit.state = "open"
    /\ ~circuit.cooled
    /\ circuit' = [circuit EXCEPT !.cooled = TRUE]

=============================================================================
