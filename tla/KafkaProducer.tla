--------------------------- MODULE KafkaProducer ---------------------------
(***************************************************************************)
(* KafkaProducer (messaging/producer.py) over the librdkafka client, shared *)
(* by the threads of a process.  One reentrant lock serializes the calls;   *)
(* while a thread holds it, the client goes on delivering.  A delivery      *)
(* report waits until a poll or a flush of any thread serves it; failures   *)
(* go to one list, _delivery_errors, that the next check raises and clears. *)
(*                                                                         *)
(* A call is a batch (publish_batch: one hold of the lock), a single event  *)
(* (KafkaNetworkPublisher: publish, then flush, two holds) or close.        *)
(***************************************************************************)
EXTENDS Integers, Sequences, FiniteSets

CONSTANTS Threads,
          NoThread,      \* the lock is free
          Programs,      \* the calls each thread of a process makes, in order
          QueueSize,     \* messages the client buffers, reports not served included
          MaxRetries,    \* queue_full_max_retries
          MaxFaults      \* bound: exceptions of the client

ASSUME ProducerAssumption ==
    /\ NoThread \notin Threads
    /\ QueueSize \in Nat \ {0} /\ {MaxRetries, MaxFaults} \subseteq Nat

Elems(seq) == {seq[k] : k \in DOMAIN seq}

Calls == UNION {Elems(p[t]) : p \in Programs, t \in Threads}
Messages == UNION {Elems(c.messages) : c \in Calls}

\* A batch may be empty (an application without reviews), an event is one message.
ASSUME ProgramsAssumption ==
    /\ \A p \in Programs : p \in [Threads -> Seq(Calls)]
    /\ \A c \in Calls : /\ c \in [kind : {"batch", "event", "close"}, messages : Seq(Messages)]
                        /\ c.kind = "event" => Len(c.messages) = 1
                        /\ c.kind = "close" => c.messages = <<>>

VARIABLES topics,       \* topics of the broker, with their topology
          inflight,     \* messages the client has not delivered yet
          reports,      \* delivery reports no poll has served: message, ok
          log,          \* messages the broker has stored
          errors,       \* _delivery_errors
          lock, closed,
          th,           \* calls left, place in the first, its messages left, attempts of produce
          sent,         \* history: messages produce has queued
          acked,        \* history: messages of the calls that returned
          told,         \* history: failures some caller was told of
          exceptions    \* exceptions of the client so far

client == <<inflight, reports, log>>
history == <<acked, told>>
vars == <<topics, client, errors, lock, closed, th, sent, history, exceptions>>

Call(t) == Head(th[t].calls)

Init ==
    /\ inflight = {} /\ reports = {} /\ log = {} /\ errors = {}
    /\ lock = NoThread /\ closed = FALSE
    /\ \E program \in Programs :
          th = [t \in Threads |->
                  [calls |-> program[t], pc |-> "idle", todo |-> <<>>, attempt |-> 0]]
    /\ sent = {} /\ acked = {} /\ told = {} /\ exceptions = 0

-----------------------------------------------------------------------------
\* The client delivers a message; it may report a stored message as failed (a
\* lost acknowledgement), and a message for an unknown topic fails.
Deliver(m) ==
    /\ m \in inflight
    /\ inflight' = inflight \ {m}
    /\ \E ok \in BOOLEAN :
         /\ ok => m.topic \in DOMAIN topics
         /\ reports' = reports \cup {[message |-> m, ok |-> ok]}
         /\ log' \in (IF ok THEN {} ELSE {log})
                        \cup (IF m.topic \in DOMAIN topics THEN {log \cup {m}} ELSE {})
    /\ UNCHANGED <<topics, errors, lock, closed, th, sent, history, exceptions>>

\* _on_delivery for every report that is served.
Served == errors \cup {r.message : r \in {q \in reports : ~q.ok}}

\* A call of t ends and leaves the lock; told is what it raises.
Return(t, messages, raised) ==
    /\ th' = [th EXCEPT ![t] = [calls |-> Tail(@.calls), pc |-> "idle", todo |-> <<>>,
                                attempt |-> 0]]
    /\ lock' = IF lock = t THEN NoThread ELSE lock
    /\ acked' = acked \cup messages
    /\ told' = told \cup raised

Raises(t, raised) == Return(t, {}, raised)

\* An exception of the client itself.
ClientFails == exceptions < MaxFaults /\ exceptions' = exceptions + 1

\* The thread makes its next call.
Begin(t) ==
    /\ th[t].pc = "idle" /\ th[t].calls # <<>>
    /\ th' = [th EXCEPT ![t].todo = Call(t).messages,
                        ![t].pc = IF Call(t).kind = "close" THEN "wait_flush"
                                  ELSE "wait_publish"]
    /\ UNCHANGED <<topics, client, errors, lock, closed, sent, history, exceptions>>

\* with self._lock, then _ensure_open; close returns at once from a closed producer.
\* An empty batch is flushed at once.
Acquire(t) ==
    /\ th[t].pc \in {"wait_publish", "wait_flush"} /\ lock = NoThread
    /\ \/ /\ ~closed
          /\ lock' = t
          /\ th' = [th EXCEPT ![t].pc = IF @ = "wait_publish" /\ th[t].todo # <<>>
                                         THEN "produce" ELSE "flush"]
          /\ UNCHANGED history
       \/ closed /\ Raises(t, {})
    /\ UNCHANGED <<topics, client, errors, closed, sent, exceptions>>

\* Mutant: a full queue is retried without a limit.
Produce_Mutant(t) ==
    /\ th[t].pc = "produce"
    /\ LET full == Cardinality(inflight) + Cardinality(reports) >= QueueSize
       IN  /\ inflight' = IF full THEN inflight ELSE inflight \cup {Head(th[t].todo)}
           /\ sent' = sent \cup inflight'
           /\ th' = [th EXCEPT ![t].pc = IF full THEN "poll_full" ELSE "poll"]
    /\ UNCHANGED <<topics, reports, log, errors, lock, closed, history, exceptions>>

\* produce: the message is queued, the queue is full, or the client raises.
Produce(t) ==
    LET full == Cardinality(inflight) + Cardinality(reports) >= QueueSize
    IN  /\ th[t].pc = "produce"
        /\ \/ /\ ~full
              /\ inflight' = inflight \cup {Head(th[t].todo)}
              /\ th' = [th EXCEPT ![t].pc = "poll"]
              /\ UNCHANGED <<lock, history, exceptions>>
           \/ /\ full /\ th[t].attempt < MaxRetries
              /\ th' = [th EXCEPT ![t].pc = "poll_full", ![t].attempt = @ + 1]
              /\ UNCHANGED <<inflight, lock, history, exceptions>>
           \/ /\ full /\ th[t].attempt = MaxRetries
              /\ Raises(t, {}) /\ UNCHANGED <<inflight, exceptions>>
           \/ ClientFails /\ Raises(t, {}) /\ UNCHANGED inflight
        /\ sent' = sent \cup inflight'
        /\ UNCHANGED <<topics, reports, log, errors, closed>>

\* poll serves the reports there are, then _raise_delivery_errors.  A single
\* publish ends after its message, a batch goes on with the next or the flush.
Poll(t) ==
    LET rest == Tail(th[t].todo)
        batch == Call(t).kind = "batch"
    IN  /\ th[t].pc \in {"poll", "poll_full"}
        /\ \/ ClientFails /\ Raises(t, {}) /\ UNCHANGED <<reports, errors>>
           \/ /\ Served # {} /\ reports' = {} /\ errors' = {}
              /\ Raises(t, Served) /\ UNCHANGED exceptions
           \/ /\ Served = {} /\ reports' = {}
              /\ th' = IF th[t].pc = "poll_full" THEN [th EXCEPT ![t].pc = "produce"]
                       ELSE [th EXCEPT ![t].todo = rest, ![t].attempt = 0,
                                       ![t].pc = IF rest # <<>> THEN "produce"
                                                 ELSE IF batch THEN "flush" ELSE "wait_flush"]
              /\ lock' = IF th'[t].pc = "wait_flush" THEN NoThread ELSE lock
              /\ UNCHANGED <<errors, history, exceptions>>
        /\ UNCHANGED <<topics, inflight, log, closed, sent>>

\* Mutant: the errors are forgotten when messages remain.
Flush_Mutant(t) ==
    /\ th[t].pc = "flush"
    /\ reports' = {} /\ errors' = {}
    /\ IF inflight # {} THEN Raises(t, {}) /\ UNCHANGED closed
       ELSE IF Served # {} THEN Raises(t, Served) /\ UNCHANGED closed
       ELSE Return(t, Elems(Call(t).messages), {}) /\ closed' = (closed \/ Call(t).kind = "close")
    /\ UNCHANGED <<topics, inflight, log, sent, exceptions>>

\* Mutant: remaining messages are no error.
FlushRemaining_Mutant(t) ==
    /\ th[t].pc = "flush"
    /\ reports' = {} /\ errors' = {}
    /\ IF Served # {} THEN Raises(t, Served) /\ UNCHANGED closed
       ELSE Return(t, Elems(Call(t).messages), {}) /\ closed' = (closed \/ Call(t).kind = "close")
    /\ UNCHANGED <<topics, inflight, log, sent, exceptions>>

\* _flush: it serves reports until nothing is left or the timeout; a failure
\* that was served before the timeout stays in the list.  close marks the
\* producer closed after it.
Flush(t) ==
    /\ th[t].pc = "flush"
    /\ \/ ClientFails /\ Raises(t, {}) /\ UNCHANGED <<reports, errors, closed>>
       \/ /\ inflight # {} /\ reports' = {} /\ errors' = Served
          /\ Raises(t, {}) /\ UNCHANGED <<closed, exceptions>>
       \/ /\ inflight = {} /\ Served # {} /\ reports' = {} /\ errors' = {}
          /\ Raises(t, Served) /\ UNCHANGED <<closed, exceptions>>
       \/ /\ inflight = {} /\ Served = {} /\ reports' = {} /\ errors' = {}
          /\ Return(t, Elems(Call(t).messages), {})
          /\ closed' = (Call(t).kind = "close") /\ UNCHANGED exceptions
    /\ UNCHANGED <<topics, inflight, log, sent>>

Step(t) == Acquire(t) \/ Produce(t) \/ Poll(t) \/ Flush(t)

Next ==
    \/ \E t \in Threads : Begin(t) \/ Step(t)
    \/ \E m \in inflight : Deliver(m)

-----------------------------------------------------------------------------
\* The threads share the lock, and a thread in a call has made one.
TypeOK ==
    /\ lock \in Threads \cup {NoThread} /\ closed \in BOOLEAN
    /\ \A t \in Threads :
          /\ th[t].attempt \in 0..MaxRetries
          /\ th[t].pc \in {"idle", "wait_publish", "wait_flush", "produce", "poll", "poll_full",
                           "flush"}
          /\ (lock = t) = (th[t].pc \in {"produce", "poll", "poll_full", "flush"})
          /\ th[t].pc \in {"produce", "poll", "poll_full"} => th[t].todo # <<>>
    /\ Cardinality(inflight) + Cardinality(reports) <= QueueSize

\* The delivery boundary: when a call of publish_batch, or of publish and flush,
\* returns without an exception, the broker has stored all its messages,
\* whatever other threads have sent, polled and raised in between.
AckedIsDelivered == acked \subseteq log

\* A message that was queued and is not stored is not forgotten: it is in the
\* client, its failure waits for the next check, or some caller was told.  Once
\* the producer is closed there is no next check: close leaves no message, no
\* report and no error behind.
NothingForgotten ==
    sent \subseteq log \cup told
                   \cup IF closed THEN {}
                        ELSE inflight \cup {r.message : r \in reports} \cup errors

\* Every call comes back, also when the broker never answers: the retries of a
\* full queue and the flush are bounded, and the lock is released.
CallsReturn == \A t \in Threads : th[t].pc # "idle" ~> th[t].pc = "idle"
=============================================================================
