------------------------------ MODULE Ingestion ------------------------------
(***************************************************************************)
(* The ingestion workers (ingestion/worker.py, repository.py, handlers.py): *)
(* poll one message, claim its event_id and write its rows in one          *)
(* transaction, then commit the offset.  One partition, at-least-once      *)
(* delivery, several workers of which one owns the partition at a time.    *)
(***************************************************************************)
EXTENDS Integers, Sequences, FiniteSets

CONSTANTS Events,     \* collected events; two analyses of a capture share an id
          Subjects,   \* reviews and captures
          Workers,    \* ingestion processes of the consumer group
          Invalid,    \* a message decode_message rejects
          NoReview,   \* no row for a review
          MaxLog,     \* bound: messages in the partition
          MaxFaults   \* bound: crashes, rebalances and changes of the registry

\* A row of reviews, as far as the properties tell rows apart.
Review == [first : Int, last : Int, body : {e.body : e \in Events}]

ASSUME ConstantsAssumption ==
    /\ Invalid \notin Events
    /\ \A e \in Events : /\ e.kind \in {"stats", "review", "analysis"}
                         /\ e.subject \in Subjects /\ e.at \in Int
    /\ NoReview \notin Review
    /\ MaxLog \in Nat /\ MaxFaults \in Nat

VARIABLES log,          \* the partition
          committed,    \* the group's offset: messages acknowledged
          owner,        \* worker the partition is assigned to
          wk,           \* progress of each worker
          ingested,     \* rows of ingested_events: event and offset
          snapshots, reviews, observations, results,  \* the tables
          mismatch,     \* captures whose row contradicts their analysis event
          faults        \* faults so far

tables == <<snapshots, reviews, observations, results>>
vars == <<log, committed, owner, wk, ingested, tables, mismatch, faults>>

IdleWorker == [pc |-> "idle", off |-> 0]

Init ==
    /\ log = <<>> /\ committed = 0
    /\ owner \in Workers
    /\ wk = [w \in Workers |-> IdleWorker]
    /\ ingested = {}
    /\ snapshots = {} /\ observations = {} /\ results = {}
    /\ reviews = [s \in Subjects |-> NoReview]
    /\ mismatch = {} /\ faults = 0

-----------------------------------------------------------------------------
\* A producer appends an event, perhaps once more, or a message of another
\* format arrives.
Produce(m) ==
    /\ Len(log) < MaxLog
    /\ log' = Append(log, m)
    /\ UNCHANGED <<committed, owner, wk, ingested, tables, mismatch, faults>>

Goto(w, pc) == wk' = [wk EXCEPT ![w] = [pc |-> pc, off |-> wk[w].off]]

\* The process exits and is restarted; its open transaction rolls back.
Die(w) == wk' = [wk EXCEPT ![w] = IdleWorker]

\* Mutant: the last message waits for another one.
Poll_Mutant(w) ==
    /\ owner = w /\ wk[w].pc = "idle"
    /\ committed + 1 < Len(log)
    /\ wk' = [wk EXCEPT ![w] =
                [pc |-> IF log[committed + 1] = Invalid THEN "ack" ELSE "claim",
                 off |-> committed + 1]]
    /\ UNCHANGED <<log, committed, owner, ingested, tables, mismatch, faults>>

\* poll and decode_message: what cannot be decoded is only acknowledged.
Poll(w) ==
    /\ owner = w /\ wk[w].pc = "idle"
    /\ committed < Len(log)
    /\ wk' = [wk EXCEPT ![w] =
                [pc |-> IF log[committed + 1] = Invalid THEN "ack" ELSE "claim",
                 off |-> committed + 1]]
    /\ UNCHANGED <<log, committed, owner, ingested, tables, mismatch, faults>>

Event(w) == log[wk[w].off]

\* Either unique constraint of ingested_events.
Conflicts(w, r) == r.event.id = Event(w).id \/ r.off = wk[w].off

\* Mutant: a key of an open transaction already makes a duplicate.
Claim_Mutant(w) ==
    LET pending == {[event |-> Event(v), off |-> wk[v].off] :
                        v \in {u \in Workers \ {w} : wk[u].pc = "handle"}}
    IN  /\ wk[w].pc = "claim"
        /\ \/ (\E r \in ingested \cup pending : Conflicts(w, r)) /\ Goto(w, "ack")
           \/ (\A r \in ingested \cup pending : ~Conflicts(w, r)) /\ Goto(w, "handle")
        /\ UNCHANGED <<log, committed, owner, ingested, tables, mismatch, faults>>

\* claim_event waits for an open transaction that inserted the same key; a key
\* that is there already makes the message a duplicate.
Claim(w) ==
    /\ wk[w].pc = "claim"
    /\ \A v \in Workers \ {w} :
          wk[v].pc = "handle" =>
              ~Conflicts(w, [event |-> Event(v), off |-> wk[v].off])
    /\ \/ (\E r \in ingested : Conflicts(w, r)) /\ Goto(w, "ack")
       \/ (\A r \in ingested : ~Conflicts(w, r)) /\ Goto(w, "handle")
    /\ UNCHANGED <<log, committed, owner, ingested, tables, mismatch, faults>>

\* insert_app_snapshot: ON CONFLICT (crawl_task_id) DO NOTHING
InsertAppSnapshot(e) ==
    IF \E x \in snapshots : x.task = e.task
    THEN snapshots ELSE snapshots \cup {e}

\* insert_review_observation: ON CONFLICT (crawl_task_id, review_id) DO NOTHING
InsertReviewObservation(e) ==
    IF \E x \in observations : <<x.task, x.subject>> = <<e.task, e.subject>>
    THEN observations ELSE observations \cup {e}

\* Mutant: the incoming review always wins.
UpsertReview_Mutant(old, e) ==
    IF old = NoReview THEN [first |-> e.at, last |-> e.at, body |-> e.body]
    ELSE [first |-> IF e.at < old.first THEN e.at ELSE old.first,
          last |-> e.at, body |-> e.body]

UpsertReview(old, e) ==
    IF old = NoReview THEN [first |-> e.at, last |-> e.at, body |-> e.body]
    ELSE [first |-> IF e.at < old.first THEN e.at ELSE old.first,
          last |-> IF e.at >= old.last THEN e.at ELSE old.last,
          body |-> IF e.at >= old.last THEN e.body ELSE old.body]

HandleAppStats(e) ==
    /\ e.kind = "stats"
    /\ snapshots' = InsertAppSnapshot(e)
    /\ UNCHANGED <<reviews, observations, results>>

HandleReview(e) ==
    /\ e.kind = "review"
    /\ reviews' = [reviews EXCEPT ![e.subject] = UpsertReview(@, e)]
    /\ observations' = InsertReviewObservation(e)
    /\ UNCHANGED <<snapshots, results>>

HandleAnalysis(e) ==
    /\ e.kind = "analysis"
    /\ e.subject \notin mismatch
    /\ results' = results \cup {e}
    /\ UNCHANGED <<snapshots, reviews, observations>>

\* handle_event, and the commit that makes its rows and the claim visible.
\* (The rows a handler touches stay locked until then, so that its reads are
\* those of the moment of the commit.)
Handle(w) ==
    /\ wk[w].pc = "handle"
    /\ HandleAppStats(Event(w)) \/ HandleReview(Event(w)) \/ HandleAnalysis(Event(w))
    /\ ingested' = ingested \cup {[event |-> Event(w), off |-> wk[w].off]}
    /\ Goto(w, "ack")
    /\ UNCHANGED <<log, committed, owner, mismatch, faults>>

\* validate_network_analysis raises: roll back and exit, to be redelivered.
HandleRaises(w) ==
    /\ wk[w].pc = "handle"
    /\ Event(w).kind = "analysis" /\ Event(w).subject \in mismatch
    /\ Die(w)
    /\ UNCHANGED <<log, committed, owner, ingested, tables, mismatch, faults>>

\* _commit_offset; a worker that lost the partition is refused and exits.
CommitOffset(w) ==
    /\ wk[w].pc = "ack"
    /\ committed' = IF owner = w THEN wk[w].off ELSE committed
    /\ Die(w)
    /\ UNCHANGED <<log, owner, ingested, tables, mismatch, faults>>

Fault == faults < MaxFaults /\ faults' = faults + 1

\* The process is killed, the database fails, or the offset commit does.
Crash(w) ==
    /\ Fault
    /\ wk[w].pc # "idle"
    /\ Die(w)
    /\ UNCHANGED <<log, committed, owner, ingested, tables, mismatch>>

\* The partition moves; the former owner goes on with the message it holds.
Rebalance(w) ==
    /\ Fault
    /\ owner # w /\ wk[w].pc = "idle"
    /\ owner' = w
    /\ UNCHANGED <<log, committed, wk, ingested, tables, mismatch>>

\* The application is renamed or the capture reopened, or that is undone.
ChangeCapture(s) ==
    /\ Fault
    /\ mismatch' = IF s \in mismatch THEN mismatch \ {s} ELSE mismatch \cup {s}
    /\ UNCHANGED <<log, committed, owner, wk, ingested, tables>>

WorkerStep(w) ==
    Poll(w) \/ Claim(w) \/ Handle(w) \/ HandleRaises(w) \/ CommitOffset(w)

Next ==
    \/ \E m \in Events \cup {Invalid} : Produce(m)
    \/ \E w \in Workers : WorkerStep(w) \/ Crash(w) \/ Rebalance(w)
    \/ \E s \in Subjects : ChangeCapture(s)

Spec == Init /\ [][Next]_vars

\* Workers are restarted and keep polling (run_forever); nobody has to produce.
FairSpec == Spec /\ \A w \in Workers : WF_vars(WorkerStep(w))

-----------------------------------------------------------------------------
Applied == {r.event : r \in ingested}

IsApplied(e) == \E x \in Applied : x.id = e.id

\* Every variable has the shape the code and the schema give it.
TypeOK ==
    /\ log \in Seq(Events \cup {Invalid})
    /\ committed \in 0..Len(log)
    /\ owner \in Workers
    /\ wk \in [Workers -> [pc : {"idle", "claim", "handle", "ack"},
                           off : 0..Len(log)]]
    /\ ingested \subseteq [event : Events, off : 1..Len(log)]
    /\ snapshots \subseteq Events /\ observations \subseteq Events
    /\ results \subseteq Events
    /\ reviews \in [Subjects -> Review \cup {NoReview}]
    /\ mismatch \subseteq Subjects /\ faults \in Nat

\* Nothing is skipped: every message before the committed offset that could be
\* decoded has taken effect, although process_next takes any conflict on either
\* key of ingested_events for a duplicate and crashes fall between the two
\* commits.
NothingSkipped ==
    \A i \in 1..committed : log[i] # Invalid => IsApplied(log[i])

\* README.md:156: "at-least-once delivery with idempotent database effects".
\* Each event takes effect at most once, and the tables depend only on which
\* events did: late, repeated and concurrent deliveries cannot roll a review
\* back or duplicate a row.
Store == INSTANCE EventStore WITH applied <- Applied
ImplementsStore == Store!Spec

\* Every event in the partition takes effect once crashes stop and the rows it
\* refers to are consistent again: no message blocks the partition for good.
EventuallyIngested ==
    <>[](mismatch = {}) =>
        \A e \in Events :
            (\E i \in 1..Len(log) : log[i] = e) ~> IsApplied(e)

=============================================================================
