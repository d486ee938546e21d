--------------------------- MODULE IngestionProofs ---------------------------
(***************************************************************************)
(* Ingestion skips nothing and implements EventStore, for any events,      *)
(* workers and bounds.                                                     *)
(***************************************************************************)
EXTENDS Ingestion, TLAPS

\* A worker's message is in the partition, and decodable where it is handled.
HoldsMessage ==
    \A w \in Workers :
        /\ wk[w].pc # "idle" => wk[w].off \in 1..Len(log)
        /\ wk[w].pc \in {"claim", "handle"} => Event(w) \in Events

\* A row of ingested_events names the message it was written for: a conflict on
\* the offset is a conflict on the event.
RowsMatchLog == \A r \in ingested : log[r.off] = r.event

\* An event being handled has not been handled, and nobody else handles it.
HandlesNew ==
    /\ \A w \in Workers : wk[w].pc = "handle" =>
          \A r \in ingested : r.event.id # Event(w).id
    /\ \A v, w \in Workers :
          (v # w /\ wk[v].pc = "handle" /\ wk[w].pc = "handle") =>
              Event(v).id # Event(w).id

\* An offset is acknowledged only for a message that is settled.
AcksSettled ==
    \A w \in Workers : wk[w].pc = "ack" =>
        Event(w) = Invalid \/ IsApplied(Event(w))

\* The owner works on the first message that is not acknowledged.
OwnerAtHead ==
    \A w \in Workers : (owner = w /\ wk[w].pc # "idle") => wk[w].off = committed + 1

\* The inductive invariants.
TypeInv == TypeOK /\ HoldsMessage
IngestInv ==
    /\ TypeInv /\ RowsMatchLog /\ HandlesNew
    /\ AcksSettled /\ OwnerAtHead /\ NothingSkipped

-----------------------------------------------------------------------------
\* Appending a message leaves the earlier ones where they are.
LEMMA AppendFacts ==
    ASSUME NEW S, NEW s \in Seq(S), NEW m \in S
    PROVE  /\ Append(s, m) \in Seq(S)
           /\ Len(Append(s, m)) = Len(s) + 1
           /\ Len(s) \in Nat
           /\ \A i \in 1..Len(s) : Append(s, m)[i] = s[i]
OBVIOUS

\* An upsert gives a row of the table.
LEMMA UpsertType ==
    ASSUME NEW e \in Events, NEW old \in Review \cup {NoReview}
    PROVE  UpsertReview(old, e) \in Review
<1>1. e.at \in Int /\ e.body \in {x.body : x \in Events}
  BY ConstantsAssumption
<1>2. CASE old = NoReview
  BY <1>1, <1>2 DEF UpsertReview, Review
<1>3. CASE old # NoReview
  <2>1. old \in Review
    BY <1>3
  <2> QED
    BY <1>1, <1>3, <2>1 DEF UpsertReview, Review
<1> QED
  BY <1>2, <1>3

\* The initial tables and workers have their types.
LEMMA TypeInit == Init => TypeInv
<1> SUFFICES ASSUME Init PROVE TypeInv
  OBVIOUS
<1>1. log \in Seq(Events \cup {Invalid}) /\ Len(log) = 0
  BY DEF Init
<1> QED
  BY <1>1 DEF Init, TypeInv, TypeOK, HoldsMessage, IdleWorker

\* Every step keeps the types and the messages held.
LEMMA TypeNext == TypeInv /\ [Next]_vars => TypeInv'
<1> SUFFICES ASSUME TypeInv, [Next]_vars PROVE TypeInv'
  OBVIOUS
<1> USE DEF TypeInv
<1> Len(log) \in Nat
  BY DEF TypeOK
<1>1. ASSUME NEW m \in Events \cup {Invalid}, Produce(m) PROVE TypeInv'
  <2>1. /\ log' \in Seq(Events \cup {Invalid}) /\ Len(log') = Len(log) + 1
        /\ \A i \in 1..Len(log) : log'[i] = log[i]
    BY <1>1, AppendFacts DEF Produce, TypeOK
  <2>2. TypeOK'
    BY <1>1, <2>1 DEF Produce, TypeOK, tables
  <2>3. HoldsMessage'
    BY <1>1, <2>1 DEF Produce, TypeOK, HoldsMessage, Event
  <2> QED
    BY <2>2, <2>3
<1>2. ASSUME NEW w \in Workers, Poll(w) PROVE TypeInv'
  <2>1. log[committed + 1] \in Events \cup {Invalid} /\ committed + 1 \in 1..Len(log)
    BY <1>2 DEF Poll, TypeOK
  <2>9. wk' \in [Workers -> [pc : {"idle", "claim", "handle", "ack"},
                             off : 0..Len(log)]]
    BY <1>2, <2>1 DEF Poll, TypeOK
  <2>2. TypeOK'
    BY <1>2, <2>9 DEF Poll, TypeOK, tables
  <2>3. HoldsMessage'
    BY <1>2, <2>1 DEF Poll, TypeOK, HoldsMessage, Event
  <2> QED
    BY <2>2, <2>3
<1>3. ASSUME NEW w \in Workers, Claim(w) PROVE TypeInv'
  <2>9. wk' \in [Workers -> [pc : {"idle", "claim", "handle", "ack"},
                             off : 0..Len(log)]]
    <3>1. Goto(w, "ack") \/ Goto(w, "handle")
      BY <1>3 DEF Claim
    <3>2. wk[w].off \in 0..Len(log)
      BY DEF TypeOK
    <3>3. CASE Goto(w, "ack")
      BY <3>2, <3>3 DEF Goto, TypeOK
    <3>4. CASE Goto(w, "handle")
      BY <3>2, <3>4 DEF Goto, TypeOK
    <3> QED
      BY <3>1, <3>3, <3>4
  <2>1. TypeOK'
    BY <1>3, <2>9 DEF Claim, TypeOK, tables
  <2>2. HoldsMessage'
    BY <1>3 DEF Claim, Goto, TypeOK, HoldsMessage, Event
  <2> QED
    BY <2>1, <2>2
<1>4. ASSUME NEW w \in Workers, Handle(w) PROVE TypeInv'
  <2>1. Event(w) \in Events /\ wk[w].off \in 1..Len(log) /\ Event(w).subject \in Subjects
    BY <1>4, ConstantsAssumption DEF Handle, HoldsMessage
  <2>2. /\ snapshots' \subseteq Events /\ observations' \subseteq Events
        /\ results' \subseteq Events
    BY <1>4, <2>1
    DEF Handle, TypeOK, HandleAppStats, HandleReview, HandleAnalysis,
        InsertAppSnapshot, InsertReviewObservation
  <2>3. reviews' \in [Subjects -> Review \cup {NoReview}]
    <3>1. UpsertReview(reviews[Event(w).subject], Event(w)) \in Review
      BY <2>1, UpsertType DEF TypeOK
    <3> QED
      BY <1>4, <2>1, <3>1
      DEF Handle, TypeOK, HandleAppStats, HandleReview, HandleAnalysis
  <2>9. wk' \in [Workers -> [pc : {"idle", "claim", "handle", "ack"},
                             off : 0..Len(log)]]
    BY <1>4 DEF Handle, Goto, TypeOK
  <2>8. ingested' \subseteq [event : Events, off : 1..Len(log)]
    BY <1>4, <2>1 DEF Handle, TypeOK
  <2>4. TypeOK'
    BY <1>4, <2>2, <2>3, <2>9, <2>8 DEF Handle, TypeOK
  <2>5. HoldsMessage'
    BY <1>4, <2>1 DEF Handle, Goto, TypeOK, HoldsMessage, Event
  <2> QED
    BY <2>4, <2>5
<1>5. ASSUME NEW w \in Workers, HandleRaises(w) \/ CommitOffset(w) \/ Crash(w)
      PROVE  TypeInv'
  <2>1. CommitOffset(w) => wk[w].off \in 0..Len(log)
    BY DEF TypeOK
  <2>9. wk' \in [Workers -> [pc : {"idle", "claim", "handle", "ack"},
                             off : 0..Len(log)]]
    <3>1. Die(w)
      BY <1>5 DEF HandleRaises, CommitOffset, Crash
    <3> QED
      BY <3>1 DEF Die, IdleWorker, TypeOK
  <2>2. TypeOK'
    BY <1>5, <2>1, <2>9
    DEF HandleRaises, CommitOffset, Crash, Fault, TypeOK, tables
  <2>4. /\ Die(w) /\ log' = log
    BY <1>5 DEF HandleRaises, CommitOffset, Crash
  <2>5. wk'[w].pc = "idle" /\ \A v \in Workers \ {w} : wk'[v] = wk[v]
    BY <2>4 DEF Die, IdleWorker, TypeOK
  <2>3. HoldsMessage'
    BY <2>4, <2>5 DEF HoldsMessage, Event
  <2> QED
    BY <2>2, <2>3
<1>6. ASSUME NEW w \in Workers, Rebalance(w) PROVE TypeInv'
  BY <1>6 DEF Rebalance, Fault, TypeOK, HoldsMessage, Event, tables
<1>7. ASSUME NEW s \in Subjects, ChangeCapture(s) PROVE TypeInv'
  BY <1>7 DEF ChangeCapture, Fault, TypeOK, HoldsMessage, Event, tables
<1>8. CASE UNCHANGED vars
  BY <1>8 DEF vars, tables, TypeOK, HoldsMessage, Event
<1> QED
  BY <1>1, <1>2, <1>3, <1>4, <1>5, <1>6, <1>7, <1>8 DEF Next, WorkerStep

\* Every variable keeps its type: no handler writes a malformed row.
THEOREM TypeCorrect == Spec => []TypeOK
<1>1. TypeInv => TypeOK
  BY DEF TypeInv
<1> QED
  BY <1>1, TypeInit, TypeNext, PTL DEF Spec

-----------------------------------------------------------------------------
\* A handled event is the only one added to those that took effect.
LEMMA HandleApplies ==
    ASSUME NEW w \in Workers, Handle(w)
    PROVE  Applied' = Applied \cup {Event(w)}
<1> DEFINE row == [event |-> Event(w), off |-> wk[w].off]
<1>1. ingested' = ingested \cup {row}
  BY DEF Handle
<1>2. row.event = Event(w)
  OBVIOUS
<1> HIDE DEF row
<1> QED
  BY <1>1, <1>2 DEF Applied

\* Steps that leave ingested_events alone leave the applied events alone.
LEMMA SameApplied ==
    ASSUME ingested' = ingested
    PROVE  Applied' = Applied
BY DEF Applied

\* The empty partition satisfies the invariant.
LEMMA IngestInit == Init => IngestInv
<1> SUFFICES ASSUME Init PROVE IngestInv
  OBVIOUS
<1>1. \A i \in 1..committed : FALSE
  BY DEF Init
<1> QED
  BY <1>1, TypeInit
  DEF Init, IngestInv, RowsMatchLog, HandlesNew, AcksSettled, OwnerAtHead,
      NothingSkipped, IdleWorker

\* Every step keeps the invariant.
LEMMA IngestNext == IngestInv /\ [Next]_vars => IngestInv'
<1> SUFFICES ASSUME IngestInv, [Next]_vars PROVE IngestInv'
  OBVIOUS
<1>0. TypeInv'
  BY TypeNext DEF IngestInv
<1> USE DEF IngestInv
<1>a. Len(log) \in Nat /\ TypeOK /\ HoldsMessage
  BY DEF TypeInv, TypeOK
<1>1. ASSUME NEW m \in Events \cup {Invalid}, Produce(m) PROVE IngestInv'
  <2>1. \A i \in 1..Len(log) : log'[i] = log[i]
    BY <1>1, <1>a, AppendFacts DEF Produce, TypeOK
  <2>2. Applied' = Applied
    BY <1>1, SameApplied DEF Produce
  <2>3. \A v \in Workers : wk[v].pc # "idle" => Event(v)' = Event(v)
    BY <1>1, <1>a, <2>1 DEF Produce, HoldsMessage, Event
  <2>4. RowsMatchLog'
    BY <1>1, <1>a, <2>1 DEF Produce, RowsMatchLog, TypeOK
  <2>5. HandlesNew'
    BY <1>1, <2>3 DEF Produce, HandlesNew
  <2>6. AcksSettled'
    BY <1>1, <2>2, <2>3 DEF Produce, AcksSettled, IsApplied
  <2>7. NothingSkipped'
    BY <1>1, <1>a, <2>1, <2>2 DEF Produce, NothingSkipped, IsApplied, TypeOK
  <2> QED
    BY <1>0, <1>1, <2>4, <2>5, <2>6, <2>7 DEF Produce, OwnerAtHead
<1>2. ASSUME NEW w \in Workers, Poll(w) PROVE IngestInv'
  <2>1. /\ wk'[w].off = committed + 1
        /\ wk'[w].pc = IF log[committed + 1] = Invalid THEN "ack" ELSE "claim"
        /\ \A v \in Workers \ {w} : wk'[v] = wk[v]
    BY <1>2, <1>a DEF Poll, TypeOK
  <2>2. \A v \in Workers \ {w} : Event(v)' = Event(v)
    BY <1>2, <2>1 DEF Poll, Event
  <2>3. Applied' = Applied
    BY <1>2, SameApplied DEF Poll
  <2>4. HandlesNew'
    BY <1>2, <2>1, <2>2 DEF Poll, HandlesNew
  <2>5. AcksSettled'
    BY <1>2, <2>1, <2>2, <2>3 DEF Poll, AcksSettled, IsApplied, Event
  <2>6. OwnerAtHead'
    BY <1>2, <2>1 DEF Poll, OwnerAtHead
  <2> QED
    BY <1>0, <1>2, <2>3, <2>4, <2>5, <2>6
    DEF Poll, RowsMatchLog, NothingSkipped, IsApplied
<1>3. ASSUME NEW w \in Workers, Claim(w) PROVE IngestInv'
  <2>1. /\ wk'[w].off = wk[w].off
        /\ \A v \in Workers \ {w} : wk'[v] = wk[v]
        /\ wk[w].pc = "claim"
    BY <1>3, <1>a DEF Claim, Goto, TypeOK
  <2>2. \A v \in Workers : Event(v)' = Event(v)
    BY <1>3, <2>1 DEF Claim, Event
  <2>3. Applied' = Applied
    BY <1>3, SameApplied DEF Claim
  <2>4. \/ wk'[w].pc = "ack" /\ \E r \in ingested : Conflicts(w, r)
        \/ wk'[w].pc = "handle" /\ \A r \in ingested : ~Conflicts(w, r)
    BY <1>3, <1>a DEF Claim, Goto, TypeOK
  <2>5. \A v \in Workers \ {w} : wk[v].pc = "handle" => Event(v).id # Event(w).id
    BY <1>3 DEF Claim, Conflicts
  <2>6. HandlesNew'
    BY <1>3, <2>1, <2>2, <2>4, <2>5 DEF Claim, HandlesNew, Conflicts
  <2>7. (\E r \in ingested : Conflicts(w, r)) => IsApplied(Event(w))
    BY DEF Conflicts, RowsMatchLog, IsApplied, Applied, Event
  <2>8. AcksSettled'
    BY <2>1, <2>2, <2>3, <2>4, <2>7 DEF AcksSettled, IsApplied
  <2>9. OwnerAtHead'
    BY <1>3, <2>1 DEF Claim, OwnerAtHead
  <2> QED
    BY <1>0, <1>3, <2>3, <2>6, <2>8, <2>9
    DEF Claim, RowsMatchLog, NothingSkipped, IsApplied
<1>4. ASSUME NEW w \in Workers, Handle(w) PROVE IngestInv'
  <2>1. /\ wk'[w] = [pc |-> "ack", off |-> wk[w].off]
        /\ \A v \in Workers \ {w} : wk'[v] = wk[v]
        /\ wk[w].pc = "handle"
    BY <1>4, <1>a DEF Handle, Goto, TypeOK
  <2>2. \A v \in Workers : Event(v)' = Event(v)
    BY <1>4, <2>1 DEF Handle, Event
  <2>3. Applied' = Applied \cup {Event(w)}
    BY <1>4, HandleApplies
  <2>4. RowsMatchLog'
    BY <1>4 DEF Handle, RowsMatchLog, Event
  <2>5. HandlesNew'
    BY <1>4, <2>1, <2>2 DEF Handle, HandlesNew
  <2>6. AcksSettled'
    BY <2>1, <2>2, <2>3 DEF AcksSettled, IsApplied
  <2>7. OwnerAtHead'
    BY <1>4, <2>1 DEF Handle, OwnerAtHead
  <2>8. NothingSkipped'
    BY <1>4, <2>3 DEF Handle, NothingSkipped, IsApplied
  <2> QED
    BY <1>0, <2>4, <2>5, <2>6, <2>7, <2>8
<1>5. ASSUME NEW w \in Workers, HandleRaises(w) \/ CommitOffset(w) \/ Crash(w)
      PROVE  IngestInv'
  <2>1. /\ wk'[w].pc = "idle"
        /\ \A v \in Workers \ {w} : wk'[v] = wk[v]
        /\ log' = log /\ owner' = owner /\ ingested' = ingested
    BY <1>5, <1>a DEF HandleRaises, CommitOffset, Crash, Die, IdleWorker, TypeOK
  <2>2. \A v \in Workers \ {w} : Event(v)' = Event(v)
    BY <2>1 DEF Event
  <2>3. Applied' = Applied
    BY <2>1, SameApplied
  <2>4. HandlesNew' /\ RowsMatchLog'
    BY <2>1, <2>2 DEF HandlesNew, RowsMatchLog
  <2>5. AcksSettled'
    BY <2>1, <2>2, <2>3 DEF AcksSettled, IsApplied
  <2>6. committed' = committed \/ (owner = w /\ wk[w].pc = "ack" /\ committed' = wk[w].off)
    BY <1>5 DEF HandleRaises, CommitOffset, Crash
  <2>7. OwnerAtHead'
    BY <2>1, <2>6 DEF OwnerAtHead
  <2>8. NothingSkipped'
    <3>1. CASE committed' = committed
      BY <2>1, <2>3, <3>1 DEF NothingSkipped, IsApplied
    <3>2. CASE owner = w /\ wk[w].pc = "ack" /\ committed' = wk[w].off
      <4>1. committed' = committed + 1 /\ committed \in Nat
        BY <1>a, <3>2 DEF OwnerAtHead, TypeOK
      <4>2. log[committed + 1] = Invalid \/ IsApplied(log[committed + 1])
        BY <3>2, <4>1 DEF AcksSettled, Event
      <4>3. \A i \in 1..committed' : i \in 1..committed \/ i = committed + 1
        BY <4>1
      <4> QED
        BY <2>1, <2>3, <4>2, <4>3 DEF NothingSkipped, IsApplied
    <3> QED
      BY <2>6, <3>1, <3>2
  <2> QED
    BY <1>0, <2>4, <2>5, <2>7, <2>8
<1>6. ASSUME NEW w \in Workers, Rebalance(w) PROVE IngestInv'
  BY <1>0, <1>6, SameApplied
  DEF Rebalance, RowsMatchLog, HandlesNew, AcksSettled, OwnerAtHead,
      NothingSkipped, IsApplied, Event
<1>7. ASSUME NEW s \in Subjects, ChangeCapture(s) PROVE IngestInv'
  BY <1>0, <1>7, SameApplied
  DEF ChangeCapture, RowsMatchLog, HandlesNew, AcksSettled, OwnerAtHead,
      NothingSkipped, IsApplied, Event
<1>8. CASE UNCHANGED vars
  BY <1>0, <1>8, SameApplied
  DEF vars, RowsMatchLog, HandlesNew, AcksSettled, OwnerAtHead,
      NothingSkipped, IsApplied, Event
<1> QED
  BY <1>1, <1>2, <1>3, <1>4, <1>5, <1>6, <1>7, <1>8 DEF Next, WorkerStep

\* No acknowledged message that could be decoded is lost.
THEOREM NothingIsSkipped == Spec => []NothingSkipped
<1>1. IngestInv => NothingSkipped
  BY DEF IngestInv
<1> QED
  BY <1>1, IngestInit, IngestNext, PTL DEF Spec

-----------------------------------------------------------------------------
\* The tables after a set of observations of one review.
Reflects(seen, row) ==
    IF seen = {} THEN row = NoReview
    ELSE /\ row # NoReview
         /\ \A e \in seen : row.first <= e.at /\ e.at <= row.last
         /\ \E e \in seen : row.first = e.at
         /\ \E e \in seen : row.last = e.at /\ row.body = e.body

\* An upsert keeps a review a summary of its observations, in any order.
LEMMA UpsertReflects ==
    ASSUME NEW seen \in SUBSET Events, NEW e \in Events,
           NEW old \in Review \cup {NoReview}, Reflects(seen, old)
    PROVE  Reflects(seen \cup {e}, UpsertReview(old, e))
<1>0. UpsertReview(old, e) # NoReview
  BY UpsertType, ConstantsAssumption
<1>1. e.at \in Int /\ \A x \in seen : x.at \in Int
  BY ConstantsAssumption
<1>2. CASE old = NoReview
  <2>1. seen = {}
    <3> SUFFICES ASSUME seen # {} PROVE FALSE
      OBVIOUS
    <3> QED
      BY <1>2 DEF Reflects
  <2> QED
    BY <1>0, <1>1, <1>2, <2>1 DEF Reflects, UpsertReview
<1>3. CASE old # NoReview
  <2>1. seen # {} /\ old.first \in Int /\ old.last \in Int
    BY <1>3 DEF Reflects, Review
  <2> DEFINE new == UpsertReview(old, e)
  <2>2. /\ new.first = IF e.at < old.first THEN e.at ELSE old.first
        /\ new.last = IF e.at >= old.last THEN e.at ELSE old.last
        /\ new.body = IF e.at >= old.last THEN e.body ELSE old.body
    BY <1>3 DEF UpsertReview
  <2>6. new # NoReview
    BY <1>0
  <2> HIDE DEF new
  <2>3. \A x \in seen \cup {e} : new.first <= x.at /\ x.at <= new.last
    BY <1>1, <2>1, <2>2 DEF Reflects
  <2>4. \E x \in seen \cup {e} : new.first = x.at
    BY <2>1, <2>2 DEF Reflects
  <2>5. \E x \in seen \cup {e} : new.last = x.at /\ new.body = x.body
    BY <2>1, <2>2 DEF Reflects
  <2> QED
    BY <2>3, <2>4, <2>5, <2>6 DEF Reflects, new
<1> QED
  BY <1>2, <1>3

\* The events of a kind, and of a kind and a review, that took effect.
Kind(k) == {e \in Applied : e.kind = k}
Seen(s) == {e \in Kind("review") : e.subject = s}

\* The tables as a function of the applied events, in this module's terms.
TablesReflect ==
    /\ snapshots \subseteq Kind("stats")
    /\ \A e \in Kind("stats") : \E x \in snapshots : x.task = e.task
    /\ \A x, y \in snapshots : x.task = y.task => x = y
    /\ observations \subseteq Kind("review")
    /\ \A e \in Kind("review") : \E x \in observations :
          <<x.task, x.subject>> = <<e.task, e.subject>>
    /\ \A x, y \in observations :
          <<x.task, x.subject>> = <<y.task, y.subject>> => x = y
    /\ results = Kind("analysis")
    /\ \A s \in Subjects : Reflects(Seen(s), reviews[s])

\* It is the abstract specification's condition.
LEMMA TablesReflectIsStores == TablesReflect <=> Store!TablesReflectApplied
BY DEF TablesReflect, Kind, Seen, Reflects, Store!TablesReflectApplied,
       Store!OneRowPer, Store!Of, Store!Task, Store!Observation, Store!ReviewReflects

\* Handling an event whose effects are new keeps the tables a function of the
\* events that took effect.
LEMMA HandleReflects ==
    ASSUME NEW w \in Workers, TypeInv, TablesReflect, Handle(w)
    PROVE  TablesReflect'
<1> DEFINE e == Event(w)
<1>1. e \in Events /\ e.subject \in Subjects
  BY ConstantsAssumption DEF Handle, TypeInv, HoldsMessage
<1>2. Applied' = Applied \cup {e} /\ Applied \subseteq Events
  BY HandleApplies DEF TypeInv, TypeOK, Applied
<1>3. HandleAppStats(e) \/ HandleReview(e) \/ HandleAnalysis(e)
  BY DEF Handle
<1> HIDE DEF e
<1>4. CASE HandleAppStats(e)
  <2>1. /\ Kind("stats")' = Kind("stats") \cup {e}
        /\ Kind("review")' = Kind("review") /\ Kind("analysis")' = Kind("analysis")
    BY <1>2, <1>4 DEF HandleAppStats, Kind
  <2>2. \A s \in Subjects : Seen(s)' = Seen(s)
    BY <2>1 DEF Seen
  <2>3. snapshots' = IF \E x \in snapshots : x.task = e.task
                     THEN snapshots ELSE snapshots \cup {e}
    BY <1>4 DEF HandleAppStats, InsertAppSnapshot
  <2> QED
    BY <1>4, <2>1, <2>2, <2>3 DEF HandleAppStats, TablesReflect
<1>5. CASE HandleReview(e)
  <2>1. /\ Kind("review")' = Kind("review") \cup {e}
        /\ Kind("stats")' = Kind("stats") /\ Kind("analysis")' = Kind("analysis")
    BY <1>2, <1>5 DEF HandleReview, Kind
  <2>2. \A s \in Subjects :
            Seen(s)' = IF s = e.subject THEN Seen(s) \cup {e} ELSE Seen(s)
    BY <2>1 DEF Seen
  <2>3. observations' =
            IF \E x \in observations : <<x.task, x.subject>> = <<e.task, e.subject>>
            THEN observations ELSE observations \cup {e}
    BY <1>5 DEF HandleReview, InsertReviewObservation
  <2>4. \A s \in Subjects : Reflects(Seen(s)', reviews'[s])
    <3>1. /\ reviews' = [reviews EXCEPT ![e.subject] = UpsertReview(@, e)]
          /\ reviews \in [Subjects -> Review \cup {NoReview}]
      BY <1>5 DEF HandleReview, TypeInv, TypeOK
    <3>2. Seen(e.subject) \in SUBSET Events /\ Reflects(Seen(e.subject), reviews[e.subject])
      BY <1>1, <1>2 DEF TablesReflect, Seen, Kind
    <3>3. Reflects(Seen(e.subject) \cup {e}, UpsertReview(reviews[e.subject], e))
      BY <1>1, <3>1, <3>2, UpsertReflects
    <3> TAKE s \in Subjects
    <3>4. CASE s = e.subject
      BY <1>1, <2>2, <3>1, <3>3, <3>4
    <3>5. CASE s # e.subject
      BY <2>2, <3>1, <3>5 DEF TablesReflect
    <3> QED
      BY <3>4, <3>5
  <2>5. observations' \subseteq Kind("review")'
    BY <2>1, <2>3 DEF TablesReflect
  <2>6. \A x \in Kind("review")' : \E y \in observations' :
            <<y.task, y.subject>> = <<x.task, x.subject>>
    BY <2>1, <2>3 DEF TablesReflect
  <2>7. \A x, y \in observations' :
            <<x.task, x.subject>> = <<y.task, y.subject>> => x = y
    BY <2>3 DEF TablesReflect
  <2> QED
    BY <1>5, <2>1, <2>4, <2>5, <2>6, <2>7 DEF HandleReview, TablesReflect, Reflects
<1>6. CASE HandleAnalysis(e)
  <2>1. /\ Kind("analysis")' = Kind("analysis") \cup {e}
        /\ Kind("review")' = Kind("review") /\ Kind("stats")' = Kind("stats")
    BY <1>2, <1>6 DEF HandleAnalysis, Kind
  <2>2. \A s \in Subjects : Seen(s)' = Seen(s)
    BY <2>1 DEF Seen
  <2> QED
    BY <1>6, <2>1, <2>2 DEF HandleAnalysis, TablesReflect
<1> QED
  BY <1>3, <1>4, <1>5, <1>6

\* The initial state is the empty store.
LEMMA StoreInit == Init => Store!Init /\ TablesReflect
<1> SUFFICES ASSUME Init PROVE Store!Init /\ TablesReflect
  OBVIOUS
<1>1. Applied = {}
  BY DEF Init, Applied
<1> QED
  BY <1>1 DEF Init, Store!Init, TablesReflect, Kind, Seen, Reflects

\* A step is an event taking effect, or changes nothing the store shows.
LEMMA StoreNext ==
    IngestInv /\ TablesReflect /\ [Next]_vars =>
        TablesReflect' /\ [Store!Next]_<<Applied, Store!tables>>
<1> SUFFICES ASSUME IngestInv, TablesReflect, [Next]_vars
             PROVE  TablesReflect' /\ [Store!Next]_<<Applied, Store!tables>>
  OBVIOUS
<1>1. ASSUME NEW w \in Workers, Handle(w)
      PROVE  TablesReflect' /\ [Store!Next]_<<Applied, Store!tables>>
  <2>1. TablesReflect'
    BY <1>1, HandleReflects DEF IngestInv
  <2>2. Store!TablesReflectApplied'
    BY <2>1, TablesReflectIsStores, PTL
  <2>3. Event(w) \in Events /\ Applied' = Applied \cup {Event(w)}
    BY <1>1, HandleApplies DEF Handle, IngestInv, TypeInv, HoldsMessage
  <2>4. \A x \in Applied : x.id # Event(w).id
    BY <1>1 DEF Handle, IngestInv, HandlesNew, Applied
  <2>5. snapshots \subseteq snapshots' /\ observations \subseteq observations'
    BY <1>1 DEF Handle, HandleAppStats, HandleReview, HandleAnalysis,
        InsertAppSnapshot, InsertReviewObservation
  <2>6. Store!Apply(Event(w))
    BY <2>2, <2>3, <2>4, <2>5 DEF Store!Apply
  <2> QED
    BY <2>1, <2>3, <2>6 DEF Store!Next
<1>2. CASE UNCHANGED <<ingested, tables>>
  <2>1. Applied' = Applied
    BY <1>2, SameApplied
  <2> QED
    BY <1>2, <2>1 DEF tables, Store!tables, TablesReflect, Kind, Seen, Reflects
<1>3. (\E w \in Workers : Handle(w)) \/ UNCHANGED <<ingested, tables>>
  BY DEF Next, WorkerStep, Produce, Poll, Claim, HandleRaises, CommitOffset, Crash,
         Rebalance, ChangeCapture, vars
<1> QED
  BY <1>1, <1>2, <1>3

\* Ingestion implements the store: every event takes effect at most once, and
\* the tables depend only on which events did.
THEOREM IngestionImplementsStore == Spec => ImplementsStore
<1>1. Init => IngestInv /\ Store!Init /\ TablesReflect
  BY IngestInit, StoreInit
<1>2. IngestInv /\ TablesReflect /\ [Next]_vars =>
          IngestInv' /\ TablesReflect' /\ [Store!Next]_<<Applied, Store!tables>>
  BY IngestNext, StoreNext
<1> QED
  BY <1>1, <1>2, PTL DEF Spec, ImplementsStore, Store!Spec

=============================================================================
