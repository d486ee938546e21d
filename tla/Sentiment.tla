----------------------------- MODULE Sentiment -----------------------------
(***************************************************************************)
(* The sentiment worker (sentiment/worker.py, inference.py): under one     *)
(* session-level advisory lock it pages through the pending observations,  *)
(* reuses the result of the same text, has the other texts analyzed        *)
(* outside any transaction and records one outcome per text.  Every        *)
(* statement of its autocommit connection is a step of its own, so         *)
(* ingestion, other workers and a lost session come between any two.       *)
(***************************************************************************)
EXTENDS Integers, Sequences, FiniteSets

CONSTANTS Observations,    \* rows of review_observations: review, task, content
          Language,          \* what detect_supported_language makes of a content
          Labels,            \* sentiment labels
          Workers,           \* worker processes
          Watching,          \* the ones run with --watch, not --once
          NoWorker,          \* the lock is free
          BatchSize,         \* SENTIMENT_BATCH_SIZE
          ModelBatchSize,    \* SENTIMENT_MODEL_BATCH_SIZE
          MaxAttempts,       \* SENTIMENT_MAX_ATTEMPTS
          MaxFaults          \* bound: sessions lost and failed starts

\* The (review_id, exact content) identity a result is shared by.
Id(o) == <<o.review, o.content>>
Identities == {Id(o) : o \in Observations}

\* Review ids are an identity column and start at one, so that the zero cursor
\* of a fresh drain is before every row: it stands for no cursor.
ASSUME ConstantsAssumption ==
    /\ IsFiniteSet(Observations)
    /\ \A o \in Observations : /\ o.review \in Nat \ {0} /\ o.task \in Nat
                               /\ Language[o.content] \in {"fa", "en", "none"}
    /\ \A o, p \in Observations : o.review = p.review /\ o.task = p.task => o = p
    /\ NoWorker \notin Workers /\ Watching \subseteq Workers
    /\ {BatchSize, ModelBatchSize, MaxAttempts} \subseteq Nat \ {0}
    /\ MaxFaults \in Nat

\* AnalysisResult, and the rows that hold none.
Done(language, label) == [status |-> "done", language |-> language, label |-> label]
Skipped == [status |-> "skipped", language |-> "none", label |-> "none"]
Row(status) == [status |-> status, language |-> "none", label |-> "none"]
Results == {Done(l, b) : l \in {"fa", "en"}, b \in Labels} \cup {Skipped}
Error == Row("error")

VARIABLES row,        \* the sentiment columns of each observation
          attempts,   \* sentiment_attempt_count
          lock,       \* session that holds the advisory lock
          sessions,   \* workers whose connection is alive
          wk,         \* progress of each worker
          drain,      \* history of the running drain: were rows inserted, attempts before it
          faults

vars == <<row, attempts, lock, sessions, wk, drain, faults>>
db == <<row, attempts>>

Stopped == [pc |-> "stopped", after |-> [review |-> 0, task |-> 0],
            rows |-> <<>>, attempted |-> {}, needs |-> <<>>, out |-> <<>>,
            uncounted |-> 0]

NoDrain == [inserted |-> FALSE, before |-> [o \in Observations |-> 0]]

\* Migration 0007 marks the observations that exist as skipped; their content
\* is NULL, as is that of an old ingestion image.
Init ==
    /\ row \in [Observations -> {Row("absent"), Skipped}]
    /\ \A o \in Observations : row[o] = Skipped => Language[o.content] = "none"
    /\ attempts = [o \in Observations |-> 0]
    /\ lock = NoWorker /\ sessions = {}
    /\ wk = [w \in Workers |-> Stopped]
    /\ drain = NoDrain
    /\ faults = 0

Pending == {o \in Observations : row[o].status = "pending"}
PendingOf(i) == {o \in Pending : Id(o) = i}
Decided(o) == row[o] \in Results
Before(o, p) == o.review < p.review \/ (o.review = p.review /\ o.task < p.task)

\* w is at a statement on its live connection.
At(w, pc) == wk[w].pc = pc /\ w \in sessions

-----------------------------------------------------------------------------
\* Ingestion inserts an observation; the column defaults make it pending.
Insert(o) ==
    /\ row[o].status = "absent"
    /\ row' = [row EXCEPT ![o] = Row("pending")]
    /\ drain' = [drain EXCEPT !.inserted = TRUE]
    /\ UNCHANGED <<attempts, lock, sessions, wk, faults>>

\* main: connect.
Start(w) ==
    /\ wk[w].pc = "stopped"
    /\ sessions' = sessions \cup {w}
    /\ wk' = [wk EXCEPT ![w] = [Stopped EXCEPT !.pc = "lock"]]
    /\ UNCHANGED <<db, lock, drain, faults>>

\* Leaving the connection's context releases the lock of its session.
Exit(w) ==
    /\ wk' = [wk EXCEPT ![w] = Stopped]
    /\ sessions' = sessions \ {w}
    /\ lock' = IF lock = w THEN NoWorker ELSE lock
    /\ drain' = IF lock = w THEN NoDrain ELSE drain

\* try_lock: a worker that finds the lock taken exits.
TryLock(w) ==
    /\ At(w, "lock")
    /\ IF lock = NoWorker
       THEN /\ lock' = w
            /\ wk' = [wk EXCEPT ![w].pc = "load"]
            /\ UNCHANGED <<sessions, drain>>
       ELSE Exit(w)
    /\ UNCHANGED <<db, faults>>

\* build_inference_from_environment: the pinned model is loaded or missing.
LoadModel(w) ==
    /\ wk[w].pc = "load"
    /\ \/ wk' = [wk EXCEPT ![w].pc = "count"] /\ UNCHANGED <<lock, sessions, drain, faults>>
       \/ faults < MaxFaults /\ faults' = faults + 1 /\ Exit(w)
    /\ UNCHANGED db

\* drain: count_pending, with fresh cursor, attempted set and statistics.
CountPending(w) ==
    /\ At(w, "count")
    /\ wk' = [wk EXCEPT ![w] = [Stopped EXCEPT !.pc = "fetch",
                                               !.uncounted = Cardinality(Pending)]]
    /\ drain' = [inserted |-> FALSE, before |-> attempts]
    /\ UNCHANGED <<db, lock, sessions, faults>>

\* page holds the first BatchSize rows of later, in key order.
IsPage(page, later) ==
    LET fetched == {page[k] : k \in DOMAIN page}
    IN  /\ \A j, k \in DOMAIN page : j < k => Before(page[j], page[k])
        /\ \A o \in later \ fetched, p \in fetched : Before(p, o)
        /\ Len(page) < BatchSize => fetched = later

\* Mutant: a page that is not full ends the drain.
FetchPendingAfter_Mutant(w) ==
    /\ At(w, "fetch")
    /\ LET later == {o \in Pending : Before(wk[w].after, o)}
       IN  \E n \in 0..BatchSize : \E page \in [1..n -> later] :
             /\ IsPage(page, later)
             /\ wk' = [wk EXCEPT
                   ![w].pc = IF n < BatchSize THEN "finish" ELSE "look",
                   ![w].rows = IF n < BatchSize THEN <<>> ELSE page,
                   ![w].after = IF n < BatchSize THEN @
                                ELSE [review |-> page[n].review, task |-> page[n].task]]
    /\ UNCHANGED <<db, lock, sessions, drain, faults>>

\* fetch_pending_after: a page of the rows after the cursor that are pending
\* now; none ends the drain.
FetchPendingAfter(w) ==
    /\ At(w, "fetch")
    /\ LET later == {o \in Pending : Before(wk[w].after, o)}
       IN  \E n \in 0..BatchSize : \E page \in [1..n -> later] :
             /\ IsPage(page, later)
             /\ wk' = [wk EXCEPT
                   ![w].pc = IF n = 0 THEN "finish" ELSE "look",
                   ![w].rows = page,
                   ![w].after = IF n = 0 THEN @
                                ELSE [review |-> page[n].review, task |-> page[n].task]]
    /\ UNCHANGED <<db, lock, sessions, drain, faults>>

\* apply_result: every row of the identity that is pending now.
ApplyResult(i, result) ==
    /\ row' = [o \in Observations |-> IF o \in PendingOf(i) THEN result ELSE row[o]]
    /\ UNCHANGED attempts

\* Mutant: only a skipped text is found again.
Reusable_Mutant(i) == {row[o] : o \in {p \in Observations : Id(p) = i}} \cap {Skipped}

\* find_reusable: a result of the same text, an analyzed one before a skipped one.
Reusable(i) ==
    LET found == {row[o] : o \in {p \in Observations : Id(p) = i /\ Decided(p)}}
    IN  {r \in found : r.status = "done" \/ \A s \in found : s.status # "done"}

\* Where the loop over the rows of a page ends.
AfterLook(rest, needs) ==
    IF rest # <<>> THEN "look" ELSE IF needs = <<>> THEN "fetch" ELSE "analyze"

\* Mutant: a text is looked up on every page.
Look_Mutant(w) ==
    LET i == Id(Head(wk[w].rows))
        rest == Tail(wk[w].rows)
    IN  /\ At(w, "look")
        /\ \/ /\ Reusable(i) = {}
              /\ wk' = [wk EXCEPT ![w].rows = rest,
                                  ![w].attempted = @ \cup {i},
                                  ![w].needs = Append(@, i),
                                  ![w].pc = AfterLook(rest, <<i>>)]
              /\ UNCHANGED db
           \/ \E result \in Reusable(i) :
              /\ ApplyResult(i, result)
              /\ wk' = [wk EXCEPT ![w].rows = rest,
                                  ![w].attempted = @ \cup {i},
                                  ![w].uncounted = @ - Cardinality(PendingOf(i)),
                                  ![w].pc = AfterLook(rest, wk[w].needs)]
        /\ UNCHANGED <<lock, sessions, drain, faults>>

\* drain, for one row of the page: a text is looked up once per drain, its
\* result is reused, or it is put on the list to analyze.
Look(w) ==
    LET i == Id(Head(wk[w].rows))
        rest == Tail(wk[w].rows)
    IN  /\ At(w, "look")
        /\ \/ /\ i \in wk[w].attempted
              /\ wk' = [wk EXCEPT ![w].rows = rest,
                                  ![w].pc = AfterLook(rest, wk[w].needs)]
              /\ UNCHANGED db
           \/ /\ i \notin wk[w].attempted /\ Reusable(i) = {}
              /\ wk' = [wk EXCEPT ![w].rows = rest,
                                  ![w].attempted = @ \cup {i},
                                  ![w].needs = Append(@, i),
                                  ![w].pc = AfterLook(rest, <<i>>)]
              /\ UNCHANGED db
           \/ \E result \in Reusable(i) :
              /\ i \notin wk[w].attempted
              /\ ApplyResult(i, result)
              /\ wk' = [wk EXCEPT ![w].rows = rest,
                                  ![w].attempted = @ \cup {i},
                                  ![w].uncounted = @ - Cardinality(PendingOf(i)),
                                  ![w].pc = AfterLook(rest, wk[w].needs)]
        /\ UNCHANGED <<lock, sessions, drain, faults>>

-----------------------------------------------------------------------------
detect_supported_language(content) == Language[content]

\* Positions of the Persian texts among contents, and the model call that
\* takes each of them.
Persian(contents) == {k \in DOMAIN contents : detect_supported_language(contents[k]) = "fa"}
Chunk(contents, k) == (Cardinality({j \in Persian(contents) : j < k})) \div ModelBatchSize

\* Mutant: outcomes are filled from the front.
AnalyzeBatch_Mutant(contents, labels, chunks, items) ==
    [k \in DOMAIN contents |->
        LET skips == Cardinality({j \in DOMAIN contents :
                                     Language[contents[j]] = "none"})
        IN  IF k <= skips THEN Skipped
            ELSE IF k \in items THEN Error
            ELSE Done(IF Language[contents[k]] = "none" THEN "fa"
                      ELSE Language[contents[k]], labels[k])]

\* analyze_batch: a text without a supported language is skipped.  English
\* texts are scored one by one.  Persian texts go to the model in chunks; a
\* chunk whose call raises or returns too few labels is retried one by one.
\* labels is what the models answer, chunks and items are the calls that fail.
AnalyzeBatch(contents, labels, chunks, items) ==
    [k \in DOMAIN contents |->
        LET language == detect_supported_language(contents[k])
            single == language = "en" \/ Chunk(contents, k) \in chunks
        IN  IF language = "none" THEN Skipped
            ELSE IF single /\ k \in items THEN Error
            ELSE Done(language, labels[k])]

\* analyze_batch, outside any transaction: a lost connection is not noticed.
\* An exception of the whole call is an error of every text.
Analyze(w) ==
    LET contents == [k \in DOMAIN wk[w].needs |-> wk[w].needs[k][2]]
        texts == DOMAIN contents
        Record(out) == wk' = [wk EXCEPT ![w].pc = "record", ![w].out = out]
    IN  /\ wk[w].pc = "analyze"
        /\ \/ Record([k \in texts |-> Error])
           \/ \E labels \in [texts -> Labels], items \in SUBSET texts,
                 chunks \in SUBSET {Chunk(contents, k) : k \in Persian(contents)} :
                 Record(AnalyzeBatch(contents, labels, chunks, items))
        /\ UNCHANGED <<db, lock, sessions, drain, faults>>

\* record_failure: one more attempt of every pending row of the identity; the
\* rows that reach the limit have failed.
RecordFailure(i) ==
    /\ attempts' = [o \in Observations |-> attempts[o] + IF o \in PendingOf(i) THEN 1 ELSE 0]
    /\ row' = [o \in Observations |->
                  IF o \in PendingOf(i) /\ attempts[o] + 1 >= MaxAttempts
                  THEN Row("failed") ELSE row[o]]

\* drain, for one outcome: apply_result or record_failure, and the counters.
RecordOutcome(w) ==
    LET i == Head(wk[w].needs)
        outcome == Head(wk[w].out)
    IN  /\ At(w, "record")
        /\ \/ outcome = Error /\ RecordFailure(i)
           \/ outcome # Error /\ ApplyResult(i, outcome)
        /\ wk' = [wk EXCEPT ![w].needs = Tail(@), ![w].out = Tail(@),
                            ![w].uncounted = @ - Cardinality(PendingOf(i)),
                            ![w].pc = IF Len(wk[w].needs) = 1 THEN "fetch" ELSE "record"]
        /\ UNCHANGED <<lock, sessions, drain, faults>>

\* Mutant: the next drain goes on where the last one ended.
Finish_Mutant(w) ==
    /\ wk[w].pc = "finish"
    /\ IF w \in Watching
       THEN wk' = [wk EXCEPT ![w].pc = "fetch"] /\ UNCHANGED <<lock, sessions, drain>>
       ELSE Exit(w)
    /\ UNCHANGED <<db, faults>>

\* run_complete: exit, or sleep before the next drain in watch mode.
Finish(w) ==
    /\ wk[w].pc = "finish"
    /\ IF w \in Watching
       THEN /\ wk' = [wk EXCEPT ![w] = [Stopped EXCEPT !.pc = "count"]]
            /\ drain' = NoDrain
            /\ UNCHANGED <<lock, sessions>>
       ELSE Exit(w)
    /\ UNCHANGED <<db, faults>>

\* The server ends the session of w (a restart, a broken connection, a killed
\* process) and with it the lock.  The next statement of w raises and main
\* returns; only a worker in the middle of an analysis does not notice yet (the
\* rest of its drain is dropped here, as it will not be used any more).
LoseSession(w) ==
    /\ w \in sessions /\ faults < MaxFaults
    /\ faults' = faults + 1
    /\ \/ Exit(w)
       \/ /\ wk[w].pc = "analyze"
          /\ sessions' = sessions \ {w}
          /\ lock' = NoWorker /\ drain' = NoDrain
          /\ wk' = [wk EXCEPT ![w] = [Stopped EXCEPT !.pc = "analyze", !.needs = wk[w].needs,
                                                     !.attempted = wk[w].attempted]]
    /\ UNCHANGED db

\* The first statement after the analysis raises.
Fail(w) ==
    /\ w \notin sessions /\ wk[w].pc = "record"
    /\ Exit(w)
    /\ UNCHANGED <<db, faults>>

Step(w) ==
    \/ TryLock(w) \/ LoadModel(w) \/ CountPending(w) \/ FetchPendingAfter(w)
    \/ Look(w) \/ Analyze(w) \/ RecordOutcome(w) \/ Finish(w) \/ Fail(w)

Next ==
    \/ \E o \in Observations : Insert(o)
    \/ \E w \in Workers : Start(w) \/ Step(w) \/ LoseSession(w)

Spec == Init /\ [][Next]_vars

\* A worker that was started runs on; nothing makes anybody start one.
FairSpec == Spec /\ \A w \in Workers : WF_vars(Step(w))

-----------------------------------------------------------------------------
Pcs == {"stopped", "lock", "load", "count", "fetch", "look", "analyze", "record", "finish"}

\* The shape of the state: a text waits for each outcome, the attempts of a
\* pending row are below the limit and a failed row is at it.
TypeOK ==
    /\ row \in [Observations -> Results \cup {Row("absent"), Row("pending"), Row("failed")}]
    /\ attempts \in [Observations -> 0..MaxAttempts]
    /\ lock \in Workers \cup {NoWorker} /\ sessions \subseteq Workers
    /\ \A w \in Workers :
          /\ wk[w].pc \in Pcs
          /\ wk[w].rows \in Seq(Observations) /\ (wk[w].pc = "look") = (wk[w].rows # <<>>)
          /\ wk[w].attempted \subseteq Identities
          /\ wk[w].needs \in Seq(wk[w].attempted)
          /\ wk[w].out \in Seq(Results \cup {Error})
          /\ wk[w].pc = "record" => Len(wk[w].out) = Len(wk[w].needs) /\ wk[w].out # <<>>
    /\ \A o \in Observations : /\ row[o].status = "pending" => attempts[o] < MaxAttempts
                               /\ row[o].status = "failed" => attempts[o] = MaxAttempts

\* Observations of one review with the same text never show different
\* results: drain reuses a result or analyzes a text once, under the lock, also
\* when a worker goes on analyzing after its session and the lock are gone.
OneResultPerText ==
    \A o, p \in Observations :
        Id(o) = Id(p) /\ Decided(o) /\ Decided(p) => row[o] = row[p]

\* The outcome of analyze_batch reaches the text it is about: a result has the
\* language of the observation's own text, and only a text without a supported
\* language is skipped, whichever calls of the models failed.
ResultFitsText ==
    \A o \in Observations : Decided(o) => row[o].language = Language[o.content]

\* One drain attempts a text at most once: no observation loses more than one
\* of its attempts to a drain, however its text is spread over the pages.
OneAttemptPerDrain ==
    lock # NoWorker /\ wk[lock].pc \notin {"load", "count"} =>
        \A o \in Observations : attempts[o] <= drain.before[o] + 1

\* The counters of run_complete: a drain during which nothing was inserted
\* accounts for every observation that was pending, exactly once.
CountsAddUp ==
    lock # NoWorker /\ wk[lock].pc = "finish" /\ ~drain.inserted =>
        wk[lock].uncounted = 0

\* A worker in watch mode decides every pending observation, unless it exits.
EventuallyDecided ==
    \A o \in Observations :
        (o \in Pending /\ lock \in Watching)
            ~> (o \notin Pending \/ lock = NoWorker)
=============================================================================
