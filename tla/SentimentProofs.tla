-------------------------- MODULE SentimentProofs --------------------------
(***************************************************************************)
(* Texts get one result, and one that fits them, a drain charges one       *)
(* attempt and counts every row, for any observations, workers, batch      *)
(* sizes and faults.                                                       *)
(***************************************************************************)
EXTENDS Sentiment, TLAPS, FiniteSetTheorems, SequenceTheorems

Cursor == [review : Nat, task : Nat]
Progress == [pc : Pcs, after : Cursor, rows : Seq(Observations),
             attempted : SUBSET Identities, needs : Seq(Identities),
             out : Seq(Results \cup {Error}), uncounted : Int]

\* What the fields of one worker's progress have to do with each other: rows
\* are left exactly in the loop over a page, texts on the list were attempted,
\* and there are some where they are analyzed and recorded.
Coherent(r) ==
    /\ (r.pc = "look") = (r.rows # <<>>)
    /\ \A k \in 1..Len(r.needs) : r.needs[k] \in r.attempted
    /\ r.pc = "analyze" => r.needs # <<>>
    /\ r.pc = "record" => Len(r.out) = Len(r.needs) /\ r.out # <<>>

Rows == Results \cup {Row("absent"), Row("pending"), Row("failed")}

\* The columns of an observation: attempts are counted from its insertion to
\* the limit.
Columns ==
    /\ row \in [Observations -> Rows]
    /\ attempts \in [Observations -> 0..MaxAttempts]
    /\ \A o \in Observations : /\ row[o].status = "absent" => attempts[o] = 0
                               /\ row[o].status = "pending" => attempts[o] < MaxAttempts
                               /\ row[o].status = "failed" => attempts[o] = MaxAttempts

\* The inductive form of TypeOK.
TypeInv ==
    /\ Columns
    /\ lock \in Workers \cup {NoWorker} /\ sessions \subseteq Workers
    /\ wk \in [Workers -> Progress]
    /\ \A w \in Workers : Coherent(wk[w])

-----------------------------------------------------------------------------
\* Pending rows can be counted.
LEMMA PendingCount == \A S \in SUBSET Observations : Cardinality(S) \in Nat
BY ZenonT(20), ConstantsAssumption, FS_Subset, FS_CardinalityType

\* The identity of an observation is one of Identities, made of its review and
\* its content.
LEMMA IdentityFacts ==
    \A o \in Observations : Id(o) \in Identities /\ Id(o)[2] = o.content
BY DEF Identities, Id

\* A worker that has stopped has nothing to do.
LEMMA StoppedFacts == Stopped \in Progress /\ Coherent(Stopped)
<1>1. <<>> \in Seq(Observations) /\ <<>> \in Seq(Identities) /\ <<>> \in Seq(Results \cup {Error})
  OBVIOUS
<1>2. Len(<<>>) = 0
  OBVIOUS
<1> QED
  BY <1>1, <1>2 DEF Stopped, Progress, Cursor, Pcs, Coherent

\* Rows of the five statuses are told apart by them.
LEMMA RowFacts ==
    /\ Error \notin Results
    /\ \A r \in Results : r.status \in {"done", "skipped"}
    /\ \A s \in {"absent", "pending", "failed", "error"} :
          Row(s).status = s /\ Row(s) \notin Results
<1>1. \A r \in Results : r.status \in {"done", "skipped"}
  <2> SUFFICES ASSUME NEW r \in Results PROVE r.status \in {"done", "skipped"}
    OBVIOUS
  <2>1. CASE r = Skipped
    BY <2>1 DEF Skipped
  <2>2. CASE \E l \in {"fa", "en"}, b \in Labels : r = Done(l, b)
    BY <2>2 DEF Done
  <2> QED
    BY <2>1, <2>2 DEF Results
<1>2. \A s \in {"absent", "pending", "failed", "error"} : Row(s).status = s
  BY DEF Row
<1>3. \A s \in {"absent", "pending", "failed", "error"} : Row(s) \notin Results
  BY <1>1, <1>2
<1> QED
  BY <1>1, <1>2, <1>3 DEF Error

\* The record of one worker changes, the others stay.
LEMMA OneWorker ==
    ASSUME wk \in [Workers -> Progress], \A v \in Workers : Coherent(wk[v]),
           NEW w \in Workers, NEW r \in Progress, Coherent(r),
           wk' = [wk EXCEPT ![w] = r]
    PROVE  wk' \in [Workers -> Progress] /\ \A v \in Workers : Coherent(wk'[v])
<1>1. wk' \in [Workers -> Progress]
  OBVIOUS
<1>2. \A v \in Workers : wk'[v] = IF v = w THEN r ELSE wk[v]
  OBVIOUS
<1> QED
  BY <1>1, <1>2

\* apply_result decides pending rows and nothing else.
LEMMA ApplyColumns ==
    ASSUME Columns, NEW i, NEW result \in Results, ApplyResult(i, result)
    PROVE  Columns'
<1>1. \A o \in Observations : row'[o] = IF o \in PendingOf(i) THEN result ELSE row[o]
  BY DEF ApplyResult
<1>2. row' \in [Observations -> Rows]
  BY DEF ApplyResult, Columns, Rows
<1>3. result.status \in {"done", "skipped"}
  BY RowFacts
<1> QED
  BY <1>1, <1>2, <1>3 DEF Columns, ApplyResult

\* record_failure counts an attempt of pending rows and stops at the limit.
LEMMA FailureColumns ==
    ASSUME Columns, NEW i, RecordFailure(i)
    PROVE  Columns'
<1>1. \A o \in PendingOf(i) : o \in Observations /\ row[o].status = "pending"
  BY DEF PendingOf, Pending
<1>2. \A o \in Observations :
         /\ row'[o] = IF o \in PendingOf(i) /\ attempts[o] + 1 >= MaxAttempts
                      THEN Row("failed") ELSE row[o]
         /\ attempts'[o] = attempts[o] + IF o \in PendingOf(i) THEN 1 ELSE 0
  BY DEF RecordFailure
<1>3. MaxAttempts \in Nat \ {0}
  BY ConstantsAssumption
<1>4. row' \in [Observations -> Rows]
  BY DEF RecordFailure, Columns, Rows
<1>5. \A o \in Observations : attempts'[o] \in 0..MaxAttempts
  BY <1>1, <1>2, <1>3 DEF Columns
<1>6. attempts' \in [Observations -> 0..MaxAttempts]
  BY <1>5 DEF RecordFailure
<1>7. Row("failed").status = "failed"
  BY RowFacts
<1>8. ASSUME NEW o \in Observations
      PROVE  /\ row'[o].status = "absent" => attempts'[o] = 0
             /\ row'[o].status = "pending" => attempts'[o] < MaxAttempts
             /\ row'[o].status = "failed" => attempts'[o] = MaxAttempts
  <2>1. CASE o \in PendingOf(i) /\ attempts[o] + 1 >= MaxAttempts
    BY <2>1, <1>1, <1>2, <1>3, <1>7 DEF Columns
  <2>2. CASE o \in PendingOf(i) /\ ~(attempts[o] + 1 >= MaxAttempts)
    BY <2>2, <1>1, <1>2, <1>3 DEF Columns
  <2>3. CASE o \notin PendingOf(i)
    BY <2>3, <1>2, <1>3 DEF Columns
  <2> QED
    BY <2>1, <2>2, <2>3
<1> QED
  BY <1>4, <1>6, <1>8 DEF Columns

\* Leaving the connection's context keeps the types.
LEMMA ExitTypes ==
    ASSUME TypeInv, NEW w \in Workers, Exit(w), UNCHANGED db
    PROVE  TypeInv'
<1>1. wk' \in [Workers -> Progress] /\ \A v \in Workers : Coherent(wk'[v])
  BY OneWorker, StoppedFacts DEF Exit, TypeInv
<1>2. lock' \in Workers \cup {NoWorker} /\ sessions' \subseteq Workers
  BY DEF Exit, TypeInv
<1>3. Columns'
  BY DEF TypeInv, Columns, db
<1> QED
  BY <1>1, <1>2, <1>3 DEF TypeInv

\* A function on 1..n is a sequence of length n.
LEMMA FunctionIsSequence ==
    ASSUME NEW n \in Nat, NEW S
    PROVE  \A f \in [1..n -> S] : f \in Seq(S) /\ Len(f) = n /\ (f = <<>>) = (n = 0)
<1>1. \A f \in [1..n -> S] : f \in Seq(S) /\ Len(f) = n
  OBVIOUS
<1> QED
  BY <1>1, EmptySeq

\* A page is a sequence of observations.
LEMMA PageFacts ==
    ASSUME NEW n \in Nat, NEW later \in SUBSET Observations, NEW page \in [1..n -> later]
    PROVE  /\ page \in Seq(Observations) /\ Len(page) = n
           /\ (page = <<>>) = (n = 0)
           /\ n # 0 => page[n] \in Observations
<1>1. page \in [1..n -> Observations]
  OBVIOUS
<1>2. page \in Seq(Observations) /\ Len(page) = n
  BY <1>1
<1> QED
  BY <1>2, EmptySeq

\* The head and the tail of a sequence that is not empty.
LEMMA TailFacts ==
    ASSUME NEW S, NEW s \in Seq(S), s # <<>>
    PROVE  /\ Head(s) = s[1] /\ Head(s) \in S /\ 1 \in 1..Len(s)
           /\ Tail(s) \in Seq(S) /\ Len(Tail(s)) = Len(s) - 1
           /\ \A k \in 1..Len(Tail(s)) : Tail(s)[k] = s[k+1] /\ k+1 \in 1..Len(s)
<1>1. Len(s) \in Nat \ {0}
  BY EmptySeq, LenProperties
<1> QED
  BY <1>1

\* fetch_pending_after keeps the types.
LEMMA FetchTypes ==
    ASSUME TypeInv, NEW w \in Workers, FetchPendingAfter(w)
    PROVE  TypeInv'
<1> DEFINE later == {o \in Pending : Before(wk[w].after, o)}
<1>0. PICK n \in 0..BatchSize : \E page \in [1..n -> later] :
         wk' = [wk EXCEPT ![w].pc = IF n = 0 THEN "finish" ELSE "look",
                          ![w].rows = page,
                          ![w].after = IF n = 0 THEN @
                                ELSE [review |-> page[n].review, task |-> page[n].task]]
  BY ZenonT(20) DEF FetchPendingAfter
<1>1. PICK page \in [1..n -> later] :
         wk' = [wk EXCEPT ![w].pc = IF n = 0 THEN "finish" ELSE "look",
                          ![w].rows = page,
                          ![w].after = IF n = 0 THEN @
                                ELSE [review |-> page[n].review, task |-> page[n].task]]
  BY ZenonT(20), <1>0
<1> DEFINE r == [wk[w] EXCEPT !.pc = IF n = 0 THEN "finish" ELSE "look",
                              !.rows = page,
                              !.after = IF n = 0 THEN @
                                ELSE [review |-> page[n].review, task |-> page[n].task]]
<1>2. wk' = [wk EXCEPT ![w] = r]
  BY ZenonT(20), <1>1 DEF TypeInv, Progress
<1>3. later \in SUBSET Observations /\ n \in Nat
  BY ConstantsAssumption DEF Pending
<1>4. /\ page \in Seq(Observations)
      /\ (page = <<>>) = (n = 0)
      /\ n # 0 => page[n] \in Observations
  BY <1>3, PageFacts
<1>5. n # 0 => [review |-> page[n].review, task |-> page[n].task] \in Cursor
  BY <1>4, ConstantsAssumption DEF Cursor
<1>6. wk[w] \in Progress /\ Coherent(wk[w]) /\ wk[w].pc = "fetch"
  BY DEF TypeInv, FetchPendingAfter, At
<1>7. r \in Progress
  BY ZenonT(20), <1>4, <1>5, <1>6 DEF Progress, Pcs
<1>8. Coherent(r)
  BY <1>4, <1>6 DEF Coherent, Progress
<1>9. wk' \in [Workers -> Progress] /\ \A v \in Workers : Coherent(wk'[v])
  <2> HIDE DEF r
  <2> QED
    BY <1>2, <1>7, <1>8, OneWorker DEF TypeInv
<1> QED
  BY <1>9 DEF TypeInv, FetchPendingAfter, Columns, db

\* AfterLook stays in the loop exactly while rows are left.
LEMMA AfterLookFacts ==
    ASSUME NEW rest, NEW needs
    PROVE  /\ AfterLook(rest, needs) \in Pcs
           /\ (AfterLook(rest, needs) = "look") = (rest # <<>>)
           /\ AfterLook(rest, needs) = "analyze" => needs # <<>>
           /\ AfterLook(rest, needs) # "record"
           /\ AfterLook(rest, needs) \in {"look", "fetch", "analyze"}
           /\ AfterLook(rest, needs) = "fetch" => needs = <<>>
BY DEF AfterLook, Pcs

\* Adding a text to the list of those to analyze.
LEMMA AppendFacts ==
    ASSUME NEW S, NEW s \in Seq(S), NEW x \in S
    PROVE  /\ Append(s, x) \in Seq(S) /\ Append(s, x) # <<>>
           /\ Len(Append(s, x)) = Len(s) + 1 /\ Len(s) \in Nat
           /\ \A k \in 1..Len(s) : Append(s, x)[k] = s[k]
           /\ Append(s, x)[Len(s) + 1] = x
<1>1. Append(s, x) \in Seq(S) /\ Len(Append(s, x)) = Len(s) + 1 /\ Len(s) \in Nat
  OBVIOUS
<1>2. Append(s, x) # <<>>
  BY <1>1
<1>3. \A k \in 1..Len(s) : Append(s, x)[k] = s[k]
  OBVIOUS
<1>4. Append(s, x)[Len(s) + 1] = x
  OBVIOUS
<1> QED
  BY <1>1, <1>2, <1>3, <1>4

\* The loop over the rows of a page keeps the types.
LEMMA LookTypes ==
    ASSUME TypeInv, NEW w \in Workers, Look(w)
    PROVE  TypeInv'
<1> DEFINE i == Id(Head(wk[w].rows))
           rest == Tail(wk[w].rows)
           r1 == [wk[w] EXCEPT !.rows = rest, !.pc = AfterLook(rest, wk[w].needs)]
           r2 == [wk[w] EXCEPT !.rows = rest, !.attempted = @ \cup {i},
                               !.needs = Append(@, i), !.pc = AfterLook(rest, <<i>>)]
           r3 == [wk[w] EXCEPT !.rows = rest, !.attempted = @ \cup {i},
                               !.uncounted = @ - Cardinality(PendingOf(i)),
                               !.pc = AfterLook(rest, wk[w].needs)]
<1>1. wk[w] \in Progress /\ Coherent(wk[w]) /\ wk[w].pc = "look"
  BY ZenonT(20) DEF TypeInv, Look, At
<1>2. rest \in Seq(Observations) /\ Head(wk[w].rows) \in Observations
  <2>1. wk[w].rows \in Seq(Observations) /\ wk[w].rows # <<>>
    BY <1>1 DEF Progress, Coherent
  <2> QED
    BY <2>1, TailFacts
<1>3. i \in Identities
  BY <1>2, IdentityFacts
<1>4. wk[w].needs \in Seq(Identities) /\ wk[w].attempted \in SUBSET Identities
  BY <1>1 DEF Progress
<1>5. CASE wk' = [wk EXCEPT ![w].rows = rest, ![w].pc = AfterLook(rest, wk[w].needs)]
           /\ UNCHANGED db
  <2>1. wk' = [wk EXCEPT ![w] = r1]
    BY ZenonT(20), <1>5 DEF TypeInv, Progress
  <2>2. r1 \in Progress
    BY ZenonT(20), <1>1, <1>2, AfterLookFacts DEF Progress
  <2>3. Coherent(r1)
    <3>1. /\ r1.rows = rest /\ r1.needs = wk[w].needs /\ r1.attempted = wk[w].attempted
          /\ r1.pc = AfterLook(rest, wk[w].needs)
      BY <1>1 DEF Progress
    <3> HIDE DEF r1, rest
    <3> QED
      BY <3>1, <1>1, AfterLookFacts DEF Coherent
  <2>4. wk' \in [Workers -> Progress] /\ \A v \in Workers : Coherent(wk'[v])
    <3> HIDE DEF r1
    <3> QED
      BY <2>1, <2>2, <2>3, OneWorker DEF TypeInv
  <2> QED
    BY ZenonT(20), <1>5, <2>4 DEF TypeInv, Look, Columns, db
<1>6. CASE wk' = [wk EXCEPT ![w].rows = rest, ![w].attempted = @ \cup {i},
                            ![w].needs = Append(@, i), ![w].pc = AfterLook(rest, <<i>>)]
           /\ UNCHANGED db
  <2>1. wk' = [wk EXCEPT ![w] = r2]
    BY ZenonT(20), <1>6 DEF TypeInv, Progress
  <2> DEFINE longer == Append(wk[w].needs, i)
  <2>2. /\ longer \in Seq(Identities) /\ longer # <<>>
        /\ \A k \in 1..Len(longer) : longer[k] \in wk[w].attempted \cup {i}
    <3>1. \A k \in 1..Len(wk[w].needs) : wk[w].needs[k] \in wk[w].attempted
      BY <1>1 DEF Coherent
    <3> QED
      BY <3>1, <1>3, <1>4, AppendFacts
  <2>3. r2 \in Progress
    <3> HIDE DEF longer, i, rest
    <3> QED
      BY ZenonT(20), <1>1, <1>2, <1>3, <1>4, <2>2, AfterLookFacts DEF Progress, longer
  <2>4. Coherent(r2)
    <3>1. /\ r2.rows = rest /\ r2.needs = longer /\ r2.attempted = wk[w].attempted \cup {i}
          /\ r2.pc = AfterLook(rest, <<i>>)
      BY <1>1 DEF Progress
    <3> HIDE DEF r2, longer, rest, i
    <3> QED
      BY <3>1, <2>2, AfterLookFacts DEF Coherent
  <2>5. wk' \in [Workers -> Progress] /\ \A v \in Workers : Coherent(wk'[v])
    <3> HIDE DEF r2
    <3> QED
      BY <2>1, <2>3, <2>4, OneWorker DEF TypeInv
  <2> QED
    BY ZenonT(20), <1>6, <2>5 DEF TypeInv, Look, Columns, db
<1>7. ASSUME NEW result \in Reusable(i), ApplyResult(i, result),
             wk' = [wk EXCEPT ![w].rows = rest, ![w].attempted = @ \cup {i},
                              ![w].uncounted = @ - Cardinality(PendingOf(i)),
                              ![w].pc = AfterLook(rest, wk[w].needs)]
      PROVE  TypeInv'
  <2>1. wk' = [wk EXCEPT ![w] = r3]
    BY ZenonT(20), <1>7 DEF TypeInv, Progress
  <2>2. Cardinality(PendingOf(i)) \in Nat
    BY PendingCount DEF PendingOf, Pending
  <2>3. r3 \in Progress
    <3> DEFINE left == wk[w].uncounted - Cardinality(PendingOf(i))
               pc == AfterLook(rest, wk[w].needs)
               tried == wk[w].attempted \cup {i}
    <3>1. left \in Int
      BY <1>1, <2>2 DEF Progress
    <3>2. pc \in Pcs /\ tried \in SUBSET Identities
      BY <1>3, <1>4, AfterLookFacts
    <3>3. r3 = [wk[w] EXCEPT !.rows = rest, !.attempted = tried, !.uncounted = left, !.pc = pc]
      OBVIOUS
    <3> HIDE DEF r3, i, rest, left, pc, tried
    <3> QED
      BY ZenonT(20), <1>1, <1>2, <3>1, <3>2, <3>3 DEF Progress
  <2>4. Coherent(r3)
    <3>1. /\ r3.rows = rest /\ r3.needs = wk[w].needs
          /\ r3.attempted = wk[w].attempted \cup {i}
          /\ r3.pc = AfterLook(rest, wk[w].needs)
      BY <1>1 DEF Progress
    <3>2. \A k \in 1..Len(r3.needs) : r3.needs[k] \in r3.attempted
      <4> HIDE DEF r3
      <4> QED
        BY <3>1, <1>1 DEF Coherent
    <3> HIDE DEF r3, rest, i
    <3> QED
      BY <3>1, <3>2, AfterLookFacts DEF Coherent
  <2>5. wk' \in [Workers -> Progress] /\ \A v \in Workers : Coherent(wk'[v])
    <3> HIDE DEF r3
    <3> QED
      BY <2>1, <2>3, <2>4, OneWorker DEF TypeInv
  <2>6. Columns'
    <3>1. result \in Results
      BY DEF Reusable, Decided
    <3> QED
      BY <1>7, <3>1, ApplyColumns DEF TypeInv
  <2> QED
    BY ZenonT(20), <2>5, <2>6 DEF TypeInv, Look
<1> QED
  BY ZenonT(20), <1>5, <1>6, <1>7 DEF Look

\* The outcomes fit the texts: results have the language of the text.
Fits(needs, out) ==
    \A k \in 1..Len(needs) : out[k] \in Results => out[k].language = Language[needs[k][2]]

\* analyze_batch has an outcome for each text, in the order of the texts.
LEMMA BatchFacts ==
    ASSUME NEW needs \in Seq(Identities),
           NEW labels \in [1..Len(needs) -> Labels], NEW chunks, NEW items,
           NEW contents, contents = [k \in DOMAIN needs |-> needs[k][2]]
    PROVE  /\ AnalyzeBatch(contents, labels, chunks, items)
                \in [1..Len(needs) -> Results \cup {Error}]
           /\ Fits(needs, AnalyzeBatch(contents, labels, chunks, items))
<1> DEFINE out == AnalyzeBatch(contents, labels, chunks, items)
<1>1. DOMAIN contents = 1..Len(needs) /\ \A k \in 1..Len(needs) : contents[k] = needs[k][2]
  OBVIOUS
<1>2. \A k \in 1..Len(needs) : Language[contents[k]] \in {"fa", "en", "none"}
  <2> TAKE k \in 1..Len(needs)
  <2>1. PICK o \in Observations : needs[k] = Id(o)
    BY DEF Identities
  <2> QED
    BY ZenonT(20), <2>1, <1>1, IdentityFacts, ConstantsAssumption
<1>3. ASSUME NEW k \in 1..Len(needs)
      PROVE  /\ out[k] \in {Skipped, Error, Done(Language[contents[k]], labels[k])}
             /\ out[k] = Skipped => Language[contents[k]] = "none"
             /\ Language[contents[k]] = "none" => out[k] = Skipped
  <2>1. out[k] = LET language == Language[contents[k]]
                     single == language = "en" \/ Chunk(contents, k) \in chunks
                 IN  IF language = "none" THEN Skipped
                     ELSE IF single /\ k \in items THEN Error
                     ELSE Done(language, labels[k])
    BY <1>1 DEF AnalyzeBatch, detect_supported_language
  <2>2. Skipped # Error /\ Skipped # Done(Language[contents[k]], labels[k])
    BY DEF Skipped, Error, Row, Done
  <2> QED
    BY ZenonT(20), <2>1, <2>2
<1>4. \A k \in 1..Len(needs) : out[k] \in Results \cup {Error}
  <2> TAKE k \in 1..Len(needs)
  <2>1. Skipped \in Results /\ \A l \in {"fa", "en"} : Done(l, labels[k]) \in Results
    BY DEF Results
  <2> HIDE DEF out
  <2>2. CASE Language[contents[k]] = "none"
    BY ZenonT(20), <1>3, <2>1, <2>2
  <2>3. CASE Language[contents[k]] \in {"fa", "en"}
    <3>1. Done(Language[contents[k]], labels[k]) \in Results
      BY <2>1, <2>3
    <3> QED
      BY ZenonT(20), <1>3, <2>1, <3>1
  <2> QED
    BY ZenonT(20), <1>2, <2>2, <2>3
<1>5. out \in [1..Len(needs) -> Results \cup {Error}]
  <2>1. DOMAIN out = 1..Len(needs)
    BY <1>1 DEF AnalyzeBatch
  <2>2. out = [k \in DOMAIN out |-> out[k]]
    BY DEF AnalyzeBatch
  <2> HIDE DEF out
  <2> QED
    BY <1>4, <2>1, <2>2
<1>6. ASSUME NEW k \in 1..Len(needs), out[k] \in Results
      PROVE  out[k].language = Language[needs[k][2]]
  <2>1. Skipped.language = "none" /\ \A l, b : Done(l, b).language = l
    BY DEF Skipped, Done
  <2>2. out[k] # Error
    BY <1>6, RowFacts
  <2> HIDE DEF out
  <2>3. CASE out[k] = Skipped
    BY <1>1, <1>3, <2>1, <2>3
  <2>4. CASE out[k] = Done(Language[contents[k]], labels[k])
    BY <1>1, <2>1, <2>4
  <2> QED
    BY ZenonT(20), <1>3, <2>2, <2>3, <2>4
<1> QED
  BY <1>5, <1>6 DEF Fits

\* analyze_batch as a step: one outcome per text, and fitting ones.
LEMMA AnalyzeFacts ==
    ASSUME TypeInv, NEW w \in Workers, Analyze(w)
    PROVE  \E out \in Seq(Results \cup {Error}) :
              /\ Len(out) = Len(wk[w].needs) /\ out # <<>>
              /\ Fits(wk[w].needs, out)
              /\ wk' = [wk EXCEPT ![w] = [wk[w] EXCEPT !.pc = "record", !.out = out]]
<1> DEFINE needs == wk[w].needs
           contents == [k \in DOMAIN needs |-> needs[k][2]]
           Outcome(out) == wk' = [wk EXCEPT ![w].pc = "record", ![w].out = out]
<1>1. needs \in Seq(Identities) /\ needs # <<>>
  BY ZenonT(20) DEF TypeInv, Progress, Coherent, Analyze
<1>2. Len(needs) \in Nat \ {0} /\ DOMAIN needs = 1..Len(needs) /\ DOMAIN contents = 1..Len(needs)
  BY <1>1, EmptySeq, LenProperties
<1>3. SUFFICES \E out \in [1..Len(needs) -> Results \cup {Error}] :
                  Fits(needs, out) /\ Outcome(out)
  <2>1. \A out \in [1..Len(needs) -> Results \cup {Error}] :
           out \in Seq(Results \cup {Error}) /\ Len(out) = Len(needs) /\ out # <<>>
    BY <1>2, FunctionIsSequence
  <2>2. \A out : Outcome(out) =>
           wk' = [wk EXCEPT ![w] = [wk[w] EXCEPT !.pc = "record", !.out = out]]
    BY ZenonT(20) DEF TypeInv, Progress
  <2>3. SUFFICES ASSUME NEW out \in [1..Len(needs) -> Results \cup {Error}],
                        Fits(needs, out), Outcome(out)
                 PROVE  \E o \in Seq(Results \cup {Error}) :
                           /\ Len(o) = Len(needs) /\ o # <<>> /\ Fits(needs, o)
                           /\ wk' = [wk EXCEPT ![w] = [wk[w] EXCEPT !.pc = "record", !.out = o]]
    BY Zenon
  <2> HIDE DEF Outcome, needs
  <2> WITNESS out \in Seq(Results \cup {Error})
  <2> QED
    BY ZenonT(20), <2>1, <2>2, <2>3
<1>4. CASE Outcome([k \in DOMAIN contents |-> Error])
  <2>1. [k \in DOMAIN contents |-> Error] \in [1..Len(needs) -> Results \cup {Error}]
    BY <1>2
  <2>2. Fits(needs, [k \in DOMAIN contents |-> Error])
    BY <1>2, RowFacts DEF Fits
  <2> QED
    BY ZenonT(20), <1>4, <2>1, <2>2
<1>5. ASSUME NEW labels \in [DOMAIN contents -> Labels], NEW items, NEW chunks,
             Outcome(AnalyzeBatch(contents, labels, chunks, items))
      PROVE  \E out \in [1..Len(needs) -> Results \cup {Error}] :
                Fits(needs, out) /\ Outcome(out)
  <2> DEFINE out == AnalyzeBatch(contents, labels, chunks, items)
  <2>1. out \in [1..Len(needs) -> Results \cup {Error}] /\ Fits(needs, out)
    BY ZenonT(20), <1>1, <1>2, BatchFacts
  <2> HIDE DEF out
  <2> QED
    BY ZenonT(20), <1>5, <2>1 DEF out
<1>6. \/ Outcome([k \in DOMAIN contents |-> Error])
      \/ \E labels \in [DOMAIN contents -> Labels], items \in SUBSET DOMAIN contents,
            chunks \in SUBSET {Chunk(contents, k) : k \in Persian(contents)} :
            Outcome(AnalyzeBatch(contents, labels, chunks, items))
  BY ZenonT(20) DEF Analyze
<1> HIDE DEF Outcome, contents
<1> QED
  BY <1>4, <1>5, <1>6

\* Recording an outcome keeps the types.
LEMMA RecordTypes ==
    ASSUME TypeInv, NEW w \in Workers, RecordOutcome(w)
    PROVE  TypeInv'
<1> DEFINE i == Head(wk[w].needs)
           outcome == Head(wk[w].out)
           more == Tail(wk[w].needs)
           left == wk[w].uncounted - Cardinality(PendingOf(i))
           pc == IF Len(wk[w].needs) = 1 THEN "fetch" ELSE "record"
           r == [wk[w] EXCEPT !.needs = more, !.out = Tail(wk[w].out),
                              !.uncounted = left, !.pc = pc]
<1>1. /\ wk[w] \in Progress /\ Coherent(wk[w]) /\ wk[w].pc = "record"
      /\ wk[w].needs \in Seq(Identities) /\ wk[w].out \in Seq(Results \cup {Error})
      /\ Len(wk[w].out) = Len(wk[w].needs) /\ wk[w].out # <<>>
  BY ZenonT(20) DEF TypeInv, Progress, Coherent, RecordOutcome, At
<1>2. wk[w].needs # <<>> /\ Len(wk[w].needs) \in Nat \ {0}
  BY <1>1, EmptySeq, LenProperties
<1>3. wk' = [wk EXCEPT ![w] = r]
  BY ZenonT(20) DEF RecordOutcome, TypeInv, Progress
<1>4. /\ outcome \in Results \cup {Error} /\ Tail(wk[w].out) \in Seq(Results \cup {Error})
      /\ Len(Tail(wk[w].out)) = Len(wk[w].out) - 1
  BY <1>1, TailFacts
<1>5. /\ more \in Seq(Identities) /\ Len(more) = Len(wk[w].needs) - 1
      /\ \A k \in 1..Len(more) : more[k] = wk[w].needs[k+1] /\ k+1 \in 1..Len(wk[w].needs)
  BY <1>1, <1>2, TailFacts
<1>6. left \in Int
  BY <1>1, PendingCount DEF Progress, PendingOf, Pending
<1>7. r \in Progress
  <2>1. pc \in Pcs
    BY DEF Pcs
  <2> HIDE DEF pc, left, more
  <2> QED
    BY ZenonT(20), <1>1, <1>4, <1>5, <1>6, <2>1 DEF Progress
<1>8. Coherent(r)
  <2>1. /\ r.rows = wk[w].rows /\ r.needs = more /\ r.attempted = wk[w].attempted
        /\ r.pc = pc /\ r.out = Tail(wk[w].out)
    BY <1>1 DEF Progress
  <2> HIDE DEF r
  <2>2. \A k \in 1..Len(r.needs) : r.needs[k] \in r.attempted
    BY ZenonT(20), <1>1, <1>5, <2>1 DEF Coherent
  <2>3. (r.pc = "look") = (r.rows # <<>>)
    BY <1>1, <2>1 DEF Coherent
  <2>4. r.pc = "record" => Len(r.out) = Len(r.needs) /\ r.out # <<>>
    <3> SUFFICES ASSUME r.pc = "record" PROVE Len(r.out) = Len(r.needs) /\ Len(r.out) # 0
      BY ZenonT(20), <1>4, <2>1, EmptySeq
    <3> QED
      BY <1>1, <1>2, <1>4, <1>5, <2>1
  <2> QED
    BY ZenonT(20), <2>1, <2>2, <2>3, <2>4 DEF Coherent
<1>9. wk' \in [Workers -> Progress] /\ \A v \in Workers : Coherent(wk'[v])
  <2> HIDE DEF r
  <2> QED
    BY <1>3, <1>7, <1>8, OneWorker DEF TypeInv
<1>10. Columns'
  <2>1. CASE outcome = Error /\ RecordFailure(i)
    BY <2>1, FailureColumns DEF TypeInv
  <2>2. CASE outcome # Error /\ ApplyResult(i, outcome)
    BY <2>2, <1>4, ApplyColumns DEF TypeInv
  <2> QED
    BY ZenonT(20), <2>1, <2>2 DEF RecordOutcome
<1> QED
  BY ZenonT(20), <1>9, <1>10 DEF TypeInv, RecordOutcome

\* Analyzing a list of texts keeps the types.
LEMMA AnalyzeTypes ==
    ASSUME TypeInv, NEW w \in Workers, Analyze(w)
    PROVE  TypeInv'
<1>1. PICK out \in Seq(Results \cup {Error}) :
         /\ Len(out) = Len(wk[w].needs) /\ out # <<>>
         /\ wk' = [wk EXCEPT ![w] = [wk[w] EXCEPT !.pc = "record", !.out = out]]
  BY ZenonT(20), AnalyzeFacts
<1> DEFINE r == [wk[w] EXCEPT !.pc = "record", !.out = out]
<1>2. wk[w] \in Progress /\ Coherent(wk[w]) /\ wk[w].pc = "analyze"
  BY DEF TypeInv, Analyze
<1>3. r \in Progress
  BY ZenonT(20), <1>2 DEF Progress, Pcs
<1>4. Coherent(r)
  BY <1>1, <1>2 DEF Coherent, Progress
<1>5. wk' \in [Workers -> Progress] /\ \A v \in Workers : Coherent(wk'[v])
  <2>1. wk' = [wk EXCEPT ![w] = r]
    BY <1>1
  <2> HIDE DEF r
  <2> QED
    BY <2>1, <1>3, <1>4, OneWorker DEF TypeInv
<1> QED
  BY ZenonT(20), <1>5 DEF TypeInv, Analyze, Columns, db

\* The steps of a worker that touch no text keep the types.
LEMMA PlainTypes ==
    ASSUME TypeInv, NEW w \in Workers, NEW pc \in {"lock", "load", "count", "fetch"},
           wk[w].rows = <<>>,
           \/ \E n \in Int :
                 wk' = [wk EXCEPT ![w] = [Stopped EXCEPT !.pc = pc, !.uncounted = n]]
           \/ wk' = [wk EXCEPT ![w] = [Stopped EXCEPT !.pc = pc]]
           \/ wk' = [wk EXCEPT ![w].pc = pc],
           UNCHANGED db, lock' \in Workers \cup {NoWorker}, sessions' \subseteq Workers
    PROVE  TypeInv'
<1> DEFINE r1(n) == [Stopped EXCEPT !.pc = pc, !.uncounted = n]
           r2 == [Stopped EXCEPT !.pc = pc]
           r3 == [wk[w] EXCEPT !.pc = pc]
<1>1. \/ \E n \in Int : wk' = [wk EXCEPT ![w] = r1(n)]
      \/ wk' = [wk EXCEPT ![w] = r2]
      \/ wk' = [wk EXCEPT ![w] = r3]
  BY ZenonT(20) DEF TypeInv, Progress
<1>2. wk[w] \in Progress /\ Coherent(wk[w])
  BY ZenonT(20) DEF TypeInv
<1>3. /\ \A n \in Int : r1(n) \in Progress /\ Coherent(r1(n))
      /\ r2 \in Progress /\ Coherent(r2)
  BY ZenonT(20), StoppedFacts DEF Progress, Pcs, Coherent, Stopped
<1>4. r3 \in Progress /\ Coherent(r3)
  BY ZenonT(20), <1>2 DEF Progress, Pcs, Coherent
<1>5. wk' \in [Workers -> Progress] /\ \A v \in Workers : Coherent(wk'[v])
  <2> HIDE DEF r1, r2, r3
  <2> QED
    BY ZenonT(20), <1>1, <1>3, <1>4, OneWorker DEF TypeInv
<1>6. Columns'
  BY ZenonT(20) DEF TypeInv, Columns, db
<1> QED
  BY ZenonT(20), <1>5, <1>6 DEF TypeInv

\* A worker that has lost its session while it analyzes keeps its texts.
LEMMA LoseTypes ==
    ASSUME TypeInv, NEW w \in Workers, LoseSession(w)
    PROVE  TypeInv'
<1>1. CASE Exit(w)
  BY <1>1, ExitTypes DEF LoseSession
<1>2. CASE ~Exit(w)
  <2> DEFINE r == [Stopped EXCEPT !.pc = "analyze", !.needs = wk[w].needs,
                                  !.attempted = wk[w].attempted]
  <2>1. /\ wk[w].pc = "analyze" /\ wk' = [wk EXCEPT ![w] = r]
        /\ sessions' = sessions \ {w} /\ lock' = NoWorker /\ UNCHANGED db
    BY <1>2 DEF LoseSession
  <2>2. wk[w] \in Progress /\ Coherent(wk[w])
    BY DEF TypeInv
  <2>3. r \in Progress
    BY ZenonT(20), <2>2, StoppedFacts DEF Progress, Pcs, Stopped
  <2>4. Coherent(r)
    BY <2>1, <2>2 DEF Progress, Coherent, Stopped
  <2>5. wk' \in [Workers -> Progress] /\ \A v \in Workers : Coherent(wk'[v])
    <3> HIDE DEF r
    <3> QED
      BY <2>1, <2>3, <2>4, OneWorker DEF TypeInv
  <2>6. Columns'
    BY <2>1 DEF TypeInv, Columns, db
  <2> QED
    BY <2>1, <2>5, <2>6 DEF TypeInv
<1> QED
  BY <1>1, <1>2

\* Nothing has been attempted initially.
LEMMA TypeInit == Init => TypeInv
<1> SUFFICES ASSUME Init PROVE TypeInv
  OBVIOUS
<1>1. MaxAttempts \in Nat \ {0}
  BY ConstantsAssumption
<1>2. Columns
  <2>1. row \in [Observations -> Rows]
    BY DEF Init, Rows, Results
  <2>2. attempts \in [Observations -> 0..MaxAttempts]
    BY <1>1 DEF Init
  <2>3. Row("absent").status = "absent" /\ Skipped.status = "skipped"
    BY DEF Row, Skipped
  <2>4. \A o \in Observations : row[o].status \in {"absent", "skipped"} /\ attempts[o] = 0
    BY <2>3 DEF Init
  <2> QED
    BY <1>1, <2>1, <2>2, <2>4 DEF Columns
<1>3. wk \in [Workers -> Progress] /\ \A w \in Workers : Coherent(wk[w])
  BY StoppedFacts DEF Init
<1> QED
  BY <1>2, <1>3 DEF Init, TypeInv

\* Every step keeps the types.
LEMMA TypeNext == TypeInv /\ [Next]_vars => TypeInv'
<1> SUFFICES ASSUME TypeInv, [Next]_vars PROVE TypeInv'
  OBVIOUS
<1>1. ASSUME NEW o \in Observations, Insert(o) PROVE TypeInv'
  <2>1. row' = [row EXCEPT ![o] = Row("pending")] /\ row[o].status = "absent"
        /\ attempts' = attempts
    BY <1>1 DEF Insert
  <2>2. row' \in [Observations -> Rows]
    BY <2>1 DEF TypeInv, Columns, Rows
  <2>3. Row("pending").status = "pending" /\ MaxAttempts \in Nat \ {0}
    BY RowFacts, ConstantsAssumption
  <2>4. \A p \in Observations : row'[p] = IF p = o THEN Row("pending") ELSE row[p]
    BY <2>1 DEF TypeInv, Columns
  <2>5. Columns'
    BY <2>1, <2>2, <2>3, <2>4 DEF TypeInv, Columns
  <2> QED
    BY <1>1, <2>5 DEF Insert, TypeInv
<1>2. ASSUME NEW w \in Workers PROVE wk[w].pc # "look" => wk[w].rows = <<>>
  BY <1>2 DEF TypeInv, Coherent, Progress
<1>3. ASSUME NEW w \in Workers, Start(w) PROVE TypeInv'
  BY ZenonT(20), <1>2, <1>3, PlainTypes DEF Start, TypeInv
<1>4. ASSUME NEW w \in Workers, TryLock(w) PROVE TypeInv'
  <2>1. CASE lock = NoWorker
    BY ZenonT(20), <1>2, <1>4, <2>1, PlainTypes DEF TryLock, At, TypeInv
  <2>2. CASE lock # NoWorker
    BY <1>4, <2>2, ExitTypes DEF TryLock
  <2> QED
    BY <2>1, <2>2
<1>5. ASSUME NEW w \in Workers, LoadModel(w) PROVE TypeInv'
  <2>1. CASE Exit(w)
    BY <1>5, <2>1, ExitTypes DEF LoadModel
  <2>2. CASE ~Exit(w)
    BY ZenonT(20), <1>2, <1>5, <2>2, PlainTypes DEF LoadModel, TypeInv
  <2> QED
    BY <2>1, <2>2
<1>6. ASSUME NEW w \in Workers, CountPending(w) PROVE TypeInv'
  <2>1. Cardinality(Pending) \in Int
    BY PendingCount DEF Pending
  <2> QED
    BY ZenonT(20), <1>2, <1>6, <2>1, PlainTypes DEF CountPending, At, TypeInv
<1>7. ASSUME NEW w \in Workers, Finish(w) PROVE TypeInv'
  <2>1. CASE w \in Watching
    BY ZenonT(20), <1>2, <1>7, <2>1, PlainTypes DEF Finish, TypeInv
  <2>2. CASE w \notin Watching
    BY <1>7, <2>2, ExitTypes DEF Finish
  <2> QED
    BY <2>1, <2>2
<1>8. ASSUME NEW w \in Workers, Fail(w) PROVE TypeInv'
  BY <1>8, ExitTypes DEF Fail
<1>9. ASSUME NEW w \in Workers, Step(w) PROVE TypeInv'
  BY <1>4, <1>5, <1>6, <1>7, <1>8, <1>9, FetchTypes, LookTypes, AnalyzeTypes, RecordTypes
  DEF Step
<1>10. CASE UNCHANGED vars
  BY <1>10 DEF vars, db, TypeInv, Columns
<1> QED
  BY <1>1, <1>3, <1>9, <1>10, LoseTypes DEF Next

\* The columns, the lock and the progress of workers keep their shape, for any
\* observations, workers and bounds; attempts stay within SENTIMENT_MAX_ATTEMPTS.
THEOREM TypeCorrect == Spec => []TypeOK
<1>1. TypeInv => TypeOK
  <2> SUFFICES ASSUME TypeInv PROVE TypeOK
    OBVIOUS
  <2>1. ASSUME NEW w \in Workers PROVE wk[w].needs \in Seq(wk[w].attempted)
    <3>1. /\ wk[w].needs \in Seq(Identities)
          /\ \A k \in 1..Len(wk[w].needs) : wk[w].needs[k] \in wk[w].attempted
      BY DEF TypeInv, Progress, Coherent
    <3>2. Len(wk[w].needs) \in Nat /\ wk[w].needs \in [1..Len(wk[w].needs) -> wk[w].attempted]
      BY <3>1
    <3> QED
      BY ZenonT(20), <3>2, FunctionIsSequence
  <2> QED
    BY ZenonT(20), <2>1 DEF TypeInv, TypeOK, Columns, Rows, Progress, Coherent
<1> QED
  BY <1>1, TypeInit, TypeNext, PTL DEF Spec

-----------------------------------------------------------------------------
(* One result per text *)

\* A worker past try_lock holds the lock, unless it lost its session while
\* it was analyzing.
LockInv ==
    \A w \in Workers :
        /\ wk[w].pc \in {"load", "count", "fetch", "look", "finish"} => lock = w
        /\ wk[w].pc \in {"analyze", "record"} /\ w \in sessions => lock = w
        /\ lock = w => w \in sessions /\ wk[w].pc \notin {"stopped", "lock"}

\* The texts on the list are different.
Distinct(s) == \A j, k \in 1..Len(s) : j # k => s[j] # s[k]

\* None of the texts on the list has a result, as long as the lock is held.
Unanswered(s) == \A k \in 1..Len(s) : \A o \in Observations : Id(o) = s[k] => ~Decided(o)

TextInv ==
    \A w \in Workers :
        /\ wk[w].pc \in {"stopped", "lock", "load", "count", "fetch", "finish"}
              => wk[w].needs = <<>>
        /\ lock = w => Distinct(wk[w].needs) /\ Unanswered(wk[w].needs)

\* The outcomes that wait to be recorded fit their texts.
FitInv == \A w \in Workers : wk[w].pc = "record" => Fits(wk[w].needs, wk[w].out)

\* The inductive invariant.
ResultInv == TypeInv /\ LockInv /\ TextInv /\ FitInv /\ OneResultPerText /\ ResultFitsText

\* A step that leaves the results alone leaves the texts unanswered.
LEMMA SameResults ==
    ASSUME ResultInv, row' = row
    PROVE  /\ OneResultPerText' /\ ResultFitsText'
           /\ \A o \in Observations : Decided(o)' <=> Decided(o)
BY DEF ResultInv, OneResultPerText, ResultFitsText, Unanswered, Decided

\* Leaving the connection's context.
LEMMA ExitResults ==
    ASSUME ResultInv, NEW w \in Workers, Exit(w), UNCHANGED db
    PROVE  LockInv' /\ TextInv' /\ FitInv' /\ OneResultPerText' /\ ResultFitsText'
<1>1. \A v \in Workers : wk'[v] = IF v = w THEN Stopped ELSE wk[v]
  BY DEF Exit, ResultInv, TypeInv
<1>2. Stopped.pc = "stopped" /\ Stopped.needs = <<>>
  BY DEF Stopped
<1>3. NoWorker \notin Workers
  BY ConstantsAssumption
<1>4. LockInv'
  BY <1>1, <1>2, <1>3 DEF Exit, ResultInv, LockInv
<1>5. OneResultPerText' /\ ResultFitsText' /\ \A o \in Observations : Decided(o)' <=> Decided(o)
  BY SameResults DEF db
<1>6. TextInv'
  <2> SUFFICES ASSUME NEW v \in Workers
               PROVE  /\ wk'[v].pc \in {"stopped", "lock", "load", "count", "fetch", "finish"}
                            => wk'[v].needs = <<>>
                      /\ lock' = v => Distinct(wk[v].needs)' /\ Unanswered(wk[v].needs)'
    BY DEF TextInv
  <2>1. CASE v = w
    BY <1>1, <1>2, <1>3, <2>1 DEF Exit
  <2>2. CASE v # w
    BY <1>1, <1>3, <1>5, <2>2 DEF Exit, ResultInv, TextInv, Distinct, Unanswered
  <2> QED
    BY <2>1, <2>2
<1>7. FitInv'
  BY <1>1, <1>2 DEF ResultInv, FitInv
<1> QED
  BY <1>4, <1>5, <1>6, <1>7

\* A step of a worker that leaves the results alone and its list as it is or
\* empty, and takes the lock only if it is free.
LEMMA PlainResults ==
    ASSUME ResultInv, NEW w \in Workers, NEW r \in Progress,
           wk' = [wk EXCEPT ![w] = r], row' = row,
           r.needs = <<>>, r.pc \notin {"analyze", "record"},
           \/ r.pc # "lock" /\ lock' = w /\ sessions' = sessions /\ w \in sessions
                /\ r.pc # "stopped" /\ lock \in {w, NoWorker}
           \/ r.pc = "lock" /\ lock' = lock /\ sessions' = sessions \cup {w} /\ lock # w
    PROVE  LockInv' /\ TextInv' /\ FitInv' /\ OneResultPerText' /\ ResultFitsText'
<1>1. \A v \in Workers : wk'[v] = IF v = w THEN r ELSE wk[v]
  BY DEF ResultInv, TypeInv
<1>2. r.pc \in Pcs /\ NoWorker \notin Workers
  BY ZenonT(20), ConstantsAssumption DEF Progress
<1>3. LockInv'
  BY <1>1, <1>2 DEF ResultInv, LockInv, Pcs
<1>4. OneResultPerText' /\ ResultFitsText' /\ \A o \in Observations : Decided(o)' <=> Decided(o)
  BY ZenonT(20), SameResults
<1>5. TextInv'
  <2> SUFFICES ASSUME NEW v \in Workers
               PROVE  /\ wk'[v].pc \in {"stopped", "lock", "load", "count", "fetch", "finish"}
                            => wk'[v].needs = <<>>
                      /\ lock' = v => Distinct(wk[v].needs)' /\ Unanswered(wk[v].needs)'
    BY ZenonT(20) DEF TextInv
  <2>1. CASE v = w
    BY <1>1, <2>1 DEF Distinct, Unanswered
  <2>2. CASE v # w
    BY <1>1, <1>4, <2>2 DEF ResultInv, TextInv, Distinct, Unanswered
  <2> QED
    BY ZenonT(20), <2>1, <2>2
<1>6. FitInv'
  BY <1>1 DEF ResultInv, FitInv
<1> QED
  BY <1>3, <1>4, <1>5, <1>6

\* A step of the worker that holds the lock, or of one that analyzes without
\* its session: what its list has to be afterwards.
LEMMA DrainResults ==
    ASSUME ResultInv, NEW w \in Workers, NEW r \in Progress,
           wk' = [wk EXCEPT ![w] = r], lock' = lock, sessions' = sessions,
           lock = w \/ (w \notin sessions /\ lock # w /\ r.pc = "record"),
           r.pc \in {"fetch", "look", "analyze", "record", "finish"},
           r.pc \in {"fetch", "finish"} => r.needs = <<>>,
           r.pc = "record" => Fits(r.needs, r.out),
           lock = w => Distinct(r.needs),
           lock = w => \A k \in 1..Len(r.needs) : \A o \in Observations :
                          Id(o) = r.needs[k] => ~Decided(o)',
           lock # w => row' = row
    PROVE  LockInv' /\ TextInv' /\ FitInv'
<1>1. \A v \in Workers : wk'[v] = IF v = w THEN r ELSE wk[v]
  BY ZenonT(20) DEF ResultInv, TypeInv
<1>2. LockInv'
  <2> SUFFICES ASSUME NEW v \in Workers
               PROVE  /\ wk'[v].pc \in {"load", "count", "fetch", "look", "finish"} => lock' = v
                      /\ wk'[v].pc \in {"analyze", "record"} /\ v \in sessions' => lock' = v
                      /\ lock' = v => v \in sessions' /\ wk'[v].pc \notin {"stopped", "lock"}
    BY ZenonT(20) DEF LockInv
  <2>1. CASE v = w
    BY ZenonT(20), <1>1, <2>1 DEF ResultInv, LockInv
  <2>2. CASE v # w
    BY ZenonT(20), <1>1, <2>2 DEF ResultInv, LockInv
  <2> QED
    BY ZenonT(20), <2>1, <2>2
<1>3. TextInv'
  <2> SUFFICES ASSUME NEW v \in Workers
               PROVE  /\ wk'[v].pc \in {"stopped", "lock", "load", "count", "fetch", "finish"}
                            => wk'[v].needs = <<>>
                      /\ lock' = v => Distinct(wk[v].needs)' /\ Unanswered(wk[v].needs)'
    BY ZenonT(20) DEF TextInv
  <2>1. CASE v = w
    BY <1>1, <2>1 DEF Distinct, Unanswered
  <2>2. CASE v # w
    <3>1. wk'[v] = wk[v]
      BY ZenonT(20), <1>1, <2>2
    <3>2. lock' = v => \A o \in Observations : Decided(o)' <=> Decided(o)
      BY ZenonT(20), <2>2 DEF Decided
    <3> QED
      BY <3>1, <3>2 DEF ResultInv, TextInv, Distinct, Unanswered
  <2> QED
    BY ZenonT(20), <2>1, <2>2
<1>4. FitInv'
  <2> SUFFICES ASSUME NEW v \in Workers, wk'[v].pc = "record"
               PROVE  Fits(wk'[v].needs, wk'[v].out)
    BY ZenonT(20) DEF FitInv, Fits
  <2> QED
    BY ZenonT(20), <1>1 DEF ResultInv, FitInv
<1> QED
  BY ZenonT(20), <1>2, <1>3, <1>4

\* apply_result with a value that fits the text, and that the decided rows of
\* the text have, if there are any.
LEMMA ApplyResults ==
    ASSUME ResultInv, NEW i, NEW result \in Results, ApplyResult(i, result),
           \A o \in Observations : Id(o) = i /\ Decided(o) => row[o] = result,
           \A o \in Observations : Id(o) = i => result.language = Language[o.content]
    PROVE  /\ OneResultPerText' /\ ResultFitsText'
           /\ \A o \in Observations : Id(o) # i => (Decided(o)' <=> Decided(o))
<1>1. \A o \in Observations :
         \/ row'[o] = row[o]
         \/ Id(o) = i /\ row'[o] = result
  BY DEF ApplyResult, PendingOf
<1>2. \A o \in Observations : Id(o) # i => row'[o] = row[o]
  BY DEF ApplyResult, PendingOf
<1>3. \A o \in Observations : Id(o) = i /\ row'[o] \in Results => row'[o] = result
  BY <1>1 DEF Decided
<1>4. OneResultPerText'
  BY ZenonT(20), <1>2, <1>3 DEF OneResultPerText, Decided, ResultInv
<1>5. ResultFitsText'
  BY ZenonT(20), <1>1 DEF ResultFitsText, Decided, ResultInv
<1> QED
  BY ZenonT(20), <1>2, <1>4, <1>5 DEF Decided

\* record_failure decides nothing.
LEMMA FailureResults ==
    ASSUME ResultInv, NEW i, RecordFailure(i)
    PROVE  /\ OneResultPerText' /\ ResultFitsText'
           /\ \A o \in Observations : Decided(o)' => Decided(o)
<1>1. \A o \in Observations : row'[o] = row[o] \/ row'[o] = Row("failed")
  BY DEF RecordFailure
<1>2. Row("failed") \notin Results
  BY RowFacts
<1>3. \A o \in Observations : row'[o] \in Results => row'[o] = row[o]
  BY <1>1, <1>2
<1> QED
  BY <1>3 DEF OneResultPerText, ResultFitsText, Decided, ResultInv

\* What ResultInv says of the results.
ResultFacts == LockInv /\ TextInv /\ FitInv /\ OneResultPerText /\ ResultFitsText

\* A page is fetched with an empty list.
LEMMA FetchResults ==
    ASSUME ResultInv, NEW w \in Workers, FetchPendingAfter(w)
    PROVE  ResultFacts'
<1>1. /\ wk[w].pc = "fetch" /\ row' = row /\ lock' = lock /\ sessions' = sessions
      /\ wk \in [Workers -> Progress]
  BY DEF FetchPendingAfter, At, db, ResultInv, TypeInv
<1>2. lock = w /\ wk[w].needs = <<>>
  BY <1>1 DEF ResultInv, LockInv, TextInv
<1>3. wk' \in [Workers -> Progress]
  BY FetchTypes DEF ResultInv, TypeInv
<1> DEFINE r == wk'[w]
<1>4. /\ wk' = [wk EXCEPT ![w] = r] /\ r.needs = wk[w].needs
      /\ r.pc \in {"finish", "look"}
  <2>1. PICK pc \in {"finish", "look"} : \E rows, after :
           wk' = [wk EXCEPT ![w].pc = pc, ![w].rows = rows, ![w].after = after]
    BY ZenonT(20) DEF FetchPendingAfter
  <2> QED
    BY ZenonT(20), <1>1, <2>1 DEF Progress
<1>5. r \in Progress
  BY <1>3
<1>6. /\ Distinct(r.needs)
      /\ \A k \in 1..Len(r.needs) : \A o \in Observations : Id(o) = r.needs[k] => ~Decided(o)'
  BY <1>2, <1>4 DEF Distinct
<1> HIDE DEF r
<1>7. LockInv' /\ TextInv' /\ FitInv'
  BY ZenonT(20), <1>1, <1>2, <1>4, <1>5, <1>6, DrainResults
<1> QED
  BY <1>1, <1>7, SameResults DEF ResultFacts

\* A longer list of different texts.
LEMMA AppendDistinct ==
    ASSUME NEW s \in Seq(Identities), NEW x \in Identities, Distinct(s),
           \A k \in 1..Len(s) : s[k] # x
    PROVE  Distinct(Append(s, x))
<1>1. /\ Len(Append(s, x)) = Len(s) + 1 /\ Len(s) \in Nat
      /\ \A k \in 1..Len(s) : Append(s, x)[k] = s[k]
      /\ Append(s, x)[Len(s) + 1] = x
  BY AppendFacts
<1> QED
  BY <1>1 DEF Distinct

\* No reusable result means that no row of the text is decided.
LEMMA NothingReusable ==
    ASSUME OneResultPerText, NEW i, Reusable(i) = {}, NEW o \in Observations, Id(o) = i
    PROVE  ~Decided(o)
<1> SUFFICES ASSUME Decided(o) PROVE FALSE
  OBVIOUS
<1> DEFINE found == {row[p] : p \in {q \in Observations : Id(q) = i /\ Decided(q)}}
<1>1. row[o] \in found
  OBVIOUS
<1>2. \A s \in found : s = row[o]
  BY ZenonT(20) DEF OneResultPerText
<1>3. Reusable(i) = {r \in found : r.status = "done" \/ \A s \in found : s.status # "done"}
  BY ZenonT(20) DEF Reusable
<1> HIDE DEF found
<1>4. row[o] \in Reusable(i)
  BY <1>1, <1>2, <1>3
<1> QED
  BY <1>4

\* A text that is looked up is reused with the result it has, or put on the
\* list without one.
LEMMA LookResults ==
    ASSUME ResultInv, NEW w \in Workers, Look(w)
    PROVE  ResultFacts'
<1> DEFINE i == Id(Head(wk[w].rows))
           rest == Tail(wk[w].rows)
           r == wk'[w]
<1>1. /\ wk[w].pc = "look" /\ lock' = lock /\ sessions' = sessions
      /\ wk \in [Workers -> Progress] /\ Coherent(wk[w])
  BY ZenonT(20) DEF Look, At, ResultInv, TypeInv
<1>2. lock = w /\ Distinct(wk[w].needs) /\ Unanswered(wk[w].needs)
  BY ZenonT(20), <1>1 DEF ResultInv, LockInv, TextInv
<1>3. r \in Progress
  BY LookTypes DEF ResultInv, TypeInv
<1>4. Head(wk[w].rows) \in Observations /\ i \in Identities /\ wk[w].needs \in Seq(Identities)
  <2>1. wk[w].rows \in Seq(Observations) /\ wk[w].rows # <<>> /\ wk[w].needs \in Seq(Identities)
    BY <1>1 DEF Progress, Coherent
  <2> QED
    BY ZenonT(20), <2>1, TailFacts, IdentityFacts
<1>5. \A k \in 1..Len(wk[w].needs) : wk[w].needs[k] \in wk[w].attempted
  BY ZenonT(20), <1>1 DEF Coherent
<1>6. CASE /\ wk' = [wk EXCEPT ![w].rows = rest, ![w].pc = AfterLook(rest, wk[w].needs)]
           /\ UNCHANGED db
  <2>1. /\ wk' = [wk EXCEPT ![w] = r] /\ r.needs = wk[w].needs
        /\ r.pc = AfterLook(rest, wk[w].needs)
    BY ZenonT(20), <1>1, <1>6 DEF Progress
  <2>2. \A o \in Observations : Decided(o)' <=> Decided(o)
    BY <1>6 DEF Decided, db
  <2> HIDE DEF r, rest
  <2>3. r.pc \in {"look", "fetch", "analyze"} /\ (r.pc = "fetch" => r.needs = <<>>)
    BY <2>1, AfterLookFacts
  <2>4. \A k \in 1..Len(r.needs) : \A o \in Observations : Id(o) = r.needs[k] => ~Decided(o)'
    BY ZenonT(20), <1>2, <2>1, <2>2 DEF Unanswered
  <2>5. Distinct(r.needs)
    BY <1>2, <2>1
  <2>6. LockInv' /\ TextInv' /\ FitInv'
    BY ZenonT(20), <1>1, <1>2, <1>3, <2>1, <2>3, <2>4, <2>5, DrainResults
  <2> QED
    BY <1>6, <2>6, SameResults DEF ResultFacts, db
<1>7. CASE /\ i \notin wk[w].attempted /\ Reusable(i) = {}
           /\ wk' = [wk EXCEPT ![w].rows = rest, ![w].attempted = @ \cup {i},
                               ![w].needs = Append(@, i), ![w].pc = AfterLook(rest, <<i>>)]
           /\ UNCHANGED db
  <2>1. /\ wk' = [wk EXCEPT ![w] = r] /\ r.needs = Append(wk[w].needs, i)
        /\ r.pc = AfterLook(rest, <<i>>)
    BY ZenonT(20), <1>1, <1>7 DEF Progress
  <2>2. Distinct(r.needs)
    <3> HIDE DEF i, r
    <3>1. \A k \in 1..Len(wk[w].needs) : wk[w].needs[k] # i
      BY ZenonT(20), <1>5, <1>7
    <3>2. Distinct(Append(wk[w].needs, i))
      BY ZenonT(20), <1>2, <1>4, <3>1, AppendDistinct
    <3> QED
      BY ZenonT(20), <2>1, <3>2
  <2>3. \A o \in Observations : Id(o) = i => ~Decided(o)
    <3> HIDE DEF i
    <3> QED
      BY ZenonT(20), <1>7, NothingReusable DEF ResultInv
  <2>4. \A o \in Observations : Decided(o)' <=> Decided(o)
    BY ZenonT(20), <1>7 DEF Decided, db
  <2>5. \A k \in 1..Len(r.needs) : \A o \in Observations : Id(o) = r.needs[k] => ~Decided(o)'
    <3> HIDE DEF i, r
    <3>1. /\ Len(r.needs) = Len(wk[w].needs) + 1 /\ Len(wk[w].needs) \in Nat
          /\ \A k \in 1..Len(wk[w].needs) : r.needs[k] = wk[w].needs[k]
          /\ r.needs[Len(wk[w].needs) + 1] = i
      BY <1>4, <2>1, AppendFacts
    <3>2. \A k \in 1..Len(r.needs) : k \in 1..Len(wk[w].needs) \/ k = Len(wk[w].needs) + 1
      BY <3>1
    <3> QED
      BY ZenonT(20), <1>2, <2>3, <2>4, <3>1, <3>2 DEF Unanswered
  <2>6. r.pc \in {"look", "analyze"}
    <3>1. <<i>> # <<>>
      OBVIOUS
    <3> HIDE DEF i, r, rest
    <3> QED
      BY <2>1, <3>1 DEF AfterLook
  <2> HIDE DEF r, rest, i
  <2>7. LockInv' /\ TextInv' /\ FitInv'
    BY ZenonT(20), <1>1, <1>2, <1>3, <2>1, <2>2, <2>5, <2>6, DrainResults
  <2> QED
    BY <1>7, <2>7, SameResults DEF ResultFacts, db
<1>8. ASSUME NEW result \in Reusable(i), i \notin wk[w].attempted, ApplyResult(i, result),
             wk' = [wk EXCEPT ![w].rows = rest, ![w].attempted = @ \cup {i},
                              ![w].uncounted = @ - Cardinality(PendingOf(i)),
                              ![w].pc = AfterLook(rest, wk[w].needs)]
      PROVE  ResultFacts'
  <2>1. /\ wk' = [wk EXCEPT ![w] = r] /\ r.needs = wk[w].needs
        /\ r.pc = AfterLook(rest, wk[w].needs)
    BY ZenonT(20), <1>1, <1>8 DEF Progress
  <2>2. PICK p \in Observations : Id(p) = i /\ Decided(p) /\ result = row[p]
    BY DEF Reusable
  <2>3. \A o \in Observations : Id(o) = i /\ Decided(o) => row[o] = result
    <3> HIDE DEF i
    <3> QED
      BY <2>2 DEF ResultInv, OneResultPerText
  <2>4. \A o \in Observations : Id(o) = i => result.language = Language[o.content]
    <3>1. result.language = Language[p.content]
      BY ZenonT(20), <2>2 DEF ResultInv, ResultFitsText
    <3> HIDE DEF i
    <3> QED
      BY ZenonT(20), <2>2, <3>1, IdentityFacts
  <2>5. result \in Results
    BY <2>2 DEF Decided
  <2> HIDE DEF r, rest, i
  <2>6. /\ OneResultPerText' /\ ResultFitsText'
        /\ \A o \in Observations : Id(o) # i => (Decided(o)' <=> Decided(o))
    BY <1>8, <2>3, <2>4, <2>5, ApplyResults
  <2>7. \A k \in 1..Len(r.needs) : \A o \in Observations : Id(o) = r.needs[k] => ~Decided(o)'
    BY <1>2, <1>5, <1>8, <2>1, <2>6 DEF Unanswered
  <2>8. r.pc \in {"look", "fetch", "analyze"} /\ (r.pc = "fetch" => r.needs = <<>>)
    BY <2>1, AfterLookFacts
  <2>9. Distinct(r.needs)
    BY <1>2, <2>1
  <2>10. LockInv' /\ TextInv' /\ FitInv'
    BY ZenonT(20), <1>1, <1>2, <1>3, <2>1, <2>7, <2>8, <2>9, DrainResults
  <2> QED
    BY <2>6, <2>10 DEF ResultFacts
<1> QED
  BY ZenonT(20), <1>6, <1>7, <1>8 DEF Look

\* The analysis leaves the list alone and adds outcomes that fit it, with the
\* lock or without.
LEMMA AnalyzeResults ==
    ASSUME ResultInv, NEW w \in Workers, Analyze(w)
    PROVE  ResultFacts'
<1>1. PICK out \in Seq(Results \cup {Error}) :
         /\ Fits(wk[w].needs, out)
         /\ wk' = [wk EXCEPT ![w] = [wk[w] EXCEPT !.pc = "record", !.out = out]]
  BY ZenonT(20), AnalyzeFacts DEF ResultInv
<1> DEFINE r == [wk[w] EXCEPT !.pc = "record", !.out = out]
<1>2. /\ wk[w].pc = "analyze" /\ lock' = lock /\ sessions' = sessions /\ row' = row
      /\ wk[w] \in Progress
  BY ZenonT(20) DEF Analyze, db, ResultInv, TypeInv
<1>3. r \in Progress /\ r.pc = "record" /\ r.needs = wk[w].needs /\ r.out = out
  BY ZenonT(20), <1>2 DEF Progress, Pcs
<1>4. wk' = [wk EXCEPT ![w] = r]
  BY <1>1
<1> HIDE DEF r
<1>5. lock = w \/ (w \notin sessions /\ lock # w)
  BY ZenonT(20), <1>2 DEF ResultInv, LockInv
<1>6. lock = w => Distinct(r.needs) /\ Unanswered(r.needs)
  BY <1>3 DEF ResultInv, TextInv
<1>7. lock = w => \A k \in 1..Len(r.needs) : \A o \in Observations :
                     Id(o) = r.needs[k] => ~Decided(o)'
  BY ZenonT(20), <1>2, <1>6 DEF Unanswered, Decided
<1>8. Fits(r.needs, r.out)
  BY <1>1, <1>3
<1>9. LockInv' /\ TextInv' /\ FitInv'
  BY ZenonT(20), <1>2, <1>3, <1>4, <1>5, <1>6, <1>7, <1>8, DrainResults
<1> QED
  BY <1>2, <1>9, SameResults DEF ResultFacts

\* The first text of a list of different texts is not among the others.
LEMMA TailDistinct ==
    ASSUME NEW s \in Seq(Identities), s # <<>>, Distinct(s)
    PROVE  Distinct(Tail(s)) /\ \A k \in 1..Len(Tail(s)) : Tail(s)[k] # Head(s)
<1>1. /\ Head(s) = s[1] /\ 1 \in 1..Len(s) /\ Len(Tail(s)) = Len(s) - 1 /\ Len(s) \in Nat
      /\ \A k \in 1..Len(Tail(s)) : Tail(s)[k] = s[k+1] /\ k+1 \in 1..Len(s)
  BY TailFacts, LenProperties
<1> QED
  BY <1>1 DEF Distinct

\* A recorded outcome is the first result of its text.
LEMMA RecordResults ==
    ASSUME ResultInv, NEW w \in Workers, RecordOutcome(w)
    PROVE  ResultFacts'
<1> DEFINE i == Head(wk[w].needs)
           outcome == Head(wk[w].out)
           r == wk'[w]
<1>1. /\ wk[w].pc = "record" /\ lock' = lock /\ sessions' = sessions
      /\ wk \in [Workers -> Progress] /\ lock = w
  BY ZenonT(20) DEF RecordOutcome, At, ResultInv, TypeInv, LockInv
<1>2. /\ wk[w].needs \in Seq(Identities) /\ wk[w].out \in Seq(Results \cup {Error})
      /\ Len(wk[w].out) = Len(wk[w].needs) /\ wk[w].out # <<>>
  BY ZenonT(20), <1>1 DEF ResultInv, TypeInv, Progress, Coherent
<1>3. wk[w].needs # <<>> /\ Len(wk[w].needs) \in Nat \ {0}
  BY <1>2, EmptySeq, LenProperties
<1>4. /\ Distinct(wk[w].needs) /\ Unanswered(wk[w].needs) /\ Fits(wk[w].needs, wk[w].out)
  BY ZenonT(20), <1>1 DEF ResultInv, TextInv, FitInv
<1>5. r \in Progress
  BY RecordTypes DEF ResultInv, TypeInv
<1>6. /\ wk' = [wk EXCEPT ![w] = r] /\ r.needs = Tail(wk[w].needs) /\ r.out = Tail(wk[w].out)
      /\ r.pc = IF Len(wk[w].needs) = 1 THEN "fetch" ELSE "record"
  BY ZenonT(20), <1>1 DEF RecordOutcome, Progress
<1> HIDE DEF r
<1>7. /\ i = wk[w].needs[1] /\ 1 \in 1..Len(wk[w].needs)
      /\ r.needs \in Seq(Identities) /\ Len(r.needs) = Len(wk[w].needs) - 1
      /\ \A k \in 1..Len(r.needs) : r.needs[k] = wk[w].needs[k+1] /\ k+1 \in 1..Len(wk[w].needs)
  BY ZenonT(20), <1>2, <1>3, <1>6, TailFacts
<1>8. /\ outcome = wk[w].out[1] /\ outcome \in Results \cup {Error}
      /\ \A k \in 1..Len(Tail(wk[w].out)) : Tail(wk[w].out)[k] = wk[w].out[k+1]
      /\ Len(Tail(wk[w].out)) = Len(wk[w].out) - 1
  BY ZenonT(20), <1>2, TailFacts
<1>9. Distinct(r.needs) /\ \A k \in 1..Len(r.needs) : r.needs[k] # i
  BY ZenonT(20), <1>2, <1>3, <1>4, <1>6, TailDistinct
<1> HIDE DEF i, outcome
<1>10. Fits(r.needs, r.out)
  <2> SUFFICES ASSUME NEW k \in 1..Len(r.needs), r.out[k] \in Results
               PROVE  r.out[k].language = Language[r.needs[k][2]]
    BY ZenonT(20) DEF Fits
  <2>1. r.out[k] = wk[w].out[k+1] /\ r.needs[k] = wk[w].needs[k+1] /\ k+1 \in 1..Len(wk[w].needs)
    BY ZenonT(20), <1>2, <1>6, <1>7, <1>8
  <2> QED
    BY ZenonT(20), <1>4, <2>1 DEF Fits
<1>11. r.pc = "fetch" => r.needs = <<>>
  <2>1. SUFFICES ASSUME r.pc = "fetch" PROVE Len(r.needs) = 0
    BY ZenonT(20), <1>7, EmptySeq
  <2>2. Len(wk[w].needs) = 1
    BY <1>6, <2>1
  <2> QED
    BY <1>7, <2>2
<1>12. \A o \in Observations : Id(o) = i => ~Decided(o)
  BY ZenonT(20), <1>4, <1>7 DEF Unanswered
<1>13. /\ OneResultPerText' /\ ResultFitsText'
       /\ \A o \in Observations : Id(o) # i /\ Decided(o)' => Decided(o)
  <2>1. CASE RecordFailure(i)
    BY <2>1, FailureResults
  <2>2. CASE outcome # Error /\ ApplyResult(i, outcome)
    <3>1. outcome \in Results
      BY ZenonT(20), <1>8, <2>2
    <3>2. outcome.language = Language[i[2]]
      BY ZenonT(20), <1>4, <1>7, <1>8, <3>1 DEF Fits
    <3>3. \A o \in Observations : Id(o) = i => outcome.language = Language[o.content]
      BY <3>2, IdentityFacts
    <3> QED
      BY ZenonT(20), <1>12, <2>2, <3>1, <3>3, ApplyResults
  <2> QED
    BY ZenonT(20), <2>1, <2>2 DEF RecordOutcome, i, outcome
<1>14. \A k \in 1..Len(r.needs) : \A o \in Observations : Id(o) = r.needs[k] => ~Decided(o)'
  BY ZenonT(20), <1>4, <1>7, <1>9, <1>13 DEF Unanswered
<1>15. r.pc \in {"fetch", "record"}
  BY <1>6
<1>16. LockInv' /\ TextInv' /\ FitInv'
  BY ZenonT(20), <1>1, <1>5, <1>6, <1>9, <1>10, <1>11, <1>14, <1>15, DrainResults
<1> QED
  BY <1>13, <1>16 DEF ResultFacts

\* Losing the session gives up the lock.
LEMMA LoseResults ==
    ASSUME ResultInv, NEW w \in Workers, LoseSession(w)
    PROVE  ResultFacts'
<1>1. CASE Exit(w)
  BY <1>1, ExitResults DEF LoseSession, ResultFacts
<1>2. CASE ~Exit(w)
  <2> DEFINE r == [Stopped EXCEPT !.pc = "analyze", !.needs = wk[w].needs,
                                  !.attempted = wk[w].attempted]
  <2>1. /\ wk[w].pc = "analyze" /\ wk' = [wk EXCEPT ![w] = r] /\ w \in sessions
        /\ sessions' = sessions \ {w} /\ lock' = NoWorker /\ row' = row
    BY <1>2 DEF LoseSession, db
  <2>2. r.pc = "analyze"
    BY DEF Stopped
  <2> HIDE DEF r
  <2>3. \A v \in Workers : wk'[v] = IF v = w THEN r ELSE wk[v]
    BY <2>1 DEF ResultInv, TypeInv
  <2>4. NoWorker \notin Workers /\ lock = w
    BY ZenonT(20), <2>1, ConstantsAssumption DEF ResultInv, LockInv
  <2>5. LockInv'
    BY ZenonT(20), <2>1, <2>2, <2>3, <2>4 DEF ResultInv, LockInv
  <2>6. TextInv'
    BY ZenonT(20), <2>1, <2>2, <2>3, <2>4 DEF ResultInv, TextInv
  <2>7. FitInv'
    BY ZenonT(20), <2>2, <2>3 DEF ResultInv, FitInv
  <2> QED
    BY <2>1, <2>5, <2>6, <2>7, SameResults DEF ResultFacts
<1> QED
  BY <1>1, <1>2

\* Every step of a worker keeps the results in order.
LEMMA StepResults ==
    ASSUME ResultInv, NEW w \in Workers, Start(w) \/ Step(w)
    PROVE  ResultFacts'
<1>0. wk \in [Workers -> Progress] /\ wk[w] \in Progress
  BY DEF ResultInv, TypeInv
<1>1. CASE Start(w)
  <2> DEFINE r == [Stopped EXCEPT !.pc = "lock"]
  <2>1. r \in Progress /\ r.needs = <<>> /\ r.pc = "lock"
    BY ZenonT(20), StoppedFacts DEF Progress, Pcs, Stopped
  <2>2. wk' = [wk EXCEPT ![w] = r]
    BY <1>1 DEF Start
  <2> HIDE DEF r
  <2>3. /\ wk[w].pc = "stopped" /\ row' = row /\ lock' = lock
        /\ sessions' = sessions \cup {w}
    BY <1>1 DEF Start, db
  <2>4. lock # w
    BY ZenonT(20), <2>3 DEF ResultInv, LockInv
  <2> QED
    BY ZenonT(20), <2>1, <2>2, <2>3, <2>4, PlainResults DEF ResultFacts
<1>2. ASSUME NEW pc \in {"load", "count"}, wk' = [wk EXCEPT ![w].pc = pc], row' = row,
             wk[w].pc \in {"lock", "load"}, lock' = w, lock \in {w, NoWorker},
             sessions' = sessions, w \in sessions
      PROVE  ResultFacts'
  <2> DEFINE r == [wk[w] EXCEPT !.pc = pc]
  <2>1. r \in Progress /\ r.needs = wk[w].needs /\ r.pc = pc
    BY ZenonT(20), <1>0 DEF Progress, Pcs
  <2>2. wk' = [wk EXCEPT ![w] = r]
    BY <1>0, <1>2 DEF Progress
  <2> HIDE DEF r
  <2>3. r.needs = <<>>
    BY <1>2, <2>1 DEF ResultInv, TextInv
  <2> QED
    BY ZenonT(20), <1>2, <2>1, <2>2, <2>3, PlainResults DEF ResultFacts
<1>3. ASSUME NEW r \in Progress, r.needs = <<>>, r.pc \in {"fetch", "count"},
             wk' = [wk EXCEPT ![w] = r], row' = row, lock' = lock, sessions' = sessions,
             wk[w].pc \in {"count", "finish"}
      PROVE  ResultFacts'
  <2>1. lock = w
    BY ZenonT(20), <1>3 DEF ResultInv, LockInv
  <2>2. w \in sessions
    BY ZenonT(20), <2>1 DEF ResultInv, LockInv
  <2> QED
    BY ZenonT(20), <1>3, <2>1, <2>2, PlainResults DEF ResultFacts
<1>4. CASE TryLock(w)
  <2>1. CASE lock = NoWorker
    BY <1>2, <1>4, <2>1 DEF TryLock, At, db
  <2>2. CASE lock # NoWorker
    BY <1>4, <2>2, ExitResults DEF TryLock, ResultFacts
  <2> QED
    BY <2>1, <2>2
<1>5. CASE LoadModel(w)
  <2>1. CASE Exit(w)
    BY <1>5, <2>1, ExitResults DEF LoadModel, ResultFacts
  <2>2. CASE ~Exit(w)
    <3>1. /\ wk[w].pc = "load" /\ wk' = [wk EXCEPT ![w].pc = "count"] /\ row' = row
          /\ lock' = lock /\ sessions' = sessions
      BY <1>5, <2>2 DEF LoadModel, db
    <3>2. lock = w
      BY <3>1 DEF ResultInv, LockInv
    <3>3. w \in sessions
      BY ZenonT(20), <3>2 DEF ResultInv, LockInv
    <3> QED
      BY <1>2, <3>1, <3>2, <3>3
  <2> QED
    BY <2>1, <2>2
<1>6. CASE CountPending(w)
  <2> DEFINE r == [Stopped EXCEPT !.pc = "fetch", !.uncounted = Cardinality(Pending)]
  <2>1. Cardinality(Pending) \in Int
    BY PendingCount DEF Pending
  <2>2. r \in Progress /\ r.needs = <<>> /\ r.pc = "fetch"
    BY ZenonT(20), <2>1, StoppedFacts DEF Progress, Pcs, Stopped
  <2>3. /\ wk' = [wk EXCEPT ![w] = r] /\ row' = row /\ lock' = lock /\ sessions' = sessions
        /\ wk[w].pc = "count"
    BY <1>6 DEF CountPending, At, db
  <2> HIDE DEF r
  <2> QED
    BY ZenonT(20), <1>3, <2>2, <2>3
<1>7. CASE Finish(w)
  <2>1. CASE w \in Watching
    <3> DEFINE r == [Stopped EXCEPT !.pc = "count"]
    <3>1. r \in Progress /\ r.needs = <<>> /\ r.pc = "count"
      BY ZenonT(20), StoppedFacts DEF Progress, Pcs, Stopped
    <3>2. /\ wk' = [wk EXCEPT ![w] = r] /\ row' = row /\ lock' = lock /\ sessions' = sessions
          /\ wk[w].pc = "finish"
      BY <1>7, <2>1 DEF Finish, db
    <3> HIDE DEF r
    <3> QED
      BY ZenonT(20), <1>3, <3>1, <3>2
  <2>2. CASE w \notin Watching
    BY <1>7, <2>2, ExitResults DEF Finish, ResultFacts
  <2> QED
    BY <2>1, <2>2
<1>8. CASE Fail(w)
  BY ZenonT(20), <1>8, ExitResults DEF Fail, ResultFacts
<1> QED
  BY <1>1, <1>4, <1>5, <1>6, <1>7, <1>8,
     FetchResults, LookResults, AnalyzeResults, RecordResults
  DEF Step

\* Initially only skipped texts have results.
LEMMA ResultInit == Init => ResultInv
<1> SUFFICES ASSUME Init PROVE ResultInv
  OBVIOUS
<1>1. TypeInv
  BY TypeInit
<1>2. Stopped.pc = "stopped" /\ Stopped.needs = <<>> /\ Skipped.language = "none"
  BY ZenonT(20) DEF Stopped, Skipped
<1>3. \A w \in Workers : wk[w] = Stopped /\ lock # w
  BY ZenonT(20), ConstantsAssumption DEF Init
<1>4. LockInv /\ TextInv /\ FitInv
  BY ZenonT(20), <1>2, <1>3 DEF LockInv, TextInv, FitInv
<1>5. \A o \in Observations : Decided(o) => row[o] = Skipped /\ Language[o.content] = "none"
  <2>1. Row("absent") \notin Results
    BY RowFacts
  <2> QED
    BY <2>1 DEF Init, Decided
<1>6. OneResultPerText /\ ResultFitsText
  BY ZenonT(20), <1>2, <1>5 DEF OneResultPerText, ResultFitsText
<1> QED
  BY <1>1, <1>4, <1>6 DEF ResultInv

\* Every step keeps the invariant.
LEMMA ResultNext == ResultInv /\ [Next]_vars => ResultInv'
<1> SUFFICES ASSUME ResultInv, [Next]_vars PROVE ResultInv'
  OBVIOUS
<1>1. TypeInv'
  BY TypeNext DEF ResultInv
<1>2. SUFFICES ResultFacts'
  BY <1>1 DEF ResultFacts, ResultInv
<1>3. ASSUME NEW o \in Observations, Insert(o) PROVE ResultFacts'
  <2>1. \A p \in Observations : row'[p] = IF p = o THEN Row("pending") ELSE row[p]
    BY <1>3 DEF Insert, ResultInv, TypeInv, Columns
  <2>2. Row("pending") \notin Results
    BY RowFacts
  <2>3. \A p \in Observations : row'[p] \in Results => row'[p] = row[p]
    BY <2>1, <2>2
  <2>4. OneResultPerText' /\ ResultFitsText'
    BY ZenonT(20), <2>3 DEF ResultInv, OneResultPerText, ResultFitsText, Decided
  <2>5. wk' = wk /\ lock' = lock /\ sessions' = sessions
    BY <1>3 DEF Insert
  <2>6. LockInv' /\ FitInv'
    BY ZenonT(20), <2>5 DEF ResultInv, LockInv, FitInv, Fits
  <2>7. TextInv'
    BY <2>3, <2>5 DEF ResultInv, TextInv, Distinct, Unanswered, Decided
  <2> QED
    BY <2>4, <2>6, <2>7 DEF ResultFacts
<1>4. CASE UNCHANGED vars
  <2>1. row' = row /\ wk' = wk /\ lock' = lock /\ sessions' = sessions
    BY <1>4 DEF vars, db
  <2>2. LockInv' /\ FitInv'
    BY ZenonT(20), <2>1 DEF ResultInv, LockInv, FitInv, Fits
  <2>3. TextInv'
    BY <2>1 DEF ResultInv, TextInv, Distinct, Unanswered, Decided
  <2>4. OneResultPerText' /\ ResultFitsText'
    BY ZenonT(20), <2>1 DEF ResultInv, OneResultPerText, ResultFitsText, Decided
  <2> QED
    BY ZenonT(20), <2>2, <2>3, <2>4 DEF ResultFacts
<1> QED
  BY <1>3, <1>4, StepResults, LoseResults DEF Next

\* drain and find_reusable never give two observations of one review with the
\* same text different results, whatever workers, faults and page sizes.
THEOREM OneResult == Spec => []OneResultPerText
<1>1. ResultInv => OneResultPerText
  BY DEF ResultInv
<1> QED
  BY <1>1, ResultInit, ResultNext, PTL DEF Spec

\* analyze_batch and drain bring each outcome to the text it is about, whatever
\* model calls fail and however the texts are batched.
THEOREM ResultFits == Spec => []ResultFitsText
<1>1. ResultInv => ResultFitsText
  BY DEF ResultInv
<1> QED
  BY <1>1, ResultInit, ResultNext, PTL DEF Spec

-----------------------------------------------------------------------------
(* One attempt per drain *)

Drains == [inserted : BOOLEAN, before : [Observations -> Nat]]

\* A text whose observations lost an attempt to this drain was attempted and
\* is no longer on the list.
Charged(r) ==
    /\ drain \in Drains
    /\ \A o \in Observations :
          /\ attempts[o] <= drain.before[o] + 1
          /\ attempts[o] > drain.before[o] =>
                /\ Id(o) \in r.attempted
                /\ \A k \in 1..Len(r.needs) : r.needs[k] # Id(o)

AttemptInv ==
    \A w \in Workers : lock = w /\ wk[w].pc \notin {"load", "count"} => Charged(wk[w])

\* A step that charges nobody and changes no drain, of which the worker with
\* the lock keeps its list or shortens what it may attempt.
LEMMA ChargedStays ==
    ASSUME NEW r, NEW s, Charged(r), attempts' = attempts,
           drain' \in Drains, drain'.before = drain.before,
           r.attempted \subseteq s.attempted,
           \A o \in Observations : Id(o) \in r.attempted =>
              \A k \in 1..Len(s.needs) : s.needs[k] = Id(o) =>
                 \E j \in 1..Len(r.needs) : r.needs[j] = Id(o)
    PROVE  /\ drain' \in Drains
           /\ \A o \in Observations :
                 /\ attempts'[o] <= drain'.before[o] + 1
                 /\ attempts'[o] > drain'.before[o] =>
                       /\ Id(o) \in s.attempted
                       /\ \A k \in 1..Len(s.needs) : s.needs[k] # Id(o)
BY ZenonT(20) DEF Charged

\* Only the worker with the lock has anything to do with its drain.
LEMMA OtherSteps ==
    ASSUME ResultInv, NEW w \in Workers, lock # w, Start(w) \/ Step(w) \/ LoseSession(w)
    PROVE  /\ \A v \in Workers \ {w} : wk'[v] = wk[v]
           /\ row' = row /\ attempts' = attempts
           /\ lock' = lock => drain' = drain
           /\ lock' # lock => lock' \in {w, NoWorker}
           /\ lock' = w => wk'[w].pc = "load"
<1>1. wk[w].pc \notin {"load", "count", "fetch", "look", "finish"} /\ ~At(w, "record")
  BY ZenonT(20) DEF ResultInv, LockInv, At
<1>2. wk \in [Workers -> Progress] /\ NoWorker # w
  BY ZenonT(20), ConstantsAssumption DEF ResultInv, TypeInv
<1>3. CASE Start(w)
  BY <1>2, <1>3 DEF Start, db
<1>4. CASE Exit(w) /\ UNCHANGED db
  BY <1>2, <1>4 DEF Exit, db
<1>5. CASE TryLock(w) /\ ~Exit(w)
  <2>1. /\ wk' = [wk EXCEPT ![w].pc = "load"] /\ UNCHANGED db /\ lock' = w
    BY <1>5 DEF TryLock
  <2>2. wk'[w].pc = "load" /\ \A v \in Workers \ {w} : wk'[v] = wk[v]
    BY <1>2, <2>1 DEF Progress
  <2> QED
    BY <2>1, <2>2 DEF db
<1>6. CASE Analyze(w)
  <2>1. UNCHANGED <<db, lock, drain>>
    BY ZenonT(20), <1>6 DEF Analyze
  <2>2. \A v \in Workers \ {w} : wk'[v] = wk[v]
    BY ZenonT(20), <1>2, <1>6, AnalyzeFacts DEF ResultInv
  <2> QED
    BY ZenonT(20), <2>1, <2>2 DEF db
<1>7. CASE LoseSession(w) /\ ~Exit(w)
  <2>1. wk[w].pc = "analyze" /\ w \in sessions
    BY <1>7 DEF LoseSession
  <2> QED
    BY ZenonT(20), <2>1 DEF ResultInv, LockInv
<1>8. CASE Fail(w)
  BY ZenonT(20), <1>4, <1>8 DEF Fail
<1>9. ~LoadModel(w) /\ ~CountPending(w) /\ ~FetchPendingAfter(w) /\ ~Look(w) /\ ~Finish(w)
      /\ ~RecordOutcome(w)
  BY ZenonT(20), <1>1 DEF LoadModel, CountPending, FetchPendingAfter, Look, Finish, RecordOutcome, At
<1> QED
  BY ZenonT(20), <1>3, <1>4, <1>5, <1>6, <1>7, <1>8, <1>9 DEF Step, TryLock, LoseSession

\* A recorded failure charges the observations of the first text of the list,
\* which the drain had not charged.
LEMMA RecordCharges ==
    ASSUME ResultInv, NEW w \in Workers, Charged(wk[w]), RecordOutcome(w)
    PROVE  Charged(wk[w])'
<1> DEFINE i == Head(wk[w].needs)
           r == wk[w]
           s == wk'[w]
<1>1. /\ r.pc = "record" /\ drain' = drain /\ wk \in [Workers -> Progress] /\ lock = w
      /\ attempts \in [Observations -> 0..MaxAttempts] /\ MaxAttempts \in Nat
  BY ZenonT(20), ConstantsAssumption
  DEF RecordOutcome, At, ResultInv, TypeInv, LockInv, Columns
<1>2. /\ r.needs \in Seq(Identities) /\ r.needs # <<>> /\ Distinct(r.needs)
      /\ \A k \in 1..Len(r.needs) : r.needs[k] \in r.attempted
  <2>1. /\ r.needs \in Seq(Identities) /\ Len(r.out) = Len(r.needs) /\ r.out # <<>>
        /\ r.out \in Seq(Results \cup {Error})
        /\ \A k \in 1..Len(r.needs) : r.needs[k] \in r.attempted
    BY ZenonT(20), <1>1 DEF ResultInv, TypeInv, Progress, Coherent
  <2>2. r.needs # <<>>
    BY ZenonT(20), <2>1, EmptySeq
  <2> QED
    BY ZenonT(20), <1>1, <2>1, <2>2 DEF ResultInv, TextInv
<1>3. s.needs = Tail(r.needs) /\ s.attempted = r.attempted
  BY ZenonT(20), <1>1 DEF RecordOutcome, Progress
<1>4. /\ i = r.needs[1] /\ 1 \in 1..Len(r.needs)
      /\ \A k \in 1..Len(s.needs) : s.needs[k] = r.needs[k+1] /\ k+1 \in 1..Len(r.needs)
  BY <1>2, <1>3, TailFacts
<1>5. \A k \in 1..Len(s.needs) : s.needs[k] # i
  BY ZenonT(20), <1>2, <1>3, TailDistinct
<1>6. \A o \in Observations : attempts'[o] = attempts[o] \/ (Id(o) = i /\ attempts'[o] = attempts[o] + 1)
  <2>1. CASE attempts' = attempts
    BY <2>1
  <2>2. CASE RecordFailure(i)
    BY <1>1, <2>2 DEF RecordFailure, PendingOf
  <2> QED
    BY ZenonT(20), <2>1, <2>2 DEF RecordOutcome, ApplyResult
<1> HIDE DEF i, r, s
<1>7. ASSUME NEW o \in Observations
      PROVE  /\ attempts'[o] <= drain.before[o] + 1
             /\ attempts'[o] > drain.before[o] =>
                   /\ Id(o) \in s.attempted
                   /\ \A k \in 1..Len(s.needs) : s.needs[k] # Id(o)
  <2>1. drain.before[o] \in Nat /\ attempts[o] \in Nat
    BY <1>1 DEF Charged, Drains
  <2>2. /\ attempts[o] <= drain.before[o] + 1
        /\ attempts[o] > drain.before[o] =>
              /\ Id(o) \in r.attempted
              /\ \A k \in 1..Len(r.needs) : r.needs[k] # Id(o)
    BY ZenonT(20) DEF Charged, r
  <2>3. CASE Id(o) = i
    <3>1. attempts[o] <= drain.before[o]
      BY <1>4, <2>1, <2>2, <2>3
    <3>2. attempts'[o] <= drain.before[o] + 1
      BY <1>6, <2>1, <3>1
    <3>3. Id(o) \in s.attempted /\ \A k \in 1..Len(s.needs) : s.needs[k] # Id(o)
      BY ZenonT(20), <1>2, <1>3, <1>4, <1>5, <2>3
    <3> QED
      BY ZenonT(20), <3>2, <3>3
  <2>4. CASE Id(o) # i
    BY ZenonT(20), <1>3, <1>4, <1>6, <2>2, <2>4
  <2> QED
    BY ZenonT(20), <2>3, <2>4
<1> QED
  BY ZenonT(20), <1>1, <1>7 DEF Charged, s

\* The steps of the worker with the lock.
LEMMA HolderSteps ==
    ASSUME ResultInv, AttemptInv, NEW w \in Workers, lock = w, Step(w),
           lock' = w, wk'[w].pc \notin {"load", "count"}
    PROVE  Charged(wk[w])'
<1> DEFINE r == wk[w]
           s == wk'[w]
<1>1. /\ r.pc \notin {"stopped", "lock"} /\ w \in sessions
      /\ wk \in [Workers -> Progress] /\ r \in Progress /\ NoWorker # w
  BY ZenonT(20), ConstantsAssumption DEF ResultInv, LockInv, TypeInv
<1>2. ~Exit(w)
  BY <1>1 DEF Exit
<1>3. ~LoadModel(w) /\ ~Finish(w) /\ ~TryLock(w) /\ ~Fail(w)
  BY <1>1, <1>2 DEF LoadModel, Finish, TryLock, Fail, At, Progress, Stopped
<1>4. CASE CountPending(w)
  <2>1. drain' = [inserted |-> FALSE, before |-> attempts] /\ attempts' = attempts
    BY <1>4 DEF CountPending, db
  <2>2. attempts \in [Observations -> Nat]
    BY ConstantsAssumption DEF ResultInv, TypeInv, Columns
  <2>3. drain' \in Drains /\ drain'.before = attempts
    BY ZenonT(20), <2>1, <2>2 DEF Drains
  <2> QED
    BY <2>1, <2>2, <2>3 DEF Charged
<1>5. ASSUME r.pc \notin {"load", "count"}, attempts' = attempts, drain' = drain,
             r.attempted \subseteq s.attempted,
             \A o \in Observations : Id(o) \in r.attempted =>
                \A k \in 1..Len(s.needs) : s.needs[k] = Id(o) =>
                   \E j \in 1..Len(r.needs) : r.needs[j] = Id(o)
      PROVE  Charged(wk[w])'
  <2>1. Charged(r) /\ drain' \in Drains
    BY ZenonT(20), <1>5 DEF AttemptInv, Charged
  <2> HIDE DEF r, s
  <2> QED
    BY ZenonT(20), <1>5, <2>1, ChargedStays DEF Charged, s
<1>6. CASE FetchPendingAfter(w)
  <2>1. PICK pc \in {"finish", "look"} : \E rows, after :
           wk' = [wk EXCEPT ![w].pc = pc, ![w].rows = rows, ![w].after = after]
    BY ZenonT(20), <1>6 DEF FetchPendingAfter
  <2>2. s.needs = r.needs /\ s.attempted = r.attempted
    BY <1>1, <2>1 DEF Progress
  <2>3. attempts' = attempts /\ drain' = drain /\ r.pc = "fetch"
    BY <1>6 DEF FetchPendingAfter, At, db
  <2> HIDE DEF r, s
  <2> QED
    BY ZenonT(20), <1>5, <2>2, <2>3
<1>7. CASE Analyze(w)
  <2>1. PICK out :
           wk' = [wk EXCEPT ![w] = [wk[w] EXCEPT !.pc = "record", !.out = out]]
    BY ZenonT(20), <1>7, AnalyzeFacts DEF ResultInv
  <2>2. s.needs = r.needs /\ s.attempted = r.attempted
    BY <1>1, <2>1 DEF Progress
  <2>3. attempts' = attempts /\ drain' = drain /\ r.pc = "analyze"
    BY ZenonT(20), <1>7 DEF Analyze, db
  <2> HIDE DEF r, s
  <2> QED
    BY ZenonT(20), <1>5, <2>2, <2>3
<1>8. CASE Look(w)
  <2> DEFINE i == Id(Head(r.rows))
  <2>1. attempts' = attempts /\ drain' = drain /\ r.pc = "look"
    BY ZenonT(20), <1>8 DEF Look, At, ApplyResult, db
  <2>2. \/ s.needs = r.needs /\ s.attempted = r.attempted
        \/ s.needs = r.needs /\ s.attempted = r.attempted \cup {i}
        \/ /\ s.needs = Append(r.needs, i) /\ s.attempted = r.attempted \cup {i}
           /\ i \notin r.attempted
    <3> DEFINE rest == Tail(r.rows)
    <3>1. CASE wk' = [wk EXCEPT ![w].rows = rest, ![w].pc = AfterLook(rest, r.needs)]
      BY <1>1, <3>1 DEF Progress
    <3>2. CASE /\ i \notin r.attempted
               /\ wk' = [wk EXCEPT ![w].rows = rest, ![w].attempted = @ \cup {i},
                                   ![w].needs = Append(@, i), ![w].pc = AfterLook(rest, <<i>>)]
      BY ZenonT(20), <1>1, <3>2 DEF Progress
    <3>3. CASE wk' = [wk EXCEPT ![w].rows = rest, ![w].attempted = @ \cup {i},
                                ![w].uncounted = @ - Cardinality(PendingOf(i)),
                                ![w].pc = AfterLook(rest, r.needs)]
      BY ZenonT(20), <1>1, <3>3 DEF Progress
    <3> QED
      BY ZenonT(20), <1>8, <3>1, <3>2, <3>3 DEF Look
  <2>3. r.needs \in Seq(Identities) /\ i \in Identities
    <3>1. r.rows \in Seq(Observations) /\ r.rows # <<>> /\ r.needs \in Seq(Identities)
      BY ZenonT(20), <1>1, <2>1 DEF ResultInv, TypeInv, Progress, Coherent
    <3> QED
      BY ZenonT(20), <3>1, TailFacts, IdentityFacts
  <2> HIDE DEF r, s, i
  <2>4. CASE s.needs = r.needs
    BY ZenonT(20), <1>5, <2>1, <2>2, <2>4
  <2>5. CASE s.needs = Append(r.needs, i) /\ i \notin r.attempted
    <3>1. \A k \in 1..Len(s.needs) : s.needs[k] # i => k \in 1..Len(r.needs) /\ r.needs[k] = s.needs[k]
      BY <2>3, <2>5, AppendFacts
    <3>2. r.attempted \subseteq s.attempted
      BY <2>2
    <3> QED
      BY ZenonT(20), <1>5, <2>1, <2>5, <3>1, <3>2
  <2> QED
    BY ZenonT(20), <2>2, <2>4, <2>5
<1>9. CASE RecordOutcome(w)
  <2>1. r.pc = "record"
    BY ZenonT(20), <1>9 DEF RecordOutcome, At
  <2> QED
    BY ZenonT(20), <1>9, <2>1, RecordCharges DEF AttemptInv
<1> QED
  BY ZenonT(20), <1>3, <1>4, <1>6, <1>7, <1>8, <1>9 DEF Step

\* Every step keeps the attempts of a drain in bounds.
LEMMA AttemptNext == ResultInv /\ AttemptInv /\ [Next]_vars => AttemptInv'
<1> SUFFICES ASSUME ResultInv, AttemptInv, [Next]_vars, NEW v \in Workers,
                    lock' = v, wk'[v].pc \notin {"load", "count"}
             PROVE  Charged(wk[v])'
  BY ZenonT(20) DEF AttemptInv
<1>1. ASSUME lock = v, wk'[v] = wk[v], attempts' = attempts, drain' = drain
      PROVE  Charged(wk[v])'
  BY ZenonT(20), <1>1 DEF AttemptInv, Charged
<1>2. ASSUME NEW o \in Observations, Insert(o) PROVE Charged(wk[v])'
  <2>1. /\ wk' = wk /\ lock = v /\ attempts' = attempts
        /\ drain' = [drain EXCEPT !.inserted = TRUE]
    BY <1>2 DEF Insert
  <2>2. Charged(wk[v])
    BY <2>1 DEF AttemptInv
  <2>3. drain' \in Drains /\ drain'.before = drain.before
    BY ZenonT(20), <2>1, <2>2 DEF Charged, Drains
  <2> QED
    BY <2>1, <2>2, <2>3 DEF Charged
<1>3. ASSUME NEW w \in Workers, Start(w) \/ Step(w) \/ LoseSession(w), lock # w
      PROVE  Charged(wk[v])'
  <2>1. v # NoWorker
    BY ConstantsAssumption
  <2>2. v # w /\ lock' = lock
    BY ZenonT(20), <1>3, <2>1, OtherSteps
  <2> QED
    BY ZenonT(20), <1>1, <1>3, <2>2, OtherSteps
<1>4. ASSUME NEW w \in Workers, Start(w) \/ Step(w) \/ LoseSession(w), lock = w
      PROVE  Charged(wk[v])'
  <2>1. ~Start(w)
    BY <1>4 DEF Start, ResultInv, LockInv
  <2>2. CASE LoseSession(w)
    BY <1>4, <2>2, ConstantsAssumption DEF LoseSession, Exit
  <2>3. CASE Step(w)
    <3>1. lock' \in {w, NoWorker}
      BY ZenonT(20), <1>4, <2>3 DEF Step, TryLock, LoadModel, CountPending, FetchPendingAfter, Look,
                        Analyze, RecordOutcome, Finish, Fail, Exit
    <3>2. v = w
      BY ZenonT(20), <3>1, ConstantsAssumption
    <3> QED
      BY ZenonT(20), <1>4, <2>3, <3>2, HolderSteps
  <2> QED
    BY ZenonT(20), <1>4, <2>1, <2>2, <2>3
<1>5. CASE UNCHANGED vars
  BY ZenonT(20), <1>1, <1>5 DEF vars, db
<1> QED
  BY ZenonT(20), <1>2, <1>3, <1>4, <1>5 DEF Next

\* A drain looks up a text once and charges its observations at most one
\* attempt, however many pages and observations the text is spread over.
THEOREM OneAttempt == Spec => []OneAttemptPerDrain
<1>1. Init => AttemptInv
  BY ZenonT(20), ConstantsAssumption DEF Init, AttemptInv
<1>2. ResultInv /\ AttemptInv => OneAttemptPerDrain
  BY ZenonT(20) DEF ResultInv, TypeInv, AttemptInv, Charged, OneAttemptPerDrain
<1> QED
  BY <1>1, <1>2, ResultInit, ResultNext, AttemptNext, PTL DEF Spec

-----------------------------------------------------------------------------
(* The counters of a drain *)

In(x, s) == \E k \in 1..Len(s) : s[k] = x

\* The pending rows P that the counters of a drain do not hold yet: their text
\* was not looked up, or waits for its outcome.
Uncounted(P, r) == {o \in P : Id(o) \in r.attempted => In(Id(o), r.needs)}

\* The counters are short of these rows; a row whose text was not looked up is
\* on the page or after the cursor; and a drain that is over has counted all.
Counting(P, r) ==
    /\ r.uncounted = Cardinality(Uncounted(P, r))
    /\ \A o \in P : Id(o) \in r.attempted \/ In(o, r.rows) \/ Before(r.after, o)
    /\ r.pc = "finish" => Uncounted(P, r) = {}

CountInv ==
    \A w \in Workers :
        lock = w /\ ~drain.inserted /\ wk[w].pc \notin {"load", "count"} =>
            Counting(Pending, wk[w])

\* An outcome, or a result that is reused, is counted for the pending rows T of
\* its text i, some of which may stay pending.
LEMMA TextCounted ==
    ASSUME NEW w, NEW i, Pending' \in SUBSET Pending, Pending \ Pending' \subseteq PendingOf(i),
           i \in wk[w].attempted => In(i, wk[w].needs),
           i \in wk'[w].attempted, ~In(i, wk'[w].needs),
           \A j : j # i => /\ j \in wk'[w].attempted <=> j \in wk[w].attempted
                           /\ In(j, wk'[w].needs) <=> In(j, wk[w].needs),
           wk[w].uncounted = Cardinality(Uncounted(Pending, wk[w])),
           wk'[w].uncounted = wk[w].uncounted - Cardinality(PendingOf(i))
    PROVE  wk'[w].uncounted = Cardinality(Uncounted(Pending', wk'[w]))
<1> DEFINE r == wk[w]
           s == wk'[w]
           P == Pending
           Q == Pending'
           T == PendingOf(i)
<1>a. /\ P \in SUBSET Observations /\ T = {o \in P : Id(o) = i}
      /\ Q \in SUBSET P /\ P \ Q \subseteq T
  BY ZenonT(20) DEF PendingOf, Pending
<1>b. /\ i \in r.attempted => In(i, r.needs)
      /\ i \in s.attempted /\ ~In(i, s.needs)
      /\ r.uncounted = Cardinality(Uncounted(P, r))
      /\ s.uncounted = r.uncounted - Cardinality(T)
  BY ZenonT(20)
<1>c. \A j : j # i => /\ j \in s.attempted <=> j \in r.attempted
                      /\ In(j, s.needs) <=> In(j, r.needs)
  BY ZenonT(20)
<1> HIDE DEF r, s, P, Q, T
<1>1. Uncounted(P, r) \in SUBSET Observations /\ T \subseteq Uncounted(P, r)
  BY ZenonT(20), <1>a, <1>b DEF Uncounted
<1>2. ASSUME NEW o PROVE o \in Uncounted(Q, s) <=> o \in Uncounted(P, r) \ T
  <2>1. CASE o \in T
    BY ZenonT(20), <1>a, <1>b, <2>1 DEF Uncounted
  <2>2. CASE o \notin T
    <3>1. o \in Q <=> o \in P
      BY ZenonT(20), <1>a, <2>2
    <3>2. CASE o \in P
      <4>1. Id(o) # i
        BY ZenonT(20), <1>a, <2>2, <3>2
      <4>2. (Id(o) \in s.attempted => In(Id(o), s.needs))
               <=> (Id(o) \in r.attempted => In(Id(o), r.needs))
        BY ZenonT(20), <1>c, <4>1
      <4> QED
        BY ZenonT(20), <2>2, <3>1, <4>2 DEF Uncounted
    <3> QED
      BY ZenonT(20), <3>1, <3>2 DEF Uncounted
  <2> QED
    BY ZenonT(20), <2>1, <2>2
<1>3. Uncounted(Q, s) = Uncounted(P, r) \ T
  BY ZenonT(20), <1>2
<1>4. IsFiniteSet(Uncounted(P, r))
  BY ZenonT(20), <1>1, ConstantsAssumption, FS_Subset
<1>5. Cardinality(Uncounted(P, r) \ T)
         = Cardinality(Uncounted(P, r)) - Cardinality(Uncounted(P, r) \cap T)
  BY ZenonT(20), <1>4, FS_Difference
<1>6. Uncounted(P, r) \cap T = T
  BY ZenonT(20), <1>1
<1> QED
  BY ZenonT(20), <1>b, <1>3, <1>5, <1>6 DEF Q, s

\* The first row of a page is done: what is left of the page covers the rest.
LEMMA RowLookedUp ==
    ASSUME NEW P \in SUBSET Observations, NEW Q \in SUBSET P, NEW r \in Progress, NEW s,
           r.rows # <<>>, s.rows = Tail(r.rows), s.after = r.after,
           r.attempted \subseteq s.attempted, Id(Head(r.rows)) \in s.attempted,
           \A o \in P : Id(o) \in r.attempted \/ In(o, r.rows) \/ Before(r.after, o)
    PROVE  \A o \in Q : Id(o) \in s.attempted \/ In(o, s.rows) \/ Before(s.after, o)
<1>1. r.rows \in Seq(Observations)
  BY DEF Progress
<1>2. /\ Head(r.rows) = r.rows[1] /\ Len(Tail(r.rows)) = Len(r.rows) - 1 /\ Len(r.rows) \in Nat
      /\ \A k \in 1..Len(Tail(r.rows)) : Tail(r.rows)[k] = r.rows[k+1]
  BY <1>1, TailFacts
<1>3. ASSUME NEW o, In(o, r.rows), o # Head(r.rows) PROVE In(o, Tail(r.rows))
  <2>1. PICK k \in 1..Len(r.rows) : r.rows[k] = o
    BY <1>3 DEF In
  <2>2. k # 1
    BY <1>2, <1>3, <2>1
  <2>3. k - 1 \in 1..Len(Tail(r.rows)) /\ (k - 1) + 1 = k
    BY <1>2, <2>2
  <2>4. Tail(r.rows)[k - 1] = o
    BY <1>2, <2>1, <2>3
  <2> QED
    BY ZenonT(20), <2>3, <2>4 DEF In
<1> QED
  BY ZenonT(20), <1>3

\* What apply_result and record_failure do to the pending rows.
LEMMA PendingMoves ==
    ASSUME Columns, NEW i, \/ RecordFailure(i)
                           \/ \E result : ApplyResult(i, result)
    PROVE  /\ Pending \in SUBSET Observations /\ Pending' \in SUBSET Pending
           /\ Pending \ Pending' \subseteq PendingOf(i)
           /\ PendingOf(i) = {o \in Pending : Id(o) = i}
<1>1. \A o \in Observations : o \notin PendingOf(i) => row'[o] = row[o]
  <2>1. CASE RecordFailure(i)
    BY <2>1 DEF RecordFailure
  <2>2. CASE \E result : ApplyResult(i, result)
    BY <2>2 DEF ApplyResult
  <2> QED
    BY ZenonT(20), <2>1, <2>2
<1>2. PendingOf(i) = {o \in Pending : Id(o) = i} /\ Pending \in SUBSET Observations
  BY ZenonT(20) DEF PendingOf, Pending
<1>3. Pending' \in SUBSET Observations
  BY ZenonT(20) DEF Pending
<1>4. ASSUME NEW o \in Observations, o \notin PendingOf(i)
      PROVE  o \in Pending <=> o \in Pending'
  BY ZenonT(20), <1>1, <1>4 DEF Pending
<1>5. PendingOf(i) \subseteq Pending
  BY ZenonT(20), <1>2
<1> QED
  BY ZenonT(20), <1>2, <1>3, <1>4, <1>5


\* A page covers the pending rows up to its last one; none is left where it is
\* empty.
LEMMA FetchCounts ==
    ASSUME ResultInv, NEW w \in Workers, Counting(Pending, wk[w]), FetchPendingAfter(w)
    PROVE  Counting(Pending, wk[w])'
<1> DEFINE r == wk[w]
           s == wk'[w]
           P == Pending
           later == {o \in P : Before(r.after, o)}
<1>1. /\ r.pc = "fetch" /\ row' = row /\ wk \in [Workers -> Progress] /\ r \in Progress
  BY DEF FetchPendingAfter, At, db, ResultInv, TypeInv
<1>2. r.needs = <<>> /\ r.rows = <<>>
  BY ZenonT(20), <1>1 DEF ResultInv, TypeInv, TextInv, Coherent
<1>3. P \in SUBSET Observations /\ Pending' = P
  BY ZenonT(20), <1>1 DEF Pending
<1>4. PICK n \in 0..BatchSize : \E page \in [1..n -> later] :
         /\ IsPage(page, later)
         /\ wk' = [wk EXCEPT ![w].pc = IF n = 0 THEN "finish" ELSE "look",
                             ![w].rows = page,
                             ![w].after = IF n = 0 THEN @
                                ELSE [review |-> page[n].review, task |-> page[n].task]]
  BY ZenonT(20) DEF FetchPendingAfter
<1>5. PICK page \in [1..n -> later] :
         /\ IsPage(page, later)
         /\ wk' = [wk EXCEPT ![w].pc = IF n = 0 THEN "finish" ELSE "look",
                             ![w].rows = page,
                             ![w].after = IF n = 0 THEN @
                                ELSE [review |-> page[n].review, task |-> page[n].task]]
  BY ZenonT(20), <1>4
<1>6. /\ s.needs = r.needs /\ s.attempted = r.attempted /\ s.uncounted = r.uncounted
      /\ s.rows = page /\ s.pc = IF n = 0 THEN "finish" ELSE "look"
      /\ s.after = IF n = 0 THEN r.after ELSE [review |-> page[n].review, task |-> page[n].task]
  BY ZenonT(20), <1>1, <1>5 DEF Progress
<1>7. n \in Nat /\ BatchSize \in Nat \ {0} /\ later \in SUBSET Observations
  BY <1>3, ConstantsAssumption
<1>8. Len(page) = n /\ DOMAIN page = 1..n
  BY ZenonT(20), <1>7, PageFacts
<1>9. \A o \in P : Id(o) \in r.attempted \/ o \in later
  <2>1. \A o : ~In(o, r.rows)
    BY <1>2 DEF In
  <2> QED
    BY ZenonT(20), <2>1 DEF Counting
<1>10. Uncounted(P, s) = Uncounted(P, r)
  BY ZenonT(20), <1>6 DEF Uncounted
<1>11. CASE n = 0
  <2>1. later = {}
    BY <1>5, <1>7, <1>8, <1>11 DEF IsPage
  <2>2. \A i : ~In(i, r.needs)
    BY <1>2 DEF In
  <2> HIDE DEF later
  <2>3. Uncounted(P, s) = {}
    BY ZenonT(20), <1>9, <1>10, <2>1, <2>2 DEF Uncounted
  <2> HIDE DEF r, s, P
  <2> QED
    BY ZenonT(20), <1>3, <1>6, <1>9, <1>10, <2>1, <2>3 DEF Counting, P, r, s
<1>12. CASE n # 0
  <2>1. n \in DOMAIN page
    BY <1>7, <1>8, <1>12
  <2>2. ASSUME NEW o \in later PROVE In(o, page) \/ Before(s.after, o)
    <3>1. CASE \E k \in DOMAIN page : page[k] = o
      BY ZenonT(20), <1>8, <3>1 DEF In
    <3>2. CASE ~\E k \in DOMAIN page : page[k] = o
      <4>1. Before(page[n], o)
        BY ZenonT(20), <1>5, <2>1, <2>2, <3>2 DEF IsPage
      <4>2. s.after.review = page[n].review /\ s.after.task = page[n].task
        BY <1>6, <1>12
      <4> QED
        BY ZenonT(20), <4>1, <4>2 DEF Before
    <3> QED
      BY ZenonT(20), <3>1, <3>2
  <2>3. s.pc # "finish"
    BY <1>6, <1>12
  <2> HIDE DEF r, s, P, later
  <2> QED
    BY ZenonT(20), <1>3, <1>6, <1>9, <1>10, <2>2, <2>3 DEF Counting, P, r, s
<1> QED
  BY ZenonT(20), <1>11, <1>12

\* A row whose text was looked up before, or waits for its outcome now, is
\* counted with the text; a reused result is counted at once.
LEMMA LookCounts ==
    ASSUME ResultInv, NEW w \in Workers, lock = w, Counting(Pending, wk[w]), Look(w)
    PROVE  Counting(Pending, wk[w])'
<1> DEFINE r == wk[w]
           s == wk'[w]
           P == Pending
           i == Id(Head(r.rows))
           rest == Tail(r.rows)
<1>1. /\ r.pc = "look" /\ wk \in [Workers -> Progress] /\ r \in Progress
      /\ Coherent(r) /\ P \in SUBSET Observations /\ Columns
  BY ZenonT(20) DEF Look, At, ResultInv, TypeInv, Pending
<1>2. /\ r.rows \in Seq(Observations) /\ r.rows # <<>> /\ r.needs \in Seq(Identities)
      /\ \A k \in 1..Len(r.needs) : r.needs[k] \in r.attempted
  BY ZenonT(20), <1>1 DEF Progress, Coherent
<1>3. i \in Identities
  BY ZenonT(20), <1>2, TailFacts, IdentityFacts
<1>4. ASSUME s.rows = rest, s.after = r.after, r.attempted \subseteq s.attempted, i \in s.attempted,
             Pending' \in SUBSET P, s.pc # "finish",
             s.uncounted = Cardinality(Uncounted(Pending', s))
      PROVE  Counting(Pending, wk[w])'
  <2>1. \A o \in Pending' : Id(o) \in s.attempted \/ In(o, s.rows) \/ Before(s.after, o)
    <3>1. \A o \in P : Id(o) \in r.attempted \/ In(o, r.rows) \/ Before(r.after, o)
      BY ZenonT(20) DEF Counting
    <3> HIDE DEF s, P
    <3> QED
      BY ZenonT(20), <1>1, <1>2, <1>4, <3>1, RowLookedUp
  <2> QED
    BY ZenonT(20), <1>4, <2>1 DEF Counting
<1>5. \A needs : AfterLook(rest, needs) # "finish"
  BY ZenonT(20), AfterLookFacts
<1>6. r.uncounted = Cardinality(Uncounted(P, r))
  BY ZenonT(20) DEF Counting
<1>7. CASE /\ i \in r.attempted
           /\ wk' = [wk EXCEPT ![w].rows = rest, ![w].pc = AfterLook(rest, r.needs)]
           /\ UNCHANGED db
  <2>1. /\ s.rows = rest /\ s.pc # "finish" /\ s.after = r.after /\ s.attempted = r.attempted
        /\ s.needs = r.needs /\ s.uncounted = r.uncounted
    BY ZenonT(20), <1>1, <1>5, <1>7 DEF Progress
  <2>2. Pending' = P
    BY ZenonT(20), <1>7 DEF Pending, db
  <2>3. Uncounted(Pending', s) = Uncounted(P, r)
    BY ZenonT(20), <2>1, <2>2 DEF Uncounted
  <2> HIDE DEF r, s, P, i, rest
  <2> QED
    BY ZenonT(20), <1>4, <1>6, <1>7, <2>1, <2>2, <2>3
<1>8. CASE /\ i \notin r.attempted
           /\ wk' = [wk EXCEPT ![w].rows = rest, ![w].attempted = @ \cup {i},
                               ![w].needs = Append(@, i), ![w].pc = AfterLook(rest, <<i>>)]
           /\ UNCHANGED db
  <2>1. /\ s.rows = rest /\ s.pc # "finish" /\ s.after = r.after
        /\ s.attempted = r.attempted \cup {i}
        /\ s.needs = Append(r.needs, i) /\ s.uncounted = r.uncounted
    BY ZenonT(20), <1>1, <1>5, <1>8 DEF Progress
  <2>2. Pending' = P
    BY ZenonT(20), <1>8 DEF Pending, db
  <2> HIDE DEF r, s, P, i, rest
  <2>3. In(i, s.needs) /\ \A j : j # i => (In(j, s.needs) <=> In(j, r.needs))
    <3>1. /\ Len(s.needs) = Len(r.needs) + 1 /\ Len(r.needs) \in Nat
          /\ \A k \in 1..Len(r.needs) : s.needs[k] = r.needs[k]
          /\ s.needs[Len(r.needs) + 1] = i
      BY <1>2, <1>3, <2>1, AppendFacts
    <3>2. \A k : k \in 1..Len(s.needs) <=> k \in 1..Len(r.needs) \/ k = Len(r.needs) + 1
      BY <3>1
    <3> QED
      BY ZenonT(20), <3>1, <3>2 DEF In
  <2>4. ASSUME NEW o \in P
        PROVE  (Id(o) \in s.attempted => In(Id(o), s.needs))
                  <=> (Id(o) \in r.attempted => In(Id(o), r.needs))
    BY ZenonT(20), <1>8, <2>1, <2>3
  <2>5. Uncounted(Pending', s) = Uncounted(P, r)
    BY ZenonT(20), <2>2, <2>4 DEF Uncounted
  <2> QED
    BY ZenonT(20), <1>4, <1>6, <2>1, <2>2, <2>5
<1>9. CASE /\ i \notin r.attempted /\ \E result : ApplyResult(i, result)
           /\ wk' = [wk EXCEPT ![w].rows = rest, ![w].attempted = @ \cup {i},
                               ![w].uncounted = @ - Cardinality(PendingOf(i)),
                               ![w].pc = AfterLook(rest, r.needs)]
  <2>1. /\ s.rows = rest /\ s.pc # "finish" /\ s.after = r.after
        /\ s.attempted = r.attempted \cup {i}
        /\ s.needs = r.needs /\ s.uncounted = r.uncounted - Cardinality(PendingOf(i))
    BY ZenonT(20), <1>1, <1>5, <1>9 DEF Progress
  <2>2. /\ Pending' \in SUBSET P /\ P \ Pending' \subseteq PendingOf(i)
        /\ PendingOf(i) = {o \in P : Id(o) = i}
    BY ZenonT(20), <1>1, <1>9, PendingMoves
  <2>3. ~In(i, r.needs)
    BY ZenonT(20), <1>2, <1>9 DEF In
  <2> HIDE DEF r, s, P, i, rest
  <2>4. s.uncounted = Cardinality(Uncounted(Pending', s))
    <3>1. \A j : j # i => /\ j \in s.attempted <=> j \in r.attempted
                          /\ In(j, s.needs) <=> In(j, r.needs)
      BY ZenonT(20), <2>1
    <3>2. /\ i \in r.attempted => In(i, r.needs)
          /\ i \in s.attempted /\ ~In(i, s.needs)
      BY ZenonT(20), <1>9, <2>1, <2>3
    <3> QED
      BY ZenonT(20), <1>6, <2>1, <2>2, <3>1, <3>2, TextCounted DEF r, s, P
  <2> QED
    BY ZenonT(20), <1>4, <2>1, <2>2, <2>4
<1> QED
  BY ZenonT(20), <1>7, <1>8, <1>9 DEF Look


\* An outcome is counted for the pending rows of its text.
LEMMA RecordCounts ==
    ASSUME ResultInv, NEW w \in Workers, lock = w, Counting(Pending, wk[w]), RecordOutcome(w)
    PROVE  Counting(Pending, wk[w])'
<1> DEFINE r == wk[w]
           s == wk'[w]
           P == Pending
           i == Head(r.needs)
<1>1. /\ r.pc = "record" /\ wk \in [Workers -> Progress] /\ r \in Progress
      /\ Coherent(r) /\ P \in SUBSET Observations /\ Columns /\ Distinct(r.needs)
  BY ZenonT(20) DEF RecordOutcome, At, ResultInv, TypeInv, TextInv, Pending
<1>2. /\ r.needs \in Seq(Identities) /\ r.needs # <<>>
      /\ \A k \in 1..Len(r.needs) : r.needs[k] \in r.attempted
  <2>1. /\ r.needs \in Seq(Identities) /\ Len(r.out) = Len(r.needs) /\ r.out # <<>>
        /\ r.out \in Seq(Results \cup {Error})
        /\ \A k \in 1..Len(r.needs) : r.needs[k] \in r.attempted
    BY ZenonT(20), <1>1 DEF Progress, Coherent
  <2> QED
    BY ZenonT(20), <2>1, EmptySeq
<1>3. /\ s.needs = Tail(r.needs) /\ s.attempted = r.attempted /\ s.rows = r.rows
      /\ s.after = r.after /\ s.uncounted = r.uncounted - Cardinality(PendingOf(i))
      /\ s.pc = IF Len(r.needs) = 1 THEN "fetch" ELSE "record"
  BY ZenonT(20), <1>1 DEF RecordOutcome, Progress
<1>4. s.pc # "finish"
  BY <1>3
<1>5. /\ Pending' \in SUBSET P /\ P \ Pending' \subseteq PendingOf(i)
      /\ PendingOf(i) = {o \in P : Id(o) = i}
  <2>1. RecordFailure(i) \/ \E result : ApplyResult(i, result)
    BY ZenonT(20) DEF RecordOutcome
  <2> QED
    BY ZenonT(20), <1>1, <2>1, PendingMoves
<1>6. /\ r.uncounted = Cardinality(Uncounted(P, r))
      /\ \A o \in P : Id(o) \in r.attempted \/ In(o, r.rows) \/ Before(r.after, o)
  BY ZenonT(20) DEF Counting
<1> HIDE DEF r, s, P
<1>7. In(i, r.needs) /\ i \in r.attempted /\ ~In(i, s.needs)
  <2>1. i = r.needs[1] /\ 1 \in 1..Len(r.needs)
    BY ZenonT(20), <1>2, TailFacts
  <2>2. ~In(i, s.needs)
    BY ZenonT(20), <1>1, <1>2, <1>3, TailDistinct DEF In
  <2> QED
    BY ZenonT(20), <1>2, <2>1, <2>2 DEF In
<1>8. \A j : j # i => (In(j, s.needs) <=> In(j, r.needs))
  <2>1. /\ i = r.needs[1] /\ Len(s.needs) = Len(r.needs) - 1 /\ Len(r.needs) \in Nat
        /\ \A k \in 1..Len(s.needs) : s.needs[k] = r.needs[k+1] /\ k+1 \in 1..Len(r.needs)
    BY <1>2, <1>3, TailFacts
  <2>2. ASSUME NEW j, j # i, NEW k \in 1..Len(r.needs), r.needs[k] = j PROVE In(j, s.needs)
    <3>1. k - 1 \in 1..Len(s.needs) /\ (k - 1) + 1 = k
      BY <2>1, <2>2
    <3>2. s.needs[k - 1] = j
      BY <2>1, <2>2, <3>1
    <3> QED
      BY ZenonT(20), <3>1, <3>2 DEF In
  <2> QED
    BY ZenonT(20), <2>1, <2>2 DEF In
<1> HIDE DEF i
<1>9. s.uncounted = Cardinality(Uncounted(Pending', s))
  <2>1. \A j : j # i => /\ j \in s.attempted <=> j \in r.attempted
                        /\ In(j, s.needs) <=> In(j, r.needs)
    BY ZenonT(20), <1>3, <1>8
  <2>2. /\ i \in r.attempted => In(i, r.needs)
        /\ i \in s.attempted /\ ~In(i, s.needs)
    BY ZenonT(20), <1>3, <1>7
  <2> QED
    BY ZenonT(20), <1>3, <1>5, <1>6, <2>1, <2>2, TextCounted DEF r, s, P
<1>10. \A o \in Pending' : Id(o) \in s.attempted \/ In(o, s.rows) \/ Before(s.after, o)
  BY ZenonT(20), <1>3, <1>5, <1>6
<1> QED
  BY ZenonT(20), <1>4, <1>9, <1>10 DEF Counting, s

\* The steps of the worker with the lock.
LEMMA HolderCounts ==
    ASSUME ResultInv, CountInv, NEW w \in Workers, lock = w, Step(w),
           lock' = w, ~drain'.inserted, wk'[w].pc \notin {"load", "count"}
    PROVE  Counting(Pending, wk[w])'
<1> DEFINE r == wk[w]
           s == wk'[w]
<1>1. /\ r.pc \notin {"stopped", "lock"} /\ w \in sessions
      /\ wk \in [Workers -> Progress] /\ r \in Progress /\ NoWorker # w
  BY ZenonT(20), ConstantsAssumption DEF ResultInv, LockInv, TypeInv
<1>2. ~Exit(w)
  BY <1>1 DEF Exit
<1>3. ~LoadModel(w) /\ ~Finish(w) /\ ~TryLock(w) /\ ~Fail(w)
  BY <1>1, <1>2 DEF LoadModel, Finish, TryLock, Fail, At, Progress, Stopped
<1>4. CASE CountPending(w)
  <2>1. row' = row /\ s = [Stopped EXCEPT !.pc = "fetch", !.uncounted = Cardinality(Pending)]
    BY ZenonT(20), <1>1, <1>4 DEF CountPending, db
  <2>2. /\ s.pc = "fetch" /\ s.uncounted = Cardinality(Pending) /\ s.attempted = {}
        /\ s.after = [review |-> 0, task |-> 0]
    BY ZenonT(20), <2>1 DEF Stopped
  <2>3. Pending' = Pending /\ Pending \in SUBSET Observations
    BY ZenonT(20), <2>1 DEF Pending
  <2>4. \A o \in Observations : Before(s.after, o)
    BY <2>2, ConstantsAssumption DEF Before
  <2> HIDE DEF s
  <2>5. Uncounted(Pending', s) = Pending
    BY ZenonT(20), <2>2, <2>3 DEF Uncounted
  <2>6. s.pc # "finish"
    BY <2>2
  <2> QED
    BY ZenonT(20), <2>2, <2>3, <2>4, <2>5, <2>6 DEF Counting, s
<1>5. ASSUME r.pc \notin {"load", "count"}, drain' = drain PROVE Counting(Pending, r)
  BY ZenonT(20), <1>5 DEF CountInv
<1>6. CASE FetchPendingAfter(w)
  <2>1. r.pc = "fetch" /\ drain' = drain
    BY ZenonT(20), <1>6 DEF FetchPendingAfter, At
  <2> QED
    BY ZenonT(20), <1>5, <1>6, <2>1, FetchCounts
<1>7. CASE Analyze(w)
  <2>1. PICK out :
           wk' = [wk EXCEPT ![w] = [wk[w] EXCEPT !.pc = "record", !.out = out]]
    BY ZenonT(20), <1>7, AnalyzeFacts DEF ResultInv
  <2>2. /\ s.needs = r.needs /\ s.attempted = r.attempted /\ s.rows = r.rows
        /\ s.after = r.after /\ s.uncounted = r.uncounted /\ s.pc = "record"
    BY ZenonT(20), <1>1, <2>1 DEF Progress
  <2>3. row' = row /\ drain' = drain /\ r.pc = "analyze"
    BY ZenonT(20), <1>7 DEF Analyze, db
  <2>4. Pending' = Pending
    BY ZenonT(20), <2>3 DEF Pending
  <2>5. Counting(Pending, r)
    BY ZenonT(20), <1>5, <2>3
  <2> HIDE DEF r, s
  <2>6. Uncounted(Pending', s) = Uncounted(Pending, r)
    BY ZenonT(20), <2>2, <2>4 DEF Uncounted
  <2>7. s.pc # "finish"
    BY <2>2
  <2> QED
    BY ZenonT(20), <2>2, <2>4, <2>5, <2>6, <2>7 DEF Counting, s
<1>8. CASE Look(w)
  <2>1. r.pc = "look" /\ drain' = drain
    BY ZenonT(20), <1>8 DEF Look, At
  <2> QED
    BY ZenonT(20), <1>5, <1>8, <2>1, LookCounts
<1>9. CASE RecordOutcome(w)
  <2>1. r.pc = "record" /\ drain' = drain
    BY ZenonT(20), <1>9 DEF RecordOutcome, At
  <2> QED
    BY ZenonT(20), <1>5, <1>9, <2>1, RecordCounts
<1> QED
  BY ZenonT(20), <1>3, <1>4, <1>6, <1>7, <1>8, <1>9 DEF Step


\* Every step keeps the counters of a drain in line with its rows.
LEMMA CountNext == ResultInv /\ AttemptInv /\ CountInv /\ [Next]_vars => CountInv'
<1> SUFFICES ASSUME ResultInv, AttemptInv, CountInv, [Next]_vars, NEW v \in Workers,
                    lock' = v, ~drain'.inserted, wk'[v].pc \notin {"load", "count"}
             PROVE  Counting(Pending, wk[v])'
  BY ZenonT(20) DEF CountInv
<1>1. ASSUME lock = v, wk'[v] = wk[v], row' = row, drain' = drain
      PROVE  Counting(Pending, wk[v])'
  <2>1. Pending' = Pending
    BY ZenonT(20), <1>1 DEF Pending
  <2>2. Counting(Pending, wk[v])
    BY ZenonT(20), <1>1 DEF CountInv
  <2> QED
    BY ZenonT(20), <1>1, <2>1, <2>2 DEF Counting
<1>2. ASSUME NEW o \in Observations, Insert(o) PROVE FALSE
  <2>1. /\ wk' = wk /\ lock = v /\ drain' = [drain EXCEPT !.inserted = TRUE]
    BY <1>2 DEF Insert
  <2>2. drain \in Drains
    BY ZenonT(20), <2>1 DEF AttemptInv, Charged
  <2> QED
    BY ZenonT(20), <2>1, <2>2 DEF Drains
<1>3. ASSUME NEW w \in Workers, Start(w) \/ Step(w) \/ LoseSession(w), lock # w
      PROVE  Counting(Pending, wk[v])'
  <2>1. v # NoWorker
    BY ConstantsAssumption
  <2>2. v # w /\ lock' = lock
    BY ZenonT(20), <1>3, <2>1, OtherSteps
  <2> QED
    BY ZenonT(20), <1>1, <1>3, <2>2, OtherSteps
<1>4. ASSUME NEW w \in Workers, Start(w) \/ Step(w) \/ LoseSession(w), lock = w
      PROVE  Counting(Pending, wk[v])'
  <2>1. ~Start(w)
    BY <1>4 DEF Start, ResultInv, LockInv
  <2>2. CASE LoseSession(w)
    BY <1>4, <2>2, ConstantsAssumption DEF LoseSession, Exit
  <2>3. CASE Step(w)
    <3>1. lock' \in {w, NoWorker}
      BY ZenonT(20), <1>4, <2>3 DEF Step, TryLock, LoadModel, CountPending, FetchPendingAfter, Look,
                        Analyze, RecordOutcome, Finish, Fail, Exit
    <3>2. v = w
      BY ZenonT(20), <3>1, ConstantsAssumption
    <3> QED
      BY ZenonT(20), <1>4, <2>3, <3>2, HolderCounts
  <2> QED
    BY ZenonT(20), <1>4, <2>1, <2>2, <2>3
<1>5. CASE UNCHANGED vars
  BY ZenonT(20), <1>1, <1>5 DEF vars
<1> QED
  BY ZenonT(20), <1>2, <1>3, <1>4, <1>5 DEF Next

\* The counters that run_complete logs account for every observation that was
\* pending, exactly once, in a drain during which nothing was inserted.
THEOREM CountersAddUp == Spec => []CountsAddUp
<1>1. Init => AttemptInv /\ CountInv
  BY ZenonT(20), ConstantsAssumption DEF Init, AttemptInv, CountInv
<1>2. ResultInv /\ CountInv => CountsAddUp
  <2> SUFFICES ASSUME ResultInv, CountInv, lock # NoWorker, wk[lock].pc = "finish",
                      ~drain.inserted
               PROVE  wk[lock].uncounted = 0
    BY ZenonT(20) DEF CountsAddUp
  <2>1. lock \in Workers /\ wk[lock].pc \notin {"load", "count"}
    BY DEF ResultInv, TypeInv
  <2>2. wk[lock].uncounted = Cardinality({})
    BY ZenonT(20), <2>1 DEF CountInv, Counting
  <2> QED
    BY <2>2, FS_EmptySet
<1> QED
  BY <1>1, <1>2, ResultInit, ResultNext, AttemptNext, CountNext, PTL DEF Spec

=============================================================================
