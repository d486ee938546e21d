----------------------- MODULE CaptureLifecycleProofs -----------------------
(***************************************************************************)
(* Proofs about CaptureLifecycle, for any number of captures, requests,    *)
(* workers, uploads and faults.                                            *)
(***************************************************************************)
EXTENDS CaptureLifecycle, TLAPS

\* A request between its first and last step works on a capture.
ActiveRequests ==
    \A r \in Requests : rq[r].pc \notin {"new", "done"} => rq[r].c \in Captures

\* The worker that holds the partition works on the message at its head.
OwnerHoldsHead ==
    wk[owner].pc # "idle" => ready # <<>> /\ Head(ready) = wk[owner].c

\* A worker that is not polling works on a capture.
ActiveWorkers ==
    \A w \in Workers : wk[w].pc # "idle" => wk[w].c \in Captures

TypeInv == TypeOK /\ ActiveRequests /\ ActiveWorkers /\ OwnerHoldsHead

USE DEF Terminal, Dispatchable, Status

\* The initial rows, requests and workers have their types.
LEMMA TypeInit == Init => TypeInv
  <1> SUFFICES ASSUME Init PROVE TypeInv
    OBVIOUS
  <1> USE DEF Init
  <1>1. NoRow \in Row
    BY DEF NoRow, Row
  <1>2. rq \in [Requests -> RequestState]
    BY <1>1 DEF NewRequest, RequestState, RequestPcs
  <1>3. rec \in ReconcileState
    BY DEF IdleRec, ReconcileState
  <1>4. wk \in [Workers -> WorkerState]
    BY DEF IdleWorker, WorkerState, WorkerPcs
  <1>5. ready \in Seq(Captures)
    OBVIOUS
  <1>6. TypeOK
    BY ZenonT(20), <1>1, <1>2, <1>3, <1>4, <1>5 DEF TypeOK, Contents
  <1>7. ActiveRequests /\ ActiveWorkers /\ OwnerHoldsHead
    BY DEF ActiveRequests, ActiveWorkers, OwnerHoldsHead, NewRequest, IdleWorker
  <1> QED
    BY <1>6, <1>7 DEF TypeInv

\* The rows that reopening and completing write.
LEMMA RowWrites ==
    ASSUME NEW cur \in Row, NEW snap \in Row, NEW b \in BOOLEAN
    PROVE  /\ Reopened(cur, snap) \in Row
           /\ Reopened(cur, snap).status = "pending_upload"
           /\ Uploaded(cur, b) \in Row
           /\ Uploaded(cur, b).status = "uploaded"
  BY ZenonT(20) DEF Row, Reopened, Uploaded

\* What Goto and Finish do to the requests.
LEMMA RequestMoves ==
    ASSUME TypeInv, NEW r \in Requests
    PROVE  /\ rq[r].snap \in Row /\ rq[r].c \in Captures \cup {None}
           /\ Finish(r) => /\ rq' \in [Requests -> RequestState]
                           /\ rq'[r] = DoneRequest /\ DoneRequest.pc = "done"
                           /\ \A x \in Requests \ {r} : rq'[x] = rq[x]
           /\ \A pc \in RequestPcs, snap \in Row :
                Goto(r, pc, snap) =>
                    /\ rq' \in [Requests -> RequestState]
                    /\ rq'[r].pc = pc /\ rq'[r].c = rq[r].c
                    /\ rq'[r].snap = snap
                    /\ \A x \in Requests \ {r} : rq'[x] = rq[x]
  <1> USE DEF TypeInv, TypeOK
  <1>1. /\ rq[r].snap \in Row /\ rq[r].c \in Captures \cup {None}
        /\ rq[r].refs \in SUBSET Captures
    BY DEF RequestState
  <1>2. DoneRequest \in RequestState /\ DoneRequest.pc = "done"
    BY DEF DoneRequest, RequestState, RequestPcs, NoRow, Row
  <1>3. ASSUME NEW pc \in RequestPcs, NEW snap \in Row, Goto(r, pc, snap)
        PROVE  /\ rq' \in [Requests -> RequestState]
               /\ rq'[r].pc = pc /\ rq'[r].c = rq[r].c
               /\ rq'[r].snap = snap
               /\ \A x \in Requests \ {r} : rq'[x] = rq[x]
    BY <1>1, <1>3 DEF Goto, RequestState
  <1> QED
    BY <1>1, <1>2, <1>3 DEF Finish

\* A row stays a row when the columns the code writes are written.
LEMMA FieldWrites ==
    ASSUME NEW cur \in Row
    PROVE  /\ \A st \in Status : [cur EXCEPT !.status = st] \in Row
           /\ [cur EXCEPT !.status = "failed"] \in Row
           /\ [cur EXCEPT !.status = "analyzed", !.verified = TRUE] \in Row
           /\ \A n \in Nat : [cur EXCEPT !.status = "analyzing",
                                         !.started_at = n] \in Row
           /\ [cur EXCEPT !.deleted = TRUE] \in Row
           /\ [cur EXCEPT !.verified = TRUE] \in Row
  BY ZenonT(20) DEF Row

\* What an acknowledgement leaves of the backlog.
LEMMA TailFacts ==
    ASSUME ready \in Seq(Captures), ready # <<>>
    PROVE  /\ Head(ready) \in Captures /\ Head(ready) = ready[1]
           /\ Tail(ready) \in Seq(Captures)
           /\ Len(ready) \in Nat \ {0}
           /\ Len(Tail(ready)) = Len(ready) - 1
           /\ \A i \in 2..Len(ready) :
                 i - 1 \in 1..Len(Tail(ready)) /\ Tail(ready)[i - 1] = ready[i]
  <1>1. Head(ready) \in Captures /\ Head(ready) = ready[1]
    OBVIOUS
  <1>2. /\ Tail(ready) \in Seq(Captures)
        /\ Len(ready) \in Nat \ {0}
        /\ Len(Tail(ready)) = Len(ready) - 1
    OBVIOUS
  <1>3. ASSUME NEW i \in 2..Len(ready)
        PROVE  i - 1 \in 1..Len(Tail(ready)) /\ Tail(ready)[i - 1] = ready[i]
    <2>1. i - 1 \in 1..Len(Tail(ready)) /\ (i - 1) + 1 = i
      BY <1>2
    <2> QED
      BY <1>2, <2>1
  <1> QED
    BY <1>1, <1>2, <1>3


\* Publishing a ready event leaves the earlier ones where they are.
LEMMA AppendFacts ==
    ASSUME NEW c \in Captures, ready \in Seq(Captures)
    PROVE  /\ Append(ready, c) \in Seq(Captures)
           /\ Append(ready, c) # <<>>
           /\ ready # <<>> => Head(Append(ready, c)) = Head(ready)
           /\ Len(Append(ready, c)) = Len(ready) + 1
           /\ Append(ready, c)[Len(ready) + 1] = c
           /\ \A i \in 1..Len(ready) : Append(ready, c)[i] = ready[i]
  <1>1. /\ Append(ready, c) \in Seq(Captures)
        /\ Len(Append(ready, c)) = Len(ready) + 1
    OBVIOUS
  <1>2. Append(ready, c)[Len(ready) + 1] = c
    OBVIOUS
  <1>3. \A i \in 1..Len(ready) : Append(ready, c)[i] = ready[i]
    OBVIOUS
  <1>4. Append(ready, c) # <<>>
    BY <1>1
  <1>5. ready # <<>> => Head(Append(ready, c)) = Head(ready)
    BY <1>1, <1>3, <1>4
  <1> QED
    BY <1>1, <1>2, <1>3, <1>4, <1>5

\* The row that create inserts.
LEMMA NewRows == NewRow("uploaded") \in Row /\ NewRow("pending_upload") \in Row
  BY DEF NewRow, Row

\* The steps of HTTP handlers and commands keep the types.
LEMMA TypeRequest ==
    ASSUME TypeInv, NEW r \in Requests, RequestStep(r) \/ RequestFails(r)
    PROVE  TypeInv'
  <1> USE DEF TypeInv, analyzer, outside
  <1>0. /\ rq[r].snap \in Row /\ rq[r].snap.deleted \in BOOLEAN
        /\ Finish(r) => /\ rq' \in [Requests -> RequestState]
                        /\ rq'[r].pc = "done"
                        /\ \A x \in Requests \ {r} : rq'[x] = rq[x]
        /\ \A pc \in RequestPcs, snap \in Row :
             Goto(r, pc, snap) =>
                 /\ rq' \in [Requests -> RequestState]
                 /\ rq'[r].pc = pc /\ rq'[r].c = rq[r].c
                 /\ \A x \in Requests \ {r} : rq'[x] = rq[x]
    BY RequestMoves DEF Row
  <1>1. CASE CreateHead(r)
    <2>1. rq' \in [Requests -> RequestState] /\ ActiveRequests'
      BY <1>0, <1>1, NewRows DEF CreateHead, ActiveRequests, RequestPcs
    <2> QED
      BY <2>1, <1>1 DEF CreateHead, TypeOK, ActiveWorkers, OwnerHoldsHead
  <1>2. CASE CreateInsert(r)
    <2>1. rq' \in [Requests -> RequestState] /\ ActiveRequests'
      BY <1>0, <1>2 DEF CreateInsert, ActiveRequests, PublishOrRespond, RequestPcs
    <2>2. row' \in [Captures -> Row]
      BY <1>0, <1>2 DEF CreateInsert, ActiveRequests, TypeOK
    <2> QED
      BY <2>1, <2>2, <1>2
      DEF CreateInsert, TypeOK, ActiveWorkers, OwnerHoldsHead, PublishOrRespond
  <1>3. CASE CreateReplay(r)
    <2>1. rq' \in [Requests -> RequestState] /\ ActiveRequests'
      BY <1>0, <1>3, RowWrites
      DEF CreateReplay, ActiveRequests, PublishOrRespond, RequestPcs
    <2>2. row' \in [Captures -> Row]
      BY <1>0, <1>3, RowWrites DEF CreateReplay, ActiveRequests, TypeOK
    <2> QED
      BY ZenonT(20), <2>1, <2>2, <1>3
      DEF CreateReplay, TypeOK, ActiveWorkers, OwnerHoldsHead, PublishOrRespond
  <1>4. CASE CompleteHead(r)
    <2>1. rq' \in [Requests -> RequestState] /\ ActiveRequests'
      BY <1>0, <1>4 DEF CompleteHead, ActiveRequests, RequestPcs
    <2> QED
      BY <2>1, <1>4 DEF CompleteHead, TypeOK, ActiveWorkers, OwnerHoldsHead
  <1>5. CASE CompleteCommit(r)
    <2>1. rq' \in [Requests -> RequestState] /\ ActiveRequests'
      BY ZenonT(20), <1>0, <1>5, RowWrites
      DEF CompleteCommit, ActiveRequests, PublishOrRespond, RequestPcs
    <2>2. row' \in [Captures -> Row]
      <3>1. rq[r].c \in Captures /\ row[rq[r].c] \in Row
        BY <1>5 DEF CompleteCommit, ActiveRequests, TypeOK
      <3>2. Uploaded(row[rq[r].c], rq[r].snap.deleted) \in Row
        BY <1>0, <3>1, RowWrites
      <3> QED
        BY <1>5, <3>1, <3>2 DEF CompleteCommit, TypeOK
    <2> QED
      BY ZenonT(20), <2>1, <2>2, <1>5
      DEF CompleteCommit, TypeOK, ActiveWorkers, OwnerHoldsHead,
          PublishOrRespond
  <1>6. CASE RetryCommit(r)
    <2>1. rq' \in [Requests -> RequestState] /\ ActiveRequests'
      BY <1>0, <1>6 DEF RetryCommit, ActiveRequests, RequestPcs
    <2>2. row' \in [Captures -> Row]
      <3>1. rq[r].c \in Captures /\ row[rq[r].c] \in Row
        BY <1>6 DEF RetryCommit, ActiveRequests, TypeOK
      <3> QED
        BY ZenonT(20), <1>6, <3>1, FieldWrites DEF RetryCommit, TypeOK
    <2> QED
      BY <2>1, <2>2, <1>6 DEF RetryCommit, TypeOK, ActiveWorkers, OwnerHoldsHead
  <1>7. CASE RetryReload(r)
    <2>1. rq' \in [Requests -> RequestState] /\ ActiveRequests'
      BY <1>0, <1>7 DEF RetryReload, ActiveRequests, RequestPcs, TypeOK
    <2> QED
      BY <2>1, <1>7 DEF RetryReload, TypeOK, ActiveWorkers, OwnerHoldsHead
  <1>8. CASE CleanupDelete(r)
    <2>1. rq' \in [Requests -> RequestState] /\ ActiveRequests'
      BY <1>0, <1>8 DEF CleanupDelete, ActiveRequests, RequestPcs
    <2> QED
      BY <2>1, <1>8
      DEF CleanupDelete, TypeOK, ActiveWorkers, OwnerHoldsHead, Contents
  <1>9. CASE CleanupCommit(r)
    <2>1. rq' \in [Requests -> RequestState] /\ ActiveRequests'
      BY <1>0, <1>9 DEF CleanupCommit, ActiveRequests, RequestPcs
    <2>2. row' \in [Captures -> Row]
      BY ZenonT(20), <1>9, FieldWrites DEF CleanupCommit, TypeOK
    <2> QED
      BY <2>1, <2>2, <1>9 DEF CleanupCommit, TypeOK, ActiveWorkers, OwnerHoldsHead
  <1>10. CASE Publish(r)
    <2>1. rq' \in [Requests -> RequestState] /\ ActiveRequests'
      BY <1>0, <1>10 DEF Publish, ActiveRequests, RequestPcs
    <2>2. rq[r].c \in Captures
      BY <1>10 DEF Publish, ActiveRequests
    <2>3. ready' \in Seq(Captures) /\ OwnerHoldsHead'
      BY <1>10, <2>2, AppendFacts DEF Publish, TypeOK, ActiveWorkers, OwnerHoldsHead
    <2> QED
      BY <2>1, <2>3, <1>10 DEF Publish, TypeOK, ActiveWorkers
  <1>11. CASE RequestFails(r)
    <2>1. rq' \in [Requests -> RequestState] /\ ActiveRequests'
      BY <1>0, <1>11 DEF RequestFails, ActiveRequests, RequestPcs
    <2> QED
      BY <2>1, <1>11 DEF RequestFails, TypeOK, ActiveWorkers, OwnerHoldsHead
  <1> QED
    BY <1>1, <1>2, <1>3, <1>4, <1>5, <1>6, <1>7, <1>8, <1>9, <1>10, <1>11
       DEF RequestStep

\* The first step of a request keeps the types.
LEMMA TypeBegin ==
    ASSUME TypeInv, NEW r \in Requests, NEW c \in Captures, RequestBegin(r, c)
    PROVE  TypeInv'
  <1> USE DEF TypeInv, analyzer, outside
  <1>1. ASSUME NEW op, NEW pc \in RequestPcs, Begin(r, op, c, pc)
        PROVE  rq' \in [Requests -> RequestState] /\ ActiveRequests'
    BY <1>1 DEF Begin, TypeOK, RequestState, ActiveRequests
  <1>2. CASE CreateLock(r, c)
    BY <1>1, <1>2 DEF CreateLock, RequestPcs, TypeOK, ActiveWorkers, OwnerHoldsHead
  <1>3. CASE CompleteLoad(r, c)
    BY <1>1, <1>3 DEF CompleteLoad, RequestPcs, TypeOK, ActiveWorkers, OwnerHoldsHead
  <1>4. CASE RetryLoad(r, c)
    BY <1>1, <1>4 DEF RetryLoad, RequestPcs, TypeOK, ActiveWorkers, OwnerHoldsHead
  <1>5. CASE CleanupLock(r, c)
    <2>1. NoRow \in Row /\ References \in SUBSET Captures
      BY DEF NoRow, Row, References
    <2>2. rq' \in [Requests -> RequestState] /\ ActiveRequests'
      BY <1>5, <2>1 DEF CleanupLock, RequestPcs, TypeOK, RequestState, ActiveRequests
    <2> QED
      BY <1>5, <2>2 DEF CleanupLock, TypeOK, ActiveWorkers, OwnerHoldsHead
  <1> QED
    BY <1>2, <1>3, <1>4, <1>5 DEF RequestBegin

\* The steps of reconcile keep the types.
LEMMA TypeReconcile ==
    ASSUME TypeInv, ReconcileStep \/ ReconcileFails
    PROVE  TypeInv'
  <1> USE DEF TypeInv, analyzer, outside
  <1>1. CASE ReconcileLoad
    <2>1. rec' \in ReconcileState
      BY <1>1 DEF ReconcileLoad, TypeOK, ReconcileState, IdleRec, Redispatch
    <2> QED
      BY ZenonT(20), <2>1, <1>1
      DEF ReconcileLoad, TypeOK, ActiveRequests, ActiveWorkers, OwnerHoldsHead
  <1>2. CASE ReconcileCommit
    <2>1. rec' \in ReconcileState
      BY ZenonT(20), <1>2 DEF ReconcileCommit, TypeOK, ReconcileState, IdleRec, Redispatch
    <2>2. row' \in [Captures -> Row]
      <3>1. ASSUME NEW c \in Captures
            PROVE  Uploaded(row[c], c \in rec.undeleted) \in Row
        BY ZenonT(20) DEF Uploaded, Row, TypeOK
      <3> QED
        BY ZenonT(20), <1>2, <3>1, FieldWrites DEF ReconcileCommit, TypeOK
    <2> QED
      BY <2>1, <2>2, <1>2
      DEF ReconcileCommit, TypeOK, ActiveRequests, ActiveWorkers, OwnerHoldsHead
  <1>3. CASE ReconcileEnd
    <2>1. rec' \in ReconcileState
      BY <1>3 DEF ReconcileEnd, TypeOK, ReconcileState, IdleRec, Redispatch
    <2> QED
      BY <2>1, <1>3
      DEF ReconcileEnd, TypeOK, ActiveRequests, ActiveWorkers, OwnerHoldsHead
  <1>4. CASE ReconcileFails
    <2>1. rec' \in ReconcileState
      BY ZenonT(20), <1>4 DEF ReconcileFails, TypeOK, ReconcileState, IdleRec, Redispatch
    <2> QED
      BY <2>1, <1>4
      DEF ReconcileFails, TypeOK, ActiveRequests, ActiveWorkers, OwnerHoldsHead
  <1>5. ASSUME NEW c \in Captures, ReconcileHead(c) PROVE TypeInv'
    <2>1. rec' \in ReconcileState
      BY ZenonT(20), <1>5 DEF ReconcileHead, TypeOK, ReconcileState
    <2> QED
      BY <1>5, <2>1
      DEF ReconcileHead, TypeOK, ActiveRequests, ActiveWorkers, OwnerHoldsHead
  <1>6. ASSUME NEW c \in Captures, ReconcilePublish(c) PROVE TypeInv'
    <2>1. rec' \in ReconcileState
      BY <1>6 DEF ReconcilePublish, TypeOK, ReconcileState
    <2>2. ready' \in Seq(Captures) /\ OwnerHoldsHead'
      BY ZenonT(20), <1>6, AppendFacts DEF ReconcilePublish, TypeOK, OwnerHoldsHead
    <2> QED
      BY <1>6, <2>1, <2>2 DEF ReconcilePublish, TypeOK, ActiveRequests, ActiveWorkers
  <1> QED
    BY <1>1, <1>2, <1>3, <1>4, <1>5, <1>6 DEF ReconcileStep

\* What Step and Die do to the workers.
LEMMA WorkerMoves ==
    ASSUME TypeInv, NEW w \in Workers
    PROVE  /\ Die(w) => /\ wk' \in [Workers -> WorkerState]
                        /\ wk'[w].pc = "idle" /\ wk'[w].c = None
                        /\ wk'[w].att = 0
                        /\ \A x \in Workers \ {w} : wk'[x] = wk[x]
           /\ \A pc \in WorkerPcs :
                Step(w, pc) => /\ wk' \in [Workers -> WorkerState]
                               /\ wk'[w].pc = pc /\ wk'[w].c = wk[w].c
                               /\ wk'[w].att = wk[w].att
                               /\ \A x \in Workers \ {w} : wk'[x] = wk[x]
  <1> USE DEF TypeInv, TypeOK
  <1>1. IdleWorker \in WorkerState /\ IdleWorker = [pc |-> "idle", c |-> None, att |-> 0]
    BY DEF IdleWorker, WorkerState, WorkerPcs
  <1>2. wk[w].c \in Captures \cup {None} /\ wk[w].att \in Nat
    BY DEF WorkerState
  <1>3. ASSUME NEW pc \in WorkerPcs, Step(w, pc)
        PROVE  /\ wk' \in [Workers -> WorkerState]
               /\ wk'[w].pc = pc /\ wk'[w].c = wk[w].c
               /\ wk'[w].att = wk[w].att
               /\ \A x \in Workers \ {w} : wk'[x] = wk[x]
    BY <1>2, <1>3 DEF Step, WorkerState
  <1>4. ASSUME Die(w)
        PROVE  /\ wk' \in [Workers -> WorkerState]
               /\ wk'[w] = IdleWorker
               /\ \A x \in Workers \ {w} : wk'[x] = wk[x]
    BY <1>1, <1>4 DEF Die
  <1> QED
    BY <1>1, <1>3, <1>4

\* The steps of an analyzer worker keep the types.
LEMMA TypeWorker ==
    ASSUME TypeInv, NEW w \in Workers,
           \/ WorkerStep(w) \/ ReleaseAttempt(w) \/ WorkerCrash(w) \/ Rebalance(w)
    PROVE  TypeInv'
  <1> USE DEF TypeInv, callers, attempts, outside
  <1>0. /\ Die(w) => /\ wk' \in [Workers -> WorkerState]
                     /\ wk'[w].pc = "idle"
                     /\ \A x \in Workers \ {w} : wk'[x] = wk[x]
        /\ \A pc \in WorkerPcs :
             Step(w, pc) => /\ wk' \in [Workers -> WorkerState]
                            /\ wk'[w].pc = pc /\ wk'[w].c = wk[w].c
                            /\ \A x \in Workers \ {w} : wk'[x] = wk[x]
    BY WorkerMoves
  <1>1. CASE LoadSettled(w)
    <2>1. /\ wk' \in [Workers -> WorkerState]
          /\ ActiveWorkers' /\ OwnerHoldsHead'
      BY <1>1 DEF LoadSettled, TypeOK, WorkerState, WorkerPcs, ActiveWorkers,
                  OwnerHoldsHead
    <2> QED
      BY <1>1, <2>1 DEF LoadSettled, TypeOK, ActiveRequests
  <1>2. CASE ClaimAttempt(w)
    <2>1. /\ wk' \in [Workers -> WorkerState]
          /\ ActiveWorkers' /\ OwnerHoldsHead'
      BY <1>2 DEF ClaimAttempt, TypeOK, WorkerState, WorkerPcs, ActiveWorkers,
                  OwnerHoldsHead
    <2>2. row' \in [Captures -> Row]
      <3>1. Head(ready) \in Captures /\ row[Head(ready)] \in Row /\ claims + 1 \in Nat
        BY <1>2 DEF ClaimAttempt, TypeOK
      <3>2. [row[Head(ready)] EXCEPT !.status = "analyzing",
                                     !.started_at = claims + 1] \in Row
        BY ZenonT(20), <3>1, FieldWrites
      <3> QED
        BY <1>2, <3>1, <3>2 DEF ClaimAttempt, TypeOK
    <2> QED
      BY <1>2, <2>1, <2>2 DEF ClaimAttempt, TypeOK, ActiveRequests
  <1>3. CASE Analyze(w)
    <2>1. wk' \in [Workers -> WorkerState] /\ ActiveWorkers' /\ OwnerHoldsHead'
      BY <1>0, <1>3 DEF Analyze, TypeOK, ActiveWorkers, OwnerHoldsHead, WorkerPcs
    <2> QED
      BY <1>3, <2>1 DEF Analyze, TypeOK, ActiveRequests
  <1>4. CASE MarkVerified(w)
    <2>1. wk[w].c \in Captures /\ row[wk[w].c] \in Row
      BY <1>4 DEF MarkVerified, ActiveWorkers, TypeOK
    <2>2. row' \in [Captures -> Row]
      BY ZenonT(20), <1>4, <2>1, FieldWrites DEF MarkVerified, TypeOK
    <2>3. wk' \in [Workers -> WorkerState] /\ ActiveWorkers' /\ OwnerHoldsHead'
      BY <1>0, <1>4
      DEF MarkVerified, TypeOK, ActiveWorkers, OwnerHoldsHead, WorkerPcs
    <2> QED
      BY <1>4, <2>2, <2>3 DEF MarkVerified, TypeOK, ActiveRequests
  <1>5. CASE PublishAnalysis(w)
    <2>1. wk' \in [Workers -> WorkerState] /\ ActiveWorkers' /\ OwnerHoldsHead'
      BY <1>0, <1>5 DEF PublishAnalysis, TypeOK, ActiveWorkers, OwnerHoldsHead,
                        WorkerPcs
    <2> QED
      BY <1>5, <2>1 DEF PublishAnalysis, TypeOK, ActiveRequests, ActiveWorkers
  <1>6. CASE MarkAnalyzed(w)
    <2>1. wk[w].c \in Captures /\ row[wk[w].c] \in Row
      BY <1>6 DEF MarkAnalyzed, ActiveWorkers, TypeOK
    <2>2. row' \in [Captures -> Row]
      BY ZenonT(20), <1>6, <2>1, FieldWrites DEF MarkAnalyzed, TypeOK
    <2>3. wk' \in [Workers -> WorkerState] /\ ActiveWorkers' /\ OwnerHoldsHead'
      BY <1>0, <1>6
      DEF MarkAnalyzed, TypeOK, ActiveWorkers, OwnerHoldsHead, WorkerPcs
    <2> QED
      BY <1>6, <2>2, <2>3 DEF MarkAnalyzed, TypeOK, ActiveRequests
  <1>7. CASE MarkFailed(w)
    <2>1. wk[w].c \in Captures /\ row[wk[w].c] \in Row
      BY <1>7 DEF MarkFailed, ActiveWorkers, TypeOK
    <2>2. row' \in [Captures -> Row]
      BY ZenonT(20), <1>7, <2>1, FieldWrites DEF MarkFailed, TypeOK
    <2>3. wk' \in [Workers -> WorkerState] /\ ActiveWorkers' /\ OwnerHoldsHead'
      BY <1>0, <1>7 DEF MarkFailed, TypeOK, ActiveWorkers, OwnerHoldsHead, WorkerPcs
    <2> QED
      BY <1>7, <2>2, <2>3 DEF MarkFailed, TypeOK, ActiveRequests
  <1>8. CASE Acknowledge(w)
    <2>1. ready' \in Seq(Captures)
      BY <1>8 DEF Acknowledge, TypeOK, OwnerHoldsHead
    <2>2. wk' \in [Workers -> WorkerState] /\ ActiveWorkers' /\ OwnerHoldsHead'
      BY <1>0, <1>8 DEF Acknowledge, TypeOK, ActiveWorkers, OwnerHoldsHead
    <2> QED
      BY <1>8, <2>1, <2>2 DEF Acknowledge, TypeOK, ActiveRequests
  <1>9. CASE ReleaseAttempt(w)
    <2>1. wk[w].c \in Captures /\ row[wk[w].c] \in Row
      BY <1>9 DEF ReleaseAttempt, ActiveWorkers, TypeOK
    <2>2. row' \in [Captures -> Row]
      BY ZenonT(20), <1>9, <2>1, FieldWrites DEF ReleaseAttempt, TypeOK
    <2>3. wk' \in [Workers -> WorkerState] /\ ActiveWorkers' /\ OwnerHoldsHead'
      BY <1>0, <1>9
      DEF ReleaseAttempt, TypeOK, ActiveWorkers, OwnerHoldsHead, WorkerPcs
    <2> QED
      BY <1>9, <2>2, <2>3 DEF ReleaseAttempt, TypeOK, ActiveRequests
  <1>10. CASE WorkerCrash(w)
    <2>1. wk' \in [Workers -> WorkerState] /\ ActiveWorkers' /\ OwnerHoldsHead'
      BY <1>0, <1>10 DEF WorkerCrash, TypeOK, ActiveWorkers, OwnerHoldsHead
    <2> QED
      BY <1>10, <2>1 DEF WorkerCrash, TypeOK, ActiveRequests
  <1>11. CASE Rebalance(w)
    BY <1>11 DEF Rebalance, TypeOK, ActiveRequests, ActiveWorkers, OwnerHoldsHead
  <1> QED
    BY <1>1, <1>2, <1>3, <1>4, <1>5, <1>6, <1>7, <1>8, <1>9, <1>10, <1>11
       DEF WorkerStep

\* Every step keeps the types.
LEMMA TypeNext == TypeInv /\ [Next]_vars => TypeInv'
  <1> SUFFICES ASSUME TypeInv, [Next]_vars PROVE TypeInv'
    OBVIOUS
  <1>1. CASE Age
    BY <1>1
    DEF Age, TypeInv, TypeOK, ActiveRequests, ActiveWorkers, OwnerHoldsHead,
        callers, outside
  <1>2. ASSUME NEW bytes \in Contents \ {"absent"}, Put(bytes) PROVE TypeInv'
    BY <1>2
    DEF Put, TypeInv, TypeOK, ActiveRequests, ActiveWorkers, OwnerHoldsHead,
        callers,
                analyzer
  <1>3. CASE UNCHANGED vars
    BY ZenonT(20), <1>3 DEF vars, TypeInv, TypeOK, ActiveRequests, ActiveWorkers, OwnerHoldsHead
  <1> QED
    BY <1>1, <1>2, <1>3, TypeRequest, TypeBegin, TypeReconcile, TypeWorker DEF Next

\* Every variable keeps its shape, for any instance of the system.
THEOREM TypeCorrect == Spec => []TypeOK
  <1>1. TypeInv => TypeOK
    BY DEF TypeInv
  <1> QED
    BY <1>1, TypeInit, TypeNext, PTL DEF Spec

-----------------------------------------------------------------------------
(* No dispatchable capture is forgotten *)

\* A capture is analyzing only while its message is at the head of the
\* partition and the partition's owner is not about to acknowledge it.
AnalyzingAtHead ==
    \A c \in Captures :
        row[c].status = "analyzing" =>
            ready # <<>> /\ Head(ready) = c /\ wk[owner].pc # "ack"

\* A message for c outlives the acknowledgement the owner is about to send.
Waiting(c) ==
    \E i \in 1..Len(ready) : ready[i] = c /\ (i = 1 => wk[owner].pc # "ack")

UploadedIsCovered ==
    \A c \in Captures : row[c].status = "uploaded" => Owed(c) \/ Waiting(c)

\* create inserts a row that is either uploaded or pending_upload.
InsertsFreshRow ==
    \A r \in Requests :
        rq[r].pc = "insert" => rq[r].snap.status \in {"uploaded", "pending_upload"}

WorkInv == TypeInv /\ AnalyzingAtHead /\ UploadedIsCovered /\ InsertsFreshRow

\* Each row a step makes uploaded is owed an event after it ...
OwesWhatItUploads ==
    \A c \in Captures : \/ row'[c].status = row[c].status
                        \/ row'[c].status \notin Dispatchable
                        \/ row'[c].status = "uploaded" /\ Owed(c)'

\* ... and the step forgets no event that is owed for an uploaded row.
ForgetsNothing ==
    \A c \in Captures : row'[c].status = "uploaded" /\ Owed(c) => Owed(c)'

AnalyzerWaits == ready' = ready /\ owner' = owner /\ wk' = wk

\* A step of a caller (an HTTP handler or a command) that publishes nothing
\* keeps WorkInv if it owes what it uploads and forgets nothing.
LEMMA CallerKeepsWork ==
    ASSUME WorkInv, TypeInv', InsertsFreshRow', AnalyzerWaits,
           OwesWhatItUploads, ForgetsNothing
    PROVE  WorkInv'
  <1> USE DEF AnalyzerWaits, OwesWhatItUploads, ForgetsNothing
  <1>1. AnalyzingAtHead'
    BY DEF WorkInv, AnalyzingAtHead
  <1>2. UploadedIsCovered'
    BY DEF WorkInv, UploadedIsCovered, Waiting
  <1> QED
    BY <1>1, <1>2 DEF WorkInv

\* A request that moves keeps the promises of all: it inserts a fresh row, and
\* once it owes an event it goes on to owe it.
LEMMA MoveKeepsPromises ==
    ASSUME WorkInv, NEW r \in Requests, rec' = rec,
           \A x \in Requests \ {r} : rq'[x] = rq[x],
           rq'[r].pc = "insert" => rq'[r].snap.status \in {"uploaded", "pending_upload"},
           rq[r].pc \in {"publish", "retry_load", "owed"} =>
               rq'[r].c = rq[r].c /\ rq'[r].pc \in {"publish", "retry_load", "owed"}
    PROVE  InsertsFreshRow' /\ ForgetsNothing
  <1>1. InsertsFreshRow'
    BY DEF WorkInv, InsertsFreshRow
  <1>2. ASSUME NEW c \in Captures, Owed(c) PROVE Owed(c)'
    <2>1. CASE rec.pc # "idle" /\ c \in rec.pub
      BY <2>1 DEF Owed
    <2>2. CASE \E x \in Requests : rq[x].c = c /\ rq[x].pc \in {"publish", "retry_load", "owed"}
      <3>1. PICK x \in Requests : rq[x].c = c /\ rq[x].pc \in {"publish", "retry_load", "owed"}
        BY <2>2
      <3>2. rq'[x].c = c /\ rq'[x].pc \in {"publish", "retry_load", "owed"}
        BY <3>1
      <3> QED
        BY <3>2 DEF Owed
    <2> QED
      BY <1>2, <2>1, <2>2 DEF Owed
  <1> QED
    BY <1>1, <1>2 DEF ForgetsNothing

\* After its last commit a request publishes a dispatchable row or ends.
LEMMA Responds ==
    ASSUME TypeInv, NEW r \in Requests, NEW mem \in Row, PublishOrRespond(r, mem)
    PROVE  /\ \A x \in Requests \ {r} : rq'[x] = rq[x]
           /\ rq'[r].pc \in {"publish", "done"}
           /\ mem.status \in Dispatchable => rq'[r].pc = "publish" /\ rq'[r].c = rq[r].c
  <1>1. CASE mem.status \in Dispatchable
    <2>1. Goto(r, "publish", mem) /\ "publish" \in RequestPcs
      BY <1>1 DEF PublishOrRespond, RequestPcs
    <2> QED
      BY <2>1, RequestMoves
  <1>2. CASE mem.status \notin Dispatchable
    <2>1. Finish(r)
      BY <1>2 DEF PublishOrRespond
    <2> QED
      BY <1>2, <2>1, RequestMoves
  <1> QED
    BY <1>1, <1>2

\* The steps of HTTP handlers and commands lose no work.
LEMMA WorkRequest ==
    ASSUME WorkInv, TypeInv', NEW r \in Requests,
           RequestStep(r) \/ RequestFails(r), ~Publish(r)
    PROVE  WorkInv'
  <1> USE DEF analyzer, outside
  <1> DEFINE Others == \A x \in Requests \ {r} : rq'[x] = rq[x]
             Owes == rq'[r].c = rq[r].c /\ rq'[r].pc \in {"publish", "retry_load", "owed"}
  <1>0. TypeInv /\ row \in [Captures -> Row]
    BY DEF WorkInv, TypeInv, TypeOK
  <1>a. rq[r].snap \in Row /\ rq[r].snap.deleted \in BOOLEAN
    BY <1>0, RequestMoves DEF Row
  <1>b. Finish(r) => rq'[r].pc = "done" /\ Others
    BY <1>0, RequestMoves
  <1>c. ASSUME NEW pc \in RequestPcs, NEW snap \in Row, Goto(r, pc, snap)
        PROVE  rq'[r].pc = pc /\ rq'[r].c = rq[r].c /\ rq'[r].snap = snap /\ Others
    BY ZenonT(20), <1>0, <1>c, RequestMoves
  <1>d. ASSUME NEW mem \in Row, PublishOrRespond(r, mem)
        PROVE  /\ Others /\ rq'[r].pc \in {"publish", "done"}
               /\ mem.status \in Dispatchable => rq'[r].pc = "publish" /\ rq'[r].c = rq[r].c
    BY ZenonT(20), <1>0, <1>d, Responds
  <1>e. {"insert", "complete_commit", "owed", "retry_load", "publish", "mark_deleted"}
           \subseteq RequestPcs
    BY DEF RequestPcs
  <1>g. rq[r].pc \notin {"new", "done"} => rq[r].c \in Captures /\ row[rq[r].c] \in Row
    BY <1>0 DEF TypeInv, ActiveRequests
  <1>h. ASSUME NEW c \in Captures, rq'[r].c = c,
               rq'[r].pc \in {"publish", "retry_load", "owed"}
        PROVE  Owed(c)'
    BY <1>h DEF Owed
  <1>1. CASE CreateHead(r)
    <2>0. /\ NewRow("uploaded").status = "uploaded"
          /\ NewRow("pending_upload").status = "pending_upload"
      BY DEF NewRow
    <2>1. \/ Finish(r) \/ Goto(r, "insert", NewRow("uploaded"))
          \/ Goto(r, "insert", NewRow("pending_upload"))
      BY ZenonT(20), <1>1 DEF CreateHead
    <2>2. Others /\ (rq'[r].pc = "insert" =>
                        rq'[r].snap.status \in {"uploaded", "pending_upload"})
      <3>1. CASE Finish(r)
        BY <1>b, <3>1
      <3>2. CASE Goto(r, "insert", NewRow("uploaded"))
        BY ZenonT(20), <1>c, <1>e, <2>0, <3>2, NewRows
      <3>3. CASE Goto(r, "insert", NewRow("pending_upload"))
        BY <1>c, <1>e, <2>0, <3>3, NewRows
      <3> QED
        BY ZenonT(20), <2>1, <3>1, <3>2, <3>3
    <2>3. rec' = rec /\ row' = row /\ rq[r].pc = "head" /\ AnalyzerWaits
      BY ZenonT(20), <1>1 DEF CreateHead, AnalyzerWaits
    <2>4. InsertsFreshRow' /\ ForgetsNothing
      BY <2>2, <2>3, MoveKeepsPromises
    <2>5. OwesWhatItUploads
      BY <2>3 DEF OwesWhatItUploads
    <2> QED
      BY <2>3, <2>4, <2>5, CallerKeepsWork
  <1>2. CASE CreateInsert(r)
    <2>1. rec' = rec /\ rq[r].pc = "insert" /\ AnalyzerWaits /\ PublishOrRespond(r, rq[r].snap)
      BY ZenonT(20), <1>2 DEF CreateInsert, AnalyzerWaits
    <2>2. /\ Others /\ rq'[r].pc \in {"publish", "done"}
          /\ rq[r].snap.status = "uploaded" => Owes
      BY <1>a, <1>d, <2>1
    <2>3. InsertsFreshRow' /\ ForgetsNothing
      BY <2>1, <2>2, MoveKeepsPromises
    <2>4. rq[r].snap.status \in {"uploaded", "pending_upload"}
      BY <2>1 DEF WorkInv, InsertsFreshRow
    <2>5. \A c \in Captures : row'[c] = IF c = rq[r].c THEN rq[r].snap ELSE row[c]
      BY <1>0, <1>2 DEF CreateInsert
    <2>6. \A c \in Captures : c = rq[r].c /\ rq[r].snap.status = "uploaded" => Owed(c)'
      BY ZenonT(20), <1>h, <2>2
    <2>7. OwesWhatItUploads
      BY <2>4, <2>5, <2>6 DEF OwesWhatItUploads
    <2> QED
      BY <2>1, <2>3, <2>7, CallerKeepsWork
  <1>3. CASE CreateReplay(r)
    <2>1. rec' = rec /\ rq[r].pc = "replay" /\ AnalyzerWaits
      BY ZenonT(20), <1>3 DEF CreateReplay, AnalyzerWaits
    <2>2. /\ row[rq[r].c] \in Row /\ Reopened(rq[r].snap, rq[r].snap) \in Row
          /\ Reopened(row[rq[r].c], rq[r].snap).status = "pending_upload"
      BY ZenonT(20), <1>a, <1>g, <2>1, RowWrites
    <2>3. \E mem \in Row : PublishOrRespond(r, mem)
      BY ZenonT(20), <1>3, <1>a, <2>2 DEF CreateReplay
    <2>4. Others /\ rq'[r].pc \in {"publish", "done"}
      BY <1>d, <2>3
    <2>5. InsertsFreshRow' /\ ForgetsNothing
      BY <2>1, <2>4, MoveKeepsPromises
    <2>6. \/ row' = row
          \/ row' = [row EXCEPT ![rq[r].c] = Reopened(row[rq[r].c], rq[r].snap)]
      BY ZenonT(20), <1>3 DEF CreateReplay
    <2>7. \A c \in Captures : row'[c].status \in {row[c].status, "pending_upload"}
      BY <1>0, <2>2, <2>6
    <2>8. OwesWhatItUploads
      BY <2>7 DEF OwesWhatItUploads
    <2> QED
      BY <2>1, <2>5, <2>8, CallerKeepsWork
  <1>4. CASE CompleteHead(r)
    <2>1. rec' = rec /\ row' = row /\ rq[r].pc = "complete_head" /\ AnalyzerWaits
      BY ZenonT(20), <1>4 DEF CompleteHead, AnalyzerWaits
    <2>2. Goto(r, "complete_commit", rq[r].snap) \/ Finish(r)
      BY <1>4 DEF CompleteHead
    <2>3. Others /\ rq'[r].pc \in {"complete_commit", "done"}
      BY <1>a, <1>b, <1>c, <1>e, <2>2
    <2>4. InsertsFreshRow' /\ ForgetsNothing
      BY <2>1, <2>3, MoveKeepsPromises
    <2>5. OwesWhatItUploads
      BY <2>1 DEF OwesWhatItUploads
    <2> QED
      BY <2>1, <2>4, <2>5, CallerKeepsWork
  <1>5. CASE CompleteCommit(r)
    <2>1. rec' = rec /\ rq[r].pc = "complete_commit" /\ AnalyzerWaits
      BY ZenonT(20), <1>5 DEF CompleteCommit, AnalyzerWaits
    <2>2. /\ row[rq[r].c] \in Row /\ Uploaded(rq[r].snap, rq[r].snap.deleted) \in Row
          /\ Uploaded(rq[r].snap, rq[r].snap.deleted).status = "uploaded"
          /\ Uploaded(row[rq[r].c], rq[r].snap.deleted).status = "uploaded"
      BY <1>a, <1>g, <2>1, RowWrites
    <2>3. CASE row' = row /\ PublishOrRespond(r, rq[r].snap)
      <3>1. Others /\ rq'[r].pc \in {"publish", "done"}
        BY ZenonT(20), <1>a, <1>d, <2>3
      <3>2. InsertsFreshRow' /\ ForgetsNothing
        BY <2>1, <3>1, MoveKeepsPromises
      <3>3. OwesWhatItUploads
        BY <2>3 DEF OwesWhatItUploads
      <3> QED
        BY <2>1, <3>2, <3>3, CallerKeepsWork
    <2>4. CASE /\ row' = [row EXCEPT ![rq[r].c] = Uploaded(row[rq[r].c], rq[r].snap.deleted)]
               /\ PublishOrRespond(r, Uploaded(rq[r].snap, rq[r].snap.deleted))
      <3>1. Others /\ rq'[r].pc = "publish" /\ rq'[r].c = rq[r].c
        BY ZenonT(20), <1>d, <2>2, <2>4
      <3>2. InsertsFreshRow' /\ ForgetsNothing
        BY ZenonT(20), <2>1, <3>1, MoveKeepsPromises
      <3>3. \A c \in Captures : \/ row'[c] = row[c]
                                \/ c = rq[r].c /\ row'[c].status = "uploaded"
        BY ZenonT(20), <1>0, <2>2, <2>4
      <3>4. \A c \in Captures : c = rq[r].c => Owed(c)'
        BY ZenonT(20), <1>h, <3>1
      <3>5. OwesWhatItUploads
        BY <3>3, <3>4 DEF OwesWhatItUploads
      <3> QED
        BY <2>1, <3>2, <3>5, CallerKeepsWork
    <2> QED
      BY ZenonT(20), <1>5, <2>3, <2>4 DEF CompleteCommit
  <1>6. CASE RetryCommit(r)
    <2>1. rec' = rec /\ rq[r].pc = "retry_commit" /\ AnalyzerWaits
          /\ Goto(r, "retry_load", rq[r].snap)
      BY <1>6 DEF RetryCommit, AnalyzerWaits
    <2>2. Others /\ rq'[r].pc = "retry_load" /\ rq'[r].c = rq[r].c
      BY <1>a, <1>c, <1>e, <2>1
    <2>3. InsertsFreshRow' /\ ForgetsNothing
      BY <2>1, <2>2, MoveKeepsPromises
    <2>4. \A c \in Captures : c = rq[r].c => Owed(c)'
      BY <1>h, <2>2
    <2>5. row[rq[r].c] \in Row
      BY <1>g, <2>1
    <2>6. \A c \in Captures : IF c = rq[r].c THEN row'[c].status = "uploaded"
                                              ELSE row'[c] = row[c]
      BY <1>0, <1>6, <2>5 DEF RetryCommit, Row
    <2>7. OwesWhatItUploads
      BY ZenonT(20), <2>4, <2>6 DEF OwesWhatItUploads
    <2> QED
      BY <2>1, <2>3, <2>7, CallerKeepsWork
  <1>7. CASE RetryReload(r)
    <2>1. rec' = rec /\ row' = row /\ rq[r].pc = "retry_load" /\ AnalyzerWaits
          /\ Goto(r, "publish", row[rq[r].c])
      BY ZenonT(20), <1>7 DEF RetryReload, AnalyzerWaits
    <2>2. Others /\ rq'[r].pc = "publish" /\ rq'[r].c = rq[r].c
      BY ZenonT(20), <1>c, <1>e, <1>g, <2>1
    <2>3. InsertsFreshRow' /\ ForgetsNothing
      BY ZenonT(20), <2>1, <2>2, MoveKeepsPromises
    <2>4. OwesWhatItUploads
      BY <2>1 DEF OwesWhatItUploads
    <2> QED
      BY <2>1, <2>3, <2>4, CallerKeepsWork
  <1>8. CASE CleanupDelete(r)
    <2>1. rec' = rec /\ row' = row /\ rq[r].pc = "delete" /\ AnalyzerWaits
          /\ Goto(r, "mark_deleted", rq[r].snap)
      BY <1>8 DEF CleanupDelete, AnalyzerWaits
    <2>2. Others /\ rq'[r].pc = "mark_deleted"
      BY ZenonT(20), <1>a, <1>c, <1>e, <2>1
    <2>3. InsertsFreshRow' /\ ForgetsNothing
      BY <2>1, <2>2, MoveKeepsPromises
    <2>4. OwesWhatItUploads
      BY <2>1 DEF OwesWhatItUploads
    <2> QED
      BY <2>1, <2>3, <2>4, CallerKeepsWork
  <1>9. CASE CleanupCommit(r)
    <2>1. rec' = rec /\ rq[r].pc = "mark_deleted" /\ AnalyzerWaits /\ Finish(r)
      BY <1>9 DEF CleanupCommit, AnalyzerWaits
    <2>2. InsertsFreshRow' /\ ForgetsNothing
      BY <1>b, <2>1, MoveKeepsPromises
    <2>3. \A c \in Captures : row'[c].status = row[c].status
      BY <1>0, <1>9 DEF CleanupCommit, Row
    <2>4. OwesWhatItUploads
      BY <2>3 DEF OwesWhatItUploads
    <2> QED
      BY <2>1, <2>2, <2>4, CallerKeepsWork
  <1>10. CASE RequestFails(r)
    <2>1. rec' = rec /\ row' = row /\ AnalyzerWaits /\ rq[r].pc \notin {"new", "done", "owed"}
          /\ IF rq[r].pc \in {"publish", "retry_load"}
             THEN Goto(r, "owed", rq[r].snap) ELSE Finish(r)
      BY ZenonT(20), <1>10 DEF RequestFails, AnalyzerWaits
    <2>2. /\ Others /\ rq'[r].pc \in {"owed", "done"}
          /\ rq[r].pc \in {"publish", "retry_load"} => rq'[r].pc = "owed" /\ rq'[r].c = rq[r].c
      BY ZenonT(20), <1>a, <1>b, <1>c, <1>e, <2>1
    <2>3. InsertsFreshRow' /\ ForgetsNothing
      BY ZenonT(20), <2>1, <2>2, MoveKeepsPromises
    <2>4. OwesWhatItUploads
      BY ZenonT(20), <2>1 DEF OwesWhatItUploads
    <2> QED
      BY <2>1, <2>3, <2>4, CallerKeepsWork
  <1> QED
    BY <1>1, <1>2, <1>3, <1>4, <1>5, <1>6, <1>7, <1>8, <1>9, <1>10 DEF RequestStep

\* RequestBegin neither uploads a row nor is it a publisher of one yet.
LEMMA WorkBegin ==
    ASSUME WorkInv, TypeInv', NEW r \in Requests, NEW c \in Captures,
           RequestBegin(r, c)
    PROVE  WorkInv'
  <1> USE DEF analyzer, outside
  <1>5. rq \in [Requests -> RequestState]
    BY DEF WorkInv, TypeInv, TypeOK
  <1>6. ASSUME NEW op, NEW pc, pc \notin {"new", "insert"}, Begin(r, op, c, pc)
        PROVE  /\ rq[r].pc = "new" /\ rq'[r].pc \notin {"new", "insert"}
               /\ \A x \in Requests \ {r} : rq'[x] = rq[x]
    BY <1>5, <1>6 DEF Begin
  <1>7. /\ rq[r].pc = "new" /\ rq'[r].pc \notin {"new", "insert"}
        /\ \A x \in Requests \ {r} : rq'[x] = rq[x]
    <2>1. CASE CreateLock(r, c)
      <3>1. Begin(r, "create", c, "head") \/ Begin(r, "create", c, "replay")
        BY ZenonT(20), <2>1 DEF CreateLock
      <3> QED
        BY ZenonT(20), <1>6, <3>1
    <2>2. CASE CompleteLoad(r, c)
      BY ZenonT(20), <1>6, <2>2 DEF CompleteLoad
    <2>3. CASE RetryLoad(r, c)
      BY ZenonT(20), <1>6, <2>3 DEF RetryLoad
    <2>4. CASE CleanupLock(r, c)
      BY ZenonT(20), <1>5, <2>4 DEF CleanupLock
    <2> QED
      BY ZenonT(20), <2>1, <2>2, <2>3, <2>4 DEF RequestBegin
  <1>8. row' = row /\ rec' = rec /\ AnalyzerWaits
    BY ZenonT(20) DEF RequestBegin, CreateLock, CompleteLoad, RetryLoad, CleanupLock,
           AnalyzerWaits
  <1>1. /\ rq[r].pc = "new" /\ rq'[r].pc \notin {"new", "insert"}
        /\ \A x \in Requests \ {r} : rq'[x] = rq[x]
        /\ row' = row /\ rec' = rec /\ AnalyzerWaits
    BY <1>7, <1>8
  <1>2. InsertsFreshRow'
    BY ZenonT(20), <1>1 DEF WorkInv, InsertsFreshRow
  <1>3. ForgetsNothing
    BY <1>1 DEF Owed, ForgetsNothing
  <1>4. OwesWhatItUploads
    BY <1>1 DEF OwesWhatItUploads
  <1> QED
    BY ZenonT(20), <1>1, <1>2, <1>3, <1>4, CallerKeepsWork

\* A published event covers its capture: appended behind the message at the
\* head, or to an empty partition, whose owner has nothing to acknowledge.
LEMMA PublishKeepsWork ==
    ASSUME WorkInv, TypeInv', InsertsFreshRow',
           row' = row, owner' = owner, wk' = wk,
           NEW c \in Captures, ready' = Append(ready, c),
           \A x \in Captures \ {c} : Owed(x) => Owed(x)'
    PROVE  WorkInv'
  <1>1. ready \in Seq(Captures) /\ (ready = <<>> => wk[owner].pc = "idle")
    BY ZenonT(20) DEF WorkInv, TypeInv, TypeOK, OwnerHoldsHead
  <1>2. /\ ready' # <<>> /\ (ready # <<>> => Head(ready') = Head(ready))
        /\ Len(ready') = Len(ready) + 1 /\ ready'[Len(ready) + 1] = c
        /\ \A i \in 1..Len(ready) : ready'[i] = ready[i]
    BY <1>1, AppendFacts
  <1>3. AnalyzingAtHead'
    BY <1>2 DEF WorkInv, AnalyzingAtHead
  <1>4. Waiting(c)'
    <2>1. Len(ready) + 1 \in 1..Len(ready')
      BY <1>1, <1>2
    <2>2. Len(ready) + 1 = 1 => wk[owner].pc # "ack"
      BY <1>1
    <2> QED
      BY <1>2, <2>1, <2>2 DEF Waiting
  <1>5. ASSUME NEW x \in Captures, Waiting(x) PROVE Waiting(x)'
    BY <1>1, <1>2, <1>5 DEF Waiting
  <1>6. UploadedIsCovered'
    BY <1>4, <1>5 DEF WorkInv, UploadedIsCovered
  <1> QED
    BY <1>3, <1>6 DEF WorkInv

\* Publish covers the capture of the request, or records that it failed to.
LEMMA WorkPublish ==
    ASSUME WorkInv, TypeInv', NEW r \in Requests, Publish(r)
    PROVE  WorkInv'
  <1> USE DEF analyzer, outside
  <1> DEFINE Others == \A x \in Requests \ {r} : rq'[x] = rq[x]
  <1>0. TypeInv /\ rq[r].pc = "publish" /\ row' = row /\ rec' = rec
        /\ owner' = owner /\ wk' = wk
    BY ZenonT(20) DEF WorkInv, Publish
  <1>a. rq[r].snap \in Row /\ rq[r].c \in Captures
    BY ZenonT(20), <1>0, RequestMoves DEF TypeInv, ActiveRequests
  <1>b. Finish(r) => rq'[r].pc = "done" /\ Others
    BY ZenonT(20), <1>0, RequestMoves
  <1>c. Goto(r, "owed", rq[r].snap) =>
            rq'[r].pc = "owed" /\ rq'[r].c = rq[r].c /\ Others
    <2>1. "owed" \in RequestPcs
      BY DEF RequestPcs
    <2> QED
      BY ZenonT(20), <1>0, <1>a, <2>1, RequestMoves
  <1>1. CASE rq[r].snap.uploaded_at
    <2>1. ready' = Append(ready, rq[r].c) /\ Finish(r)
      BY ZenonT(20), <1>1 DEF Publish
    <2>2. rq'[r].pc = "done" /\ Others
      BY <1>b, <2>1
    <2>3. InsertsFreshRow'
      BY <2>2 DEF WorkInv, InsertsFreshRow
    <2>4. ASSUME NEW x \in Captures \ {rq[r].c}, Owed(x) PROVE Owed(x)'
      BY <1>0, <2>2, <2>4 DEF Owed
    <2> QED
      BY ZenonT(20), <1>0, <1>a, <2>1, <2>3, <2>4, PublishKeepsWork
  <1>2. CASE ~rq[r].snap.uploaded_at
    <2>1. Goto(r, "owed", rq[r].snap) /\ AnalyzerWaits
      BY ZenonT(20), <1>2 DEF Publish, AnalyzerWaits
    <2>2. rq'[r].pc = "owed" /\ rq'[r].c = rq[r].c /\ Others
      BY ZenonT(20), <1>c, <2>1
    <2>3. InsertsFreshRow' /\ ForgetsNothing
      BY <1>0, <2>2, MoveKeepsPromises
    <2>4. OwesWhatItUploads
      BY <1>0 DEF OwesWhatItUploads
    <2> QED
      BY <1>0, <2>1, <2>3, <2>4, CallerKeepsWork
  <1> QED
    BY <1>1, <1>2

\* reconcile collects every uploaded row before it forgets an earlier run's
\* debts, and owes an event for each row it uploads.
LEMMA WorkReconcile ==
    ASSUME WorkInv, TypeInv', ReconcileStep \/ ReconcileFails
    PROVE  WorkInv'
  <1> USE DEF analyzer, outside
  <1>0. /\ TypeInv /\ TypeOK
        /\ rec.pub \in SUBSET Captures /\ rec.upload \in SUBSET Captures
    BY ZenonT(20) DEF WorkInv, TypeInv, TypeOK, ReconcileState
  <1>1. InsertsFreshRow'
    BY DEF WorkInv, InsertsFreshRow, ReconcileStep, ReconcileFails, ReconcileLoad,
           ReconcileCommit, ReconcileEnd, ReconcileHead, ReconcilePublish
  <1>2. CASE ReconcileLoad
    <2>1. ForgetsNothing
      <3>0. PICK due : rec' = [pc |-> "head", due |-> due,
                               undeleted |-> {c \in due : row[c].deleted},
                               expire |-> {}, upload |-> {}, pub |-> Redispatch]
        BY ZenonT(20), <1>2 DEF ReconcileLoad
      <3>a. rq' = rq /\ row' = row
        BY ZenonT(20), <1>2 DEF ReconcileLoad
      <3>1. rec'.pc = "head" /\ rec'.pub = Redispatch /\ rq' = rq /\ row' = row
        BY ZenonT(20), <3>0, <3>a
      <3>2. \A c \in Captures : row[c].status = "uploaded" => c \in rec'.pub
        BY ZenonT(20), <3>1 DEF Redispatch
      <3> QED
        BY ZenonT(20), <3>1, <3>2 DEF ForgetsNothing, Owed
    <2>2. AnalyzerWaits
      BY ZenonT(20), <1>2 DEF ReconcileLoad, AnalyzerWaits
    <2>3. OwesWhatItUploads
      BY ZenonT(20), <1>2 DEF ReconcileLoad, OwesWhatItUploads
    <2> QED
      BY <1>1, <2>1, <2>2, <2>3, CallerKeepsWork
  <1>3. CASE ReconcileCommit
    <2>0. rec'.pc = "publish" /\ rec'.pub = rec.pub \cup rec.upload /\ rq' = rq
      BY <1>3 DEF ReconcileCommit, IdleRec
    <2>1. ForgetsNothing
      BY <1>3, <2>0 DEF ForgetsNothing, Owed
    <2>2. AnalyzerWaits
      BY <1>3 DEF ReconcileCommit, AnalyzerWaits
    <2>3. OwesWhatItUploads
      <3>1. ASSUME NEW c \in Captures
            PROVE  Uploaded(row[c], c \in rec.undeleted).status = "uploaded"
        BY <1>0 DEF Uploaded, Row, TypeOK
      <3>2. ASSUME NEW c \in Captures
            PROVE  [row[c] EXCEPT !.status = "expired"].status = "expired"
        BY <1>0 DEF Row, TypeOK
      <3>3. \A c \in Captures : \/ row'[c].status = row[c].status
                                \/ row'[c].status = "expired"
                                \/ row'[c].status = "uploaded" /\ c \in rec.upload
        BY <1>3, <3>1, <3>2 DEF ReconcileCommit
      <3> QED
        BY <2>0, <3>3 DEF OwesWhatItUploads, Owed
    <2> QED
      BY <1>1, <2>1, <2>2, <2>3, CallerKeepsWork
  <1>4. CASE ReconcileEnd \/ ReconcileFails
    <2>1. ForgetsNothing
      BY ZenonT(20), <1>4 DEF ReconcileEnd, ReconcileFails, ForgetsNothing, Owed, IdleRec
    <2>2. AnalyzerWaits
      BY <1>4 DEF ReconcileEnd, ReconcileFails, AnalyzerWaits
    <2>3. OwesWhatItUploads
      BY <1>4 DEF ReconcileEnd, ReconcileFails, OwesWhatItUploads
    <2> QED
      BY <1>1, <2>1, <2>2, <2>3, CallerKeepsWork
  <1>5. ASSUME NEW c \in Captures, ReconcileHead(c) PROVE WorkInv'
    <2>0. rec'.pub = rec.pub /\ rec'.pc = rec.pc /\ rq' = rq
      BY <1>0, <1>5 DEF ReconcileHead, TypeOK, ReconcileState
    <2>1. ForgetsNothing
      BY <2>0 DEF ForgetsNothing, Owed
    <2>2. AnalyzerWaits
      BY <1>5 DEF ReconcileHead, AnalyzerWaits
    <2>3. OwesWhatItUploads
      BY <1>5 DEF ReconcileHead, OwesWhatItUploads
    <2> QED
      BY <1>1, <2>1, <2>2, <2>3, CallerKeepsWork
  <1>6. ASSUME NEW c \in Captures, ReconcilePublish(c) PROVE WorkInv'
    <2>1. CASE row[c].uploaded_at
      <3>1. rec'.pub = rec.pub \ {c} /\ rec'.pc = rec.pc /\ rq' = rq
        BY <1>0, <1>6, <2>1 DEF ReconcilePublish, TypeOK, ReconcileState
      <3>2. \A x \in Captures \ {c} : Owed(x) => Owed(x)'
        BY <3>1 DEF Owed
      <3>3. row' = row /\ owner' = owner /\ wk' = wk /\ ready' = Append(ready, c)
        BY <1>6, <2>1 DEF ReconcilePublish
      <3> QED
        BY <1>1, <3>2, <3>3, PublishKeepsWork
    <2>2. CASE ~row[c].uploaded_at
      <3>0. rec'.pub = rec.pub /\ rec'.pc = "owed" /\ rq' = rq
        BY <1>0, <1>6, <2>2 DEF ReconcilePublish, TypeOK, ReconcileState
      <3>1. ForgetsNothing
        BY <3>0 DEF ForgetsNothing, Owed
      <3>2. AnalyzerWaits
        BY <1>6, <2>2 DEF ReconcilePublish, AnalyzerWaits
      <3>3. OwesWhatItUploads
        BY <1>6 DEF ReconcilePublish, OwesWhatItUploads
      <3> QED
        BY <1>1, <3>1, <3>2, <3>3, CallerKeepsWork
    <2> QED
      BY <2>1, <2>2
  <1> QED
    BY <1>2, <1>3, <1>4, <1>5, <1>6 DEF ReconcileStep

CallersWait == rq' = rq /\ rec' = rec

\* While the callers wait, what is owed and what create inserts stays.
LEMMA CallersWaitKeeps ==
    ASSUME CallersWait, InsertsFreshRow
    PROVE  InsertsFreshRow' /\ \A c \in Captures : Owed(c) => Owed(c)'
  BY DEF CallersWait, InsertsFreshRow, Owed

\* A worker step that changes no status, moves no message and does not bring
\* the owner to its acknowledgement keeps WorkInv.
LEMMA QuietWorker ==
    ASSUME WorkInv, TypeInv', CallersWait, ready' = ready,
           wk'[owner'].pc = "ack" => wk[owner].pc = "ack",
           \A c \in Captures : row'[c].status = row[c].status
    PROVE  WorkInv'
  <1>1. InsertsFreshRow' /\ \A c \in Captures : Owed(c) => Owed(c)'
    BY CallersWaitKeeps DEF WorkInv
  <1>2. AnalyzingAtHead'
    BY DEF WorkInv, AnalyzingAtHead
  <1>3. UploadedIsCovered'
    BY <1>1 DEF WorkInv, UploadedIsCovered, Waiting
  <1> QED
    BY <1>1, <1>2, <1>3 DEF WorkInv

\* An attempt that records its outcome: the row it settles is the one at the
\* head of the partition if the worker is still its owner.
LEMMA OutcomeKeepsWork ==
    ASSUME WorkInv, TypeInv', CallersWait, ready' = ready, owner' = owner,
           NEW w \in Workers, wk[w].pc # "idle",
           \A x \in Workers \ {w} : wk'[x] = wk[x],
           row'[wk[w].c].status \in Terminal,
           \A c \in Captures \ {wk[w].c} : row'[c] = row[c]
    PROVE  WorkInv'
  <1>0. owner \in Workers /\ ready \in Seq(Captures)
    BY DEF WorkInv, TypeInv, TypeOK
  <1>1. InsertsFreshRow' /\ \A c \in Captures : Owed(c) => Owed(c)'
    BY ZenonT(20), CallersWaitKeeps DEF WorkInv
  <1>2. owner = w => ready # <<>> /\ Head(ready) = wk[w].c
    BY DEF WorkInv, TypeInv, OwnerHoldsHead
  <1>3. AnalyzingAtHead'
    BY <1>0, <1>2 DEF WorkInv, AnalyzingAtHead
  <1>4. UploadedIsCovered'
    BY SMTT(60), <1>0, <1>1, <1>2 DEF WorkInv, UploadedIsCovered, Waiting
  <1> QED
    BY <1>1, <1>3, <1>4 DEF WorkInv

\* No worker step loses work: only what is settled is acknowledged.
LEMMA WorkWorker ==
    ASSUME WorkInv, TypeInv', NEW w \in Workers,
           \/ WorkerStep(w) \/ ReleaseAttempt(w) \/ WorkerCrash(w) \/ Rebalance(w)
    PROVE  WorkInv'
  <1> USE DEF callers, attempts, outside
  <1>0. /\ TypeInv /\ TypeOK /\ owner \in Workers /\ ready \in Seq(Captures)
        /\ Die(w) => /\ wk'[w].pc = "idle"
                     /\ \A x \in Workers \ {w} : wk'[x] = wk[x]
        /\ \A pc \in WorkerPcs :
             Step(w, pc) => /\ wk'[w].pc = pc
                            /\ \A x \in Workers \ {w} : wk'[x] = wk[x]
    BY ZenonT(20), WorkerMoves DEF WorkInv, TypeInv, TypeOK
  <1>1. CallersWait
    BY
    DEF WorkerStep, ReleaseAttempt, WorkerCrash, Rebalance, LoadSettled,
        ClaimAttempt,
           Analyze, MarkVerified, PublishAnalysis, MarkAnalyzed, MarkFailed,
           Acknowledge, CallersWait
  <1>2. InsertsFreshRow' /\ \A c \in Captures : Owed(c) => Owed(c)'
    BY <1>1, CallersWaitKeeps DEF WorkInv
  <1>3. CASE LoadSettled(w)
    <2>1. /\ row' = row /\ ready' = ready /\ owner' = owner
          /\ ready # <<>> /\ row[Head(ready)].status \in Terminal
      BY ZenonT(20), <1>3 DEF LoadSettled
    <2>2. AnalyzingAtHead'
      BY ZenonT(20), <2>1 DEF WorkInv, AnalyzingAtHead
    <2>3. ready[1] = Head(ready)
      BY <1>0, <2>1
    <2>4. ASSUME NEW c \in Captures, row[c].status = "uploaded", Waiting(c)
          PROVE  Waiting(c)'
      <3>1. PICK i \in 1..Len(ready) : ready[i] = c
        BY <2>4 DEF Waiting
      <3>2. i # 1
        BY <2>1, <2>3, <2>4, <3>1
      <3> QED
        BY ZenonT(20), <2>1, <3>1, <3>2 DEF Waiting
    <2>5. UploadedIsCovered'
      BY ZenonT(20), <1>2, <2>1, <2>4 DEF WorkInv, UploadedIsCovered
    <2> QED
      BY <1>2, <2>2, <2>5 DEF WorkInv
  <1>4. CASE ClaimAttempt(w)
    <2>1. /\ ready' = ready /\ owner' = owner /\ owner = w
          /\ ready # <<>> /\ wk'[w].pc = "download"
      BY <1>0, <1>4 DEF ClaimAttempt, TypeOK
    <2>2. /\ row'[Head(ready)].status = "analyzing"
          /\ \A c \in Captures \ {Head(ready)} : row'[c] = row[c]
      <3>0. ready \in Seq(Captures) /\ row \in [Captures -> Row]
        BY ZenonT(20), <1>0 DEF TypeOK
      <3>1. Head(ready) \in Captures /\ row[Head(ready)] \in Row
        BY ZenonT(20), <2>1, <3>0, TailFacts
      <3>2. [row[Head(ready)] EXCEPT !.status = "analyzing",
                                     !.started_at = claims + 1].status = "analyzing"
        BY <3>1 DEF Row
      <3> QED
        BY <1>0, <1>4, <3>1, <3>2 DEF ClaimAttempt, TypeOK
    <2>3. AnalyzingAtHead'
      BY ZenonT(20), <2>1, <2>2 DEF WorkInv, AnalyzingAtHead
    <2>4. UploadedIsCovered'
      BY ZenonT(20), <1>0, <1>2, <2>1, <2>2 DEF WorkInv, UploadedIsCovered, Waiting
    <2> QED
      BY <1>2, <2>3, <2>4 DEF WorkInv
  <1>5. CASE Analyze(w) \/ PublishAnalysis(w) \/ WorkerCrash(w) \/ Rebalance(w)
    <2>1. row' = row /\ ready' = ready
      BY ZenonT(20), <1>5 DEF Analyze, PublishAnalysis, WorkerCrash, Rebalance
    <2>2. wk'[owner'].pc = "ack" => wk[owner].pc = "ack"
      BY ZenonT(20), <1>0, <1>5 DEF Analyze, PublishAnalysis, WorkerCrash, Rebalance, WorkerPcs
    <2> QED
      BY ZenonT(20), <1>1, <2>1, <2>2, QuietWorker
  <1>6. CASE MarkVerified(w)
    <2>0. wk[w].c \in Captures /\ row[wk[w].c] \in Row
      BY <1>0, <1>6 DEF MarkVerified, TypeInv, ActiveWorkers, TypeOK
    <2>1. ready' = ready /\ \A c \in Captures : row'[c].status = row[c].status
      BY ZenonT(60), <1>0, <1>6, <2>0 DEF MarkVerified, TypeOK, Row
    <2>2. wk'[owner'].pc = "ack" => wk[owner].pc = "ack"
      BY <1>0, <1>6 DEF MarkVerified, WorkerPcs
    <2> QED
      BY ZenonT(20), <1>1, <2>1, <2>2, QuietWorker
  <1>7. CASE (MarkAnalyzed(w) \/ MarkFailed(w)) /\ Owns(w)
    <2>0. wk[w].pc # "idle" /\ wk[w].c \in Captures /\ row[wk[w].c] \in Row
      BY <1>0, <1>7 DEF MarkAnalyzed, MarkFailed, TypeInv, ActiveWorkers, TypeOK
    <2>1. ready' = ready /\ owner' = owner
      BY <1>7 DEF MarkAnalyzed, MarkFailed
    <2>2. \A x \in Workers \ {w} : wk'[x] = wk[x]
      BY <1>0, <1>7 DEF MarkAnalyzed, MarkFailed, WorkerPcs
    <2>3. /\ [row[wk[w].c] EXCEPT !.status = "analyzed", !.verified = TRUE].status = "analyzed"
          /\ [row[wk[w].c] EXCEPT !.status = "failed"].status = "failed"
      BY <2>0 DEF Row
    <2>4. /\ row'[wk[w].c].status \in Terminal
          /\ \A c \in Captures \ {wk[w].c} : row'[c] = row[c]
      BY ZenonT(20), <1>0, <1>7, <2>0, <2>3 DEF MarkAnalyzed, MarkFailed, TypeOK
    <2> QED
      BY ZenonT(20), <1>1, <2>0, <2>1, <2>2, <2>4, OutcomeKeepsWork
  <1>8. CASE (MarkAnalyzed(w) \/ MarkFailed(w)) /\ ~Owns(w)
    <2>1. row' = row /\ ready' = ready
      BY <1>8 DEF MarkAnalyzed, MarkFailed
    <2>2. wk'[owner'].pc = "ack" => wk[owner].pc = "ack"
      BY <1>0, <1>8 DEF MarkAnalyzed, MarkFailed
    <2> QED
      BY <1>1, <2>1, <2>2, QuietWorker
  <1>9. CASE Acknowledge(w) /\ owner # w
    <2>1. row' = row /\ ready' = ready
      BY ZenonT(20), <1>9 DEF Acknowledge
    <2>2. wk'[owner'].pc = "ack" => wk[owner].pc = "ack"
      BY ZenonT(20), <1>0, <1>9 DEF Acknowledge
    <2> QED
      BY <1>1, <2>1, <2>2, QuietWorker
  <1>10. CASE Acknowledge(w) /\ owner = w
    <2>1. /\ row' = row /\ ready' = Tail(ready) /\ owner' = owner
          /\ wk[owner].pc = "ack" /\ wk'[owner].pc = "idle" /\ ready # <<>>
      BY ZenonT(20), <1>0, <1>10 DEF Acknowledge, TypeInv, OwnerHoldsHead
    <2>2. AnalyzingAtHead'
      BY ZenonT(20), <2>1 DEF WorkInv, AnalyzingAtHead
    <2>3. /\ Len(ready) \in Nat
          /\ \A i \in 2..Len(ready) :
                i - 1 \in 1..Len(ready') /\ ready'[i - 1] = ready[i]
      <3>1. ready \in Seq(Captures)
        BY ZenonT(20), <1>0
      <3> QED
        BY <2>1, <3>1, TailFacts
    <2>4. ASSUME NEW c \in Captures, Waiting(c) PROVE Waiting(c)'
      <3>1. PICK i \in 1..Len(ready) : ready[i] = c /\ i # 1
        BY ZenonT(20), <2>1, <2>4 DEF Waiting
      <3>2. i \in 2..Len(ready)
        BY <2>3, <3>1
      <3>3. i - 1 \in 1..Len(ready') /\ ready'[i - 1] = c
        BY ZenonT(20), <2>3, <3>1, <3>2
      <3> QED
        BY ZenonT(20), <2>1, <3>3 DEF Waiting
    <2>5. UploadedIsCovered'
      BY ZenonT(20), <1>2, <2>1, <2>4 DEF WorkInv, UploadedIsCovered
    <2> QED
      BY <1>2, <2>2, <2>5 DEF WorkInv
  <1>11. CASE ReleaseAttempt(w)
    <2>0. wk[w].c \in Captures /\ row[wk[w].c] \in Row
      BY <1>0, <1>11 DEF ReleaseAttempt, TypeInv, ActiveWorkers, TypeOK
    <2>1. /\ ready' = ready /\ owner' = owner
          /\ wk[owner].pc # "ack" => wk'[owner].pc # "ack"
      BY <1>0, <1>11 DEF ReleaseAttempt
    <2>2. \A c \in Captures :
             \/ row'[c] = row[c]
             \/ row[c].status = "analyzing" /\ row'[c].status = "uploaded"
      BY <1>0, <1>11, <2>0 DEF ReleaseAttempt, Owns, TypeOK, Row
    <2>3. AnalyzingAtHead'
      BY ZenonT(20), <2>1, <2>2 DEF WorkInv, AnalyzingAtHead
    <2>4. \A c \in Captures : row[c].status = "analyzing" => Waiting(c)
      <3>1. ready \in Seq(Captures)
        BY ZenonT(20), <1>0
      <3>2. \A c \in Captures : row[c].status = "analyzing" =>
               ready # <<>> /\ Head(ready) = c /\ wk[owner].pc # "ack"
        BY ZenonT(20) DEF WorkInv, AnalyzingAtHead
      <3>3. ready # <<>> => ready[1] = Head(ready) /\ 1 \in 1..Len(ready)
        BY <3>1, TailFacts
      <3> QED
        BY ZenonT(20), <3>2, <3>3 DEF Waiting
    <2>5. UploadedIsCovered'
      BY ZenonT(20), <1>2, <2>1, <2>2, <2>4 DEF WorkInv, UploadedIsCovered, Waiting
    <2> QED
      BY <1>2, <2>3, <2>5 DEF WorkInv
  <1> QED
    BY <1>3, <1>4, <1>5, <1>6, <1>7, <1>8, <1>9, <1>10, <1>11 DEF WorkerStep

\* No row is dispatchable initially.
LEMMA WorkInit == Init => WorkInv
  <1> SUFFICES ASSUME Init PROVE WorkInv
    OBVIOUS
  <1>1. /\ \A c \in Captures : row[c].status = "none"
        /\ \A r \in Requests : rq[r].pc = "new"
    BY ZenonT(20) DEF Init, NoRow, NewRequest
  <1>2. AnalyzingAtHead /\ UploadedIsCovered
    BY <1>1 DEF AnalyzingAtHead, UploadedIsCovered
  <1>3. InsertsFreshRow
    BY <1>1 DEF InsertsFreshRow
  <1> QED
    BY <1>2, <1>3, TypeInit DEF WorkInv

\* Every step keeps the invariant behind NoLostWork.
LEMMA WorkNext == WorkInv /\ [Next]_vars => WorkInv'
  <1> SUFFICES ASSUME WorkInv, [Next]_vars PROVE WorkInv'
    OBVIOUS
  <1>1. TypeInv'
    BY TypeNext DEF WorkInv
  <1>2. ASSUME UNCHANGED <<row, ready, owner, wk>>, CallersWait PROVE WorkInv'
    BY <1>1, <1>2, QuietWorker
  <1>3. CASE Age
    BY <1>2, <1>3 DEF Age, callers, CallersWait
  <1>4. ASSUME NEW bytes \in Contents \ {"absent"}, Put(bytes) PROVE WorkInv'
    BY <1>2, <1>4 DEF Put, callers, analyzer, CallersWait
  <1>5. CASE UNCHANGED vars
    BY <1>2, <1>5 DEF vars, CallersWait
  <1> QED
    BY <1>1, <1>3, <1>4, <1>5, WorkRequest, WorkPublish, WorkBegin, WorkReconcile,
       WorkWorker DEF Next

\* No dispatchable capture is ever forgotten, whatever the number of captures,
\* callers and workers and however often they fail: an acknowledgement in
\* process_next never drops the only event of an uploaded or analyzing row.
THEOREM WorkIsNeverLost == Spec => []NoLostWork
  <1>1. WorkInv => NoLostWork
    BY DEF WorkInv, TypeInv, TypeOK, AnalyzingAtHead, UploadedIsCovered, Waiting,
           NoLostWork
  <1> QED
    BY <1>1, WorkInit, WorkNext, PTL DEF Spec

-----------------------------------------------------------------------------
(* What an attempt records *)

\* An attempt that is about to mark its row has published its event.
MarksWhatItPublished ==
    \A w \in Workers : wk[w].pc = "mark" => wk[w].c \in analyses

\* The attempt on an analyzing row is the newest any worker works on.
RowHasNewestAttempt ==
    /\ \A w \in Workers : wk[w].att <= claims
    /\ \A c \in Captures, w \in Workers :
          row[c].status = "analyzing" /\ wk[w].c = c
             => wk[w].att <= row[c].started_at

AnalysisInv ==
    MarksWhatItPublished /\ AnalyzedWasPublished /\ RowHasNewestAttempt

\* Callers neither start nor conclude an analysis.
LeavesAnalysis ==
    /\ wk' = wk /\ analyses' = analyses /\ claims' = claims
    /\ \A c \in Captures :
          row'[c].status \in {"analyzing", "analyzed"} =>
              /\ row'[c].status = row[c].status
              /\ row'[c].started_at = row[c].started_at

\* The status and the attempt of the rows the callers write.
LEMMA CallerWrites ==
    ASSUME NEW cur \in Row, NEW snap \in Row, NEW b
    PROVE  /\ Reopened(cur, snap).status = "pending_upload"
           /\ Uploaded(cur, b).status = "uploaded"
           /\ [cur EXCEPT !.status = "uploaded"].status = "uploaded"
           /\ [cur EXCEPT !.status = "expired"].status = "expired"
           /\ [cur EXCEPT !.deleted = TRUE].status = cur.status
           /\ [cur EXCEPT !.deleted = TRUE].started_at = cur.started_at
  BY DEF Row, Reopened, Uploaded

\* create inserts fresh rows, and no other request or command makes a row
\* analyzing or analyzed.
LEMMA CallersLeaveAnalysis ==
    ASSUME WorkInv,
           \/ \E r \in Requests : \/ RequestStep(r) \/ RequestFails(r)
                                  \/ \E c \in Captures : RequestBegin(r, c)
           \/ ReconcileStep \/ ReconcileFails
    PROVE  LeavesAnalysis
  <1> USE DEF analyzer, outside, LeavesAnalysis
  <1>0. row \in [Captures -> Row] /\ ActiveRequests /\ InsertsFreshRow
    BY DEF WorkInv, TypeInv, TypeOK
  <1>1. ASSUME NEW r \in Requests, RequestStep(r) PROVE LeavesAnalysis
    <2>0. rq[r].snap \in Row
      BY ZenonT(20), RequestMoves DEF WorkInv
    <2>1. CASE CreateInsert(r)
      BY ZenonT(20), <1>0, <2>0, <2>1 DEF CreateInsert, InsertsFreshRow
    <2>2. CASE CreateReplay(r)
      BY <1>0, <2>0, <2>2, CallerWrites DEF CreateReplay, ActiveRequests
    <2>3. CASE CompleteCommit(r)
      BY <1>0, <2>0, <2>3, CallerWrites DEF CompleteCommit, ActiveRequests
    <2>4. CASE RetryCommit(r)
      BY <1>0, <2>0, <2>4, CallerWrites DEF RetryCommit, ActiveRequests
    <2>5. CASE CleanupCommit(r)
      BY <1>0, <2>0, <2>5, CallerWrites DEF CleanupCommit
    <2>6. CASE \/ CreateHead(r) \/ CompleteHead(r) \/ RetryReload(r)
               \/ CleanupDelete(r) \/ Publish(r)
      BY ZenonT(60), <2>6 DEF CreateHead, CompleteHead, RetryReload, CleanupDelete, Publish
    <2> QED
      BY ZenonT(20), <1>1, <2>1, <2>2, <2>3, <2>4, <2>5, <2>6 DEF RequestStep
  <1>2. ASSUME NEW r \in Requests, RequestFails(r) PROVE LeavesAnalysis
    BY ZenonT(20), <1>2 DEF RequestFails
  <1>3. ASSUME NEW r \in Requests, NEW c \in Captures, RequestBegin(r, c)
        PROVE  LeavesAnalysis
    BY ZenonT(20), <1>3 DEF RequestBegin, CreateLock, CompleteLoad, RetryLoad, CleanupLock
  <1>4. CASE ReconcileCommit
    BY <1>0, <1>4, CallerWrites DEF ReconcileCommit
  <1>5. ASSUME ReconcileStep \/ ReconcileFails, ~ReconcileCommit
        PROVE  LeavesAnalysis
    BY ZenonT(20), <1>5 DEF ReconcileStep, ReconcileFails, ReconcileLoad, ReconcileEnd,
                ReconcileHead, ReconcilePublish
  <1> QED
    BY ZenonT(20), <1>1, <1>2, <1>3, <1>4, <1>5

\* Each claim takes a number above all others, and only the attempt that owns
\* the row concludes it.
LEMMA AnalysisWorker ==
    ASSUME WorkInv, AnalysisInv, NEW w \in Workers,
           \/ WorkerStep(w) \/ ReleaseAttempt(w) \/ WorkerCrash(w) \/ Rebalance(w)
    PROVE  AnalysisInv'
  <1> USE DEF callers, attempts, outside
  <1>0. /\ TypeInv /\ TypeOK /\ claims \in Nat /\ None \notin Captures
        /\ \A c \in Captures : row[c].started_at \in Nat
        /\ \A x \in Workers : wk[x].att \in Nat
        /\ Die(w) => /\ wk'[w].pc = "idle" /\ wk'[w].c = None /\ wk'[w].att = 0
                     /\ \A x \in Workers \ {w} : wk'[x] = wk[x]
        /\ \A pc \in WorkerPcs :
             Step(w, pc) => /\ wk'[w].pc = pc /\ wk'[w].c = wk[w].c
                            /\ wk'[w].att = wk[w].att
                            /\ \A x \in Workers \ {w} : wk'[x] = wk[x]
    BY ZenonT(20), WorkerMoves, ConstantsAssumption
       DEF WorkInv, TypeInv, TypeOK, Row, WorkerState
  <1>6. /\ claims \in Nat /\ None \notin Captures
        /\ \A c \in Captures : row[c].started_at \in Nat
        /\ \A x \in Workers : wk[x].att \in Nat
    BY ZenonT(20), <1>0
  <1>1. CASE LoadSettled(w)
    <2>1. /\ wk'[w].pc = "ack" /\ wk'[w].att = 0
          /\ \A x \in Workers \ {w} : wk'[x] = wk[x]
          /\ row' = row /\ analyses' = analyses /\ claims' = claims
      <3>1. /\ wk \in [Workers -> WorkerState]
            /\ wk' = [wk EXCEPT ![w] = [pc |-> "ack", c |-> Head(ready), att |-> 0]]
        BY ZenonT(20), <1>0, <1>1 DEF LoadSettled, TypeOK
      <3>2. row' = row /\ analyses' = analyses /\ claims' = claims
        BY ZenonT(20), <1>1 DEF LoadSettled
      <3> QED
        BY <3>1, <3>2
    <2>2. MarksWhatItPublished' /\ AnalyzedWasPublished'
      BY ZenonT(20), <2>1 DEF AnalysisInv, MarksWhatItPublished, AnalyzedWasPublished
    <2>3. wk'[w].att <= claims /\ \A c \in Captures : wk'[w].att <= row[c].started_at
      <3>1. \A n \in Nat : 0 <= n
        OBVIOUS
      <3> QED
        BY ZenonT(20), <1>6, <2>1, <3>1
    <2>4. RowHasNewestAttempt'
      BY ZenonT(20), <2>1, <2>3 DEF AnalysisInv, RowHasNewestAttempt
    <2> QED
      BY <2>2, <2>4 DEF AnalysisInv
  <1>2. CASE ClaimAttempt(w)
    <2>1. /\ wk'[w].pc = "download" /\ wk'[w].att = claims + 1
          /\ \A x \in Workers \ {w} : wk'[x] = wk[x]
          /\ analyses' = analyses /\ claims' = claims + 1
          /\ wk'[w].c = Head(ready) /\ Head(ready) \in Captures
      BY <1>0, <1>2 DEF ClaimAttempt, TypeOK
    <2>2. LET new == [row[Head(ready)] EXCEPT !.status = "analyzing",
                                              !.started_at = claims + 1]
          IN  new.status = "analyzing" /\ new.started_at = claims + 1
      BY <1>0, <2>1 DEF TypeOK, Row
    <2>3. /\ row'[Head(ready)].status = "analyzing"
          /\ row'[Head(ready)].started_at = claims + 1
          /\ \A c \in Captures \ {Head(ready)} : row'[c] = row[c]
      BY <1>0, <1>2, <2>1, <2>2 DEF ClaimAttempt, TypeOK
    <2>4. MarksWhatItPublished' /\ AnalyzedWasPublished'
      BY ZenonT(20), <2>1, <2>3 DEF AnalysisInv, MarksWhatItPublished, AnalyzedWasPublished
    <2>5. \A x \in Workers : wk'[x].att <= claims + 1
      BY SMTT(60), <1>6, <2>1 DEF AnalysisInv, RowHasNewestAttempt
    <2>6. ASSUME NEW c \in Captures, NEW x \in Workers,
                 row'[c].status = "analyzing", wk'[x].c = c
          PROVE  wk'[x].att <= row'[c].started_at
      <3>1. CASE c = Head(ready)
        BY ZenonT(20), <2>3, <2>5, <3>1
      <3>2. CASE c # Head(ready)
        <4>1. x # w /\ wk'[x] = wk[x] /\ row'[c] = row[c]
          BY ZenonT(20), <2>1, <2>3, <2>6, <3>2
        <4>2. RowHasNewestAttempt
          BY DEF AnalysisInv
        <4> QED
          BY ZenonT(20), <2>6, <4>1, <4>2 DEF RowHasNewestAttempt
      <3> QED
        BY ZenonT(20), <3>1, <3>2
    <2>7. RowHasNewestAttempt'
      BY ZenonT(20), <2>1, <2>5, <2>6 DEF RowHasNewestAttempt
    <2> QED
      BY <2>4, <2>7 DEF AnalysisInv
  <1>3. CASE Analyze(w) \/ PublishAnalysis(w)
    <2>1. /\ \A x \in Workers : wk'[x].c = wk[x].c /\ wk'[x].att = wk[x].att
          /\ \A x \in Workers : wk'[x].pc = "mark" => wk[x].c \in analyses'
          /\ row' = row /\ claims' = claims /\ analyses \subseteq analyses'
      BY ZenonT(20), <1>0, <1>3 DEF Analyze, PublishAnalysis, WorkerPcs, AnalysisInv,
                        MarksWhatItPublished
    <2> QED
      BY ZenonT(20), <1>6, <2>1 DEF AnalysisInv, MarksWhatItPublished, AnalyzedWasPublished,
                        RowHasNewestAttempt
  <1>4. CASE MarkVerified(w) \/ MarkAnalyzed(w) \/ MarkFailed(w) \/ ReleaseAttempt(w)
    <2>1. wk[w].c \in Captures /\ row[wk[w].c] \in Row
      BY ZenonT(20), <1>0, <1>4 DEF MarkVerified, MarkAnalyzed, MarkFailed, ReleaseAttempt,
                        TypeInv, TypeOK, ActiveWorkers
    <2>2. /\ analyses' = analyses /\ claims' = claims
          /\ \A x \in Workers : \/ wk'[x].c = wk[x].c /\ wk'[x].att = wk[x].att
                                \/ wk'[x].c = None /\ wk'[x].att = 0
          /\ \A x \in Workers : wk'[x].pc = "mark" => wk'[x] = wk[x]
      BY ZenonT(20), <1>0, <1>4 DEF MarkVerified, MarkAnalyzed, MarkFailed, ReleaseAttempt,
                        WorkerPcs
    <2>3. /\ [row[wk[w].c] EXCEPT !.verified = TRUE].status = row[wk[w].c].status
          /\ [row[wk[w].c] EXCEPT !.verified = TRUE].started_at
                = row[wk[w].c].started_at
          /\ [row[wk[w].c] EXCEPT !.status = "analyzed", !.verified = TRUE].status
                = "analyzed"
          /\ [row[wk[w].c] EXCEPT !.status = "failed"].status = "failed"
          /\ [row[wk[w].c] EXCEPT !.status = "uploaded"].status = "uploaded"
      BY <2>1 DEF Row
    <2>4. \A c \in Captures :
             \/ /\ row'[c].status = row[c].status
                /\ row'[c].started_at = row[c].started_at
             \/ row'[c].status = "analyzed" /\ wk[w].pc = "mark" /\ wk[w].c = c
             \/ row'[c].status \in {"failed", "uploaded"}
      BY ZenonT(20), <1>0, <1>4, <2>3, <2>1 DEF MarkVerified, MarkAnalyzed, MarkFailed,
                                    ReleaseAttempt, TypeOK
    <2>5. \A c \in Captures :
             row'[c].status = "analyzing" =>
                 /\ row[c].status = "analyzing"
                 /\ row'[c].started_at = row[c].started_at
      BY ZenonT(20), <2>4
    <2>6. MarksWhatItPublished' /\ AnalyzedWasPublished'
      BY ZenonT(60), <2>2, <2>4 DEF AnalysisInv, MarksWhatItPublished, AnalyzedWasPublished
    <2>7. RowHasNewestAttempt'
      <3>1. ASSUME NEW x \in Workers PROVE wk'[x].att <= claims'
        <4>1. wk[x].att <= claims
          BY ZenonT(20) DEF AnalysisInv, RowHasNewestAttempt
        <4>2. wk'[x].att = wk[x].att \/ wk'[x].att = 0
          BY ZenonT(20), <2>2
        <4> QED
          BY <1>6, <2>2, <4>1, <4>2
      <3>2. ASSUME NEW c \in Captures, NEW x \in Workers,
                   row'[c].status = "analyzing", wk'[x].c = c
            PROVE  wk'[x].att <= row'[c].started_at
        <4>1. row[c].status = "analyzing" /\ row'[c].started_at = row[c].started_at
          BY ZenonT(20), <2>5, <3>2
        <4>2. wk[x].c = c /\ wk'[x].att = wk[x].att
          BY ZenonT(20), <1>6, <2>2, <3>2
        <4>3. wk[x].att <= row[c].started_at
          BY ZenonT(20), <4>1, <4>2 DEF AnalysisInv, RowHasNewestAttempt
        <4> QED
          BY ZenonT(20), <4>1, <4>2, <4>3
      <3> QED
        BY ZenonT(20), <3>1, <3>2 DEF RowHasNewestAttempt
    <2> QED
      BY <2>6, <2>7 DEF AnalysisInv
  <1>5. CASE Acknowledge(w) \/ WorkerCrash(w) \/ Rebalance(w)
    <2>1. /\ row' = row /\ analyses' = analyses /\ claims' = claims
          /\ \A x \in Workers : \/ wk'[x] = wk[x]
                                \/ /\ wk'[x].c = None /\ wk'[x].att = 0
                                   /\ wk'[x].pc = "idle"
      BY ZenonT(20), <1>0, <1>5 DEF Acknowledge, WorkerCrash, Rebalance
    <2>2. MarksWhatItPublished' /\ AnalyzedWasPublished'
      BY ZenonT(20), <2>1 DEF AnalysisInv, MarksWhatItPublished, AnalyzedWasPublished
    <2>3. ASSUME NEW x \in Workers PROVE wk'[x].att <= claims'
      <3>1. wk[x].att <= claims
        BY ZenonT(20) DEF AnalysisInv, RowHasNewestAttempt
      <3>2. wk'[x].att = wk[x].att \/ wk'[x].att = 0
        BY ZenonT(20), <2>1
      <3> QED
        BY <1>6, <2>1, <3>1, <3>2
    <2>4. ASSUME NEW c \in Captures, NEW x \in Workers,
                 row'[c].status = "analyzing", wk'[x].c = c
          PROVE  wk'[x].att <= row'[c].started_at
      BY ZenonT(20), <1>6, <2>1, <2>4 DEF AnalysisInv, RowHasNewestAttempt
    <2> QED
      BY ZenonT(20), <2>2, <2>3, <2>4 DEF AnalysisInv, RowHasNewestAttempt
  <1> QED
    BY <1>1, <1>2, <1>3, <1>4, <1>5 DEF WorkerStep

\* No row is analyzed initially.
LEMMA AnalysisInit == Init => AnalysisInv
  BY DEF Init, AnalysisInv, MarksWhatItPublished, AnalyzedWasPublished,
         RowHasNewestAttempt, NoRow, IdleWorker

\* Every step keeps the invariant behind AnalyzedWasPublished.
LEMMA AnalysisNext == WorkInv /\ AnalysisInv /\ [Next]_vars => AnalysisInv'
  <1> SUFFICES ASSUME WorkInv, AnalysisInv, [Next]_vars PROVE AnalysisInv'
    OBVIOUS
  <1>1. ASSUME LeavesAnalysis PROVE AnalysisInv'
    BY ZenonT(20), <1>1 DEF LeavesAnalysis, AnalysisInv, MarksWhatItPublished,
                AnalyzedWasPublished, RowHasNewestAttempt
  <1>2. CASE Age
    BY <1>1, <1>2 DEF Age, LeavesAnalysis
  <1>3. ASSUME NEW bytes \in Contents \ {"absent"}, Put(bytes) PROVE AnalysisInv'
    BY ZenonT(20), <1>1, <1>3 DEF Put, analyzer, LeavesAnalysis
  <1>4. CASE UNCHANGED vars
    BY ZenonT(20), <1>1, <1>4 DEF vars, LeavesAnalysis
  <1> QED
    BY <1>1, <1>2, <1>3, <1>4, CallersLeaveAnalysis, AnalysisWorker DEF Next

\* A row says analyzed only once its analysis event is in the topic, for any
\* number of competing attempts: mark_analyzed runs after publish_analysis and
\* nothing else writes that status.
THEOREM AnalyzedImpliesPublished == Spec => []AnalyzedWasPublished
  <1>1. AnalysisInv => AnalyzedWasPublished
    BY DEF AnalysisInv
  <1> QED
    BY <1>1, WorkInit, WorkNext, AnalysisInit, AnalysisNext, PTL DEF Spec

\* An attempt that was taken over never records an outcome: mark_analyzed and
\* mark_failed write only while the row holds the attempt's own started_at, and
\* that is the newest attempt on the row.
THEOREM NewestAttemptDecides == Spec => OutcomeOfNewestAttempt
  <1>1. WorkInv /\ AnalysisInv /\ [Next]_vars =>
            [\A w \in Workers :
                wk[w].pc \in {"mark", "fail"} /\ wk'[w].pc = "ack"
                   => \A v \in Workers :
                         wk[v].c = wk[w].c => wk[v].att <= wk[w].att]_vars
    <2> SUFFICES ASSUME WorkInv, AnalysisInv, Next, NEW w \in Workers,
                        wk[w].pc \in {"mark", "fail"}, wk'[w].pc = "ack",
                        NEW v \in Workers, wk[v].c = wk[w].c
                 PROVE  wk[v].att <= wk[w].att
      OBVIOUS
    <2>1. wk' # wk
      OBVIOUS
    <2>2. PICK u \in Workers :
             \/ WorkerStep(u) \/ ReleaseAttempt(u) \/ WorkerCrash(u) \/ Rebalance(u)
      BY ZenonT(20), <2>1, CallersLeaveAnalysis DEF Next, LeavesAnalysis, Age, Put, analyzer
    <2>3. \A x \in Workers \ {u} : wk'[x] = wk[x]
      BY ZenonT(20), <2>2, WorkerMoves DEF WorkInv, TypeInv, TypeOK, WorkerStep, ReleaseAttempt,
         WorkerCrash, Rebalance, LoadSettled, ClaimAttempt, Analyze, MarkVerified,
         PublishAnalysis, MarkAnalyzed, MarkFailed, Acknowledge, WorkerPcs
    <2>4. u = w
      BY <2>3
    <2>5. Owns(w)
      BY ZenonT(20), <2>2, <2>4, WorkerMoves DEF WorkInv, WorkerStep, ReleaseAttempt,
         WorkerCrash, Rebalance, LoadSettled, ClaimAttempt, Analyze, MarkVerified,
         PublishAnalysis, MarkAnalyzed, MarkFailed, Acknowledge, WorkerPcs
    <2>6. wk[w].c \in Captures
      BY DEF WorkInv, TypeInv, ActiveWorkers
    <2> QED
      BY ZenonT(20), <2>5, <2>6 DEF Owns, AnalysisInv, RowHasNewestAttempt
  <1> QED
    BY <1>1, WorkInit, WorkNext, AnalysisInit, AnalysisNext, PTL
       DEF Spec, OutcomeOfNewestAttempt

-----------------------------------------------------------------------------
(* Reuse of a stored object *)

\* The steps of create and cleanup that run under the advisory lock.
Locked == {"head", "insert", "replay", "delete", "mark_deleted"}

LockHeld == \A r \in Requests : rq[r].pc \in Locked => lock = r

\* A create that decided to skip the upload still finds the object.
ReuseSeesObject ==
    \A r \in Requests :
        rq[r].pc = "insert" /\ rq[r].snap.status = "uploaded"
            => object # "absent"

\* What complete, retry and reconcile are about to write has a row already.
KnownRows ==
    /\ \A r \in Requests :
          rq[r].pc \in {"complete_head", "complete_commit", "retry_commit"}
              => row[rq[r].c].status # "none"
    /\ \A c \in rec.due \cup rec.upload : row[c].status # "none"

ReuseInv == LockHeld /\ ReuseSeesObject /\ KnownRows

\* No row is ever removed, and one that is inserted as uploaded has its object.
RowsRemain ==
    \A c \in Captures :
        /\ row[c].status # "none" => row'[c].status # "none"
        /\ row[c].status = "none" /\ row'[c].status = "uploaded"
              => object # "absent"

\* What the requests and reconcile do to the rows.
LEMMA CallersKeepRows ==
    ASSUME WorkInv, ReuseInv,
           \/ \E r \in Requests : \/ RequestStep(r) \/ RequestFails(r)
                                  \/ \E c \in Captures : RequestBegin(r, c)
           \/ ReconcileStep \/ ReconcileFails
    PROVE  RowsRemain
  <1> USE DEF analyzer, outside
  <1>0. /\ row \in [Captures -> Row] /\ TypeInv
        /\ ActiveRequests /\ InsertsFreshRow /\ ReuseSeesObject /\ KnownRows
    BY DEF WorkInv, TypeInv, TypeOK, ReuseInv
  <1>q. ASSUME row' = row PROVE RowsRemain
    BY ZenonT(20), <1>q DEF RowsRemain
  <1>w. ASSUME NEW c \in Captures, NEW new, row' = [row EXCEPT ![c] = new],
               row[c].status = "none" => FALSE, new.status # "none"
        PROVE  RowsRemain
    BY <1>0, <1>w DEF RowsRemain
  <1>1. ASSUME NEW r \in Requests, RequestStep(r) PROVE RowsRemain
    <2>0. rq[r].snap \in Row
      BY ZenonT(20), <1>0, RequestMoves
    <2>a. rq[r].pc \notin {"new", "done"} => rq[r].c \in Captures /\ row[rq[r].c] \in Row
      BY ZenonT(20), <1>0 DEF ActiveRequests
    <2>1. CASE CreateInsert(r)
      <3>1. rq[r].pc = "insert" /\ row' = [row EXCEPT ![rq[r].c] = rq[r].snap]
        BY ZenonT(20), <2>1 DEF CreateInsert
      <3>2. rq[r].snap.status \in {"uploaded", "pending_upload"}
        BY ZenonT(20), <1>0, <3>1 DEF InsertsFreshRow
      <3>3. rq[r].snap.status = "uploaded" => object # "absent"
        BY ZenonT(20), <1>0, <3>1 DEF ReuseSeesObject
      <3>4. \A c \in Captures : row'[c] = IF c = rq[r].c THEN rq[r].snap ELSE row[c]
        BY ZenonT(20), <1>0, <3>1
      <3> QED
        BY ZenonT(20), <3>2, <3>3, <3>4 DEF RowsRemain
    <2>2. CASE CreateReplay(r) /\ row' # row
      <3>1. /\ rq[r].pc = "replay"
            /\ row' = [row EXCEPT ![rq[r].c] = Reopened(@, rq[r].snap)]
        BY ZenonT(20), <2>2 DEF CreateReplay
      <3>2. Reopened(row[rq[r].c], rq[r].snap).status = "pending_upload"
        BY <2>0, <2>a, <3>1, CallerWrites
      <3>3. \A c \in Captures : row'[c] = IF c = rq[r].c
                                          THEN Reopened(row[rq[r].c], rq[r].snap) ELSE row[c]
        BY ZenonT(20), <1>0, <3>1
      <3> QED
        BY ZenonT(20), <3>2, <3>3 DEF RowsRemain
    <2>3. CASE CompleteCommit(r) /\ row' # row
      <3>1. /\ rq[r].pc = "complete_commit"
            /\ row' = [row EXCEPT ![rq[r].c] = Uploaded(@, rq[r].snap.deleted)]
        BY ZenonT(20), <2>3 DEF CompleteCommit
      <3>2. Uploaded(row[rq[r].c], rq[r].snap.deleted).status = "uploaded"
        BY <2>0, <2>a, <3>1, CallerWrites
      <3>3. row[rq[r].c].status # "none"
        BY ZenonT(20), <1>0, <3>1 DEF KnownRows
      <3> QED
        BY ZenonT(30), <1>w, <2>a, <3>1, <3>2, <3>3
    <2>4. CASE RetryCommit(r)
      <3>1. /\ rq[r].pc = "retry_commit"
            /\ row' = [row EXCEPT ![rq[r].c] = [@ EXCEPT !.status = "uploaded"]]
        BY <2>4 DEF RetryCommit
      <3>2. [row[rq[r].c] EXCEPT !.status = "uploaded"].status = "uploaded"
        BY <2>0, <2>a, <3>1, CallerWrites
      <3>3. row[rq[r].c].status # "none"
        BY <1>0, <3>1 DEF KnownRows
      <3> QED
        BY ZenonT(30), <1>w, <2>a, <3>1, <3>2, <3>3
    <2>5. CASE CleanupCommit(r)
      <3>1. \A c \in Captures : row'[c] = row[c] \/ row'[c] = [row[c] EXCEPT !.deleted = TRUE]
        BY <2>5 DEF CleanupCommit
      <3>2. \A c \in Captures : row'[c].status = row[c].status
        BY ZenonT(30), <1>0, <2>0, <3>1, CallerWrites
      <3> QED
        BY ZenonT(20), <3>2 DEF RowsRemain
    <2>6. CASE \/ CreateHead(r) \/ CompleteHead(r) \/ RetryReload(r)
               \/ CleanupDelete(r) \/ Publish(r)
      BY ZenonT(60), <1>q, <2>6
         DEF CreateHead, CompleteHead, RetryReload, CleanupDelete, Publish
    <2> QED
      BY ZenonT(20), <1>q, <1>1, <2>1, <2>2, <2>3, <2>4, <2>5, <2>6 DEF RequestStep
  <1>2. ASSUME NEW r \in Requests, RequestFails(r) PROVE RowsRemain
    BY ZenonT(20), <1>2, <1>q DEF RequestFails
  <1>3. ASSUME NEW r \in Requests, NEW c \in Captures, RequestBegin(r, c)
        PROVE  RowsRemain
    BY ZenonT(20), <1>3, <1>q
       DEF RequestBegin, CreateLock, CompleteLoad, RetryLoad, CleanupLock
  <1>4. CASE ReconcileCommit
    <2>1. \A c \in Captures :
             \/ row'[c] = row[c]
             \/ row'[c] = [row[c] EXCEPT !.status = "expired"]
             \/ c \in rec.upload /\ row'[c] = Uploaded(row[c], c \in rec.undeleted)
      BY ZenonT(20), <1>4 DEF ReconcileCommit
    <2>2. \A c \in Captures :
             /\ [row[c] EXCEPT !.status = "expired"].status = "expired"
             /\ Uploaded(row[c], c \in rec.undeleted).status = "uploaded"
      BY <1>0 DEF Uploaded, Row
    <2>3. \A c \in rec.upload : row[c].status # "none"
      BY ZenonT(20), <1>0 DEF KnownRows
    <2> QED
      BY ZenonT(20), <2>1, <2>2, <2>3 DEF RowsRemain
  <1>5. ASSUME ReconcileStep \/ ReconcileFails, ~ReconcileCommit
        PROVE  RowsRemain
    BY ZenonT(20), <1>5, <1>q DEF ReconcileStep, ReconcileFails, ReconcileLoad, ReconcileEnd,
                ReconcileHead, ReconcilePublish
  <1> QED
    BY ZenonT(20), <1>1, <1>2, <1>3, <1>4, <1>5

\* The analyzer writes only rows it found, and never makes one uploaded that
\* did not exist.
LEMMA WorkersKeepRows ==
    ASSUME WorkInv, NEW w \in Workers,
           \/ WorkerStep(w) \/ ReleaseAttempt(w) \/ WorkerCrash(w) \/ Rebalance(w)
    PROVE  RowsRemain
  <1>0. TypeInv /\ row \in [Captures -> Row] /\ ready \in Seq(Captures) /\ ActiveWorkers
    BY DEF WorkInv, TypeInv, TypeOK
  <1>q. ASSUME row' = row PROVE RowsRemain
    BY <1>q DEF RowsRemain
  <1>w. ASSUME NEW c \in Captures, NEW new, row' = [row EXCEPT ![c] = new],
               row[c].status # "none", new.status # "none"
        PROVE  RowsRemain
    BY <1>0, <1>w DEF RowsRemain
  <1>1. CASE ClaimAttempt(w)
    <2>1. /\ ready # <<>> /\ Claimable(Head(ready))
          /\ row' = [row EXCEPT ![Head(ready)] =
                       [@ EXCEPT !.status = "analyzing", !.started_at = claims + 1]]
      BY ZenonT(20), <1>1 DEF ClaimAttempt
    <2>2. Head(ready) \in Captures /\ row[Head(ready)] \in Row
      BY ZenonT(20), <1>0, <2>1, TailFacts
    <2>3. [row[Head(ready)] EXCEPT !.status = "analyzing",
                                   !.started_at = claims + 1].status = "analyzing"
      BY <2>2 DEF Row
    <2>4. row[Head(ready)].status # "none"
      BY <2>1 DEF Claimable
    <2> QED
      BY ZenonT(30), <1>w, <2>1, <2>2, <2>3, <2>4
  <1>2. CASE MarkVerified(w) \/ MarkAnalyzed(w) \/ MarkFailed(w) \/ ReleaseAttempt(w)
    <2> DEFINE c == wk[w].c
    <2>1. wk[w].pc # "idle"
      BY <1>2 DEF MarkVerified, MarkAnalyzed, MarkFailed, ReleaseAttempt
    <2>2. c \in Captures /\ row[c] \in Row
      BY ZenonT(20), <1>0, <2>1 DEF ActiveWorkers
    <2>3. \/ row' = row
          \/ Owns(w) /\ row' = [row EXCEPT ![c] = [@ EXCEPT !.verified = TRUE]]
          \/ Owns(w) /\ row' = [row EXCEPT ![c] = [@ EXCEPT !.status = "analyzed", !.verified = TRUE]]
          \/ Owns(w) /\ row' = [row EXCEPT ![c] = [@ EXCEPT !.status = "failed"]]
          \/ Owns(w) /\ row' = [row EXCEPT ![c] = [@ EXCEPT !.status = "uploaded"]]
      BY ZenonT(20), <1>2 DEF MarkVerified, MarkAnalyzed, MarkFailed, ReleaseAttempt
    <2>4. Owns(w) => row[c].status = "analyzing"
      BY DEF Owns
    <2>5. /\ [row[c] EXCEPT !.verified = TRUE].status = row[c].status
          /\ [row[c] EXCEPT !.status = "analyzed", !.verified = TRUE].status = "analyzed"
          /\ [row[c] EXCEPT !.status = "failed"].status = "failed"
          /\ [row[c] EXCEPT !.status = "uploaded"].status = "uploaded"
      BY <2>2 DEF Row
    <2> HIDE DEF c
    <2> QED
      BY ZenonT(30), <1>q, <1>w, <2>2, <2>3, <2>4, <2>5
  <1>3. CASE \/ LoadSettled(w) \/ Analyze(w) \/ PublishAnalysis(w) \/ Acknowledge(w)
             \/ WorkerCrash(w) \/ Rebalance(w)
    BY ZenonT(20), <1>q, <1>3
       DEF LoadSettled, Analyze, PublishAnalysis, Acknowledge, WorkerCrash, Rebalance
  <1> QED
    BY ZenonT(20), <1>1, <1>2, <1>3 DEF WorkerStep

\* A step of one request: the lock it takes or gives up was free or its own.
LEMMA OneRequestMoves ==
    ASSUME ReuseInv, RowsRemain, NEW r \in Requests, rec' = rec,
           rec.due \cup rec.upload \subseteq Captures,
           ActiveRequests,
           \A x \in Requests \ {r} : rq'[x] = rq[x],
           rq'[r].pc \in Locked => lock' = r,
           lock' = lock \/ lock \in {r, None},
           object' = object \/ (object' = "absent" /\ lock = r),
           rq'[r].pc = "insert" /\ rq'[r].snap.status = "uploaded" =>
               object' # "absent",
           rq'[r].pc \in {"complete_head", "complete_commit", "retry_commit"} =>
               rq'[r].c \in Captures /\ row[rq'[r].c].status # "none"
    PROVE  ReuseInv'
  <1>0. None \notin Requests
    BY ZenonT(20), ConstantsAssumption
  <1>1. LockHeld'
    BY ZenonT(20), <1>0 DEF ReuseInv, LockHeld
  <1>2. ReuseSeesObject'
    <2>1. \A x \in Requests \ {r} : rq[x].pc = "insert" => lock = x
      BY ZenonT(20) DEF ReuseInv, LockHeld, Locked
    <2>2. \A x \in Requests \ {r} : rq[x].pc = "insert" => object' = object
      BY ZenonT(20), <2>1
    <2> QED
      BY ZenonT(20), <2>2 DEF ReuseInv, ReuseSeesObject
  <1>3. KnownRows'
    <2>1. ASSUME NEW x \in Requests,
                 rq'[x].pc \in {"complete_head", "complete_commit", "retry_commit"}
          PROVE  row'[rq'[x].c].status # "none"
      <3>1. rq'[x].c \in Captures /\ row[rq'[x].c].status # "none"
        BY ZenonT(20), <2>1 DEF ReuseInv, KnownRows, ActiveRequests
      <3> QED
        BY ZenonT(20), <3>1 DEF RowsRemain
    <2>2. \A c \in rec.due \cup rec.upload : row'[c].status # "none"
      BY ZenonT(20) DEF ReuseInv, KnownRows, RowsRemain
    <2> QED
      BY ZenonT(20), <2>1, <2>2 DEF KnownRows
  <1> QED
    BY ZenonT(20), <1>1, <1>2, <1>3 DEF ReuseInv

\* Every step of a request keeps the lock with its holder and the object with
\* the create that counts on it.
LEMMA ReuseRequest ==
    ASSUME WorkInv, ReuseInv, NEW r \in Requests,
           \/ RequestStep(r) \/ RequestFails(r)
           \/ \E c \in Captures : RequestBegin(r, c)
    PROVE  ReuseInv'
  <1> USE DEF analyzer, outside
  <1> DEFINE Others == \A x \in Requests \ {r} : rq'[x] = rq[x]
             Loads == {"complete_head", "complete_commit", "retry_commit"}
  <1>r. RowsRemain
    BY CallersKeepRows
  <1>0. /\ TypeInv /\ ActiveRequests /\ rq \in [Requests -> RequestState]
        /\ rec.due \cup rec.upload \subseteq Captures
    BY ZenonT(20) DEF WorkInv, TypeInv, TypeOK, ReconcileState
  <1>a. rq[r].snap \in Row
    BY ZenonT(20), <1>0, RequestMoves
  <1>b. Finish(r) => rq'[r].pc = "done" /\ Others
    BY ZenonT(30), <1>0, RequestMoves
  <1>c. ASSUME NEW pc \in RequestPcs, NEW snap \in Row, Goto(r, pc, snap)
        PROVE  rq'[r].pc = pc /\ rq'[r].c = rq[r].c /\ rq'[r].snap = snap /\ Others
    BY ZenonT(30), <1>0, <1>c, RequestMoves
  <1>d. ASSUME NEW mem \in Row, PublishOrRespond(r, mem)
        PROVE  Others /\ rq'[r].pc \in {"publish", "done"}
    BY ZenonT(20), <1>0, <1>d, Responds
  <1>e. {"insert", "complete_commit", "owed", "retry_load", "publish", "mark_deleted"}
           \subseteq RequestPcs
    BY DEF RequestPcs
  <1>f. rq[r].pc \in Locked => lock = r
    BY DEF ReuseInv, LockHeld
  <1>g. rq[r].pc \notin {"new", "done"} => rq[r].c \in Captures /\ row[rq[r].c] \in Row
    BY ZenonT(20), <1>0 DEF TypeInv, TypeOK, ActiveRequests
  \* A step that leaves the guarded parts, or gives up the lock it holds.
  <1>h. ASSUME Others, rq'[r].pc \in {"publish", "owed", "done", "retry_load"},
               lock' = lock \/ lock = r, object' = object, rec' = rec
        PROVE  ReuseInv'
    BY ZenonT(20), <1>0, <1>h, <1>r, OneRequestMoves DEF Locked
  <1>i. ASSUME NEW op, NEW c \in Captures, NEW pc, Begin(r, op, c, pc)
        PROVE  rq'[r].pc = pc /\ rq'[r].c = c /\ Others
    BY ZenonT(20), <1>0, <1>i DEF Begin
  <1>1. CASE CreateHead(r)
    <2>1. rq[r].pc = "head" /\ object' = object /\ rec' = rec
      BY ZenonT(20), <1>1 DEF CreateHead
    <2>2. lock = r
      BY ZenonT(20), <1>f, <2>1 DEF Locked
    <2>3. CASE Finish(r)
      BY ZenonT(20), <1>b, <1>h, <2>1, <2>2, <2>3
    <2>4. ASSUME NEW st \in {"uploaded", "pending_upload"}, lock' = lock,
                 Goto(r, "insert", NewRow(st)), st = "uploaded" => HeadOk
          PROVE  ReuseInv'
      <3>1. NewRow(st) \in Row /\ NewRow(st).status = st
        BY ZenonT(20) DEF NewRow, Row
      <3>2. rq'[r].pc = "insert" /\ rq'[r].snap = NewRow(st) /\ Others
        BY ZenonT(30), <1>c, <1>e, <2>4, <3>1
      <3>3. rq'[r].snap.status = "uploaded" => object' # "absent"
        BY ZenonT(30), <2>1, <2>4, <3>1, <3>2 DEF HeadOk
      <3> QED
        BY ZenonT(20), <1>0, <1>r, <2>1, <2>2, <2>4, <3>2, <3>3, OneRequestMoves
    <2>5. \/ Finish(r)
          \/ HeadOk /\ Goto(r, "insert", NewRow("uploaded")) /\ lock' = lock
          \/ Goto(r, "insert", NewRow("pending_upload")) /\ lock' = lock
      BY ZenonT(20), <1>1 DEF CreateHead
    <2> QED
      BY <2>3, <2>4, <2>5
  <1>2. CASE CreateInsert(r) \/ CreateReplay(r)
    <2>1. rq[r].pc \in {"insert", "replay"} /\ object' = object /\ rec' = rec
      BY ZenonT(20), <1>2 DEF CreateInsert, CreateReplay
    <2>2. lock = r
      BY ZenonT(20), <1>f, <2>1 DEF Locked
    <2>3. \/ PublishOrRespond(r, rq[r].snap)
          \/ PublishOrRespond(r, Reopened(rq[r].snap, rq[r].snap))
      BY ZenonT(20), <1>2 DEF CreateInsert, CreateReplay
    <2>4. Reopened(rq[r].snap, rq[r].snap) \in Row
      BY ZenonT(30), <1>a, RowWrites
    <2>5. Others /\ rq'[r].pc \in {"publish", "done"}
      BY ZenonT(20), <1>a, <1>d, <2>3, <2>4
    <2> QED
      BY ZenonT(20), <1>h, <2>1, <2>2, <2>5
  <1>3. CASE CompleteCommit(r)
    <2>1. object' = object /\ rec' = rec /\ lock' = lock
      BY ZenonT(20), <1>3 DEF CompleteCommit
    <2>2. \/ PublishOrRespond(r, rq[r].snap)
          \/ PublishOrRespond(r, Uploaded(rq[r].snap, rq[r].snap.deleted))
      BY ZenonT(20), <1>3 DEF CompleteCommit
    <2>3. rq[r].snap.deleted \in BOOLEAN
      BY ZenonT(20), <1>a DEF Row
    <2>4. Uploaded(rq[r].snap, rq[r].snap.deleted) \in Row
      BY ZenonT(20), <1>a, <2>3, RowWrites
    <2>5. Others /\ rq'[r].pc \in {"publish", "done"}
      BY ZenonT(20), <1>a, <1>d, <2>2, <2>4
    <2> QED
      BY ZenonT(20), <1>h, <2>1, <2>5
  <1>4. CASE CompleteHead(r)
    <2>1. /\ object' = object /\ rec' = rec /\ lock' = lock
          /\ rq[r].pc = "complete_head"
          /\ Finish(r) \/ Goto(r, "complete_commit", rq[r].snap)
      BY ZenonT(20), <1>4 DEF CompleteHead
    <2>2. CASE Finish(r)
      BY ZenonT(30), <1>b, <1>h, <2>1, <2>2
    <2>3. CASE Goto(r, "complete_commit", rq[r].snap)
      <3>1. rq'[r].pc = "complete_commit" /\ rq'[r].c = rq[r].c /\ Others
        BY ZenonT(20), <1>a, <1>c, <1>e, <2>3
      <3>2. rq[r].c \in Captures /\ row[rq[r].c].status # "none"
        BY ZenonT(30), <1>g, <2>1 DEF ReuseInv, KnownRows
      <3> QED
        BY ZenonT(30), <1>0, <1>r, <2>1, <3>1, <3>2, OneRequestMoves DEF Locked
    <2> QED
      BY ZenonT(20), <2>1, <2>2, <2>3
  <1>5. CASE RetryCommit(r) \/ RetryReload(r) \/ Publish(r)
    <2>1. /\ object' = object /\ rec' = rec /\ lock' = lock
          /\ \/ Finish(r) \/ Goto(r, "retry_load", rq[r].snap) \/ Goto(r, "owed", rq[r].snap)
             \/ rq[r].pc = "retry_load" /\ Goto(r, "publish", row[rq[r].c])
      BY ZenonT(20), <1>5 DEF RetryCommit, RetryReload, Publish
    <2>2. Others /\ rq'[r].pc \in {"publish", "owed", "done", "retry_load"}
      BY ZenonT(20), <1>a, <1>b, <1>c, <1>e, <1>g, <2>1
    <2> QED
      BY ZenonT(20), <1>h, <2>1, <2>2
  <1>6. CASE CleanupDelete(r)
    <2>1. /\ object' = "absent" /\ rec' = rec /\ lock' = lock /\ rq[r].pc = "delete"
          /\ Goto(r, "mark_deleted", rq[r].snap)
      BY ZenonT(20), <1>6 DEF CleanupDelete
    <2>2. rq'[r].pc = "mark_deleted" /\ Others
      BY ZenonT(20), <1>a, <1>c, <1>e, <2>1
    <2>3. lock = r
      BY ZenonT(20), <1>f, <2>1 DEF Locked
    <2> QED
      BY ZenonT(20), <1>0, <1>r, <2>1, <2>2, <2>3, OneRequestMoves
  <1>7. CASE CleanupCommit(r)
    <2>1. object' = object /\ rec' = rec /\ rq[r].pc = "mark_deleted" /\ Finish(r)
      BY ZenonT(20), <1>7 DEF CleanupCommit
    <2>2. lock = r
      BY ZenonT(30), <1>f, <2>1 DEF Locked
    <2> QED
      BY ZenonT(30), <1>b, <1>h, <2>1, <2>2
  <1>8. CASE RequestFails(r)
    <2>1. /\ object' = object /\ rec' = rec /\ (lock' = lock \/ lock = r)
          /\ Finish(r) \/ Goto(r, "owed", rq[r].snap)
      BY ZenonT(20), <1>8 DEF RequestFails
    <2>2. Others /\ rq'[r].pc \in {"owed", "done"}
      BY ZenonT(20), <1>a, <1>b, <1>c, <1>e, <2>1
    <2> QED
      BY ZenonT(20), <1>h, <2>1, <2>2
  <1>9. ASSUME NEW c \in Captures, RequestBegin(r, c) PROVE ReuseInv'
    <2>1. CASE CreateLock(r, c)
      <3>1. Begin(r, "create", c, "head") \/ Begin(r, "create", c, "replay")
        BY ZenonT(20), <2>1 DEF CreateLock
      <3>2. lock = None /\ lock' = r /\ object' = object /\ rec' = rec
        BY ZenonT(20), <2>1 DEF CreateLock
      <3>3. rq'[r].pc \in {"head", "replay"} /\ Others
        BY ZenonT(20), <1>i, <3>1
      <3> QED
        BY ZenonT(30), <1>0, <1>r, <3>2, <3>3, OneRequestMoves
    <2>2. CASE CompleteLoad(r, c) \/ RetryLoad(r, c)
      <3>1. \/ Begin(r, "complete", c, "complete_head")
            \/ Begin(r, "retry", c, "retry_commit")
        BY ZenonT(20), <2>2 DEF CompleteLoad, RetryLoad
      <3>2. lock' = lock /\ object' = object /\ rec' = rec
        BY ZenonT(20), <2>2 DEF CompleteLoad, RetryLoad
      <3>3. rq'[r].pc \in {"complete_head", "retry_commit"} /\ rq'[r].c = c /\ Others
        BY ZenonT(30), <1>i, <3>1
      <3>4. row[c].status # "none"
        BY ZenonT(30), <2>2 DEF CompleteLoad, RetryLoad
      <3> QED
        BY ZenonT(30), <1>0, <1>r, <3>2, <3>3, <3>4, OneRequestMoves DEF Locked
    <2>3. CASE CleanupLock(r, c)
      <3>1. lock = None /\ lock' = r /\ object' = object /\ rec' = rec
        BY ZenonT(20), <2>3 DEF CleanupLock
      <3>2. rq'[r].pc = "delete" /\ Others
        BY ZenonT(30), <1>0, <2>3 DEF CleanupLock
      <3> QED
        BY ZenonT(30), <1>0, <1>r, <3>1, <3>2, OneRequestMoves
    <2> QED
      BY <1>9, <2>1, <2>2, <2>3 DEF RequestBegin
  <1> QED
    BY ZenonT(20), <1>1, <1>2, <1>3, <1>4, <1>5, <1>6, <1>7, <1>8, <1>9 DEF RequestStep

\* reconcile collects rows that exist, and neither locks nor deletes.
LEMMA ReuseReconcile ==
    ASSUME WorkInv, ReuseInv, ReconcileStep \/ ReconcileFails
    PROVE  ReuseInv'
  <1> USE DEF analyzer, outside
  <1>r. RowsRemain
    BY CallersKeepRows
  <1>0. /\ ActiveRequests /\ rec \in ReconcileState
        /\ rec.due \cup rec.upload \subseteq Captures
    BY DEF WorkInv, TypeInv, TypeOK, ReconcileState
  <1>1. rq' = rq /\ lock' = lock /\ object' = object
    BY ZenonT(20) DEF ReconcileStep, ReconcileFails, ReconcileLoad, ReconcileCommit,
       ReconcileEnd, ReconcileHead, ReconcilePublish
  <1>2. \A c \in rec'.due \cup rec'.upload : c \in Captures /\ row[c].status # "none"
    <2>0. \A c \in rec.due \cup rec.upload : c \in Captures /\ row[c].status # "none"
      BY ZenonT(20), <1>0 DEF ReuseInv, KnownRows
    <2>1. CASE ReconcileLoad
      BY <2>1 DEF ReconcileLoad
    <2>2. ASSUME NEW c \in Captures, ReconcileHead(c)
          PROVE  rec'.due \cup rec'.upload \subseteq rec.due \cup rec.upload
      BY <1>0, <2>2 DEF ReconcileHead, ReconcileState
    <2>3. ASSUME NEW c \in Captures, ReconcilePublish(c)
          PROVE  rec'.due \cup rec'.upload \subseteq rec.due \cup rec.upload
      BY <1>0, <2>3 DEF ReconcilePublish, ReconcileState
    <2>4. ASSUME ReconcileCommit \/ ReconcileEnd \/ ReconcileFails
          PROVE  rec'.due = {} /\ rec'.upload = {}
      <3>1. \/ rec' = IdleRec
            \/ \E pub : rec' = [IdleRec EXCEPT !.pc = "publish", !.pub = pub]
            \/ \E pub : rec' = [IdleRec EXCEPT !.pc = "owed", !.pub = pub]
        BY ZenonT(20), <2>4 DEF ReconcileCommit, ReconcileEnd, ReconcileFails
      <3>2. /\ IdleRec.due = {} /\ IdleRec.upload = {}
            /\ \A pc, pub : LET new == [IdleRec EXCEPT !.pc = pc, !.pub = pub]
                            IN  new.due = {} /\ new.upload = {}
        BY ZenonT(20) DEF IdleRec
      <3> QED
        BY ZenonT(20), <3>1, <3>2
    <2> QED
      BY ZenonT(20), <2>0, <2>1, <2>2, <2>3, <2>4 DEF ReconcileStep
  <1>3. LockHeld' /\ ReuseSeesObject'
    BY <1>1 DEF ReuseInv, LockHeld, ReuseSeesObject
  <1>4. KnownRows'
    <2>1. ASSUME NEW x \in Requests,
                 rq[x].pc \in {"complete_head", "complete_commit", "retry_commit"}
          PROVE  row'[rq[x].c].status # "none"
      <3>1. rq[x].c \in Captures /\ row[rq[x].c].status # "none"
        BY ZenonT(20), <1>0, <2>1 DEF ReuseInv, KnownRows, ActiveRequests
      <3> QED
        BY <1>r, <3>1 DEF RowsRemain
    <2> QED
      BY ZenonT(20), <1>1, <1>2, <1>r, <2>1 DEF KnownRows, RowsRemain
  <1> QED
    BY <1>3, <1>4 DEF ReuseInv

\* No other step touches the lock, the requests or reconcile.
LEMMA ReuseQuiet ==
    ASSUME WorkInv, ReuseInv, RowsRemain, rq' = rq, rec' = rec, lock' = lock,
           object' = object \/ object' # "absent"
    PROVE  ReuseInv'
  <1>0. ActiveRequests /\ rec.due \cup rec.upload \subseteq Captures
    BY DEF WorkInv, TypeInv, TypeOK, ReconcileState
  <1>1. LockHeld' /\ ReuseSeesObject'
    BY DEF ReuseInv, LockHeld, ReuseSeesObject
  <1>2. ASSUME NEW x \in Requests,
               rq[x].pc \in {"complete_head", "complete_commit", "retry_commit"}
        PROVE  row'[rq[x].c].status # "none"
    <2>1. rq[x].c \in Captures /\ row[rq[x].c].status # "none"
      BY ZenonT(20), <1>0, <1>2 DEF ReuseInv, KnownRows, ActiveRequests
    <2> QED
      BY <2>1 DEF RowsRemain
  <1>3. \A c \in rec.due \cup rec.upload : row'[c].status # "none"
    BY <1>0 DEF ReuseInv, KnownRows, RowsRemain
  <1> QED
    BY ZenonT(20), <1>1, <1>2, <1>3 DEF ReuseInv, KnownRows

\* Initially nobody holds the lock and there is no row.
LEMMA ReuseInit == Init => ReuseInv
  <1> SUFFICES ASSUME Init PROVE ReuseInv
    OBVIOUS
  <1>1. \A r \in Requests : rq[r].pc = "new"
    BY DEF Init, NewRequest
  <1>2. rec.due = {} /\ rec.upload = {}
    BY DEF Init, IdleRec
  <1> QED
    BY <1>1, <1>2 DEF ReuseInv, LockHeld, Locked, ReuseSeesObject, KnownRows

\* Every step keeps the invariant and removes no row.
LEMMA ReuseNext ==
    WorkInv /\ ReuseInv /\ [Next]_vars => ReuseInv' /\ (row' = row \/ RowsRemain)
  <1> SUFFICES ASSUME WorkInv, ReuseInv, [Next]_vars
               PROVE  ReuseInv' /\ (row' = row \/ RowsRemain)
    OBVIOUS
  <1>q. row' = row => RowsRemain
    BY DEF RowsRemain
  <1>1. ASSUME NEW r \in Requests,
               \/ RequestStep(r) \/ RequestFails(r)
               \/ \E c \in Captures : RequestBegin(r, c)
        PROVE  ReuseInv' /\ RowsRemain
    BY ZenonT(20), <1>1, ReuseRequest, CallersKeepRows
  <1>2. ASSUME ReconcileStep \/ ReconcileFails PROVE ReuseInv' /\ RowsRemain
    BY ZenonT(20), <1>2, ReuseReconcile, CallersKeepRows
  <1>3. ASSUME NEW w \in Workers,
               \/ WorkerStep(w) \/ ReleaseAttempt(w) \/ WorkerCrash(w) \/ Rebalance(w)
        PROVE  ReuseInv' /\ RowsRemain
    <2>1. rq' = rq /\ rec' = rec /\ lock' = lock /\ object' = object
      BY ZenonT(20), <1>3
         DEF WorkerStep, ReleaseAttempt, WorkerCrash, Rebalance, LoadSettled,
             ClaimAttempt, Analyze, MarkVerified, PublishAnalysis, MarkAnalyzed,
             MarkFailed, Acknowledge, callers
    <2> QED
      BY ZenonT(20), <1>3, <2>1, WorkersKeepRows, ReuseQuiet
  <1>4. ASSUME Age \/ UNCHANGED vars PROVE ReuseInv' /\ row' = row
    <2>1. /\ rq' = rq /\ rec' = rec /\ lock' = lock /\ object' = object
          /\ row' = row
      BY ZenonT(20), <1>4 DEF Age, vars, callers
    <2> QED
      BY ZenonT(20), <1>q, <2>1, ReuseQuiet
  <1>5. ASSUME NEW bytes \in Contents \ {"absent"}, Put(bytes)
        PROVE  ReuseInv' /\ row' = row
    <2>1. /\ rq' = rq /\ rec' = rec /\ lock' = lock /\ object' # "absent"
          /\ row' = row
      BY ZenonT(20), <1>5 DEF Put, callers
    <2> QED
      BY ZenonT(20), <1>q, <2>1, ReuseQuiet
  <1> QED
    BY ZenonT(20), <1>1, <1>2, <1>3, <1>4, <1>5 DEF Next

\* A new row that skips the upload has its object in the store when create
\* inserts it, however cleanup, uploads and failures interleave: the advisory
\* lock covers the HEAD and the INSERT, and delete needs the lock as well.
THEOREM ReusedObjectExists == Spec => ReuseHasObject
  <1>1. WorkInv /\ ReuseInv /\ [Next]_vars =>
            [\A c \in Captures :
                row[c].status = "none" /\ row'[c].status = "uploaded"
                   => object # "absent"]_vars
    BY ReuseNext DEF RowsRemain
  <1> QED
    BY <1>1, WorkInit, WorkNext, ReuseInit, ReuseNext, PTL
       DEF Spec, ReuseHasObject

=============================================================================
