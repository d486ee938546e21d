-------------------------- MODULE CaptureLifecycle --------------------------
(***************************************************************************)
(* The life of the network captures that share one stored object: the HTTP *)
(* handlers (network/service.py), the operator commands                    *)
(* (network/operations.py) and the analyzer workers (network/worker.py),   *)
(* which meet only in the rows of network_captures, in the object store    *)
(* and in the capture-ready topic.                                         *)
(*                                                                         *)
(* Every awaited call is a step of its own, so a handler goes on with the  *)
(* row it loaded earlier (snap).  The sessions write only the columns that *)
(* differ from the loaded row, with no version check, and run at READ      *)
(* COMMITTED.  All captures share one object key, hence one advisory lock; *)
(* their ready events share one partition (the key is the application).    *)
(***************************************************************************)
EXTENDS Naturals, Sequences, FiniteSets

CONSTANTS Captures,   \* logical captures of the one stored object
          Requests,   \* HTTP requests and operator commands, one call each
          Workers,    \* analyzer processes of the consumer group
          Ops,        \* the operations this instance lets callers invoke
          None,       \* no holder, no capture
          MaxReady,   \* bound: backlog at which reconcile stops republishing
          MaxPuts,    \* bound: uploads through presigned URLs
          MaxFaults   \* bound: crashes, transient failures and rebalances

ASSUME ConstantsAssumption ==
    /\ Captures # {} /\ Workers # {}
    /\ None \notin Captures \cup Requests \cup Workers
    /\ Ops \subseteq {"create", "complete", "reconcile", "retry", "cleanup"}
    /\ MaxReady \in Nat \ {0} /\ MaxPuts \in Nat /\ MaxFaults \in Nat

VARIABLES row,      \* the rows of network_captures
          object,   \* what the object store holds under the key
          lock,     \* holder of the object-key advisory transaction lock
          rq,       \* progress of each request, with the row it loaded
          rec,      \* progress of the reconcile command
          ready,    \* capture-ready messages not yet acknowledged
          owner,    \* worker the partition is assigned to
          wk,       \* progress of each worker
          claims,   \* analysis attempts so far: the clock of started_at
          aged,     \* attempts older than the stale-analysis threshold
          analyses, \* captures whose analysis event is in its topic
          offered,  \* a presigned PUT has been handed out
          puts,     \* uploads so far
          faults    \* faults so far

vars == <<row, object, lock, rq, rec, ready, owner, wk, claims, aged,
          analyses, offered, puts, faults>>
callers == <<lock, rq, rec>>
attempts == <<claims, aged>>
analyzer == <<owner, wk, claims, aged, analyses>>
outside == <<offered, puts, faults>>

Terminal == {"analyzed", "failed", "expired"}
Dispatchable == {"uploaded", "analyzing"}
Status == {"none", "pending_upload"} \cup Dispatchable \cup Terminal
\* good: the expected bytes; corrupt: their size only; short: not even that
Contents == {"absent", "good", "corrupt", "short"}

\* started_at is the number of the attempt, 0 for NULL; timestamps of which
\* only the presence is ever tested are Booleans.
Row == [status : Status, verified : BOOLEAN, uploaded_at : BOOLEAN,
        started_at : Nat, deleted : BOOLEAN]
NoRow == [status |-> "none", verified |-> FALSE, uploaded_at |-> FALSE,
          started_at |-> 0, deleted |-> FALSE]

NewRequest == [pc |-> "new", c |-> None, snap |-> NoRow, refs |-> {}]
DoneRequest == [pc |-> "done", c |-> None, snap |-> NoRow, refs |-> {}]
IdleRec == [pc |-> "idle", due |-> {}, undeleted |-> {}, expire |-> {},
            upload |-> {}, pub |-> {}]
IdleWorker == [pc |-> "idle", c |-> None, att |-> 0]

HeadOk == object \in {"good", "corrupt"}

Init ==
    /\ row = [c \in Captures |-> NoRow]
    /\ object = "absent"
    /\ lock = None
    /\ rq = [r \in Requests |-> NewRequest]
    /\ rec = IdleRec
    /\ ready = <<>>
    /\ owner \in Workers
    /\ wk = [w \in Workers |-> IdleWorker]
    /\ claims = 0 /\ aged = 0
    /\ analyses = {}
    /\ offered = FALSE /\ puts = 0 /\ faults = 0

-----------------------------------------------------------------------------
(* Requests *)

Begin(r, op, c, pc) ==
    /\ op \in Ops
    /\ rq[r].pc = "new"
    /\ rq' = [rq EXCEPT ![r] = [pc |-> pc, c |-> c, snap |-> row[c],
                                refs |-> {}]]

Goto(r, pc, snap) ==
    rq' = [rq EXCEPT ![r] = [pc |-> pc, c |-> rq[r].c, snap |-> snap,
                             refs |-> rq[r].refs]]

Finish(r) == rq' = [rq EXCEPT ![r] = DoneRequest]

\* After the last commit: _publish_ready_if_dispatchable, and the presigned
\* PUT of a row that awaits its upload.
PublishOrRespond(r, mem) ==
    /\ IF mem.status \in Dispatchable THEN Goto(r, "publish", mem) ELSE Finish(r)
    /\ offered' = (offered \/ mem.status = "pending_upload")

\* create: take the object-key lock, then load the row, if there is one.
CreateLock(r, c) ==
    /\ lock = None
    /\ lock' = r
    /\ Begin(r, "create", c,
             IF row[c].status = "none" THEN "head" ELSE "replay")
    /\ UNCHANGED <<row, object, rec, ready, analyzer, outside>>

\* get_verified_object
VerifiedCopy == \E x \in Captures : row[x].verified /\ ~row[x].deleted

NewRow(status) ==
    [status |-> status, verified |-> status = "uploaded",
     uploaded_at |-> status = "uploaded", started_at |-> 0, deleted |-> FALSE]

\* create of a new capture: a verified copy that HEAD still finds makes the
\* upload unnecessary; HEAD with the wrong size is an error.
CreateHead(r) ==
    /\ rq[r].pc = "head"
    /\ \/ /\ VerifiedCopy /\ object = "short"
          /\ Finish(r) /\ lock' = None
       \/ /\ VerifiedCopy /\ HeadOk
          /\ Goto(r, "insert", NewRow("uploaded"))
          /\ UNCHANGED lock
       \/ /\ ~VerifiedCopy \/ object = "absent"
          /\ Goto(r, "insert", NewRow("pending_upload"))
          /\ UNCHANGED lock
    /\ UNCHANGED <<row, object, rec, ready, analyzer, outside>>

CreateInsert(r) ==
    /\ rq[r].pc = "insert"
    /\ row' = [row EXCEPT ![rq[r].c] = rq[r].snap]
    /\ lock' = None
    /\ PublishOrRespond(r, rq[r].snap)
    /\ UNCHANGED <<object, rec, ready, analyzer, puts, faults>>

\* The columns _reopen_expired writes on a row loaded as snap.
Reopened(cur, snap) ==
    [cur EXCEPT !.status = "pending_upload",
                !.verified = @ /\ ~snap.verified,
                !.uploaded_at = @ /\ ~snap.uploaded_at,
                !.started_at = IF snap.started_at = 0 THEN @ ELSE 0]

\* create of a known capture: _reopen_expired, then the commit that releases
\* the lock.  (A replay with nothing to reopen keeps the lock until it ends;
\* releasing it here allows every interleaving of both paths.)
CreateReplay(r) ==
    /\ rq[r].pc = "replay"
    /\ lock' = None
    /\ \/ /\ rq[r].snap.status = "expired"
          /\ row' = [row EXCEPT ![rq[r].c] = Reopened(@, rq[r].snap)]
          /\ PublishOrRespond(r, Reopened(rq[r].snap, rq[r].snap))
       \/ /\ rq[r].snap.status # "expired"
          /\ PublishOrRespond(r, rq[r].snap)
          /\ UNCHANGED row
    /\ UNCHANGED <<object, rec, ready, analyzer, puts, faults>>

\* complete: load the row without a lock; failed and expired are refused.
CompleteLoad(r, c) ==
    /\ row[c].status \notin {"none", "failed", "expired"}
    /\ Begin(r, "complete", c, "complete_head")
    /\ UNCHANGED <<row, object, lock, rec, ready, analyzer, outside>>

CompleteHead(r) ==
    /\ rq[r].pc = "complete_head"
    /\ IF HeadOk THEN Goto(r, "complete_commit", rq[r].snap) ELSE Finish(r)
    /\ UNCHANGED <<row, object, lock, rec, ready, analyzer, outside>>

\* The columns complete and reconcile write on a row loaded as pending_upload.
Uploaded(cur, wasDeleted) ==
    [cur EXCEPT !.status = "uploaded", !.uploaded_at = TRUE,
                !.deleted = @ /\ ~wasDeleted]

CompleteCommit(r) ==
    /\ rq[r].pc = "complete_commit"
    /\ \/ /\ rq[r].snap.status = "pending_upload"
          /\ row' = [row EXCEPT ![rq[r].c] = Uploaded(@, rq[r].snap.deleted)]
          /\ PublishOrRespond(r, Uploaded(rq[r].snap, rq[r].snap.deleted))
       \/ /\ rq[r].snap.status # "pending_upload"
          /\ PublishOrRespond(r, rq[r].snap)
          /\ UNCHANGED row
    /\ UNCHANGED <<object, lock, rec, ready, analyzer, puts, faults>>

\* publish_ready of the row in memory; without uploaded_at it raises.
Publish(r) ==
    /\ rq[r].pc = "publish"
    /\ \/ /\ rq[r].snap.uploaded_at
          /\ ready' = Append(ready, rq[r].c)
          /\ Finish(r)
       \/ /\ ~rq[r].snap.uploaded_at
          /\ Goto(r, "owed", rq[r].snap)
          /\ UNCHANGED ready
    /\ UNCHANGED <<row, object, lock, rec, analyzer, outside>>

-----------------------------------------------------------------------------
(* Operator commands *)

\* retry_capture: load a failed row whose object remains, write uploaded in a
\* transaction without a lock, then publish a freshly loaded row.
RetryLoad(r, c) ==
    /\ row[c].status = "failed" /\ ~row[c].deleted
    /\ Begin(r, "retry", c, "retry_commit")
    /\ UNCHANGED <<row, object, lock, rec, ready, analyzer, outside>>

RetryCommit(r) ==
    /\ rq[r].pc = "retry_commit"
    /\ row' = [row EXCEPT ![rq[r].c].status = "uploaded"]
    /\ Goto(r, "retry_load", rq[r].snap)
    /\ UNCHANGED <<object, lock, rec, ready, analyzer, outside>>

RetryReload(r) ==
    /\ rq[r].pc = "retry_load"
    /\ Goto(r, "publish", row[rq[r].c])
    /\ UNCHANGED <<row, object, lock, rec, ready, analyzer, outside>>

\* cleanup_capture_object: under the lock, refuse unless every reference that
\* still counts on the object is terminal; delete it; mark the references.
References == {c \in Captures : row[c].status # "none" /\ ~row[c].deleted}

\* Mutant: cleanup without the advisory lock.
CleanupLock_Mutant(r, c) ==
    /\ row[c].status # "none"
    /\ References # {}
    /\ \A x \in References : row[x].status \in Terminal
    /\ "cleanup" \in Ops /\ rq[r].pc = "new"
    /\ rq' = [rq EXCEPT ![r] = [pc |-> "delete", c |-> c, snap |-> NoRow,
                                refs |-> References]]
    /\ UNCHANGED <<row, object, lock, rec, ready, analyzer, outside>>

CleanupLock(r, c) ==
    /\ row[c].status # "none"
    /\ lock = None
    /\ References # {}
    /\ \A x \in References : row[x].status \in Terminal
    /\ "cleanup" \in Ops /\ rq[r].pc = "new"
    /\ lock' = r
    /\ rq' = [rq EXCEPT ![r] = [pc |-> "delete", c |-> c, snap |-> NoRow,
                                refs |-> References]]
    /\ UNCHANGED <<row, object, rec, ready, analyzer, outside>>

CleanupDelete(r) ==
    /\ rq[r].pc = "delete"
    /\ object' = "absent"
    /\ Goto(r, "mark_deleted", rq[r].snap)
    /\ UNCHANGED <<row, lock, rec, ready, analyzer, outside>>

CleanupCommit(r) ==
    /\ rq[r].pc = "mark_deleted"
    /\ row' = [c \in Captures |-> IF c \in rq[r].refs
                                  THEN [row[c] EXCEPT !.deleted = TRUE]
                                  ELSE row[c]]
    /\ lock' = None
    /\ Finish(r)
    /\ UNCHANGED <<object, rec, ready, analyzer, outside>>

\* A request that dies or gets an error from the database, the store or the
\* broker: its transaction rolls back.  Past its commit the event stays owed.
RequestFails(r) ==
    /\ rq[r].pc \notin {"new", "done", "owed"}
    /\ faults < MaxFaults
    /\ faults' = faults + 1
    /\ IF rq[r].pc \in {"publish", "retry_load"}
       THEN Goto(r, "owed", rq[r].snap)
       ELSE Finish(r)
    /\ lock' = IF lock = r THEN None ELSE lock
    /\ UNCHANGED <<row, object, rec, ready, analyzer, offered, puts>>

\* reconcile_captures: one select up front; which pending rows are past the
\* cutoff is up to the clock.  MaxReady bounds how often rows that are already
\* dispatchable are published again.
Redispatch == {c \in Captures : \/ row[c].status = "uploaded"
                                \/ /\ row[c].status = "analyzing"
                                   /\ row[c].started_at \in 1..aged}

ReconcileLoad ==
    /\ "reconcile" \in Ops
    /\ rec.pc \in {"idle", "owed"}
    /\ Redispatch # {} => Len(ready) < MaxReady
    /\ \E due \in SUBSET {c \in Captures : row[c].status = "pending_upload"} :
         rec' = [pc |-> "head", due |-> due,
                 undeleted |-> {c \in due : row[c].deleted},
                 expire |-> {}, upload |-> {}, pub |-> Redispatch]
    /\ UNCHANGED <<row, object, lock, rq, ready, analyzer, outside>>

ReconcileHead(c) ==
    /\ rec.pc = "head"
    /\ c \in rec.due \ (rec.expire \cup rec.upload)
    /\ rec' = IF HeadOk THEN [rec EXCEPT !.upload = @ \cup {c}]
                        ELSE [rec EXCEPT !.expire = @ \cup {c}]
    /\ UNCHANGED <<row, object, lock, rq, ready, analyzer, outside>>

ReconcileCommit ==
    /\ rec.pc = "head"
    /\ rec.due = rec.expire \cup rec.upload
    /\ row' = [c \in Captures |->
                 IF c \in rec.expire THEN [row[c] EXCEPT !.status = "expired"]
                 ELSE IF c \in rec.upload
                 THEN Uploaded(row[c], c \in rec.undeleted)
                 ELSE row[c]]
    /\ rec' = [IdleRec EXCEPT !.pc = "publish", !.pub = rec.pub \cup rec.upload]
    /\ UNCHANGED <<object, lock, rq, ready, analyzer, outside>>

\* One event per collected capture, for the row as it is then; a row without
\* uploaded_at ends the command with an error.
ReconcilePublish(c) ==
    /\ rec.pc = "publish"
    /\ c \in rec.pub
    /\ IF row[c].uploaded_at
       THEN ready' = Append(ready, c) /\ rec' = [rec EXCEPT !.pub = @ \ {c}]
       ELSE rec' = [rec EXCEPT !.pc = "owed"] /\ UNCHANGED ready
    /\ UNCHANGED <<row, object, lock, rq, analyzer, outside>>

ReconcileEnd ==
    /\ rec.pc = "publish" /\ rec.pub = {}
    /\ rec' = IdleRec
    /\ UNCHANGED <<row, object, lock, rq, ready, analyzer, outside>>

ReconcileFails ==
    /\ rec.pc \in {"head", "publish"}
    /\ faults < MaxFaults
    /\ faults' = faults + 1
    /\ rec' = [IdleRec EXCEPT !.pc = "owed", !.pub = rec.pub]
    /\ UNCHANGED <<row, object, lock, rq, ready, analyzer, offered, puts>>

-----------------------------------------------------------------------------
(* Analyzer workers *)

\* Mutant: the attempt is not told from its successor.
Owns_Mutant(w) == row[wk[w].c].status = "analyzing"

\* The guard of every UPDATE an attempt makes: it still owns the row.
Owns(w) == /\ row[wk[w].c].status = "analyzing"
           /\ row[wk[w].c].started_at = wk[w].att

\* The worker process exits and is restarted; its message is redelivered.
Die(w) == wk' = [wk EXCEPT ![w] = IdleWorker]

Step(w, pc) ==
    wk' = [wk EXCEPT ![w] = [pc |-> pc, c |-> wk[w].c, att |-> wk[w].att]]

\* Mutant: a message that cannot be claimed is acknowledged, not redelivered.
LoadSettled_Mutant(w) ==
    /\ owner = w /\ wk[w].pc = "idle" /\ ready # <<>>
    /\ row[Head(ready)].status # "uploaded"
    /\ wk' = [wk EXCEPT ![w] = [pc |-> "ack", c |-> Head(ready), att |-> 0]]
    /\ UNCHANGED <<row, object, callers, ready, owner, attempts, analyses,
                   outside>>

\* load_and_validate and claim_attempt, in one transaction.  A settled capture
\* is acknowledged; a capture that is pending_upload, or being analyzed by an
\* attempt that is not stale, raises AnalysisClaimUnavailable: the process
\* restarts and receives the message again, which is no step here.
LoadSettled(w) ==
    /\ owner = w /\ wk[w].pc = "idle" /\ ready # <<>>
    /\ row[Head(ready)].status \in Terminal
    /\ wk' = [wk EXCEPT ![w] = [pc |-> "ack", c |-> Head(ready), att |-> 0]]
    /\ UNCHANGED <<row, object, callers, ready, owner, attempts, analyses,
                   outside>>

\* Mutant: no takeover of a stale attempt.
Claimable_Mutant(c) == row[c].status = "uploaded"

Claimable(c) == \/ row[c].status = "uploaded"
                \/ row[c].status = "analyzing" /\ row[c].started_at <= aged

ClaimAttempt(w) ==
    /\ owner = w /\ wk[w].pc = "idle" /\ ready # <<>>
    /\ Claimable(Head(ready))
    /\ claims' = claims + 1
    /\ row' = [row EXCEPT ![Head(ready)] =
                 [@ EXCEPT !.status = "analyzing", !.started_at = claims + 1]]
    /\ wk' = [wk EXCEPT ![w] = [pc |-> "download", c |-> Head(ready),
                                att |-> claims + 1]]
    /\ UNCHANGED <<object, callers, ready, owner, aged, analyses, outside>>

\* download_file and analyze: other bytes, or none, are a terminal error, and
\* so may be a capture TShark cannot handle.
Analyze(w) ==
    /\ wk[w].pc = "download"
    /\ \/ object = "good" /\ Step(w, "verify")
       \/ Step(w, "fail")
    /\ UNCHANGED <<row, object, callers, ready, owner, attempts, analyses,
                   outside>>

\* Mutant: the row is marked analyzed before the event is published.
MarkVerified_Mutant(w) ==
    /\ wk[w].pc = "verify"
    /\ IF Owns(w)
       THEN /\ row' = [row EXCEPT ![wk[w].c].verified = TRUE]
            /\ Step(w, "mark")
       ELSE Die(w) /\ UNCHANGED row
    /\ UNCHANGED <<object, callers, ready, owner, attempts, analyses, outside>>

\* mark_verified; an attempt that lost the row raises AnalyzerConsistencyError.
MarkVerified(w) ==
    /\ wk[w].pc = "verify"
    /\ IF Owns(w)
       THEN /\ row' = [row EXCEPT ![wk[w].c].verified = TRUE]
            /\ Step(w, "publish")
       ELSE Die(w) /\ UNCHANGED row
    /\ UNCHANGED <<object, callers, ready, owner, attempts, analyses, outside>>

PublishAnalysis(w) ==
    /\ wk[w].pc = "publish"
    /\ analyses' = analyses \cup {wk[w].c}
    /\ Step(w, "mark")
    /\ UNCHANGED <<row, object, callers, ready, owner, attempts, outside>>

MarkAnalyzed(w) ==
    /\ wk[w].pc = "mark"
    /\ IF Owns(w)
       THEN /\ row' = [row EXCEPT ![wk[w].c] =
                         [@ EXCEPT !.status = "analyzed", !.verified = TRUE]]
            /\ Step(w, "ack")
       ELSE Die(w) /\ UNCHANGED row
    /\ UNCHANGED <<object, callers, ready, owner, attempts, analyses, outside>>

MarkFailed(w) ==
    /\ wk[w].pc = "fail"
    /\ IF Owns(w)
       THEN /\ row' = [row EXCEPT ![wk[w].c].status = "failed"]
            /\ Step(w, "ack")
       ELSE Die(w) /\ UNCHANGED row
    /\ UNCHANGED <<object, callers, ready, owner, attempts, analyses, outside>>

\* Commit the offset; a worker that lost the partition is fenced and exits.
Acknowledge(w) ==
    /\ wk[w].pc = "ack"
    /\ ready' = IF owner = w THEN Tail(ready) ELSE ready
    /\ Die(w)
    /\ UNCHANGED <<row, object, callers, owner, attempts, analyses, outside>>

\* A transient failure: release_attempt, then exit.
ReleaseAttempt(w) ==
    /\ wk[w].pc \in {"download", "verify", "publish", "mark"}
    /\ faults < MaxFaults
    /\ faults' = faults + 1
    /\ row' = IF Owns(w) THEN [row EXCEPT ![wk[w].c].status = "uploaded"]
                         ELSE row
    /\ Die(w)
    /\ UNCHANGED <<object, callers, ready, owner, attempts, analyses, offered,
                   puts>>

\* The process is killed, or release_attempt fails too.
WorkerCrash(w) ==
    /\ wk[w].pc # "idle"
    /\ faults < MaxFaults
    /\ faults' = faults + 1
    /\ Die(w)
    /\ UNCHANGED <<row, object, callers, ready, owner, attempts, analyses,
                   offered, puts>>

\* The group moves the partition to a worker that polls; the former owner goes
\* on with the message it holds.
Rebalance(w) ==
    /\ owner # w /\ wk[w].pc = "idle"
    /\ faults < MaxFaults
    /\ faults' = faults + 1
    /\ owner' = w
    /\ UNCHANGED <<row, object, callers, ready, wk, attempts, analyses,
                   offered, puts>>

\* Time passes: the oldest fresh attempt crosses the staleness threshold.
Age ==
    /\ aged < claims
    /\ aged' = aged + 1
    /\ UNCHANGED <<row, object, callers, ready, owner, wk, claims, analyses,
                   outside>>

\* A client sends bytes to a presigned URL it was given.
Put(bytes) ==
    /\ offered /\ puts < MaxPuts
    /\ puts' = puts + 1
    /\ object' = bytes
    /\ UNCHANGED <<row, callers, ready, analyzer, offered, faults>>

-----------------------------------------------------------------------------
RequestStep(r) ==
    \/ CreateHead(r) \/ CreateInsert(r) \/ CreateReplay(r)
    \/ CompleteHead(r) \/ CompleteCommit(r)
    \/ RetryCommit(r) \/ RetryReload(r)
    \/ CleanupDelete(r) \/ CleanupCommit(r)
    \/ Publish(r)

RequestBegin(r, c) ==
    \/ CreateLock(r, c) \/ CompleteLoad(r, c)
    \/ RetryLoad(r, c) \/ CleanupLock(r, c)

ReconcileStep ==
    \/ ReconcileLoad \/ ReconcileCommit \/ ReconcileEnd
    \/ \E c \in Captures : ReconcileHead(c) \/ ReconcilePublish(c)

WorkerStep(w) ==
    \/ LoadSettled(w) \/ ClaimAttempt(w) \/ Analyze(w) \/ MarkVerified(w)
    \/ PublishAnalysis(w) \/ MarkAnalyzed(w) \/ MarkFailed(w) \/ Acknowledge(w)

Next ==
    \/ \E r \in Requests : \/ RequestStep(r) \/ RequestFails(r)
                           \/ \E c \in Captures : RequestBegin(r, c)
    \/ ReconcileStep \/ ReconcileFails
    \/ \E w \in Workers : \/ WorkerStep(w) \/ ReleaseAttempt(w)
                          \/ WorkerCrash(w) \/ Rebalance(w)
    \/ Age
    \/ \E bytes \in Contents \ {"absent"} : Put(bytes)

Spec == Init /\ [][Next]_vars

\* Running requests go on, workers are restarted and poll, and time passes.
\* Nobody is obliged to call the API, to upload, to run a command, or to fail.
Fairness ==
    /\ \A r \in Requests : WF_vars(RequestStep(r))
    /\ \A w \in Workers : WF_vars(WorkerStep(w))
    /\ WF_vars(Age)

FairSpec == Spec /\ Fairness

-----------------------------------------------------------------------------
(* Properties *)

RequestPcs == {"new", "head", "insert", "replay", "complete_head",
               "complete_commit", "publish", "retry_commit", "retry_load",
               "delete", "mark_deleted", "owed", "done"}
WorkerPcs == {"idle", "download", "verify", "publish", "mark", "fail", "ack"}
RequestState == [pc : RequestPcs, c : Captures \cup {None}, snap : Row,
                 refs : SUBSET Captures]
WorkerState == [pc : WorkerPcs, c : Captures \cup {None}, att : Nat]
ReconcileState ==
    [pc : {"idle", "head", "publish", "owed"},
     due : SUBSET Captures, undeleted : SUBSET Captures,
     expire : SUBSET Captures, upload : SUBSET Captures, pub : SUBSET Captures]

\* Every variable has the shape the code gives it.
TypeOK ==
    /\ row \in [Captures -> Row]
    /\ object \in Contents
    /\ lock \in Requests \cup {None}
    /\ rq \in [Requests -> RequestState]
    /\ rec \in ReconcileState
    /\ ready \in Seq(Captures)
    /\ owner \in Workers
    /\ wk \in [Workers -> WorkerState]
    /\ claims \in Nat /\ aged \in Nat
    /\ analyses \subseteq Captures
    /\ offered \in BOOLEAN /\ puts \in Nat /\ faults \in Nat

\* Some publisher has yet to send a ready event for c, or failed to.
Owed(c) ==
    \/ \E r \in Requests : /\ rq[r].c = c
                           /\ rq[r].pc \in {"publish", "retry_load", "owed"}
    \/ rec.pc # "idle" /\ c \in rec.pub

\* No dispatchable capture is forgotten: whenever a row says uploaded or
\* analyzing, a ready event for it is still unacknowledged, or whoever made it
\* dispatchable has yet to publish (or failed, and reported it).  So no
\* acknowledgement in process_next drops work that a concurrent complete,
\* retry or reconcile has just asked for.
NoLostWork ==
    \A c \in Captures :
        row[c].status \in Dispatchable =>
            \/ \E i \in 1..Len(ready) : ready[i] = c
            \/ Owed(c)

\* A capture is marked analyzed only after its analysis event is in the topic
\* (publish_analysis before mark_analyzed), in every interleaving of attempts.
AnalyzedWasPublished ==
    \A c \in Captures : row[c].status = "analyzed" => c \in analyses

\* The outcome of an analysis is recorded only for the newest attempt: an
\* attempt that was taken over never marks the row analyzed or failed.
OutcomeOfNewestAttempt ==
    [][\A w \in Workers :
          wk[w].pc \in {"mark", "fail"} /\ wk'[w].pc = "ack"
             => \A v \in Workers :
                   wk[v].c = wk[w].c => wk[v].att <= wk[w].att]_vars

\* A new row that skips the upload (a verified copy exists) has its object in
\* the store when it is inserted: cleanup cannot slip in after the HEAD.
ReuseHasObject ==
    [][\A c \in Captures :
          row[c].status = "none" /\ row'[c].status = "uploaded"
             => object # "absent"]_vars

\* Once its ready event is published, an uploaded or analyzing capture is
\* eventually settled by the workers alone, with no help from an operator,
\* provided crashes, rebalances and transient failures stop: stale claims are
\* taken over and no restart loop is endless.
EventuallySettled ==
    \A c \in Captures :
        row[c].status \in Dispatchable /\ ~Owed(c)
            ~> row[c].status \in Terminal

\* docs/network/README.md:139: expired is entered from pending_upload only.
ExpiredOnlyFromPending ==
    [][\A c \in Captures :
          row[c].status # "expired" /\ row'[c].status = "expired"
             => row[c].status = "pending_upload"]_vars

\* network/__main__.py:31: cleanup will "safely remove one terminal raw
\* object": no capture is being brought back when the object goes.
CleanupRemovesTerminalObject ==
    [][object # "absent" /\ object' = "absent"
          => \A c \in Captures : row[c].status \notin Dispatchable]_vars

=============================================================================
