------------------------------ MODULE CrawlRun ------------------------------
(***************************************************************************)
(* A crawl: the scheduler starts a run, the crawler service loads the      *)
(* active applications, creates their tasks and crawls each application on *)
(* a thread of a bounded pool; every thread records what happens to its    *)
(* two tasks in transactions of its own; the service finishes the run.     *)
(* Beside it, a deployment drains the crawler and stops it.                *)
(*                                                                         *)
(*   src/sahabino/crawler/scheduler/scheduler.py        the tick           *)
(*   src/sahabino/crawler/application/executor.py       CrawlerService     *)
(*   src/sahabino/crawler/application/tasks.py          the threads        *)
(*   src/sahabino/crawler/infrastructure/persistence/   runs and tasks     *)
(*   deploy/ansible/tools/crawler_drain.py, release.yml the deployment     *)
(*                                                                         *)
(* Each transaction of the lifecycle repository is one step: it commits,   *)
(* or it raises (an illegal transition, or the database) and changes       *)
(* nothing.  The Play Store client is reduced to the hooks it calls and to *)
(* how an operation of it can end.                                         *)
(***************************************************************************)
EXTENDS Naturals, FiniteSets

CONSTANTS
    Apps,           \* the applications of the registry
    Runs,           \* the identities of crawl runs (a bound on their number)
    MaxWorkers,     \* max_concurrent_apps
    MaxAttempts,    \* attempts of one operation, the secondary's included
    FaultKinds,     \* the subset of {"database", "crash", "deploy"} that occurs
    MaxFaults       \* bound on database errors and crashes

ASSUME CrawlRunAssumption ==
    /\ MaxWorkers \in Nat \ {0}
    /\ MaxAttempts \in Nat \ {0}
    /\ MaxFaults \in Nat

(* CrawlTaskType, in the order the tasks of an application are executed. *)
Types == {"app_details", "reviews"}

Refs == Runs \X Apps \X Types

Open == {"pending", "running", "retrying"}

TaskStatus == Open \cup {"none", "succeeded", "failed"}

RunStatus == {"none", "running", "succeeded", "partially_failed", "failed"}

MainSteps == {"down", "idle", "load", "create", "collect", "finish", "fail"}

ThreadSteps ==
    {"idle", "queued", "open", "begin", "request", "retry", "publish", "succeed",
     "fail", "failraise", "close", "sweep", "done", "raised"}

DeploySteps == {"idle", "drained", "checked", "stopped"}

VARIABLES
    run,            \* crawl_runs: the status of each run
    task,           \* crawl_tasks: the status of each task
    published,      \* the tasks whose events Kafka has acknowledged in full
    main,           \* where the scheduler's thread is in crawl_once
    current,        \* the run it is in
    pc,             \* where the pool's thread of each application is
    op,             \* the task that thread is at
    tries,          \* attempts of that task
    raising,        \* whether execute() will end with an exception
    faults,         \* database errors and crashes so far
    deploy,         \* where the deployment is
    authorized,     \* interruption of active work was authorized
    fresh           \* history: the runs created since the final check

threadVars == <<pc, op, tries, raising>>
deployVars == <<deploy, authorized, fresh>>
vars == <<run, task, published, main, current, threadVars, faults, deployVars>>

TypeOK ==
    /\ run \in [Runs -> RunStatus]
    /\ task \in [Refs -> TaskStatus]
    /\ published \subseteq Refs
    /\ main \in MainSteps
    /\ current \in Runs
    /\ pc \in [Apps -> ThreadSteps]
    /\ op \in [Apps -> Types]
    /\ tries \in [Apps -> Nat]
    /\ raising \in [Apps -> BOOLEAN]
    /\ faults \in Nat
    /\ deploy \in DeploySteps
    /\ authorized \in BOOLEAN
    /\ fresh \subseteq Runs

Init ==
    /\ run = [r \in Runs |-> "none"]
    /\ task = [ref \in Refs |-> "none"]
    /\ published = {}
    /\ main = "idle"
    /\ current \in Runs
    /\ pc = [a \in Apps |-> "idle"]
    /\ op = [a \in Apps |-> "app_details"]
    /\ tries = [a \in Apps |-> 0]
    /\ raising = [a \in Apps |-> FALSE]
    /\ faults = 0
    /\ deploy = "idle"
    /\ authorized = FALSE
    /\ fresh = {}

-----------------------------------------------------------------------------
(* Transactions of the lifecycle repository.                               *)

CanFault(kind) == kind \in FaultKinds /\ faults < MaxFaults

(* A statement or the commit fails; transaction() rolls back and re-raises. *)
DatabaseError ==
    /\ CanFault("database")
    /\ faults' = faults + 1

(* The task that the thread of application a is at. *)
Ref(a) == <<current, a, op[a]>>

(* A transition of a task that the repository allows from the statuses in  *)
(* from: begin_attempt, mark_retrying, mark_task_succeeded and             *)
(* mark_task_failed differ only in these two arguments.                    *)
Transition(ref, from, to) ==
    /\ task[ref] \in from
    /\ task' = [task EXCEPT ![ref] = to]
    /\ UNCHANGED faults

(* The transaction raises instead: ValueError for a status outside from,   *)
(* otherwise an error of the database.                                     *)
TransitionRaises(ref, from) ==
    /\ task[ref] \notin from \/ CanFault("database")
    /\ faults' = IF task[ref] \notin from THEN faults ELSE faults + 1
    /\ UNCHANGED task

-----------------------------------------------------------------------------
(* The scheduler and the crawler service: run_scheduled_once, crawl_once.  *)

MainStep(from, to) ==
    /\ main = from
    /\ main' = to

(* A tick of the scheduler that finds _run_lock free: crawl_once creates   *)
(* the run, or its transaction raises and the tick is over.                *)
create_run ==
    /\ main = "idle"
    /\ \/ \E r \in Runs :
            /\ run[r] = "none"
            /\ run' = [run EXCEPT ![r] = "running"]
            /\ current' = r
            /\ main' = "load"
            /\ fresh' = fresh \cup {r}
            /\ UNCHANGED faults
       \/ /\ DatabaseError
          /\ UNCHANGED <<run, current, main, fresh>>
    /\ UNCHANGED <<task, published, threadVars, deploy, authorized>>

(* Mutant: a failing registry returns the run's id without finishing it. *)
list_active_applications_Mutant ==
    /\ \E to \in {"create", "idle"} : MainStep("load", to)
    /\ UNCHANGED <<run, task, published, current, threadVars, faults, deployVars>>

(* registry.list_active_applications(): loaded, or the registry fails. *)
list_active_applications ==
    /\ \E to \in {"create", "fail"} : MainStep("load", to)
    /\ UNCHANGED <<run, task, published, current, threadVars, faults, deployVars>>

(* All tasks of the active applications in one transaction; the threads    *)
(* are then submitted to the pool.                                         *)
create_tasks ==
    /\ \/ /\ MainStep("create", "collect")
          /\ \E active \in SUBSET Apps :
               /\ task' = [ref \in Refs |->
                             IF ref[1] = current /\ ref[2] \in active
                             THEN "pending" ELSE task[ref]]
               /\ pc' = [a \in Apps |-> IF a \in active THEN "queued" ELSE "idle"]
          /\ op' = [a \in Apps |-> "app_details"]
          /\ tries' = [a \in Apps |-> 0]
          /\ raising' = [a \in Apps |-> FALSE]
          /\ UNCHANGED faults
       \/ /\ MainStep("create", "fail")
          /\ DatabaseError
          /\ UNCHANGED <<task, threadVars>>
    /\ UNCHANGED <<run, published, current, deployVars>>

Finished(a) == pc[a] \in {"idle", "done", "raised"}

(* Mutant: the exceptions of the futures are not looked at. *)
collect_results_Ignores ==
    /\ \A a \in Apps : Finished(a)
    /\ MainStep("collect", "finish")
    /\ UNCHANGED <<run, task, published, current, threadVars, faults, deployVars>>

(* Mutant: the first exception ends the wait for the other threads. *)
collect_results_Hasty ==
    /\ \A a \in Apps : Finished(a) \/ \E b \in Apps : pc[b] = "raised"
    /\ MainStep("collect", IF \E a \in Apps : pc[a] = "raised" THEN "fail" ELSE "finish")
    /\ UNCHANGED <<run, task, published, current, threadVars, faults, deployVars>>

(* future.result() of every future, and the exit of the with statement,    *)
(* which waits for the pool even when a future has raised.                 *)
collect_results ==
    /\ \A a \in Apps : Finished(a)
    /\ MainStep("collect", IF \E a \in Apps : pc[a] = "raised" THEN "fail" ELSE "finish")
    /\ UNCHANGED <<run, task, published, current, threadVars, faults, deployVars>>

Statuses(r) == {task[ref] : ref \in {x \in Refs : x[1] = r}} \ {"none"}

(* finish_run without a forced status. *)
RunOutcome(r) ==
    CASE Statuses(r) \subseteq {"succeeded"} -> "succeeded"
      [] Statuses(r) = {"failed"} -> "failed"
      [] OTHER -> "partially_failed"

(* finish_run at the end of crawl_once; a transaction that raises takes    *)
(* the path of a failed run.                                               *)
finish_run ==
    /\ \/ /\ MainStep("finish", "idle")
          /\ run' = [run EXCEPT ![current] = RunOutcome(current)]
          /\ UNCHANGED faults
       \/ /\ MainStep("finish", "fail")
          /\ DatabaseError
          /\ UNCHANGED run
    /\ UNCHANGED <<task, published, current, threadVars, deployVars>>

(* _finish_failed_preserving: the run is forced to FAILED; when that       *)
(* raises too the run is left as it is.                                    *)
finish_failed ==
    /\ MainStep("fail", "idle")
    /\ \/ /\ run' = [run EXCEPT ![current] = "failed"]
          /\ UNCHANGED faults
       \/ /\ DatabaseError
          /\ UNCHANGED run
    /\ UNCHANGED <<task, published, current, threadVars, deployVars>>

-----------------------------------------------------------------------------
(* ApplicationCrawlCommand.execute, on a thread of the pool.               *)

mainVars == <<run, main, current, deployVars>>

ThreadStep(a, from, to) ==
    /\ pc[a] = from
    /\ pc' = [pc EXCEPT ![a] = to]

Busy == {a \in Apps : ~Finished(a) /\ pc[a] # "queued"}

(* The pool gives the command a thread. *)
start_thread(a) ==
    /\ Cardinality(Busy) < MaxWorkers
    /\ ThreadStep(a, "queued", "open")
    /\ UNCHANGED <<mainVars, task, published, op, tries, raising, faults>>

(* open_application leases an egress, or raises ProxyUnavailable. *)
open_application(a) ==
    /\ \E to \in {"begin", "sweep"} : ThreadStep(a, "open", to)
    /\ UNCHANGED <<mainVars, task, published, op, tries, raising, faults>>

(* get_app or get_reviews ends in a CrawlerError before its first attempt: *)
(* the circuit is open, or no egress could replace an unusable one.        *)
refuse_operation(a) ==
    /\ tries[a] = 0
    /\ ThreadStep(a, "begin", "fail")
    /\ UNCHANGED <<mainVars, task, published, op, tries, raising, faults>>

(* The hook before_attempt. *)
begin_attempt(a) ==
    /\ \/ /\ ThreadStep(a, "begin", "request")
          /\ Transition(Ref(a), {"pending", "retrying"}, "running")
          /\ tries' = [tries EXCEPT ![a] = @ + 1]
       \/ /\ ThreadStep(a, "begin", "failraise")
          /\ TransitionRaises(Ref(a), {"pending", "retrying"})
          /\ UNCHANGED tries
    /\ UNCHANGED <<mainVars, published, op, raising>>

(* One attempt: a result, a final CrawlerError, or an error after which    *)
(* the client tries again.                                                 *)
request(a) ==
    /\ \/ ThreadStep(a, "request", "publish")
       \/ ThreadStep(a, "request", "fail")
       \/ tries[a] < MaxAttempts /\ ThreadStep(a, "request", "retry")
    /\ UNCHANGED <<mainVars, task, published, op, tries, raising, faults>>

(* The hook before_retry. *)
mark_retrying(a) ==
    /\ \/ /\ ThreadStep(a, "retry", "begin")
          /\ Transition(Ref(a), {"running"}, "retrying")
       \/ /\ ThreadStep(a, "retry", "failraise")
          /\ TransitionRaises(Ref(a), {"running"})
    /\ UNCHANGED <<mainVars, published, op, tries, raising>>

(* Mutant: events that are queued but not acknowledged count as published. *)
publish_Mutant(a) ==
    /\ \/ /\ ThreadStep(a, "publish", "succeed")
          /\ published' \in {published, published \cup {Ref(a)}}
       \/ /\ \E to \in {"fail", "failraise"} : ThreadStep(a, "publish", to)
          /\ published' \in {published, published \cup {Ref(a)}}
    /\ UNCHANGED <<mainVars, task, op, tries, raising, faults>>

(* publish_app_stats or publish_reviews: everything is acknowledged; or    *)
(* the producer fails (a CrawlerError) or something else raises, with some *)
(* or all of the events sent.                                              *)
publish(a) ==
    /\ \/ /\ ThreadStep(a, "publish", "succeed")
          /\ published' = published \cup {Ref(a)}
       \/ /\ \E to \in {"fail", "failraise"} : ThreadStep(a, "publish", to)
          /\ published' \in {published, published \cup {Ref(a)}}
    /\ UNCHANGED <<mainVars, task, op, tries, raising, faults>>

(* The step after a task that was finished: the reviews, or close(). *)
NextTask(a, from) ==
    /\ ThreadStep(a, from, IF op[a] = "app_details" THEN "begin" ELSE "close")
    /\ op' = [op EXCEPT ![a] = "reviews"]
    /\ tries' = [tries EXCEPT ![a] = 0]
    /\ UNCHANGED raising

(* An exception that is no CrawlerError leaves the with statement. *)
Escape(a, from) ==
    /\ ThreadStep(a, from, "sweep")
    /\ op' = [op EXCEPT ![a] = "app_details"]
    /\ raising' = [raising EXCEPT ![a] = TRUE]
    /\ UNCHANGED tries

(* _mark_succeeded, after publication; its exceptions escape. *)
mark_task_succeeded(a) ==
    /\ \/ NextTask(a, "succeed") /\ Transition(Ref(a), {"running"}, "succeeded")
       \/ Escape(a, "succeed") /\ TransitionRaises(Ref(a), {"running"})
    /\ UNCHANGED <<mainVars, published>>

(* _mark_expected_failure: the next task goes on; its exceptions escape. *)
mark_expected_failure(a) ==
    /\ \/ NextTask(a, "fail") /\ Transition(Ref(a), Open, "failed")
       \/ Escape(a, "fail") /\ TransitionRaises(Ref(a), Open)
    /\ UNCHANGED <<mainVars, published>>

(* _mark_unexpected_failure: marked or not, an exception escapes. *)
mark_unexpected_failure(a) ==
    /\ Escape(a, "failraise")
    /\ \/ Transition(Ref(a), Open, "failed")
       \/ TransitionRaises(Ref(a), Open)
    /\ UNCHANGED <<mainVars, published>>

(* client.close(): it releases the lease; closing the adapter may raise. *)
close(a) ==
    /\ \/ ThreadStep(a, "close", "done") /\ UNCHANGED <<op, tries, raising>>
       \/ Escape(a, "close")
    /\ UNCHANGED <<mainVars, task, published, faults>>

(* _fail_open_tasks, one task at a time: a task that is finished already   *)
(* (ValueError) is skipped, any other exception is kept and makes          *)
(* execute() raise.                                                        *)
fail_open_task(a) ==
    /\ \/ Transition(Ref(a), Open, "failed") /\ UNCHANGED raising
       \/ /\ TransitionRaises(Ref(a), Open)
          /\ raising' = [raising EXCEPT ![a] = @ \/ task[Ref(a)] \in Open]
    /\ ThreadStep(a, "sweep",
         CASE op[a] = "app_details" -> "sweep"
           [] op[a] = "reviews" /\ raising'[a] -> "raised"
           [] OTHER -> "done")
    /\ op' = [op EXCEPT ![a] = "reviews"]
    /\ UNCHANGED <<mainVars, published, tries>>

-----------------------------------------------------------------------------
(* Crashes and the deployment.                                             *)

NoThreads == pc' = [a \in Apps |-> "idle"]

(* The crawler process dies; its container is restarted. *)
crash ==
    /\ CanFault("crash")
    /\ main \notin {"down", "idle"}
    /\ main' = "idle"
    /\ NoThreads
    /\ faults' = faults + 1
    /\ UNCHANGED <<run, task, published, current, op, tries, raising, deployVars>>

(* What crawl_runs says is active, whoever started it. *)
active_crawls == {r \in Runs : run[r] = "running"}

(* wait_for_drain and what release.yml makes of its result: 0 (drained),   *)
(* 4 (no crawler and no active run: the final check is skipped), or 3      *)
(* (active runs after the timeout), which ends the deployment unless       *)
(* interruption is authorized.                                             *)
wait_for_drain ==
    /\ "deploy" \in FaultKinds
    /\ deploy = "idle"
    /\ \E allow \in BOOLEAN :
         /\ active_crawls = {} \/ allow
         /\ authorized' = allow
    /\ deploy' = IF main = "down" /\ active_crawls = {} THEN "checked" ELSE "drained"
    /\ fresh' = {}
    /\ UNCHANGED <<run, task, published, main, current, threadVars, faults>>

(* Mutant: the final check only looks at whether the crawler is up. *)
final_check_Mutant ==
    /\ deploy = "drained"
    /\ deploy' = "checked"
    /\ fresh' = {}
    /\ UNCHANGED <<run, task, published, main, current, threadVars, faults, authorized>>

(* final_check: the last look at crawl_runs before the writers stop. *)
final_check ==
    /\ deploy = "drained"
    /\ deploy' = IF active_crawls = {} \/ authorized THEN "checked" ELSE "idle"
    /\ fresh' = {}
    /\ UNCHANGED <<run, task, published, main, current, threadVars, faults, authorized>>

(* release_containers.py stop-app: the crawler's container stops. *)
stop_app ==
    /\ deploy = "checked"
    /\ deploy' = "stopped"
    /\ main' = "down"
    /\ NoThreads
    /\ UNCHANGED <<run, task, published, current, op, tries, raising, faults, authorized, fresh>>

(* The release starts the crawler again, or fails and leaves it stopped. *)
end_deployment ==
    /\ deploy = "stopped"
    /\ deploy' = "idle"
    /\ main' \in {"idle", "down"}
    /\ UNCHANGED <<run, task, published, current, threadVars, faults, authorized, fresh>>

-----------------------------------------------------------------------------
Thread(a) ==
    \/ start_thread(a)
    \/ open_application(a)
    \/ refuse_operation(a)
    \/ begin_attempt(a)
    \/ request(a)
    \/ mark_retrying(a)
    \/ publish(a)
    \/ mark_task_succeeded(a)
    \/ mark_expected_failure(a)
    \/ mark_unexpected_failure(a)
    \/ close(a)
    \/ fail_open_task(a)

Service ==
    \/ list_active_applications
    \/ create_tasks
    \/ collect_results
    \/ finish_run
    \/ finish_failed

Deployment ==
    \/ wait_for_drain
    \/ final_check
    \/ stop_app
    \/ end_deployment

Next ==
    \/ create_run
    \/ Service
    \/ \E a \in Apps : Thread(a)
    \/ crash
    \/ Deployment

Spec == Init /\ [][Next]_vars

(* A live process keeps executing: its main thread and every thread that   *)
(* the pool runs.                                                          *)
FairSpec ==
    /\ Spec
    /\ WF_vars(Service)
    /\ \A a \in Apps : WF_vars(Thread(a))

-----------------------------------------------------------------------------
(* A task is marked succeeded only when Kafka has acknowledged all its     *)
(* events: _run_details and _run_reviews mark it after publication, and    *)
(* nothing that sweeps up after a failure turns it back or marks another.  *)
SucceededIsPublished ==
    \A ref \in Refs : task[ref] = "succeeded" => ref \in published

(* What finish_run writes is what the tasks say, and stays true: a run     *)
(* that is succeeded has only succeeded tasks; a run that is partially     *)
(* failed has no task left open.                                           *)
OutcomeAgrees ==
    \A ref \in Refs :
        /\ run[ref[1]] = "succeeded" => task[ref] \in {"none", "succeeded"}
        /\ run[ref[1]] = "partially_failed" => task[ref] \notin Open

(* No thread outlives its run: once crawl_once, a crash or a stop has left *)
(* a run behind, none of its tasks changes.  The exit of the pool waits    *)
(* for every thread even when one of them has raised.                      *)
NoLateResult ==
    [][\A ref \in Refs : task'[ref] # task[ref] =>
          run[ref[1]] = "running" /\ main # "idle" /\ ref[1] = current]_vars

(* A deployment without authorization never interrupts a run that existed  *)
(* when final_check looked: what it stops was started after the check.     *)
OnlyFreshInterrupted ==
    deploy = "stopped" /\ ~authorized =>
        active_crawls \subseteq fresh

(* The deployment guide: "a final database check closes the stop race      *)
(* window" (deploy/ansible/README.md:453): without authorization the stop  *)
(* interrupts no active run.                                               *)
StopRaceWindowClosed ==
    deploy = "stopped" /\ ~authorized => active_crawls = {}

(* Every run is finished, whatever its threads run into: no exception of a *)
(* thread keeps crawl_once from finishing the run.                         *)
RunsFinish ==
    \A r \in Runs : run[r] = "running" ~> run[r] # "running"

=============================================================================
