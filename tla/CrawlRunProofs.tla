--------------------------- MODULE CrawlRunProofs ---------------------------
(***************************************************************************)
(* What a run and its tasks say agrees, for any number of applications,    *)
(* runs, workers, attempts and faults.  The argument: threads work only    *)
(* while crawl_once collects their results, on tasks of the current run,   *)
(* and a task that is finished stays finished; so when every thread has    *)
(* returned normally no task of the run is open.                           *)
(***************************************************************************)
EXTENDS CrawlRun, TLAPS

\* Threads work only while crawl_once waits for them, and then the run is active;
\* nothing works while the deployment has the crawler stopped.
ThreadsInside ==
    /\ deploy = "stopped" => main = "down"
    /\ \A a \in Apps : ~Finished(a) => main = "collect"
    /\ main \notin {"down", "idle"} => run[current] = "running"

\* A run has no tasks before create_tasks.
NoTasksYet ==
    /\ \A ref \in Refs : run[ref[1]] = "none" => task[ref] = "none"
    /\ main \in {"load", "create"} =>
          \A ref \in Refs : ref[1] = current => task[ref] = "none"

\* A task of the current run that no thread will touch again.
Settled(a, t) == task[<<current, a, t>>] \notin Open

\* The steps of execute inside the with statement, while a task is worked on.
AtTask == {"begin", "request", "retry", "publish", "succeed", "fail", "failraise"}

\* What a thread has settled where it is: the details before the reviews, both
\* tasks before close and after a sweep that saw no exception.
ThreadProgress ==
    main = "collect" => \A a \in Apps :
        /\ pc[a] \in {"idle", "done", "close"} => \A t \in Types : Settled(a, t)
        /\ (pc[a] \in AtTask /\ op[a] = "reviews") => Settled(a, "app_details")
        /\ (pc[a] = "sweep" /\ op[a] = "reviews" /\ ~raising[a]) =>
               Settled(a, "app_details")
        /\ pc[a] = "succeed" => Ref(a) \in published
        /\ pc[a] \in {"queued", "open"} => op[a] = "app_details"

\* crawl_once derives the outcome of a run only when all its tasks are settled.
FinishSettled ==
    main = "finish" => \A a \in Apps, t \in Types : Settled(a, t)

\* The inductive invariant.
CrawlInv ==
    /\ TypeOK /\ ThreadsInside /\ NoTasksYet /\ ThreadProgress /\ FinishSettled
    /\ SucceededIsPublished /\ OutcomeAgrees

-----------------------------------------------------------------------------
\* Init establishes the invariant.
LEMMA CrawlInit == Init => CrawlInv
<1> SUFFICES ASSUME Init PROVE CrawlInv
  OBVIOUS
<1>1. TypeOK
  BY DEF Init, TypeOK, RunStatus, TaskStatus, Open, MainSteps, ThreadSteps,
         DeploySteps, Types
<1>2. \A ref \in Refs : task[ref] = "none" /\ ref[1] \in Runs /\ run[ref[1]] = "none"
  BY DEF Init, Refs
<1> QED
  BY <1>1, <1>2
  DEF Init, CrawlInv, ThreadsInside, NoTasksYet, ThreadProgress, FinishSettled,
      SucceededIsPublished, OutcomeAgrees, Finished, Open, Settled

-----------------------------------------------------------------------------
\* A transaction of a thread changes at most its own task, never reopens a
\* finished one, and makes one succeeded only in mark_task_succeeded.
LEMMA TransitionFacts ==
    ASSUME TypeOK, NEW ref \in Refs, NEW from \in SUBSET Open,
           NEW to \in {"running", "retrying", "succeeded", "failed"},
           Transition(ref, from, to) \/ TransitionRaises(ref, from)
    PROVE  /\ task' \in [Refs -> TaskStatus]
           /\ faults' \in Nat
           /\ \A x \in Refs : x # ref => task'[x] = task[x]
           /\ task[ref] \notin Open => task'[ref] = task[ref]
           /\ task'[ref] \in {task[ref], to}
           /\ Transition(ref, from, to) => task'[ref] = to /\ task[ref] \in Open
BY DEF Transition, TransitionRaises, CanFault, TypeOK, TaskStatus, Open

\* Going on to the next task, or escaping, moves one thread to a step of its own.
LEMMA NextFacts ==
    ASSUME TypeOK, NEW a \in Apps, NEW from \in ThreadSteps,
           NextTask(a, from) \/ Escape(a, from)
    PROVE  /\ pc' \in [Apps -> ThreadSteps] /\ op' \in [Apps -> Types]
           /\ tries' \in [Apps -> Nat] /\ raising' \in [Apps -> BOOLEAN]
           /\ pc[a] = from
           /\ \A b \in Apps \ {a} :
                 pc'[b] = pc[b] /\ op'[b] = op[b] /\ raising'[b] = raising[b]
<1>1. pc' \in [Apps -> ThreadSteps] /\ pc[a] = from /\ \A b \in Apps \ {a} : pc'[b] = pc[b]
  BY DEF NextTask, Escape, ThreadStep, TypeOK, ThreadSteps
<1>2. op' \in [Apps -> Types] /\ \A b \in Apps \ {a} : op'[b] = op[b]
  BY DEF NextTask, Escape, TypeOK, Types
<1>3. tries' \in [Apps -> Nat]
  BY DEF NextTask, Escape, TypeOK
<1>4. raising' \in [Apps -> BOOLEAN] /\ \A b \in Apps \ {a} : raising'[b] = raising[b]
  BY DEF NextTask, Escape, TypeOK
<1> QED
  BY <1>1, <1>2, <1>3, <1>4

\* A step of a thread concerns that thread, its own task and nothing else.
LEMMA ThreadFrame ==
    ASSUME TypeOK, ThreadsInside, NEW a \in Apps, Thread(a)
    PROVE  /\ Ref(a) \in Refs
           /\ main = "collect" /\ UNCHANGED mainVars
           /\ \A b \in Apps \ {a} :
                 pc'[b] = pc[b] /\ op'[b] = op[b] /\ raising'[b] = raising[b]
           /\ \A x \in Refs : x # Ref(a) => task'[x] = task[x]
           /\ task[Ref(a)] \notin Open => task'[Ref(a)] = task[Ref(a)]
           /\ task'[Ref(a)] = "succeeded" =>
                 task[Ref(a)] = "succeeded" \/ pc[a] = "succeed"
           /\ published \subseteq published'
           /\ TypeOK'
<1>0. Ref(a) \in Refs
  BY DEF Ref, Refs, TypeOK
<1>a. /\ {"pending", "retrying"} \subseteq Open /\ {"running"} \subseteq Open
      /\ Open \subseteq Open
  BY DEF Open
<1>1. CASE start_thread(a) \/ open_application(a) \/ refuse_operation(a) \/ request(a)
  <2>1. /\ UNCHANGED <<mainVars, task, published, op, tries, raising, faults>>
        /\ \E from \in {"queued", "open", "begin", "request"},
              to \in {"open", "begin", "sweep", "fail", "publish", "retry"} :
              ThreadStep(a, from, to)
    BY <1>1 DEF start_thread, open_application, refuse_operation, request
  <2> QED
    BY <2>1, <1>0 DEF ThreadStep, ThreadsInside, Finished, TypeOK, ThreadSteps, mainVars, deployVars
<1>2. CASE begin_attempt(a)
  <2>1. /\ task' \in [Refs -> TaskStatus]
        /\ faults' \in Nat
        /\ \A x \in Refs : x # Ref(a) => task'[x] = task[x]
        /\ task[Ref(a)] \notin Open => task'[Ref(a)] = task[Ref(a)]
        /\ task'[Ref(a)] \in {task[Ref(a)], "running"}
    BY <1>2, <1>0, <1>a, TransitionFacts DEF begin_attempt
  <2> QED
    BY <2>1, <1>0, <1>2
    DEF begin_attempt, ThreadStep, ThreadsInside, Finished, TypeOK, ThreadSteps, mainVars, deployVars
<1>3. CASE mark_retrying(a)
  <2>1. /\ task' \in [Refs -> TaskStatus]
        /\ faults' \in Nat
        /\ \A x \in Refs : x # Ref(a) => task'[x] = task[x]
        /\ task[Ref(a)] \notin Open => task'[Ref(a)] = task[Ref(a)]
        /\ task'[Ref(a)] \in {task[Ref(a)], "retrying"}
    BY <1>3, <1>0, <1>a, TransitionFacts DEF mark_retrying
  <2> QED
    BY <2>1, <1>0, <1>3
    DEF mark_retrying, ThreadStep, ThreadsInside, Finished, TypeOK, ThreadSteps, mainVars, deployVars
<1>4. CASE publish(a)
  BY <1>0, <1>4
  DEF publish, ThreadStep, ThreadsInside, Finished, TypeOK, ThreadSteps, mainVars, deployVars
<1>5. CASE mark_task_succeeded(a)
  <2>1. /\ task' \in [Refs -> TaskStatus]
        /\ faults' \in Nat
        /\ \A x \in Refs : x # Ref(a) => task'[x] = task[x]
        /\ task[Ref(a)] \notin Open => task'[Ref(a)] = task[Ref(a)]
    BY <1>5, <1>0, <1>a, TransitionFacts DEF mark_task_succeeded
  <2>2. NextTask(a, "succeed") \/ Escape(a, "succeed")
    BY <1>5 DEF mark_task_succeeded
  <2>3. UNCHANGED <<mainVars, published>>
    BY <1>5 DEF mark_task_succeeded
  <2> QED
    BY <2>1, <2>2, <2>3, <1>0, NextFacts
    DEF ThreadsInside, Finished, TypeOK, ThreadSteps, mainVars, deployVars
<1>6. CASE mark_expected_failure(a) \/ mark_unexpected_failure(a)
  <2>1. /\ task' \in [Refs -> TaskStatus]
        /\ faults' \in Nat
        /\ \A x \in Refs : x # Ref(a) => task'[x] = task[x]
        /\ task[Ref(a)] \notin Open => task'[Ref(a)] = task[Ref(a)]
        /\ task'[Ref(a)] \in {task[Ref(a)], "failed"}
    BY <1>6, <1>0, <1>a, TransitionFacts DEF mark_expected_failure, mark_unexpected_failure
  <2>2. \E from \in {"fail", "failraise"} : NextTask(a, from) \/ Escape(a, from)
    BY <1>6 DEF mark_expected_failure, mark_unexpected_failure
  <2>3. UNCHANGED <<mainVars, published>>
    BY <1>6 DEF mark_expected_failure, mark_unexpected_failure
  <2> QED
    BY <2>1, <2>2, <2>3, <1>0, NextFacts
    DEF ThreadsInside, Finished, TypeOK, ThreadSteps, mainVars, deployVars
<1>7. CASE close(a)
  BY <1>0, <1>7
  DEF close, Escape, ThreadStep, ThreadsInside, Finished, TypeOK, ThreadSteps, Types,
      mainVars, deployVars
<1>8. CASE fail_open_task(a)
  <2>1. /\ task' \in [Refs -> TaskStatus]
        /\ faults' \in Nat
        /\ \A x \in Refs : x # Ref(a) => task'[x] = task[x]
        /\ task[Ref(a)] \notin Open => task'[Ref(a)] = task[Ref(a)]
        /\ task'[Ref(a)] \in {task[Ref(a)], "failed"}
    BY <1>8, <1>0, <1>a, TransitionFacts DEF fail_open_task
  <2>2. raising' \in [Apps -> BOOLEAN] /\ \A b \in Apps \ {a} : raising'[b] = raising[b]
    BY <1>8 DEF fail_open_task, TypeOK
  <2>3. \E to \in {"sweep", "raised", "done"} : ThreadStep(a, "sweep", to)
    BY <1>8 DEF fail_open_task, TypeOK, Types
  <2> QED
    BY <2>1, <2>2, <2>3, <1>0, <1>8
    DEF fail_open_task, ThreadStep, ThreadsInside, Finished, TypeOK, ThreadSteps, Types,
        mainVars, deployVars
<1> QED
  BY <1>1, <1>2, <1>3, <1>4, <1>5, <1>6, <1>7, <1>8 DEF Thread

-----------------------------------------------------------------------------
\* A step of a thread keeps what every thread has settled.
LEMMA ThreadKeepsProgress ==
    ASSUME CrawlInv, NEW a \in Apps, Thread(a)
    PROVE  ThreadProgress'
<1> USE DEF CrawlInv
<1>0. /\ Ref(a) \in Refs /\ main = "collect" /\ current' = current
      /\ \A b \in Apps \ {a} :
            pc'[b] = pc[b] /\ op'[b] = op[b] /\ raising'[b] = raising[b]
      /\ \A x \in Refs : x # Ref(a) => task'[x] = task[x]
      /\ task[Ref(a)] \notin Open => task'[Ref(a)] = task[Ref(a)]
      /\ published \subseteq published'
  BY ThreadFrame DEF mainVars
<1>t. /\ pc \in [Apps -> ThreadSteps] /\ op \in [Apps -> Types]
      /\ raising \in [Apps -> BOOLEAN] /\ current \in Runs
  BY DEF TypeOK
<1>1. \A b \in Apps, t \in Types : Settled(b, t) => Settled(b, t)'
  BY <1>0, <1>t DEF Settled, Refs, Ref
<1>2. \A b \in Apps \ {a} : Ref(b)' = Ref(b)
  BY <1>0 DEF Ref
<1>3. ASSUME NEW b \in Apps \ {a}
      PROVE  /\ pc'[b] \in {"idle", "done", "close"} => \A t \in Types : Settled(b, t)'
             /\ (pc'[b] \in AtTask /\ op'[b] = "reviews") => Settled(b, "app_details")'
             /\ (pc'[b] = "sweep" /\ op'[b] = "reviews" /\ ~raising'[b]) =>
                   Settled(b, "app_details")'
             /\ pc'[b] = "succeed" => Ref(b)' \in published'
             /\ pc'[b] \in {"queued", "open"} => op'[b] = "app_details"
  BY <1>0, <1>1, <1>2 DEF ThreadProgress, Types
<1>p. /\ pc[a] \in {"idle", "done", "close"} => \A t \in Types : Settled(a, t)
      /\ (pc[a] \in AtTask /\ op[a] = "reviews") => Settled(a, "app_details")
      /\ (pc[a] = "sweep" /\ op[a] = "reviews" /\ ~raising[a]) => Settled(a, "app_details")
      /\ pc[a] = "succeed" => Ref(a) \in published
      /\ pc[a] \in {"queued", "open"} => op[a] = "app_details"
  BY <1>0 DEF ThreadProgress
<1>r. \A t \in Types : (t = op[a] /\ task'[Ref(a)] \notin Open) => Settled(a, t)'
  BY <1>0 DEF Settled, Ref
<1>4. /\ pc'[a] \in {"idle", "done", "close"} => \A t \in Types : Settled(a, t)'
      /\ (pc'[a] \in AtTask /\ op'[a] = "reviews") => Settled(a, "app_details")'
      /\ (pc'[a] = "sweep" /\ op'[a] = "reviews" /\ ~raising'[a]) =>
            Settled(a, "app_details")'
      /\ pc'[a] = "succeed" => Ref(a)' \in published'
      /\ pc'[a] \in {"queued", "open"} => op'[a] = "app_details"
  <2> USE DEF ThreadStep, AtTask
  <2>1. CASE start_thread(a) \/ open_application(a) \/ refuse_operation(a) \/ request(a)
    BY <2>1, <1>p, <1>1, <1>t
    DEF start_thread, open_application, refuse_operation, request, Types
  <2>2. CASE begin_attempt(a)
    BY <2>2, <1>p, <1>1, <1>t DEF begin_attempt, Types
  <2>3. CASE mark_retrying(a)
    BY <2>3, <1>p, <1>1, <1>t DEF mark_retrying, Types
  <2>4. CASE publish(a)
    <3>1. pc'[a] = "succeed" => Ref(a)' \in published'
      BY <2>4, <1>t DEF publish, Ref, mainVars
    <3> QED
      BY <2>4, <3>1, <1>p, <1>1, <1>t DEF publish, Types
  <2>5. CASE (mark_task_succeeded(a) /\ NextTask(a, "succeed"))
             \/ (mark_expected_failure(a) /\ NextTask(a, "fail"))
    <3>1. task'[Ref(a)] \notin Open
      BY <2>5, <1>0 DEF mark_task_succeeded, mark_expected_failure, Transition,
        TransitionRaises, Open, TypeOK, NextTask, Escape
    <3> QED
      BY <2>5, <3>1, <1>p, <1>1, <1>r, <1>t DEF NextTask, Types
  <2>6. CASE \E from \in ThreadSteps : Escape(a, from)
    BY <2>6, <1>t DEF Escape
  <2>7. CASE ThreadStep(a, "close", "done")
    BY <2>7, <1>p, <1>1, <1>t
  <2>8. CASE fail_open_task(a)
    <3>1. ~raising'[a] => ~raising[a] /\ task'[Ref(a)] \notin Open
      BY <2>8, <1>0, <1>t DEF fail_open_task, Transition, TransitionRaises, Open, TypeOK
    <3>2. op'[a] = "reviews" /\ pc[a] = "sweep"
      BY <2>8, <1>t DEF fail_open_task
    <3>3. pc'[a] = CASE op[a] = "app_details" -> "sweep"
                     [] op[a] = "reviews" /\ raising'[a] -> "raised"
                     [] OTHER -> "done"
      BY <2>8, <1>t DEF fail_open_task
    <3> QED
      BY <3>1, <3>2, <3>3, <1>p, <1>1, <1>r, <1>t DEF Types
  <2>9. /\ {"succeed", "fail", "failraise", "close"} \subseteq ThreadSteps
        /\ mark_task_succeeded(a) => NextTask(a, "succeed") \/ Escape(a, "succeed")
        /\ mark_expected_failure(a) => NextTask(a, "fail") \/ Escape(a, "fail")
        /\ mark_unexpected_failure(a) => Escape(a, "failraise")
        /\ close(a) => ThreadStep(a, "close", "done") \/ Escape(a, "close")
    BY DEF mark_task_succeeded, mark_expected_failure, mark_unexpected_failure, close,
           ThreadSteps
  <2> HIDE DEF ThreadStep
  <2> QED
    BY <2>1, <2>2, <2>3, <2>4, <2>5, <2>6, <2>7, <2>8, <2>9 DEF Thread
<1> QED
  BY <1>3, <1>4 DEF ThreadProgress

\* A step of a thread keeps the invariant: it works on an open task of the
\* active run, so nothing that was finished changes.
LEMMA ThreadKeeps ==
    ASSUME CrawlInv, NEW a \in Apps, Thread(a)
    PROVE  CrawlInv'
<1> USE DEF CrawlInv
<1>0. /\ Ref(a) \in Refs /\ main = "collect"
      /\ main' = main /\ run' = run /\ current' = current /\ deploy' = deploy
      /\ \A x \in Refs : x # Ref(a) => task'[x] = task[x]
      /\ task[Ref(a)] \notin Open => task'[Ref(a)] = task[Ref(a)]
      /\ task'[Ref(a)] = "succeeded" =>
            task[Ref(a)] = "succeeded" \/ pc[a] = "succeed"
      /\ published \subseteq published'
      /\ TypeOK'
  BY ThreadFrame DEF mainVars, deployVars
<1>1. ThreadProgress'
  BY ThreadKeepsProgress
<1>2. Ref(a)[1] = current /\ run[current] = "running"
  BY <1>0 DEF Ref, ThreadsInside
<1>3. ThreadsInside' /\ FinishSettled'
  BY <1>0 DEF ThreadsInside, FinishSettled
<1>4. NoTasksYet'
  BY <1>0, <1>2 DEF NoTasksYet
<1>5. SucceededIsPublished'
  BY <1>0 DEF SucceededIsPublished, ThreadProgress
<1>6. OutcomeAgrees'
  BY <1>0, <1>2 DEF OutcomeAgrees
<1> QED
  BY <1>0, <1>1, <1>3, <1>4, <1>5, <1>6

\* A step of crawl_once keeps the invariant.
LEMMA ServiceKeeps ==
    ASSUME CrawlInv, create_run \/ Service
    PROVE  CrawlInv'
<1> USE DEF CrawlInv
<1>t. /\ run \in [Runs -> RunStatus] /\ task \in [Refs -> TaskStatus]
      /\ current \in Runs
      /\ \A ref \in Refs : ref[1] \in Runs
      /\ \A a \in Apps, t \in Types : <<current, a, t>> \in Refs
  BY DEF TypeOK, Refs
<1>1. CASE create_run
  <2>1. TypeOK'
    BY <1>1 DEF create_run, DatabaseError, CanFault, TypeOK, RunStatus, MainSteps,
                threadVars
  <2>2. CASE UNCHANGED <<run, current, main>>
    BY <1>1, <2>1, <2>2
    DEF create_run, threadVars, ThreadsInside, NoTasksYet, ThreadProgress, FinishSettled,
        SucceededIsPublished, OutcomeAgrees, Finished, Settled, Ref
  <2>3. CASE \E r \in Runs : /\ run[r] = "none"
                             /\ run' = [run EXCEPT ![r] = "running"]
                             /\ current' = r
                             /\ main' = "load"
    <3>1. PICK r \in Runs : /\ run[r] = "none" /\ current' = r /\ main' = "load"
                            /\ run' = [run EXCEPT ![r] = "running"]
      BY <2>3
    <3>2. /\ task' = task /\ pc' = pc /\ published' = published
          /\ deploy' # "stopped"
      BY <1>1 DEF create_run, threadVars, ThreadsInside
    <3>3. /\ run'[r] = "running" /\ \A x \in Runs \ {r} : run'[x] = run[x]
          /\ \A a \in Apps : Finished(a)
      BY <1>1, <1>t, <3>1 DEF create_run, ThreadsInside
    <3> QED
      BY <2>1, <3>1, <3>2, <3>3, <1>t
      DEF ThreadsInside, NoTasksYet, ThreadProgress, FinishSettled,
          SucceededIsPublished, OutcomeAgrees, Finished
  <2> QED
    BY <1>1, <2>2, <2>3 DEF create_run
<1>2. CASE list_active_applications
  BY <1>2
  DEF list_active_applications, MainStep, threadVars, deployVars, TypeOK, MainSteps,
      ThreadsInside, NoTasksYet, ThreadProgress, FinishSettled, SucceededIsPublished,
      OutcomeAgrees, Finished, Settled, Ref
<1>3. CASE create_tasks
  <2>1. CASE main' = "fail"
    BY <1>3, <2>1
    DEF create_tasks, DatabaseError, CanFault, MainStep, threadVars, deployVars, TypeOK,
        MainSteps, ThreadsInside, NoTasksYet, ThreadProgress, FinishSettled,
        SucceededIsPublished, OutcomeAgrees, Finished, Settled, Ref
  <2>2. CASE main' = "collect"
    <3>1. PICK active \in SUBSET Apps :
             /\ task' = [ref \in Refs |-> IF ref[1] = current /\ ref[2] \in active
                                          THEN "pending" ELSE task[ref]]
             /\ pc' = [a \in Apps |-> IF a \in active THEN "queued" ELSE "idle"]
      BY <1>3, <2>2 DEF create_tasks, MainStep
    <3>2. /\ op' = [a \in Apps |-> "app_details"]
          /\ tries' = [a \in Apps |-> 0]
          /\ raising' = [a \in Apps |-> FALSE]
          /\ UNCHANGED <<faults, run, published, current, deployVars>>
          /\ main = "create"
      BY <1>3, <2>2 DEF create_tasks, MainStep
    <3>3. TypeOK'
      BY <3>1, <3>2, <2>2, <1>t
      DEF TypeOK, TaskStatus, Open, ThreadSteps, Types, MainSteps, deployVars
    <3>4. /\ \A ref \in Refs : ref[1] = current =>
                task[ref] = "none" /\ task'[ref] \in {"none", "pending"}
          /\ \A ref \in Refs : ref[1] # current => task'[ref] = task[ref]
          /\ run[current] = "running"
      BY <3>1, <3>2 DEF NoTasksYet, ThreadsInside
    <3>5. \A a \in Apps, t \in Types :
             pc'[a] = "idle" => task'[<<current, a, t>>] = "none"
      BY <3>1, <3>4, <1>t
    <3>6. ThreadsInside' /\ NoTasksYet' /\ FinishSettled'
      BY <3>1, <3>2, <3>4, <2>2, <1>t
      DEF ThreadsInside, NoTasksYet, FinishSettled, Finished, deployVars
    <3>7. ThreadProgress'
      BY <3>1, <3>2, <3>5, <1>t DEF ThreadProgress, Settled, AtTask, Open
    <3>8. SucceededIsPublished' /\ OutcomeAgrees'
      BY <3>2, <3>4, <1>t DEF SucceededIsPublished, OutcomeAgrees
    <3> QED
      BY <3>3, <3>6, <3>7, <3>8
  <2> QED
    BY <1>3, <2>1, <2>2 DEF create_tasks, MainStep
<1>4. CASE collect_results
  <2>1. /\ UNCHANGED <<run, task, published, current, threadVars, faults, deployVars>>
        /\ main = "collect" /\ main' \in {"fail", "finish"}
        /\ \A a \in Apps : Finished(a)
        /\ main' = "finish" => \A a \in Apps : pc[a] # "raised"
    BY <1>4 DEF collect_results, MainStep
  <2>2. main' = "finish" => \A a \in Apps, t \in Types : Settled(a, t)
    BY <2>1 DEF ThreadProgress, Finished
  <2> QED
    BY <2>1, <2>2
    DEF threadVars, deployVars, TypeOK, MainSteps, ThreadsInside, NoTasksYet,
        ThreadProgress, FinishSettled, SucceededIsPublished, OutcomeAgrees, Finished,
        Settled, Ref
<1>5. CASE finish_run \/ finish_failed
  <2>1. /\ UNCHANGED <<task, published, current, threadVars, deployVars>>
        /\ main \in {"finish", "fail"} /\ main' \in {"idle", "fail"}
        /\ faults' \in Nat
        /\ run' = run => faults' \in Nat
        /\ main' = "fail" => run' = run
    BY <1>5 DEF finish_run, finish_failed, MainStep, DatabaseError, CanFault, TypeOK
  <2>2. \/ run' = run
        \/ run' = [run EXCEPT ![current] = "failed"]
        \/ main = "finish" /\ run' = [run EXCEPT ![current] = RunOutcome(current)]
    BY <1>5 DEF finish_run, finish_failed, MainStep
  <2>3. RunOutcome(current) \in {"succeeded", "failed", "partially_failed"}
    BY DEF RunOutcome
  <2>4. /\ run' \in [Runs -> RunStatus]
        /\ \A r \in Runs : r # current => run'[r] = run[r]
        /\ run[current] = "running"
        /\ run'[current] \in {"running", "failed", "succeeded", "partially_failed"}
    BY <1>t, <2>1, <2>2, <2>3 DEF RunStatus, ThreadsInside
  <2>5. TypeOK'
    BY <2>1, <2>4 DEF TypeOK, MainSteps, threadVars, deployVars
  <2>6. \A ref \in Refs : (ref[1] = current /\ run'[current] = "succeeded") =>
           task[ref] \in {"none", "succeeded"}
    <3>1. RunOutcome(current) = "succeeded" => Statuses(current) \subseteq {"succeeded"}
      BY DEF RunOutcome
    <3>2. \A ref \in Refs : ref[1] = current => task[ref] \in Statuses(current) \cup {"none"}
      BY DEF Statuses
    <3> QED
      BY <3>1, <3>2, <2>2, <2>4, <1>t
  <2>7. \A ref \in Refs : (ref[1] = current /\ run'[current] = "partially_failed") =>
           task[ref] \notin Open
    <3>1. run'[current] = "partially_failed" =>
             \A a \in Apps, t \in Types : task[<<current, a, t>>] \notin Open
      BY <2>2, <2>4, <1>t DEF FinishSettled, Settled
    <3>2. \A ref \in Refs : ref = <<ref[1], ref[2], ref[3]>> /\ ref[2] \in Apps /\ ref[3] \in Types
      BY DEF Refs
    <3> QED
      BY <3>1, <3>2
  <2>8. OutcomeAgrees'
    BY <2>1, <2>4, <2>6, <2>7, <1>t DEF OutcomeAgrees
  <2>9. \A a \in Apps : Finished(a)
    BY <2>1 DEF ThreadsInside
  <2>10. ThreadsInside' /\ NoTasksYet'
    BY <2>1, <2>4, <2>9, <1>t DEF ThreadsInside, NoTasksYet, Finished, threadVars,
                                   deployVars
  <2>11. SucceededIsPublished' /\ ThreadProgress' /\ FinishSettled'
    BY <2>1 DEF SucceededIsPublished, ThreadProgress, FinishSettled
  <2> QED
    BY <2>5, <2>8, <2>10, <2>11
<1> QED
  BY <1>1, <1>2, <1>3, <1>4, <1>5 DEF Service

\* Crashes and the deployment leave the tables alone and kill the threads.
LEMMA OutsideKeeps ==
    ASSUME CrawlInv, crash \/ Deployment \/ UNCHANGED vars
    PROVE  CrawlInv'
<1> USE DEF CrawlInv
<1>1. CASE crash \/ stop_app
  <2>1. /\ UNCHANGED <<run, task, published, current, op, tries, raising>>
        /\ main' \in {"idle", "down"} /\ (deploy' = "stopped" => main' = "down")
        /\ pc' = [a \in Apps |-> "idle"]
    BY <1>1 DEF crash, stop_app, NoThreads, ThreadsInside, deployVars
  <2>2. TypeOK'
    BY <1>1, <2>1
    DEF crash, stop_app, CanFault, TypeOK, MainSteps, ThreadSteps, DeploySteps, deployVars
  <2> QED
    BY <2>1, <2>2
    DEF ThreadsInside, NoTasksYet, ThreadProgress, FinishSettled, SucceededIsPublished,
        OutcomeAgrees, Finished
<1>2. CASE wait_for_drain \/ final_check \/ UNCHANGED vars
  <2>1. UNCHANGED <<run, task, published, main, current, threadVars, faults>>
    BY <1>2 DEF wait_for_drain, final_check, vars
  <2>2. TypeOK'
    BY <1>2, <2>1
    DEF wait_for_drain, final_check, TypeOK, DeploySteps, threadVars, vars, deployVars
  <2>3. deploy' = "stopped" => main' = "down"
    BY <1>2 DEF wait_for_drain, final_check, vars, deployVars, ThreadsInside
  <2> QED
    BY <2>1, <2>2, <2>3
    DEF threadVars, ThreadsInside, NoTasksYet, ThreadProgress, FinishSettled,
        SucceededIsPublished, OutcomeAgrees, Finished, Settled, Ref
<1>3. CASE end_deployment
  <2>1. /\ UNCHANGED <<run, task, published, current, threadVars>>
        /\ main' \in {"idle", "down"}
        /\ TypeOK'
    BY <1>3 DEF end_deployment, TypeOK, MainSteps, DeploySteps, threadVars
  <2>2. main = "down" /\ \A a \in Apps : Finished(a)
    BY <1>3 DEF end_deployment, ThreadsInside
  <2> QED
    BY <1>3, <2>1, <2>2
    DEF end_deployment, threadVars, ThreadsInside, NoTasksYet, ThreadProgress,
        FinishSettled, SucceededIsPublished, OutcomeAgrees, Finished
<1> QED
  BY <1>1, <1>2, <1>3 DEF Deployment

-----------------------------------------------------------------------------
\* The invariant is inductive.
LEMMA CrawlNext == CrawlInv /\ [Next]_vars => CrawlInv'
BY ThreadKeeps, ServiceKeeps, OutsideKeeps DEF Next

\* In every reachable state the invariant holds.
LEMMA CrawlInvariant == Spec => []CrawlInv
BY CrawlInit, CrawlNext, PTL DEF Spec

\* Every variable keeps its type.
THEOREM TypeCorrect == Spec => []TypeOK
<1>1. CrawlInv => TypeOK
  BY DEF CrawlInv
<1> QED
  BY <1>1, CrawlInvariant, PTL

\* A task is succeeded only when Kafka acknowledged its events, through any
\* interleaving of threads, database errors, crashes and deployments.
THEOREM SucceededTasksArePublished == Spec => []SucceededIsPublished
<1>1. CrawlInv => SucceededIsPublished
  BY DEF CrawlInv
<1> QED
  BY <1>1, CrawlInvariant, PTL

\* The outcome written by finish_run agrees with the tasks, then and later.
THEOREM OutcomesAgree == Spec => []OutcomeAgrees
<1>1. CrawlInv => OutcomeAgrees
  BY DEF CrawlInv
<1> QED
  BY <1>1, CrawlInvariant, PTL

\* No task changes unless crawl_once is inside its run, which is then active.
THEOREM NoResultIsLate == Spec => NoLateResult
<1> DEFINE Late == \A ref \in Refs : task'[ref] # task[ref] =>
                      run[ref[1]] = "running" /\ main # "idle" /\ ref[1] = current
<1>1. CrawlInv /\ [Next]_vars => [Late]_vars
  <2> SUFFICES ASSUME CrawlInv, Next PROVE Late
    BY DEF vars
  <2>1. CASE \E a \in Apps : Thread(a)
    <3>1. PICK a \in Apps : Thread(a)
      BY <2>1
    <3>2. /\ main = "collect"
          /\ \A x \in Refs : x # Ref(a) => task'[x] = task[x]
      BY <3>1, ThreadFrame DEF CrawlInv
    <3> QED
      BY <3>2 DEF CrawlInv, ThreadsInside, Ref
  <2>2. CASE create_tasks
    <3>1. \A ref \in Refs : task'[ref] # task[ref] => ref[1] = current
      BY <2>2 DEF create_tasks, threadVars
    <3>2. main = "create"
      BY <2>2 DEF create_tasks, MainStep
    <3> QED
      BY <3>1, <3>2 DEF CrawlInv, ThreadsInside
  <2>3. CASE task' = task
    BY <2>3
  <2> QED
    BY <2>1, <2>2, <2>3
    DEF Next, Service, Deployment, create_run, list_active_applications, collect_results,
        finish_run, finish_failed, crash, wait_for_drain, final_check, stop_app,
        end_deployment
<1> QED
  BY <1>1, CrawlInvariant, PTL DEF Spec, NoLateResult

-----------------------------------------------------------------------------
\* From the final check on, the active runs are those created since.
StopInv ==
    /\ TypeOK
    /\ (deploy \in {"checked", "stopped"} /\ ~authorized) => active_crawls \subseteq fresh

\* Whatever the crawler does, final_check leaves only new runs to be interrupted.
LEMMA StopNext == CrawlInv /\ StopInv /\ [Next]_vars => StopInv'
<1> SUFFICES ASSUME CrawlInv, StopInv, [Next]_vars PROVE StopInv'
  OBVIOUS
<1>t. TypeOK' /\ run \in [Runs -> RunStatus] /\ current \in Runs
  BY CrawlNext DEF CrawlInv, TypeOK
<1>1. CASE create_run
  BY <1>1, <1>t DEF create_run, StopInv, active_crawls
<1>2. CASE finish_run \/ finish_failed
  <2>1. active_crawls' \subseteq active_crawls
    <3>1. RunOutcome(current) # "running"
      BY DEF RunOutcome
    <3> QED
      BY <1>2, <1>t, <3>1 DEF finish_run, finish_failed, active_crawls
  <2> QED
    BY <1>2, <1>t, <2>1 DEF finish_run, finish_failed, deployVars, StopInv
<1>3. CASE run' = run /\ UNCHANGED deployVars
  BY <1>3, <1>t DEF deployVars, StopInv, active_crawls
<1>4. CASE wait_for_drain
  BY <1>4, <1>t DEF wait_for_drain, StopInv, active_crawls
<1>5. CASE final_check
  BY <1>5, <1>t DEF final_check, StopInv, active_crawls
<1>6. CASE stop_app \/ end_deployment
  BY <1>6, <1>t DEF stop_app, end_deployment, StopInv, active_crawls
<1>7. ASSUME NEW a \in Apps, Thread(a) PROVE run' = run /\ UNCHANGED deployVars
  BY <1>7, ThreadFrame DEF CrawlInv, mainVars
<1>8. UNCHANGED vars => run' = run /\ UNCHANGED deployVars
  BY DEF vars
<1>9. list_active_applications \/ create_tasks \/ collect_results \/ crash =>
         run' = run /\ UNCHANGED deployVars
  BY DEF list_active_applications, create_tasks, collect_results, crash
<1> QED
  BY <1>1, <1>2, <1>3, <1>4, <1>5, <1>6, <1>7, <1>8, <1>9 DEF Next, Service, Deployment

\* A deployment without authorization interrupts only runs created after the
\* final look at crawl_runs.
THEOREM StopInterruptsOnlyFresh == Spec => []OnlyFreshInterrupted
<1>1. Init => StopInv
  BY CrawlInit DEF Init, StopInv, CrawlInv
<1>2. StopInv => OnlyFreshInterrupted
  BY DEF StopInv, OnlyFreshInterrupted
<1> QED
  BY <1>1, <1>2, StopNext, CrawlInvariant, PTL DEF Spec

=============================================================================
