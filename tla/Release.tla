------------------------------ MODULE Release ------------------------------
(***************************************************************************)
(* A production release: the launcher's recovery of lost containers and    *)
(* the playbook deploy.yml (release.yml, verify.yml and its rescue), with  *)
(* the tools release_containers.py and release_backup.py that it runs on   *)
(* the Docker host.  A release is a list of phases, each a loop over       *)
(* services; every docker command is a step, and between two of them the   *)
(* application writes, the backup timer runs and the host may go down.     *)
(***************************************************************************)
EXTENDS Integers, Sequences, FiniteSets

CONSTANTS Application,     \* application services, in the order of APPLICATION
          Observability,   \* observability services, in the order they are restarted in
          Hosts,           \* hosts a first release may find
          MaxWrites,       \* bound: writes of the application to a volume
          MaxFaults,       \* bound: commands that fail, and crashes
          MaxReleases      \* bound: releases

Elems(seq) == {seq[k] : k \in DOMAIN seq}

Databases == {"postgres", "kafka"}
Core == Databases \cup {"seaweedfs"}                   \* written by the application
Replaceable == <<"seaweedfs">> \o Observability         \* may get a new container
VOLUMES == <<"kafka">> \o Replaceable                   \* snapshotted while stopped
Persistent == Core \cup Elems(Observability)
Services == Persistent \cup Elems(Application)

\* What a volume holds: nothing, no database, or data of the installation the
\* release found ("old") or of one that it created ("new").
Volume(age, writes) == [age |-> age, writes |-> writes]
NoVolume == Volume("none", 0)
Empty == Volume("empty", 0)
Torn == Volume("torn", 0)            \* an archive of a volume that was in use

Found == [age : {"none", "empty", "old"}, writes : Nat]

ASSUME ConstantsAssumption ==
    /\ {MaxWrites, MaxFaults, MaxReleases} \subseteq Nat
    /\ Application \in Seq(Elems(Application)) /\ Observability \in Seq(Elems(Observability))
    /\ Elems(Application) \cap Persistent = {} /\ Elems(Observability) \cap Core = {}
    /\ \A h \in Hosts :
          /\ h.ctr \in [Services -> {"absent", "stopped", "running"}]
          /\ h.vol \in [Persistent -> Found]
          /\ \A s \in Persistent : h.ctr[s] # "absent" => h.vol[s] # NoVolume

VARIABLES ctr,       \* container of each service: absent, stopped or running
          vol,       \* named volume of each persistent service
          stale,     \* services whose container refers to a deleted image
          foreign,   \* services whose container does not mount its named volume
          image,     \* revision of the image of each application container
          schema,    \* revision the database was migrated to
          rel,       \* the release process
          bundle,    \* its backup bundle
          cold,      \* cold archive of each orphaned database volume
          job,       \* the backup timer's run: idle, dump, or started (postgres for it)
          faults

host == <<ctr, vol, stale, foreign, image, schema>>
vars == <<host, rel, bundle, cold, job, faults>>

NoBundle == [postgres |-> NoVolume, volumes |-> [s \in Elems(VOLUMES) |-> NoVolume],
             manifest |-> FALSE]

Idle(revision, outcome) ==
    [pc |-> "idle", todo |-> <<>>, revision |-> revision, outcome |-> outcome,
     maintenance |-> FALSE, dump |-> NoVolume, items |-> {}, running |-> {},
     stopped |-> {}, lost |-> {}, completed |-> FALSE, disturbed |-> FALSE]

Init ==
    /\ \E h \in Hosts : /\ ctr = h.ctr /\ vol = h.vol
                        /\ stale = h.stale /\ foreign = h.foreign
    /\ image = [a \in Elems(Application) |-> 0] /\ schema = 0
    /\ rel = Idle(0, "none")
    /\ bundle = NoBundle
    /\ cold = [s \in Databases |-> NoVolume]
    /\ job = "idle"
    /\ faults = 0

-----------------------------------------------------------------------------
\* Mutant: the dump is taken before the writers are stopped.
Phases_Mutant ==
    [recover |-> "build", build |-> "storage", storage |-> "drain", drain |-> "dump",
     dump |-> "stop", stop |-> "ensure", ensure |-> "gather", gather |-> "freeze",
     freeze |-> "copy", copy |-> "archive", archive |-> "seal", seal |-> "thaw",
     thaw |-> "remove_stale", remove_stale |-> "remove_persisted",
     remove_persisted |-> "reconcile", reconcile |-> "migrate", migrate |-> "start",
     start |-> "observe", observe |-> "verify"]

\* The phases of a release, each with the next one; the last is "verify".
Phases ==
    [recover |-> "build", build |-> "storage", storage |-> "drain", drain |-> "stop",
     stop |-> "ensure", ensure |-> "dump", dump |-> "gather", gather |-> "freeze",
     freeze |-> "copy", copy |-> "archive", archive |-> "seal", seal |-> "thaw",
     thaw |-> "remove_stale", remove_stale |-> "remove_persisted",
     remove_persisted |-> "reconcile", reconcile |-> "migrate", migrate |-> "start",
     start |-> "observe", observe |-> "verify"]

\* The services a phase goes through.
Work(pc) ==
    CASE pc \in {"recover", "ensure"} -> <<"postgres", "kafka">>
      [] pc \in {"stop", "remove_stale", "start"} -> Application
      [] pc \in {"freeze", "archive", "thaw"} -> VOLUMES
      [] pc = "remove_persisted" -> Replaceable
      [] pc = "observe" -> Observability
      [] pc \in {"storage", "reconcile"} -> <<"seaweedfs">>
      [] OTHER -> <<"release">>

At(pc) == rel.pc = pc /\ rel.todo # <<>>
Service == Head(rel.todo)
Popped == [rel EXCEPT !.todo = Tail(@)]

\* The loop over the services is done: the next phase, where the writers' stop
\* marks the start of the maintenance window.
Advance ==
    /\ rel.pc \in DOMAIN Phases \ {"thaw"} /\ rel.todo = <<>>
    /\ LET pc == Phases[rel.pc]
       IN  rel' = [rel EXCEPT !.pc = pc, !.todo = Work(pc),
                              !.maintenance = @ \/ pc = "stop"]
    /\ UNCHANGED <<host, bundle, cold, job, faults>>

\* A task fails: the rescue block stops the writers if maintenance has begun.
Abort(outcome) ==
    rel' = [rel EXCEPT !.pc = "rescue", !.outcome = outcome,
                       !.todo = IF rel.maintenance THEN Application ELSE <<>>]

Fault == faults < MaxFaults /\ faults' = faults + 1

Stop(s) == ctr' = [ctr EXCEPT ![s] = IF @ = "running" THEN "stopped" ELSE @]

\* compose up of an existing image creates the container and, when the named
\* volume is missing, an empty volume that the service initializes.
Up(s) ==
    /\ ctr' = [ctr EXCEPT ![s] = "running"]
    /\ vol' = IF s \in Persistent /\ vol[s] = NoVolume
              THEN [vol EXCEPT ![s] = Volume("new", 0)] ELSE vol
    /\ stale' = stale \ {s}

-----------------------------------------------------------------------------
\* The launcher starts a release, under its lock.
Begin ==
    /\ rel.pc = "idle" /\ rel.revision < MaxReleases
    /\ rel' = [Idle(rel.revision + 1, "none") EXCEPT
                  !.pc = "recover", !.todo = Work("recover"), !.disturbed = job = "started"]
    /\ bundle' = NoBundle
    /\ UNCHANGED <<host, cold, job, faults>>

Partner(s) == CHOOSE p \in Databases : p # s

\* containers finds the service's container, orphan_volume its named volume.
containers(s) == ctr[s] # "absent"
orphan_volume(s) == vol[s] # NoVolume

\* The container mounts its named volume.
verify_existing_persistent_mount(s) == s \notin foreign

\* checked_compose_service and validate_orphan_data: the volume holds a database
\* of this cluster and version.
validate_orphan_data(s) == vol[s].age \in {"old", "new"}

\* Mutant: what else the host has kept is not looked at.
NewInstall_Mutant(s) == TRUE

\* A missing volume is that of a new install: neither the other database nor
\* the capture store has left anything on the host.
NewInstall(s) ==
    ~orphan_volume(Partner(s)) /\ ~containers(Partner(s)) /\ ~orphan_volume("seaweedfs")

\* What recover_missing_database finds; ensure_infrastructure creates SeaweedFS
\* whenever it has no container.
recover_missing_database(s) ==
    IF containers(s)
    THEN IF verify_existing_persistent_mount(s) THEN "EXISTING" ELSE "UNSAFE"
    ELSE IF s \notin Databases THEN "NEW_INSTALL"
    ELSE IF ~orphan_volume(s) THEN IF NewInstall(s) THEN "NEW_INSTALL" ELSE "REFUSED"
    ELSE IF validate_orphan_data(s) THEN "ORPHAN" ELSE "INVALID"

\* cold_recovery_snapshot of an orphaned volume; the container is created next.
cold_recovery_snapshot(s) ==
    /\ cold[s] # vol[s]
    /\ cold' = [cold EXCEPT ![s] = vol[s]]
    /\ UNCHANGED <<host, rel, bundle, job, faults>>

\* The orphaned volume gets a container again.
Reattach(s) ==
    /\ cold[s] = vol[s]
    /\ Up(s)
    /\ rel' = Popped
    /\ UNCHANGED <<foreign, image, schema, bundle, cold, job, faults>>

\* The launcher's recover-missing, which leaves a new install and a stopped
\* container to the playbook, and ensure_infrastructure, which starts both.
EnsureInfrastructure ==
    LET s == Service
        status == recover_missing_database(s)
    IN  /\ At("recover") \/ At("storage") \/ At("ensure")
        /\ \/ status = "ORPHAN" /\ (cold_recovery_snapshot(s) \/ Reattach(s))
           \/ /\ status \in {"EXISTING", "NEW_INSTALL"}
              /\ IF rel.pc = "recover" THEN UNCHANGED <<ctr, vol, stale>>
                 ELSE IF status = "NEW_INSTALL" THEN Up(s)
                 ELSE ctr' = [ctr EXCEPT ![s] = "running"] /\ UNCHANGED <<vol, stale>>
              /\ rel' = Popped
              /\ UNCHANGED <<foreign, image, schema, bundle, cold, job, faults>>
           \/ /\ status \in {"UNSAFE", "INVALID", "REFUSED"} /\ Abort(status)
              /\ UNCHANGED <<host, bundle, cold, job, faults>>

\* The capacity checks, the pre-checkout dump and the build of the images.
Build ==
    /\ At("build")
    /\ rel' = Popped
    /\ UNCHANGED <<host, bundle, cold, job, faults>>

\* crawler_drain.py asks the database; active work ends the release as well (Raise).
Drain ==
    /\ At("drain")
    /\ IF ctr["postgres"] = "running" THEN rel' = Popped ELSE Abort("failed")
    /\ UNCHANGED <<host, bundle, cold, job, faults>>

\* stop_application, one docker stop per running container.
StopApplication ==
    /\ At("stop")
    /\ Stop(Service)
    /\ rel' = Popped
    /\ UNCHANGED <<vol, stale, foreign, image, schema, bundle, cold, job, faults>>

\* The second dump, after the readiness of both databases was checked.
Dump ==
    /\ At("dump")
    /\ IF \A s \in Databases : ctr[s] = "running"
       THEN rel' = [Popped EXCEPT !.dump = vol["postgres"]]
       ELSE Abort("failed")
    /\ UNCHANGED <<host, bundle, cold, job, faults>>

-----------------------------------------------------------------------------
\* gather: the volumes there are, each mounted by its container if it has one.
volume_path(s) == vol[s] # NoVolume
gather == {s \in Elems(VOLUMES) : volume_path(s)}

\* Mutant: a service that does not run is an error.
Gather_Mutant ==
    /\ At("gather")
    /\ IF \A s \in gather : s \notin foreign /\ ctr[s] = "running"
       THEN rel' = [Popped EXCEPT !.items = gather, !.running = gather]
       ELSE Abort("failed")
    /\ bundle' = NoBundle
    /\ UNCHANGED <<host, cold, job, faults>>

\* create_snapshot before anything is stopped: the services that run are noted,
\* the bundle is created.
Gather ==
    /\ At("gather")
    /\ IF \A s \in gather : s \notin foreign
       THEN rel' = [Popped EXCEPT !.items = gather,
                                  !.running = {s \in gather : ctr[s] = "running"}]
       ELSE Abort("failed")
    /\ bundle' = NoBundle
    /\ UNCHANGED <<host, cold, job, faults>>

\* Mutant: the services are not stopped.
Freeze_Mutant ==
    /\ At("freeze")
    /\ rel' = Popped
    /\ UNCHANGED <<host, bundle, cold, job, faults>>

\* A running service is stopped; it is remembered once docker stop has returned.
Freeze ==
    /\ At("freeze")
    /\ IF Service \in rel.running
       THEN Stop(Service) /\ rel' = [Popped EXCEPT !.stopped = @ \cup {Service}]
       ELSE rel' = Popped /\ UNCHANGED ctr
    /\ UNCHANGED <<vol, stale, foreign, image, schema, bundle, cold, job, faults>>

\* Mutant: the exception leaves the function, past the restart.
SnapshotRaises_Mutant ==
    /\ rel.pc \in {"freeze", "copy", "archive", "seal"} /\ rel.todo # <<>> /\ Fault
    /\ bundle' = NoBundle
    /\ Abort("failed")
    /\ UNCHANGED <<host, cold, job>>

\* An exception in the try block: a docker stop that reports an error, whether
\* or not the container has stopped, a full disk, a bad archive.
SnapshotRaises ==
    /\ rel.pc \in {"freeze", "copy", "archive", "seal"} /\ rel.todo # <<>> /\ Fault
    /\ \/ /\ rel.pc = "freeze" /\ Service \in rel.running
          /\ Stop(Service) \/ UNCHANGED ctr
          /\ rel' = [rel EXCEPT !.pc = "thaw", !.todo = Work("thaw"), !.lost = {Service}]
       \/ /\ rel.pc # "freeze" /\ UNCHANGED ctr
          /\ rel' = [rel EXCEPT !.pc = "thaw", !.todo = Work("thaw")]
    /\ UNCHANGED <<vol, stale, foreign, image, schema, bundle, cold, job>>

\* The verified dump becomes part of the bundle.
CopyDump ==
    /\ At("copy")
    /\ bundle' = [bundle EXCEPT !.postgres = rel.dump]
    /\ rel' = Popped
    /\ UNCHANGED <<host, cold, job, faults>>

\* make_tar: a volume that is in use gives no usable archive.
make_tar ==
    /\ At("archive")
    /\ bundle' = IF Service \in rel.items
                 THEN [bundle EXCEPT !.volumes[Service] =
                          IF ctr[Service] = "running" THEN Torn ELSE vol[Service]]
                 ELSE bundle
    /\ rel' = Popped
    /\ UNCHANGED <<host, cold, job, faults>>

\* backup_secrets, then the manifest as the last file.
Seal ==
    /\ At("seal")
    /\ bundle' = [bundle EXCEPT !.manifest = TRUE]
    /\ rel' = [Popped EXCEPT !.completed = TRUE]
    /\ UNCHANGED <<host, cold, job, faults>>

\* The finally block restarts what was stopped and collects the failures.
Thaw ==
    /\ At("thaw")
    /\ \/ /\ ctr' = IF Service \in rel.stopped THEN [ctr EXCEPT ![Service] = "running"] ELSE ctr
          /\ rel' = Popped /\ UNCHANGED faults
       \/ /\ Service \in rel.stopped /\ Fault /\ UNCHANGED ctr
          /\ rel' = [Popped EXCEPT !.lost = @ \cup {Service}]
    /\ UNCHANGED <<vol, stale, foreign, image, schema, bundle, cold, job>>

\* Its end: a failed restart raises before an incomplete bundle is removed.
ThawEnds ==
    /\ rel.pc = "thaw" /\ rel.todo = <<>>
    /\ LET failed == rel.stopped \cap rel.lost # {}
       IN  /\ IF rel.completed /\ ~failed
              THEN rel' = [rel EXCEPT !.pc = Phases["thaw"], !.todo = Work(Phases["thaw"])]
              ELSE Abort("failed")
           /\ bundle' = IF failed \/ rel.completed THEN bundle ELSE NoBundle
    /\ UNCHANGED <<host, cold, job, faults>>

-----------------------------------------------------------------------------
Remove(s) ==
    /\ ctr' = [ctr EXCEPT ![s] = "absent"] /\ stale' = stale \ {s}
    /\ rel' = Popped
    /\ UNCHANGED <<vol, foreign, image, schema>>

Stale(s) == s \in stale /\ ctr[s] # "absent"

\* remove_stale: application containers whose image is gone, if they are stopped.
remove_stale ==
    /\ At("remove_stale")
    /\ \/ ~Stale(Service) /\ rel' = Popped /\ UNCHANGED host
       \/ /\ Stale(Service)
          /\ IF ctr[Service] = "running" THEN Abort("failed") /\ UNCHANGED host
             ELSE Remove(Service)
    /\ UNCHANGED <<bundle, cold, job, faults>>

\* remove_stale_persisted: with the archive of its volume in the manifest, the
\* container of a deleted image is stopped, then removed.
remove_stale_persisted ==
    /\ At("remove_persisted")
    /\ \/ ~Stale(Service) /\ rel' = Popped /\ UNCHANGED host
       \/ /\ Stale(Service)
          /\ IF \/ ~bundle.manifest \/ bundle.volumes[Service] = NoVolume
                \/ Service \in foreign
             THEN Abort("failed") /\ UNCHANGED host
             ELSE IF ctr[Service] = "running"
             THEN Stop(Service) /\ UNCHANGED <<rel, vol, stale, foreign, image, schema>>
             ELSE Remove(Service)
    /\ UNCHANGED <<bundle, cold, job, faults>>

\* compose up of SeaweedFS after the snapshot and, at the end, of observability.
Reconcile ==
    /\ At("reconcile") \/ At("observe")
    /\ Up(Service)
    /\ rel' = Popped
    /\ UNCHANGED <<foreign, image, schema, bundle, cold, job, faults>>

\* Kafka is ready again; alembic upgrade head, the check of the head, the topics.
Migrate ==
    /\ At("migrate")
    /\ IF \A s \in Databases : ctr[s] = "running"
       THEN schema' = rel.revision /\ rel' = Popped
       ELSE Abort("failed") /\ UNCHANGED schema
    /\ UNCHANGED <<ctr, vol, stale, foreign, image, bundle, cold, job, faults>>

\* Mutant: without --force-recreate, an existing container is started again.
StartApplication_Mutant ==
    /\ At("start")
    /\ Up(Service)
    /\ image' = [image EXCEPT ![Service] = IF containers(Service) THEN @ ELSE rel.revision]
    /\ rel' = Popped
    /\ UNCHANGED <<foreign, schema, bundle, cold, job, faults>>

\* The application is recreated from the images of this revision.
StartApplication ==
    /\ At("start")
    /\ Up(Service)
    /\ image' = [image EXCEPT ![Service] = rel.revision]
    /\ rel' = Popped
    /\ UNCHANGED <<foreign, schema, bundle, cold, job, faults>>

\* verify.yml and verify: everything runs, the application from these images.
Verify ==
    /\ At("verify")
    /\ IF /\ \A s \in Services : ctr[s] = "running"
          /\ \A a \in Elems(Application) : image[a] = rel.revision
       THEN rel' = Idle(rel.revision, "verified") ELSE Abort("failed")
    /\ UNCHANGED <<host, bundle, cold, job, faults>>

-----------------------------------------------------------------------------
\* The rescue block: stop-app once the maintenance window was entered; its own
\* failure is ignored.
Rescue ==
    /\ rel.pc = "rescue"
    /\ \/ /\ rel.todo # <<>> /\ Stop(Service)
          /\ rel' = Popped /\ UNCHANGED faults
       \/ /\ rel.todo # <<>> /\ Fault /\ UNCHANGED ctr
          /\ rel' = [rel EXCEPT !.todo = <<>>]
       \/ /\ rel.todo = <<>> /\ UNCHANGED <<ctr, faults>>
          /\ rel' = Idle(rel.revision, rel.outcome)
    /\ UNCHANGED <<vol, stale, foreign, image, schema, bundle, cold, job>>

\* Any other command of the release fails; one that fails after its effect is
\* this step at the next command.
Raise ==
    /\ rel.pc \in (DOMAIN Phases \cup {"verify"}) \ {"freeze", "copy", "archive", "seal", "thaw"}
    /\ rel.todo # <<>> /\ Fault
    /\ Abort("failed")
    /\ UNCHANGED <<host, bundle, cold, job>>

\* The release process is killed, or the host goes down: no rescue, no finally.
\* Containers that were running come back (restart: unless-stopped).
Crash ==
    /\ rel.pc # "idle" /\ Fault
    /\ rel' = Idle(rel.revision, "crashed")
    /\ UNCHANGED <<host, bundle, cold, job>>

\* A running application container writes to a running service.
Write ==
    /\ \E a \in Elems(Application) : ctr[a] = "running"
    /\ \E s \in Core : /\ ctr[s] = "running" /\ vol[s].writes < MaxWrites
                       /\ vol' = [vol EXCEPT ![s].writes = @ + 1]
    /\ UNCHANGED <<ctr, stale, foreign, image, schema, rel, bundle, cold, job, faults>>

\* The backup timer: sahabino-postgres-backup starts a stopped database for the
\* dump and stops it afterwards.
BackupBegin ==
    /\ job = "idle" /\ ctr["postgres"] # "absent"
    /\ job' = IF ctr["postgres"] = "stopped" THEN "started" ELSE "dump"
    /\ ctr' = [ctr EXCEPT !["postgres"] = "running"]
    /\ rel' = [rel EXCEPT !.disturbed = @ \/ (rel.pc # "idle" /\ job' = "started")]
    /\ UNCHANGED <<vol, stale, foreign, image, schema, bundle, cold, faults>>

BackupEnd ==
    /\ job # "idle"
    /\ job' = "idle"
    /\ ctr' = [ctr EXCEPT !["postgres"] = IF job = "started" THEN "stopped" ELSE @]
    /\ UNCHANGED <<vol, stale, foreign, image, schema, rel, bundle, cold, faults>>

ReleaseStep ==
    \/ Advance \/ EnsureInfrastructure \/ Build \/ Drain \/ StopApplication \/ Dump
    \/ Gather \/ Freeze \/ CopyDump \/ make_tar \/ Seal \/ Thaw \/ ThawEnds
    \/ remove_stale \/ remove_stale_persisted \/ Reconcile \/ Migrate \/ StartApplication
    \/ Verify \/ Rescue

Next ==
    \/ Begin \/ ReleaseStep \/ SnapshotRaises \/ Raise \/ Crash
    \/ Write \/ BackupBegin \/ BackupEnd

Spec == Init /\ [][Next]_vars

\* A release that was begun goes on; nobody has to begin one.
FairSpec == Spec /\ WF_vars(ReleaseStep)

-----------------------------------------------------------------------------
Contents == [age : {"none", "empty", "old", "new"}, writes : Nat]
Outcomes == {"none", "failed", "crashed", "verified", "UNSAFE", "INVALID", "REFUSED"}

\* The types of the variables.
TypeOK ==
    /\ ctr \in [Services -> {"absent", "stopped", "running"}] /\ vol \in [Persistent -> Contents]
    /\ image \in [Elems(Application) -> Nat] /\ schema \in Nat
    /\ rel \in [pc : DOMAIN Phases \cup {"verify", "idle", "rescue"},
                todo : Seq(Services \cup {"release"}), revision : Nat, outcome : Outcomes,
                maintenance : BOOLEAN, dump : Contents, items : SUBSET Elems(VOLUMES),
                running : SUBSET Elems(VOLUMES), stopped : SUBSET Elems(VOLUMES),
                lost : SUBSET Elems(VOLUMES), completed : BOOLEAN, disturbed : BOOLEAN]
    /\ bundle \in [postgres : Contents, volumes : [Elems(VOLUMES) -> Contents \cup {Torn}],
                   manifest : BOOLEAN]
    /\ job \in {"idle", "dump", "started"}

\* The migration is the first change of the data that the release makes, and
\* everything the application had written until then is in its bundle: the
\* dump, taken before the snapshot, and the archives still say what the
\* volumes hold.
MigrationIsBackedUp ==
    At("migrate") =>
        /\ bundle.manifest /\ bundle.postgres = vol["postgres"]
        /\ \A s \in Core \ {"postgres"} : bundle.volumes[s] = vol[s]

\* A manifest vouches for the whole bundle, also after a crash or a failed
\* restart: the dump is there and every archive was taken while its service was
\* stopped.
ManifestMeansComplete ==
    bundle.manifest =>
        /\ bundle.postgres # NoVolume
        /\ \A s \in Elems(VOLUMES) :
              bundle.volumes[s] # Torn /\ (s \in Core => bundle.volumes[s] # NoVolume)

\* However a release ends, no application container runs an image of another
\* revision than the schema of the database.
CodeMatchesSchema ==
    \A a \in Elems(Application) : ctr[a] = "running" => image[a] = schema

\* Once create_snapshot is over, whichever of its steps raised, the services
\* it found running run, except those whose docker stop or docker start failed.
ThawsWhatItFroze ==
    rel.pc = "remove_stale" \/ (rel.pc = "rescue" /\ ~rel.completed) =>
        \A s \in rel.running \ rel.lost : ctr[s] = "running"

\* recover_missing_database never puts an empty database beside data that the
\* other one, or the capture store, has kept.
OneInstallation ==
    \A s \in Databases : vol[s].age = "new" => \A t \in Core : vol[t].age # "old"

\* The container of a database is never removed, that of another persistent
\* service only with its archive in a finished bundle; a database volume gets a
\* new container only after its content was archived; no running application
\* container is removed.
KeepsContainers ==
    [][\A s \in Services :
         /\ ctr[s] # "absent" /\ ctr'[s] = "absent" =>
               /\ s \notin Databases /\ ctr[s] = "stopped"
               /\ s \in Persistent => bundle.manifest /\ bundle.volumes[s] # NoVolume
         /\ ctr[s] = "absent" /\ ctr'[s] # "absent" /\ s \in Databases =>
               vol[s] \in {NoVolume, cold[s]}]_vars

\* Once nothing fails any more, a release of an installation with both
\* databases in place or recoverable is verified, whatever state the failed or
\* killed releases before it have left, unless the backup timer had to start
\* the database.
RetrySucceeds ==
    /\ rel.pc = "recover" /\ faults = MaxFaults
    /\ \A s \in Databases : validate_orphan_data(s)
    /\ ctr["postgres"] # "stopped" /\ foreign = {}
    ~> rel.outcome = "verified" \/ rel.disturbed
=============================================================================
