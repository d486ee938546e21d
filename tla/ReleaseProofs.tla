--------------------------- MODULE ReleaseProofs ---------------------------
(***************************************************************************)
(* Proofs that a release keeps its safety properties whatever fails, for   *)
(* any services, hosts and numbers of writes, faults and releases.         *)
(***************************************************************************)
EXTENDS Release, TLAPS

Apps == Elems(Application)
Volumes == Elems(VOLUMES)

\* The phases by what holds in them: before the snapshot, inside its try block,
\* after it with the bundle in hand, and with the new application.
Early == {"recover", "build", "storage", "drain", "stop", "ensure", "dump"}
Snapshot == {"freeze", "copy", "archive", "seal"}
Backed == {"remove_stale", "remove_persisted", "reconcile", "migrate"}
Late == {"start", "observe", "verify"}
Taken == Snapshot \cup {"thaw"} \cup Backed
Quiet == {"ensure", "dump", "gather"} \cup Taken

\* The rest of a loop is a part of the services of its phase.
LoopsOverItsWork ==
    rel.todo \in Seq(IF rel.pc = "rescue" THEN Apps ELSE Elems(Work(rel.pc)))

\* A container has its volume, and the timer's database a container.
Mounted ==
    /\ \A s \in Persistent : ctr[s] # "absent" => vol[s] # NoVolume
    /\ job # "idle" => ctr["postgres"] # "absent"

\* No application container runs from stop_application to the migration.
AppsDown ==
    rel.pc \in {"stop"} \cup Quiet =>
        \A a \in Apps : ctr[a] = "running" => rel.pc = "stop" /\ a \in Elems(rel.todo)

\* The schema is this release's once alembic has run.
Migrated ==
    rel.pc \in Late \/ (rel.pc = "migrate" /\ rel.todo = <<>>) => schema = rel.revision

\* The capture store has a volume once ensure_infrastructure has been at it.
Stored ==
    rel.pc \in {"drain", "stop"} \cup Quiet \/ (rel.pc = "storage" /\ rel.todo = <<>>) =>
        vol["seaweedfs"] # NoVolume

\* The second dump still says what the database holds.
Dumped ==
    rel.pc \in {"gather"} \cup Taken \/ (rel.pc = "dump" /\ rel.todo = <<>>) =>
        rel.dump = vol["postgres"] /\ \A s \in Databases : vol[s] # NoVolume

\* What create_snapshot has gathered, and that it has gathered nothing before.
Gathered ==
    /\ rel.stopped \subseteq rel.running /\ rel.running \subseteq rel.items
    /\ rel.pc \in Early => rel.items = {} /\ rel.lost = {}
    /\ rel.pc \in {"gather"} \cup Snapshot => rel.lost = {}
    /\ rel.pc = "gather" => rel.stopped = {}
    /\ rel.pc \in Taken \/ (rel.pc = "gather" /\ rel.todo = <<>>) =>
          {"kafka", "seaweedfs"} \subseteq rel.items /\ \A s \in rel.items : vol[s] # NoVolume

\* How far the snapshot is: completed means that its manifest is written.
Completion ==
    /\ rel.pc # "idle" => bundle.manifest = rel.completed
    /\ rel.pc \in Early \cup {"gather", "freeze", "copy", "archive"} => ~rel.completed
    /\ rel.pc = "seal" /\ rel.todo = <<>> => rel.completed
    /\ rel.pc \in Backed \cup Late => rel.completed

\* A service of the snapshot that runs has yet to be stopped.
Frozen ==
    rel.pc \in {"gather"} \cup Snapshot =>
        \A s \in rel.items : ctr[s] = "running" =>
            /\ s \in rel.running
            /\ rel.pc = "gather" \/ (rel.pc = "freeze" /\ s \in Elems(rel.todo))

\* A service that was found running runs, is remembered to be restarted, or is
\* one whose docker stop or docker start failed.
Restartable ==
    /\ rel.pc \in {"gather"} \cup Snapshot =>
          \A s \in rel.running : ctr[s] = "running" \/ s \in rel.stopped
    /\ rel.pc = "thaw" =>
          \A s \in rel.running \ rel.lost :
              ctr[s] = "running" \/ (s \in rel.stopped /\ s \in Elems(rel.todo))
    /\ rel.pc \in {"gather", "thaw"} \cup Snapshot => \A s \in rel.running : ctr[s] # "absent"

\* The dump and the archives of the bundle as the snapshot goes on.
Archived ==
    /\ \A s \in Volumes : bundle.volumes[s] # Torn
    /\ (\/ rel.pc \in {"archive", "seal"} \/ (rel.pc = "copy" /\ rel.todo = <<>>)
        \/ (rel.completed /\ rel.pc \in {"thaw"} \cup Backed)) =>
          bundle.postgres = rel.dump
    /\ rel.pc = "archive" =>
          \A s \in rel.items : s \in Elems(rel.todo) \/ bundle.volumes[s] = vol[s]
    /\ rel.pc = "seal" \/ (rel.completed /\ rel.pc \in {"thaw"} \cup Backed) =>
          \A s \in rel.items : bundle.volumes[s] = vol[s]

\* What is about the host and the bundle alone, and the inductive invariant.
HostInv == TypeOK /\ Mounted /\ CodeMatchesSchema /\ OneInstallation /\ ManifestMeansComplete

ReleaseInv ==
    /\ HostInv /\ LoopsOverItsWork
    /\ AppsDown /\ Migrated /\ Stored /\ Dumped /\ Gathered /\ Completion
    /\ Frozen /\ Restartable /\ ThawsWhatItFroze /\ Archived


-----------------------------------------------------------------------------
\* A loop takes the first service that is left.
LEMMA HeadAndTail ==
    ASSUME NEW S, NEW q \in Seq(S), q # <<>>
    PROVE  /\ Head(q) \in S /\ Head(q) \in Elems(q) /\ Tail(q) \in Seq(S)
           /\ Elems(q) = {Head(q)} \cup Elems(Tail(q))
  <1>1. Len(q) \in Nat \ {0} /\ DOMAIN q = 1 .. Len(q)
    OBVIOUS
  <1>2. /\ Tail(q) \in Seq(S) /\ DOMAIN Tail(q) = 1 .. (Len(q) - 1)
        /\ \A k \in 1 .. (Len(q) - 1) : Tail(q)[k] = q[k + 1]
    BY <1>1
  <1>3. Head(q) = q[1] /\ Head(q) \in S
    BY <1>1
  <1>4. Head(q) \in Elems(q)
    BY <1>1, <1>3 DEF Elems
  <1>5. Elems(Tail(q)) \subseteq Elems(q)
    <2>1. ASSUME NEW k \in 1 .. (Len(q) - 1) PROVE Tail(q)[k] \in Elems(q)
      BY <1>1, <1>2, <2>1 DEF Elems
    <2> QED BY <2>1, <1>2 DEF Elems
  <1>6. ASSUME NEW k \in 1 .. Len(q) PROVE q[k] = Head(q) \/ q[k] \in Elems(Tail(q))
    <2>1. CASE k = 1
      BY <2>1, <1>3
    <2>2. CASE k # 1
      <3>1. k - 1 \in 1 .. (Len(q) - 1) /\ Tail(q)[k - 1] = q[k]
        BY <2>2, <1>1, <1>2
      <3> QED BY ZenonT(20), <3>1, <1>2 DEF Elems
    <2> QED BY <2>1, <2>2
  <1>7. Elems(q) \subseteq {Head(q)} \cup Elems(Tail(q))
    BY <1>1, <1>6 DEF Elems
  <1> QED BY <1>2, <1>3, <1>4, <1>5, <1>7

\* A loop over one service, and one that continues with others.
LEMMA OneMore ==
    ASSUME NEW a, NEW q, q \in Seq(Elems(q))
    PROVE  /\ <<a>> \o q \in Seq(Elems(<<a>> \o q))
           /\ Elems(<<a>> \o q) = {a} \cup Elems(q)
  <1> DEFINE r == <<a>> \o q
             S == {a} \cup Elems(q)
  <1>1. q \in Seq(S) /\ <<a>> \in Seq(S)
    OBVIOUS
  <1>2. Len(q) \in Nat /\ Len(r) = Len(q) + 1 /\ DOMAIN r = 1 .. (Len(q) + 1) /\ r \in Seq(S)
    BY <1>1
  <1>3. r[1] = a /\ \A k \in 1 .. Len(q) : r[k + 1] = q[k]
    BY <1>1
  <1>4. Elems(r) \subseteq S
    BY <1>2 DEF Elems
  <1>5. a \in Elems(r)
    BY <1>2, <1>3 DEF Elems
  <1>6. ASSUME NEW k \in 1 .. Len(q) PROVE q[k] \in Elems(r)
    <2>1. k + 1 \in DOMAIN r /\ r[k + 1] = q[k]
      BY <1>2, <1>3
    <2> QED BY ZenonT(20), <2>1 DEF Elems
  <1>7. ASSUME NEW x \in Elems(q) PROVE x \in Elems(r)
    <2>1. PICK k \in 1 .. Len(q) : x = q[k]
      BY <1>7, <1>1 DEF Elems
    <2> QED BY <2>1, <1>6
  <1>8. Elems(r) = S
    BY <1>4, <1>5, <1>7
  <1> QED BY <1>8, <1>2

\* Which services the loops over the volumes go through.
LEMMA VolumesAre ==
    /\ Application \in Seq(Apps) /\ Observability \in Seq(Elems(Observability))
    /\ Replaceable \in Seq(Elems(Replaceable)) /\ VOLUMES \in Seq(Volumes)
    /\ Elems(Replaceable) = {"seaweedfs"} \cup Elems(Observability)
    /\ Volumes = {"kafka", "seaweedfs"} \cup Elems(Observability)
    /\ "postgres" \notin Volumes /\ Volumes \subseteq Persistent
    /\ Apps \cap Persistent = {} /\ Services = Persistent \cup Apps
    /\ Persistent = {"postgres"} \cup Volumes
  <1>1. /\ Application \in Seq(Apps) /\ Observability \in Seq(Elems(Observability))
        /\ Apps \cap Persistent = {} /\ Elems(Observability) \cap Core = {}
    BY ConstantsAssumption DEF Apps
  <1>2. /\ Replaceable \in Seq(Elems(Replaceable))
        /\ Elems(Replaceable) = {"seaweedfs"} \cup Elems(Observability)
    BY <1>1, OneMore DEF Replaceable
  <1>3. VOLUMES \in Seq(Volumes) /\ Volumes = {"kafka"} \cup Elems(Replaceable)
    BY <1>2, OneMore DEF VOLUMES, Volumes
  <1>4. Services = Persistent \cup Apps
    BY DEF Services, Apps
  <1>5. "postgres" \notin Volumes /\ Persistent = {"postgres"} \cup Volumes
    BY <1>1, <1>2, <1>3 DEF Persistent, Core, Databases
  <1> QED BY <1>1, <1>2, <1>3, <1>4, <1>5

\* The services of a phase.
LEMMA WorkIs ==
    ASSUME NEW pc
    PROVE  /\ Work(pc) \in Seq(Elems(Work(pc)))
           /\ Elems(Work(pc)) \subseteq Services \cup {"release"}
           /\ pc \in {"recover", "ensure"} => Elems(Work(pc)) = Databases
           /\ pc \in {"stop", "remove_stale", "start"} => Work(pc) = Application
           /\ pc \in {"freeze", "archive", "thaw"} => Work(pc) = VOLUMES
           /\ pc = "remove_persisted" => Work(pc) = Replaceable
           /\ pc = "observe" => Work(pc) = Observability
           /\ pc \in {"storage", "reconcile"} => Elems(Work(pc)) = {"seaweedfs"}
           /\ pc \in {"build", "drain", "dump", "gather", "copy", "seal", "migrate", "verify"}
                => Work(pc) # <<>>
  <1>1. /\ <<"postgres", "kafka">> \in Seq(Databases) /\ Elems(<<"postgres", "kafka">>) = Databases
        /\ <<"seaweedfs">> \in Seq({"seaweedfs"}) /\ Elems(<<"seaweedfs">>) = {"seaweedfs"}
        /\ <<"release">> \in Seq({"release"}) /\ Elems(<<"release">>) = {"release"}
        /\ <<"release">> # <<>>
    BY DEF Elems, Databases
  <1>2. Databases \cup {"seaweedfs"} \subseteq Services
    BY DEF Services, Persistent, Core
  <1>3. CASE pc \in {"recover", "ensure"}
    BY ZenonT(20), <1>1, <1>2, <1>3 DEF Work
  <1>4. CASE pc \in {"stop", "remove_stale", "start"}
    BY VolumesAre, <1>4 DEF Work, Apps
  <1>5. CASE pc \in {"freeze", "archive", "thaw"}
    BY VolumesAre, <1>5 DEF Work, Volumes
  <1>6. CASE pc = "remove_persisted"
    BY VolumesAre, <1>6 DEF Work
  <1>7. CASE pc = "observe"
    BY VolumesAre, <1>7 DEF Work
  <1>8. CASE pc \in {"storage", "reconcile"}
    BY <1>1, <1>2, <1>8 DEF Work
  <1>9. CASE pc \notin {"recover", "ensure", "stop", "remove_stale", "start", "freeze", "archive",
                        "thaw", "remove_persisted", "observe", "storage", "reconcile"}
    BY <1>1, <1>9 DEF Work
  <1> QED BY <1>3, <1>4, <1>5, <1>6, <1>7, <1>8, <1>9

-----------------------------------------------------------------------------
(* What the steps do to the release process and to the host *)

\* The fields that most steps leave alone.
Kept ==
    /\ rel'.revision = rel.revision /\ rel'.maintenance = rel.maintenance
    /\ rel'.dump = rel.dump /\ rel'.items = rel.items /\ rel'.running = rel.running
    /\ rel'.stopped = rel.stopped /\ rel'.lost = rel.lost /\ rel'.completed = rel.completed

RelType ==
    rel \in [pc : DOMAIN Phases \cup {"verify", "idle", "rescue"},
             todo : Seq(Services \cup {"release"}), revision : Nat, outcome : Outcomes,
             maintenance : BOOLEAN, dump : Contents, items : SUBSET Volumes,
             running : SUBSET Volumes, stopped : SUBSET Volumes,
             lost : SUBSET Volumes, completed : BOOLEAN, disturbed : BOOLEAN]

\* The service at hand and what is left of the loop after it.
Pops ==
    /\ rel'.pc = rel.pc /\ rel'.todo = Tail(rel.todo)
    /\ Elems(rel.todo) = {Service} \cup Elems(rel'.todo)

\* The fields of a release have their types.
LEMMA TypeIs == TypeOK => RelType
  BY DEF TypeOK, RelType, Volumes

\* The service at the head of the list is one the phase works on.
LEMMA ServiceAtHand ==
    ASSUME TypeOK, LoopsOverItsWork, rel.todo # <<>>
    PROVE  /\ rel.pc # "rescue" => Service \in Elems(Work(rel.pc))
           /\ rel.pc = "rescue" => Service \in Apps
           /\ Service \in Elems(rel.todo) /\ Elems(rel.todo) = {Service} \cup Elems(Tail(rel.todo))
           /\ Tail(rel.todo) \in Seq(Services \cup {"release"})
           /\ Tail(rel.todo) \in Seq(IF rel.pc = "rescue" THEN Apps ELSE Elems(Work(rel.pc)))
  <1>1. rel.todo \in Seq(Services \cup {"release"})
    BY DEF TypeOK
  <1>2. CASE rel.pc = "rescue"
    <2>1. rel.todo \in Seq(Apps)
      BY <1>2 DEF LoopsOverItsWork
    <2> QED BY <2>1, <1>1, <1>2, HeadAndTail DEF Service
  <1>3. CASE rel.pc # "rescue"
    <2>1. rel.todo \in Seq(Elems(Work(rel.pc)))
      BY <1>3 DEF LoopsOverItsWork
    <2> QED BY ZenonT(20), <2>1, <1>1, <1>3, HeadAndTail DEF Service
  <1> QED BY <1>2, <1>3

\* The loop goes on to the next service.
LEMMA PopMoves ==
    ASSUME TypeOK, LoopsOverItsWork, rel.todo # <<>>, rel' = Popped
    PROVE  RelType' /\ LoopsOverItsWork' /\ Pops /\ Kept
  <1>1. RelType
    BY TypeIs
  <1>2. /\ rel'.todo = Tail(rel.todo) /\ rel'.pc = rel.pc /\ Kept
    BY <1>1 DEF Popped, RelType, Kept
  <1>3. Tail(rel.todo) \in Seq(Services \cup {"release"})
    BY ServiceAtHand
  <1>4. RelType'
    BY ZenonT(20), <1>1, <1>3 DEF Popped, RelType
  <1> QED BY <1>2, <1>4, ServiceAtHand DEF Pops, LoopsOverItsWork

\* The same where a field of the record changes as well.
LEMMA LoopMoves ==
    ASSUME TypeOK, LoopsOverItsWork, rel.todo # <<>>,
           rel'.pc = rel.pc, rel'.todo = Tail(rel.todo)
    PROVE  LoopsOverItsWork' /\ Pops
  BY ServiceAtHand DEF Pops, LoopsOverItsWork

\* A task fails.
LEMMA AbortMoves ==
    ASSUME TypeOK, NEW outcome \in Outcomes, Abort(outcome)
    PROVE  RelType' /\ LoopsOverItsWork' /\ rel'.pc = "rescue" /\ Kept
  <1>1. RelType
    BY TypeIs
  <1>2. Application \in Seq(Apps) /\ Apps \subseteq Services \cup {"release"}
    BY VolumesAre
  <1>3. Application \in Seq(Services \cup {"release"}) /\ <<>> \in Seq(Services \cup {"release"})
    BY <1>2
  <1>4. rel'.pc = "rescue" /\ Kept /\ rel'.todo \in {Application, <<>>}
    BY <1>1 DEF Abort, RelType, Kept
  <1>5. RelType'
    <2>1. CASE rel.maintenance
      BY ZenonT(20), <1>1, <1>3, <2>1 DEF Abort, RelType
    <2>2. CASE ~rel.maintenance
      BY ZenonT(20), <1>1, <1>3, <2>2 DEF Abort, RelType
    <2> QED BY <2>1, <2>2
  <1>6. rel'.todo \in Seq(Apps)
    <2>1. <<>> \in Seq(Apps)
      OBVIOUS
    <2> QED BY ZenonT(20), <2>1, <1>2, <1>4
  <1>7. LoopsOverItsWork'
    BY <1>4, <1>6 DEF LoopsOverItsWork
  <1> QED BY <1>4, <1>5, <1>7

\* The release is over.
LEMMA IdleMoves ==
    ASSUME NEW revision \in Nat, NEW outcome \in Outcomes, rel' = Idle(revision, outcome)
    PROVE  /\ RelType' /\ LoopsOverItsWork' /\ rel'.pc = "idle"
           /\ rel'.items = {} /\ rel'.running = {} /\ rel'.stopped = {} /\ rel'.lost = {}
  <1>1. NoVolume \in Contents
    BY DEF NoVolume, Volume, Contents
  <1> QED BY <1>1 DEF Idle, RelType, LoopsOverItsWork

\* docker stop of a container that may run.
LEMMA StopMoves ==
    ASSUME TypeOK, NEW s \in Services, Stop(s)
    PROVE  /\ ctr' \in [Services -> {"absent", "stopped", "running"}]
           /\ ctr'[s] # "running" /\ (ctr'[s] = "absent" <=> ctr[s] = "absent")
           /\ \A t \in Services \ {s} : ctr'[t] = ctr[t]
  BY DEF TypeOK, Stop

\* compose up of a service.
LEMMA UpMoves ==
    ASSUME TypeOK, NEW s \in Services, Up(s)
    PROVE  /\ ctr' \in [Services -> {"absent", "stopped", "running"}]
           /\ ctr'[s] = "running" /\ \A t \in Services \ {s} : ctr'[t] = ctr[t]
           /\ vol' \in [Persistent -> Contents]
           /\ s \in Persistent => vol'[s] # NoVolume
           /\ \A t \in Persistent : vol[t] # NoVolume \/ t # s => vol'[t] = vol[t]
           /\ s \in Persistent /\ vol[s] = NoVolume => vol'[s].age = "new"
  <1>1. Volume("new", 0) \in Contents /\ Volume("new", 0) # NoVolume /\ Volume("new", 0).age = "new"
    BY DEF Volume, Contents, NoVolume
  <1>2. /\ ctr' \in [Services -> {"absent", "stopped", "running"}]
        /\ ctr'[s] = "running" /\ \A t \in Services \ {s} : ctr'[t] = ctr[t]
    BY DEF TypeOK, Up
  <1>3. CASE s \in Persistent /\ vol[s] = NoVolume
    <2>1. vol' = [vol EXCEPT ![s] = Volume("new", 0)] /\ vol \in [Persistent -> Contents]
      BY <1>3 DEF Up, TypeOK
    <2> QED BY <2>1, <1>1, <1>2, <1>3
  <1>4. CASE ~(s \in Persistent /\ vol[s] = NoVolume)
    <2>1. vol' = vol /\ vol \in [Persistent -> Contents]
      BY <1>4 DEF Up, TypeOK
    <2> QED BY <2>1, <1>2, <1>4
  <1> QED BY <1>3, <1>4

-----------------------------------------------------------------------------
(* What a change of the host or of the bundle leaves true *)

CtrType == ctr \in [Services -> {"absent", "stopped", "running"}]
VolType == vol \in [Persistent -> Contents]
BundleType ==
    bundle \in [postgres : Contents, volumes : [Volumes -> Contents \cup {Torn}],
                manifest : BOOLEAN]

\* The parts of TypeOK.
LEMMA TypesAre ==
    TypeOK <=> /\ RelType /\ CtrType /\ VolType /\ BundleType
               /\ image \in [Apps -> Nat] /\ schema \in Nat /\ job \in {"idle", "dump", "started"}
  BY DEF TypeOK, RelType, CtrType, VolType, BundleType, Volumes, Apps

\* The same of the state after a step.
LEMMA TypesHold ==
    ASSUME RelType', CtrType', VolType', BundleType', (image \in [Apps -> Nat])', (schema \in Nat)',
           (job \in {"idle", "dump", "started"})'
    PROVE  TypeOK'
  BY DEF TypeOK, RelType, CtrType, VolType, BundleType, Volumes, Apps

\* A volume with data is not touched.
VolKept == \A t \in Persistent : vol[t] # NoVolume => vol'[t] = vol[t]

\* No application container is started.
AppsKept == \A a \in Apps : ctr'[a] = "running" => ctr[a] = "running"

\* A step that keeps the volumes, the application's containers and the one
\* installation keeps what is known of the host.
LEMMA HostKeeps ==
    ASSUME HostInv, RelType', CtrType', VolType', UNCHANGED <<image, schema, bundle, job>>,
           VolKept, AppsKept, OneInstallation',
           \A s \in Persistent : ctr'[s] # "absent" => ctr[s] # "absent" \/ vol'[s] # NoVolume,
           ctr["postgres"] # "absent" => ctr'["postgres"] # "absent"
    PROVE  HostInv'
  <1>1. TypeOK'
    BY TypesAre, TypesHold DEF HostInv, BundleType
  <1>2. Mounted'
    BY DEF HostInv, Mounted, VolKept
  <1>3. CodeMatchesSchema'
    BY DEF HostInv, CodeMatchesSchema, AppsKept, Apps
  <1>4. ManifestMeansComplete'
    BY DEF HostInv, ManifestMeansComplete
  <1> QED BY <1>1, <1>2, <1>3, <1>4 DEF HostInv

\* Nothing of the host changes.
LEMMA HostStays ==
    ASSUME HostInv, RelType', UNCHANGED <<ctr, vol, image, schema, bundle, job>>
    PROVE  HostInv' /\ VolKept /\ AppsKept
  <1>1. CtrType' /\ VolType'
    BY TypesAre DEF HostInv, CtrType, VolType
  <1>2. VolKept /\ AppsKept
    BY DEF VolKept, AppsKept
  <1>3. OneInstallation'
    BY DEF HostInv, OneInstallation
  <1> QED BY <1>1, <1>2, <1>3, HostKeeps

\* docker compose stop: the container is there, and no longer running.
LEMMA StopKeeps ==
    ASSUME HostInv, RelType', NEW s \in Services, Stop(s),
           UNCHANGED <<vol, image, schema, bundle, job>>
    PROVE  /\ HostInv' /\ VolKept /\ AppsKept /\ ctr'[s] # "running"
           /\ \A t \in Services : ctr'[t] = "absent" <=> ctr[t] = "absent"
           /\ \A t \in Services \ {s} : ctr'[t] = ctr[t]
  <1>1. TypeOK
    BY DEF HostInv
  <1>2. CtrType' /\ VolType'
    BY <1>1, TypesAre, StopMoves DEF CtrType, VolType
  <1>3. /\ ctr'[s] # "running" /\ \A t \in Services \ {s} : ctr'[t] = ctr[t]
        /\ \A t \in Services : ctr'[t] = "absent" <=> ctr[t] = "absent"
    BY <1>1, StopMoves
  <1>4. VolKept /\ AppsKept
    BY ZenonT(20), <1>3, VolumesAre DEF VolKept, AppsKept
  <1>5. OneInstallation'
    BY DEF HostInv, OneInstallation
  <1>6. Persistent \subseteq Services /\ "postgres" \in Services
    BY VolumesAre
  <1> QED BY <1>2, <1>3, <1>4, <1>5, <1>6, HostKeeps

\* The other database.
LEMMA PartnerIs == Partner("postgres") = "kafka" /\ Partner("kafka") = "postgres"
  <1>1. Partner("postgres") \in Databases /\ Partner("postgres") # "postgres"
    BY DEF Partner, Databases
  <1>2. Partner("kafka") \in Databases /\ Partner("kafka") # "kafka"
    BY DEF Partner, Databases
  <1> QED BY <1>1, <1>2 DEF Databases

\* docker compose up of a persistent service: it runs on a volume, a new one
\* only on a host that has no installation.
LEMMA UpKeeps ==
    ASSUME HostInv, RelType', NEW s \in Persistent, Up(s),
           s \in Databases /\ vol[s] = NoVolume => NewInstall(s),
           UNCHANGED <<image, schema, bundle, job>>
    PROVE  /\ HostInv' /\ VolKept /\ AppsKept /\ vol'[s] # NoVolume
           /\ ctr'[s] = "running" /\ \A t \in Services \ {s} : ctr'[t] = ctr[t]
           /\ \A t \in Persistent \ {s} : vol'[t] = vol[t]
  <1>1. TypeOK /\ s \in Services /\ s \notin Apps /\ Persistent \subseteq Services
    BY VolumesAre DEF HostInv
  <1>2. CtrType' /\ VolType'
    BY <1>1, UpMoves DEF CtrType, VolType
  <1>3. /\ ctr'[s] = "running" /\ \A t \in Services \ {s} : ctr'[t] = ctr[t]
        /\ vol'[s] # NoVolume /\ \A t \in Persistent : vol[t] # NoVolume \/ t # s => vol'[t] = vol[t]
        /\ vol[s] = NoVolume => vol'[s].age = "new"
    BY <1>1, UpMoves
  <1>4. VolKept
    BY <1>3 DEF VolKept
  <1>5. AppsKept
    BY <1>1, <1>3, VolumesAre DEF AppsKept
  <1>6. OneInstallation'
    <2>1. NoVolume.age = "none" /\ Core \subseteq Persistent /\ Databases \subseteq Core
      BY DEF NoVolume, Volume, Persistent, Core
    <2>2. CASE vol[s] # NoVolume
      <3>1. \A t \in Persistent : vol'[t] = vol[t]
        BY <2>2, <1>3
      <3> QED BY <3>1, <2>1 DEF HostInv, OneInstallation
    <2>3. CASE vol[s] = NoVolume /\ s \notin Databases
      <3>1. vol'[s].age # "old" /\ \A t \in Persistent \ {s} : vol'[t] = vol[t]
        BY <2>3, <1>3
      <3> QED BY <3>1, <2>1, <2>3 DEF HostInv, OneInstallation
    <2>4. CASE vol[s] = NoVolume /\ s \in Databases
      <3>1. NewInstall(s)
        BY <2>4
      <3>2. \A t \in Core : vol[t] = NoVolume
        BY <3>1, <2>4, PartnerIs DEF NewInstall, orphan_volume, Core, Databases
      <3>3. \A t \in Core : vol'[t].age # "old"
        BY <3>2, <2>1, <2>4, <1>3
      <3> QED BY <3>3 DEF OneInstallation
    <2> QED BY <2>2, <2>3, <2>4
  <1>7. /\ \A t \in Persistent : ctr'[t] # "absent" => ctr[t] # "absent" \/ vol'[t] # NoVolume
        /\ ctr["postgres"] # "absent" => ctr'["postgres"] # "absent"
    BY <1>1, <1>3, VolumesAre
  <1>8. HostInv'
    BY <1>2, <1>4, <1>5, <1>6, <1>7, HostKeeps
  <1> QED BY <1>3, <1>4, <1>5, <1>8

\* A new bundle directory.
LEMMA NoBundleIs ==
    /\ NoBundle \in [postgres : Contents, volumes : [Volumes -> Contents \cup {Torn}],
                     manifest : BOOLEAN]
    /\ NoBundle.manifest = FALSE /\ \A s \in Volumes : NoBundle.volumes[s] # Torn
  <1>1. NoVolume \in Contents /\ NoVolume # Torn
    BY DEF NoVolume, Torn, Volume, Contents
  <1>2. NoBundle = [postgres |-> NoVolume, volumes |-> [s \in Volumes |-> NoVolume],
                    manifest |-> FALSE]
    BY DEF NoBundle, Volumes
  <1> QED BY <1>1, <1>2

-----------------------------------------------------------------------------
(* Steps that end the release, and steps of loops outside the snapshot *)

\* The services that were running run again, or create_snapshot has succeeded.
Thawed == ~rel.completed => \A s \in rel.running \ rel.lost : ctr[s] = "running"

\* That is so wherever a task of the playbook fails.
LEMMA ThawedOutside ==
    ASSUME ReleaseInv, rel.pc \in Early \cup {"gather"} \cup Backed \cup Late
    PROVE  Thawed
  <1>1. CASE rel.pc \in Early
    BY <1>1 DEF ReleaseInv, Gathered, Thawed
  <1>2. CASE rel.pc = "gather"
    BY <1>2 DEF ReleaseInv, Gathered, Restartable, Thawed
  <1>3. CASE rel.pc \in Backed \cup Late
    BY <1>3 DEF ReleaseInv, Completion, Thawed
  <1> QED BY <1>1, <1>2, <1>3

\* A release that fails gives its bundle up unless the manifest is written.
LEMMA AbortKeeps ==
    ASSUME ReleaseInv, Thawed, rel.pc # "idle", NEW outcome \in Outcomes, Abort(outcome),
           UNCHANGED <<ctr, vol, image, schema, job>>,
           bundle' = bundle \/ (bundle' = NoBundle /\ ~rel.completed)
    PROVE  ReleaseInv'
  <1>1. HostInv /\ TypeOK
    BY DEF ReleaseInv, HostInv
  <1>2. RelType' /\ LoopsOverItsWork' /\ rel'.pc = "rescue" /\ Kept
    BY <1>1, AbortMoves
  <1>3. HostInv'
    <2>1. CASE bundle' = bundle
      BY <2>1, <1>1, <1>2, HostStays
    <2>2. CASE bundle' = NoBundle
      <3>1. BundleType' /\ CtrType' /\ VolType'
        BY <2>2, <1>1, NoBundleIs, TypesAre DEF BundleType, CtrType, VolType
      <3>2. TypeOK'
        BY <3>1, <1>1, <1>2, TypesAre, TypesHold
      <3>3. Mounted' /\ CodeMatchesSchema' /\ OneInstallation'
        BY <1>1 DEF HostInv, Mounted, CodeMatchesSchema, OneInstallation
      <3>4. ManifestMeansComplete'
        BY <2>2, NoBundleIs DEF ManifestMeansComplete
      <3> QED BY <3>2, <3>3, <3>4 DEF HostInv
    <2> QED BY <2>1, <2>2
  <1>4. AppsDown' /\ Migrated' /\ Stored' /\ Dumped' /\ Frozen' /\ Restartable'
    BY <1>2 DEF AppsDown, Migrated, Stored, Dumped, Frozen, Restartable,
                Quiet, Taken, Snapshot, Backed, Late
  <1>5. Gathered'
    BY <1>2 DEF ReleaseInv, Gathered, Kept, Early, Taken, Snapshot, Backed
  <1>6. Completion'
    BY <1>1, <1>2, NoBundleIs DEF ReleaseInv, Completion, Kept, Early, Backed, Late, TypeOK
  <1>7. ThawsWhatItFroze'
    BY <1>2 DEF Thawed, ThawsWhatItFroze, Kept
  <1>8. Archived'
    <2>1. \A s \in Volumes : bundle'.volumes[s] # Torn
      BY NoBundleIs DEF ReleaseInv, Archived
    <2> QED BY <2>1, <1>2 DEF Archived, Backed
  <1> QED BY <1>2, <1>3, <1>4, <1>5, <1>6, <1>7, <1>8 DEF ReleaseInv

\* A release that is over, well or not, leaves the host as it is.
LEMMA IdleKeeps ==
    ASSUME ReleaseInv, NEW revision \in Nat, NEW outcome \in Outcomes,
           rel' = Idle(revision, outcome), UNCHANGED <<ctr, vol, image, schema, bundle, job>>
    PROVE  ReleaseInv'
  <1>1. HostInv /\ TypeOK
    BY DEF ReleaseInv, HostInv
  <1>2. /\ RelType' /\ LoopsOverItsWork' /\ rel'.pc = "idle"
        /\ rel'.items = {} /\ rel'.running = {} /\ rel'.stopped = {}
    BY IdleMoves
  <1>3. HostInv'
    BY <1>1, <1>2, HostStays
  <1>4. /\ AppsDown' /\ Migrated' /\ Stored' /\ Dumped' /\ Frozen' /\ Restartable'
        /\ Gathered' /\ Completion' /\ ThawsWhatItFroze'
    BY <1>2 DEF AppsDown, Migrated, Stored, Dumped, Frozen, Restartable, Gathered, Completion,
                ThawsWhatItFroze, Early, Quiet, Taken, Snapshot, Backed, Late
  <1>5. Archived'
    BY <1>2 DEF ReleaseInv, Archived, Backed
  <1> QED BY <1>2, <1>3, <1>4, <1>5 DEF ReleaseInv

\* The phases whose loops are neither of the snapshot nor set a field.
Outside ==
    {"recover", "build", "storage", "drain", "stop", "ensure", "remove_stale",
     "remove_persisted", "reconcile", "start", "observe"}

\* One more service is done in such a phase, given what its task leaves.
LEMMA PopKeeps ==
    ASSUME ReleaseInv, rel.pc \in Outside, rel.todo # <<>>, rel' = Popped,
           HostInv', VolKept, bundle' = bundle, schema' = schema,
           rel.pc # "start" => AppsKept,
           rel.pc = "stop" => ctr'[Service] # "running",
           rel.pc = "storage" => vol'["seaweedfs"] # NoVolume,
           rel.pc = "remove_stale" =>
               \A s \in Volumes : ctr[s] = "running" => ctr'[s] = "running"
    PROVE  ReleaseInv'
  <1>1. TypeOK /\ LoopsOverItsWork
    BY DEF ReleaseInv, HostInv
  <1>2. RelType' /\ LoopsOverItsWork' /\ Pops /\ Kept
    BY <1>1, PopMoves
  <1>3. Core \subseteq Persistent /\ Volumes \subseteq Persistent
    BY VolumesAre DEF Persistent
  <1>4. AppsDown'
    BY <1>2 DEF ReleaseInv, AppsDown, AppsKept, Pops, Outside, Quiet, Taken, Snapshot, Backed
  <1>5. Migrated'
    BY <1>2 DEF ReleaseInv, Migrated, Pops, Kept, Outside, Late
  <1>6. Stored'
    BY <1>2, <1>3 DEF ReleaseInv, Stored, Pops, Kept, Outside, VolKept, Core,
                      Quiet, Taken, Snapshot, Backed
  <1>7. Dumped'
    BY <1>2, <1>3 DEF ReleaseInv, Dumped, Pops, Kept, Outside, VolKept, Core, Databases,
                      Taken, Snapshot, Backed
  <1>8. Gathered'
    <2>1. rel.items \subseteq Volumes
      BY <1>1, TypesAre DEF RelType
    <2> QED BY <2>1, <1>2, <1>3 DEF ReleaseInv, Gathered, Pops, Kept, Outside, VolKept,
                                    Early, Taken, Snapshot, Backed
  <1>9. Completion'
    BY <1>2 DEF ReleaseInv, Completion, Pops, Kept, Outside, Early, Backed, Late
  <1>10. Frozen' /\ Restartable'
    BY <1>2 DEF Frozen, Restartable, Pops, Outside, Snapshot
  <1>11. ThawsWhatItFroze'
    <2>1. rel.running \subseteq Volumes
      BY <1>1, TypesAre DEF RelType
    <2> QED BY <2>1, <1>2 DEF ReleaseInv, ThawsWhatItFroze, Pops, Kept, Outside
  <1>12. Archived'
    <2>1. rel.items \subseteq Volumes
      BY <1>1, TypesAre DEF RelType
    <2>2. rel.pc \in Backed => \A s \in rel.items : vol'[s] = vol[s]
      BY <2>1, <1>3 DEF ReleaseInv, Gathered, VolKept, Taken
    <2> QED BY <2>2, <1>2 DEF ReleaseInv, Archived, Pops, Kept, Outside, Backed
  <1> QED BY <1>2, <1>4, <1>5, <1>6, <1>7, <1>8, <1>9, <1>10, <1>11, <1>12 DEF ReleaseInv

\* A step that leaves the release where it is.
LEMMA StayKeeps ==
    ASSUME ReleaseInv, RelType', rel'.pc = rel.pc, rel'.todo = rel.todo, Kept,
           HostInv', AppsKept, bundle' = bundle, schema' = schema,
           \A t \in Persistent : vol[t] # NoVolume => vol'[t] # NoVolume,
           rel.pc \in Quiet => vol' = vol,
           rel.pc # "remove_persisted" => \A s \in Volumes : ctr'[s] = ctr[s]
    PROVE  ReleaseInv'
  <1>1. TypeOK /\ rel.items \subseteq Volumes /\ rel.running \subseteq Volumes
    BY TypesAre DEF ReleaseInv, HostInv, RelType
  <1>2. Core \subseteq Persistent /\ Volumes \subseteq Persistent
    BY VolumesAre DEF Persistent
  <1>3. LoopsOverItsWork'
    BY DEF ReleaseInv, LoopsOverItsWork
  <1>4. AppsDown' /\ Migrated'
    BY DEF ReleaseInv, AppsDown, Migrated, AppsKept, Kept
  <1>5. Stored'
    BY <1>2 DEF ReleaseInv, Stored, Core
  <1>6. Dumped'
    BY DEF ReleaseInv, Dumped, Kept, Quiet
  <1>7. Gathered'
    BY <1>1, <1>2 DEF ReleaseInv, Gathered, Kept
  <1>8. Completion'
    BY DEF ReleaseInv, Completion, Kept
  <1>9. Frozen' /\ Restartable'
    BY <1>1 DEF ReleaseInv, Gathered, Frozen, Restartable, Kept, Snapshot
  <1>10. ThawsWhatItFroze'
    BY <1>1 DEF ReleaseInv, ThawsWhatItFroze, Kept
  <1>11. Archived'
    BY DEF ReleaseInv, Archived, Kept, Quiet, Taken, Snapshot
  <1> QED BY <1>3, <1>4, <1>5, <1>6, <1>7, <1>8, <1>9, <1>10, <1>11 DEF ReleaseInv

-----------------------------------------------------------------------------
(* The steps outside the snapshot *)

\* The databases and SeaweedFS are found, recovered, created or refused.
LEMMA EnsureKeeps == ASSUME ReleaseInv, EnsureInfrastructure PROVE ReleaseInv'
  <1> DEFINE s == Service
             status == recover_missing_database(s)
  <1>1. HostInv /\ TypeOK /\ LoopsOverItsWork
    BY DEF ReleaseInv, HostInv
  <1>2. rel.pc \in {"recover", "storage", "ensure"} /\ rel.todo # <<>>
    BY DEF EnsureInfrastructure, At
  <1>3. s \in Elems(Work(rel.pc)) /\ s \in Core /\ (rel.pc = "storage" => s = "seaweedfs")
    BY <1>1, <1>2, ServiceAtHand, WorkIs DEF Core, Databases
  <1>4. s \in Persistent /\ s \in Services /\ rel.pc \in Outside \cap Early
    BY <1>2, <1>3, VolumesAre DEF Persistent, Outside, Early
  <1>5. CASE status = "ORPHAN" /\ cold_recovery_snapshot(s)
    <2>1. UNCHANGED <<ctr, vol, image, schema, rel, bundle, job>>
      BY <1>5 DEF cold_recovery_snapshot, host
    <2>2. RelType' /\ Kept
      BY <2>1, <1>1, TypesAre DEF RelType, Kept
    <2> QED BY <2>1, <2>2, <1>1, HostStays, StayKeeps
  <1>6. CASE status = "ORPHAN" /\ Reattach(s)
    <2>1. rel' = Popped /\ Up(s) /\ UNCHANGED <<image, schema, bundle, job>>
      BY <1>6 DEF Reattach
    <2>2. vol[s] # NoVolume
      BY <1>6 DEF recover_missing_database, orphan_volume
    <2>3. RelType'
      BY <2>1, <1>1, <1>2, PopMoves
    <2>4. HostInv' /\ VolKept /\ AppsKept /\ vol'[s] # NoVolume
      BY <2>1, <2>2, <2>3, <1>1, <1>4, UpKeeps
    <2> QED BY <2>1, <2>4, <1>2, <1>3, <1>4, PopKeeps
  <1>7. CASE /\ status \in {"EXISTING", "NEW_INSTALL"} /\ rel' = Popped
             /\ UNCHANGED <<image, schema, bundle, job>>
             /\ IF rel.pc = "recover" THEN UNCHANGED <<ctr, vol, stale>>
                ELSE IF status = "NEW_INSTALL" THEN Up(s)
                ELSE ctr' = [ctr EXCEPT ![s] = "running"] /\ UNCHANGED <<vol, stale>>
    <2>1. RelType'
      BY <1>7, <1>1, <1>2, PopMoves
    <2>2. CASE rel.pc = "recover"
      <3>1. HostInv' /\ VolKept /\ AppsKept
        BY <2>1, <2>2, <1>1, <1>7, HostStays
      <3> QED BY <3>1, <2>2, <1>2, <1>4, <1>7, PopKeeps
    <2>3. CASE rel.pc # "recover" /\ status = "NEW_INSTALL"
      <3>1. Up(s)
        BY <2>3, <1>7
      <3>2. s \in Databases /\ vol[s] = NoVolume => NewInstall(s)
        BY <2>3 DEF recover_missing_database, orphan_volume
      <3>3. HostInv' /\ VolKept /\ AppsKept /\ vol'[s] # NoVolume
        BY <3>1, <3>2, <2>1, <1>1, <1>4, <1>7, UpKeeps
      <3> QED BY <3>3, <1>2, <1>3, <1>4, <1>7, PopKeeps
    <2>4. CASE rel.pc # "recover" /\ status = "EXISTING"
      <3>1. ctr' = [ctr EXCEPT ![s] = "running"] /\ vol' = vol
        BY <2>4, <1>7
      <3>2. ctr[s] # "absent" /\ vol[s] # NoVolume
        <4>1. ctr[s] # "absent"
          BY <2>4 DEF recover_missing_database, containers
        <4> QED BY <4>1, <1>1, <1>4 DEF HostInv, Mounted
      <3>3. /\ CtrType' /\ VolType' /\ ctr'[s] = "running"
            /\ \A t \in Services \ {s} : ctr'[t] = ctr[t]
        BY <3>1, <1>1, <1>4, TypesAre DEF CtrType, VolType
      <3>4. VolKept /\ AppsKept
        BY <3>1, <3>3, <1>4, VolumesAre DEF VolKept, AppsKept
      <3>5. OneInstallation'
        BY <3>1, <1>1 DEF HostInv, OneInstallation
      <3>6. /\ \A t \in Persistent : ctr'[t] # "absent" => ctr[t] # "absent" \/ vol'[t] # NoVolume
            /\ ctr["postgres"] # "absent" => ctr'["postgres"] # "absent"
        BY <3>2, <3>3, VolumesAre
      <3>7. HostInv'
        BY <3>3, <3>4, <3>5, <3>6, <2>1, <1>1, <1>7, HostKeeps
      <3> QED BY <3>1, <3>2, <3>4, <3>7, <1>2, <1>3, <1>4, <1>7, PopKeeps
    <2> QED BY <2>2, <2>3, <2>4, <1>7
  <1>8. CASE /\ status \in {"UNSAFE", "INVALID", "REFUSED"} /\ Abort(status)
             /\ UNCHANGED <<host, bundle, cold, job, faults>>
    <2>1. Thawed
      BY <1>4, ThawedOutside
    <2>2. status \in Outcomes
      BY <1>8 DEF Outcomes
    <2>3. rel.pc # "idle" /\ UNCHANGED <<ctr, vol, image, schema, bundle, job>>
      BY <1>2, <1>8 DEF host
    <2> HIDE DEF status
    <2> QED BY <2>1, <2>2, <2>3, <1>8, AbortKeeps
  <1> QED BY <1>5, <1>6, <1>7, <1>8 DEF EnsureInfrastructure

\* The build, and the question to crawler_drain.py.
LEMMA BuildKeeps == ASSUME ReleaseInv, Build PROVE ReleaseInv'
  <1>1. HostInv /\ TypeOK /\ LoopsOverItsWork
    BY DEF ReleaseInv, HostInv
  <1>2. /\ rel.pc = "build" /\ rel.todo # <<>> /\ rel' = Popped
        /\ UNCHANGED <<ctr, vol, image, schema, bundle, job>>
    BY DEF Build, At, host
  <1>3. HostInv' /\ VolKept /\ AppsKept
    BY <1>1, <1>2, PopMoves, HostStays
  <1> QED BY <1>2, <1>3, PopKeeps DEF Outside

\* Asking the database for active work changes nothing on the host.
LEMMA DrainKeeps == ASSUME ReleaseInv, Drain PROVE ReleaseInv'
  <1>1. HostInv /\ TypeOK /\ LoopsOverItsWork
    BY DEF ReleaseInv, HostInv
  <1>2. /\ rel.pc = "drain" /\ rel.todo # <<>>
        /\ UNCHANGED <<ctr, vol, image, schema, bundle, job>>
    BY DEF Drain, At, host
  <1>3. CASE rel' = Popped
    <2>1. HostInv' /\ VolKept /\ AppsKept
      BY <1>1, <1>2, <1>3, PopMoves, HostStays
    <2> QED BY <2>1, <1>2, <1>3, PopKeeps DEF Outside
  <1>4. CASE Abort("failed")
    BY <1>2, <1>4, ThawedOutside, AbortKeeps DEF Early, Outcomes
  <1> QED BY <1>3, <1>4 DEF Drain

\* The application's containers are stopped one after the other.
LEMMA StopApplicationKeeps == ASSUME ReleaseInv, StopApplication PROVE ReleaseInv'
  <1>1. HostInv /\ TypeOK /\ LoopsOverItsWork
    BY DEF ReleaseInv, HostInv
  <1>2. /\ rel.pc = "stop" /\ rel.todo # <<>> /\ rel' = Popped /\ Stop(Service)
        /\ UNCHANGED <<vol, image, schema, bundle, job>>
    BY DEF StopApplication, At
  <1>3. Service \in Services
    BY <1>1, <1>2, ServiceAtHand, WorkIs, VolumesAre DEF Apps
  <1>4. HostInv' /\ VolKept /\ AppsKept /\ ctr'[Service] # "running"
    BY <1>1, <1>2, <1>3, PopMoves, StopKeeps
  <1> QED BY <1>2, <1>4, PopKeeps DEF Outside

\* A container is removed; its service may run in no way after that.
LEMMA RemoveKeeps ==
    ASSUME ReleaseInv, RelType', NEW s \in Services \ {"postgres"}, Remove(s),
           UNCHANGED <<bundle, job>>
    PROVE  /\ HostInv' /\ VolKept /\ AppsKept
           /\ \A t \in Services \ {s} : ctr'[t] = ctr[t]
  <1>1. HostInv /\ TypeOK
    BY DEF ReleaseInv, HostInv
  <1>2. ctr' = [ctr EXCEPT ![s] = "absent"] /\ UNCHANGED <<vol, image, schema>>
    BY DEF Remove
  <1>3. /\ CtrType' /\ VolType' /\ ctr'[s] = "absent" /\ \A t \in Services \ {s} : ctr'[t] = ctr[t]
    BY <1>1, <1>2, TypesAre DEF CtrType, VolType
  <1>4. VolKept /\ AppsKept /\ "postgres" \in Services /\ Persistent \subseteq Services
    BY <1>2, <1>3, VolumesAre DEF VolKept, AppsKept
  <1>5. OneInstallation'
    BY <1>1, <1>2 DEF HostInv, OneInstallation
  <1>6. HostInv'
    BY <1>1, <1>2, <1>3, <1>4, <1>5, HostKeeps
  <1> QED BY <1>3, <1>4, <1>6

\* The containers of deleted images.
LEMMA RemoveStaleKeeps == ASSUME ReleaseInv, remove_stale PROVE ReleaseInv'
  <1>1. HostInv /\ TypeOK /\ LoopsOverItsWork
    BY DEF ReleaseInv, HostInv
  <1>2. rel.pc = "remove_stale" /\ rel.todo # <<>> /\ UNCHANGED <<bundle, job>>
    BY DEF remove_stale, At
  <1>3. Service \in Apps /\ Service \in Services \ {"postgres"} /\ Service \notin Volumes
    <2>1. Service \in Apps
      BY <1>1, <1>2, ServiceAtHand, WorkIs DEF Apps
    <2> QED BY <2>1, VolumesAre
  <1>4. CASE rel' = Popped /\ UNCHANGED host
    <2>1. UNCHANGED <<ctr, vol, image, schema, bundle, job>>
      BY <1>2, <1>4 DEF host
    <2>2. HostInv' /\ VolKept /\ AppsKept
      BY <2>1, <1>1, <1>2, <1>4, PopMoves, HostStays
    <2> QED BY <2>1, <2>2, <1>2, <1>4, PopKeeps DEF Outside
  <1>5. CASE Abort("failed") /\ UNCHANGED host
    BY <1>2, <1>5, ThawedOutside, AbortKeeps DEF Backed, Outcomes, host
  <1>6. CASE Remove(Service)
    <2>1. rel' = Popped /\ schema' = schema
      BY <1>6 DEF Remove
    <2>2. HostInv' /\ VolKept /\ AppsKept /\ \A t \in Services \ {Service} : ctr'[t] = ctr[t]
      BY <2>1, <1>1, <1>2, <1>3, <1>6, PopMoves, RemoveKeeps
    <2>3. \A s \in Volumes : ctr'[s] = ctr[s]
      BY <2>2, <1>3, VolumesAre
    <2> QED BY <2>1, <2>2, <2>3, <1>2, PopKeeps DEF Outside
  <1> QED BY <1>4, <1>5, <1>6 DEF remove_stale

\* A stale persistent container is removed and its volume kept.
LEMMA RemovePersistedKeeps == ASSUME ReleaseInv, remove_stale_persisted PROVE ReleaseInv'
  <1>1. HostInv /\ TypeOK /\ LoopsOverItsWork
    BY DEF ReleaseInv, HostInv
  <1>2. rel.pc = "remove_persisted" /\ rel.todo # <<>> /\ UNCHANGED <<bundle, job>>
    BY DEF remove_stale_persisted, At
  <1>3. Service \in Services \ {"postgres"}
    BY <1>1, <1>2, ServiceAtHand, WorkIs, VolumesAre
  <1>4. CASE rel' = Popped /\ UNCHANGED host
    <2>1. UNCHANGED <<ctr, vol, image, schema, bundle, job>>
      BY <1>2, <1>4 DEF host
    <2>2. HostInv' /\ VolKept /\ AppsKept
      BY <2>1, <1>1, <1>2, <1>4, PopMoves, HostStays
    <2> QED BY <2>1, <2>2, <1>2, <1>4, PopKeeps DEF Outside
  <1>5. CASE Abort("failed") /\ UNCHANGED host
    BY <1>2, <1>5, ThawedOutside, AbortKeeps DEF Backed, Outcomes, host
  <1>6. CASE Stop(Service) /\ UNCHANGED <<rel, vol, stale, foreign, image, schema>>
    <2>1. RelType' /\ Kept
      BY <1>1, <1>6, TypesAre DEF RelType, Kept
    <2>2. HostInv' /\ AppsKept
      BY <2>1, <1>1, <1>2, <1>3, <1>6, StopKeeps
    <2> QED BY <2>1, <2>2, <1>2, <1>6, StayKeeps
  <1>7. CASE Remove(Service)
    <2>1. rel' = Popped /\ schema' = schema
      BY <1>7 DEF Remove
    <2>2. HostInv' /\ VolKept /\ AppsKept
      BY <2>1, <1>1, <1>2, <1>3, <1>7, PopMoves, RemoveKeeps
    <2> QED BY <2>1, <2>2, <1>2, PopKeeps DEF Outside
  <1> QED BY <1>4, <1>5, <1>6, <1>7 DEF remove_stale_persisted

\* SeaweedFS and observability are brought up again.
LEMMA ReconcileKeeps == ASSUME ReleaseInv, Reconcile PROVE ReleaseInv'
  <1>1. HostInv /\ TypeOK /\ LoopsOverItsWork
    BY DEF ReleaseInv, HostInv
  <1>2. /\ rel.pc \in {"reconcile", "observe"} /\ rel.todo # <<>> /\ rel' = Popped /\ Up(Service)
        /\ UNCHANGED <<image, schema, bundle, job>>
    BY DEF Reconcile, At
  <1>3. Service \in {"seaweedfs"} \cup Elems(Observability)
    BY <1>1, <1>2, ServiceAtHand, WorkIs
  <1>4. Service \in Persistent /\ Service \notin Databases
    BY <1>3, VolumesAre, ConstantsAssumption DEF Databases, Core
  <1>5. HostInv' /\ VolKept /\ AppsKept
    BY <1>1, <1>2, <1>4, PopMoves, UpKeeps
  <1> QED BY <1>2, <1>5, PopKeeps DEF Outside

\* The application is recreated: its image and the schema are this revision's.
LEMMA StartKeeps == ASSUME ReleaseInv, StartApplication PROVE ReleaseInv'
  <1>1. HostInv /\ TypeOK /\ LoopsOverItsWork
    BY DEF ReleaseInv, HostInv
  <1>2. /\ rel.pc = "start" /\ rel.todo # <<>> /\ rel' = Popped /\ Up(Service)
        /\ image' = [image EXCEPT ![Service] = rel.revision]
        /\ UNCHANGED <<schema, bundle, job>>
    BY DEF StartApplication, At
  <1>3. Service \in Apps /\ Service \in Services /\ Service \notin Persistent
    <2>1. Service \in Apps
      BY <1>1, <1>2, ServiceAtHand, WorkIs DEF Apps
    <2> QED BY <2>1, VolumesAre
  <1>4. schema = rel.revision
    BY <1>2 DEF ReleaseInv, Migrated, Late
  <1>5. /\ ctr' \in [Services -> {"absent", "stopped", "running"}]
        /\ \A t \in Services \ {Service} : ctr'[t] = ctr[t]
        /\ vol' \in [Persistent -> Contents] /\ \A t \in Persistent : vol'[t] = vol[t]
    BY <1>1, <1>2, <1>3, UpMoves
  <1>6. RelType /\ RelType' /\ BundleType /\ image \in [Apps -> Nat]
    BY <1>1, <1>2, PopMoves, TypesAre
  <1>7. /\ image' \in [Apps -> Nat] /\ image'[Service] = schema
        /\ \A a \in Apps \ {Service} : image'[a] = image[a]
    BY <1>2, <1>3, <1>4, <1>6 DEF RelType
  <1>8. TypeOK'
    BY <1>1, <1>2, <1>5, <1>6, <1>7, TypesAre, TypesHold DEF CtrType, VolType, BundleType
  <1>9. Mounted'
    BY <1>1, <1>2, <1>3, <1>5, VolumesAre DEF HostInv, Mounted
  <1>10. CodeMatchesSchema'
    BY <1>1, <1>2, <1>5, <1>7, VolumesAre DEF HostInv, CodeMatchesSchema, Apps
  <1>11. OneInstallation'
    BY <1>1, <1>5 DEF HostInv, OneInstallation, Persistent, Core
  <1>12. ManifestMeansComplete'
    BY <1>1, <1>2 DEF HostInv, ManifestMeansComplete
  <1>13. HostInv' /\ VolKept
    BY <1>5, <1>8, <1>9, <1>10, <1>11, <1>12 DEF HostInv, VolKept
  <1> QED BY <1>2, <1>13, PopKeeps DEF Outside

\* What the migration and the steps of the snapshot have in common: they run
\* while the application is down and leave the volumes alone.
LEMMA QuietKeeps ==
    ASSUME ReleaseInv, rel.pc \in Quiet, rel'.pc \in Quiet, vol' = vol, AppsKept
    PROVE  /\ AppsDown' /\ Stored' /\ (rel'.pc # "migrate" => Migrated')
           /\ rel.pc \in {"gather"} \cup Taken /\ rel'.dump = rel.dump => Dumped'
  <1>1. AppsDown'
    BY DEF ReleaseInv, AppsDown, AppsKept, Quiet, Taken, Snapshot, Backed
  <1>2. Stored'
    BY DEF ReleaseInv, Stored
  <1>3. rel'.pc # "migrate" => Migrated'
    BY DEF Migrated, Quiet, Taken, Snapshot, Backed, Late
  <1>4. rel.pc \in {"gather"} \cup Taken /\ rel'.dump = rel.dump => Dumped'
    BY DEF ReleaseInv, Dumped
  <1> QED BY <1>1, <1>2, <1>3, <1>4

\* The migration fails and leaves the schema, or brings it to the release's.
LEMMA MigrateKeeps == ASSUME ReleaseInv, Migrate PROVE ReleaseInv'
  <1>1. HostInv /\ TypeOK /\ LoopsOverItsWork
    BY DEF ReleaseInv, HostInv
  <1>2. rel.pc = "migrate" /\ rel.todo # <<>> /\ UNCHANGED <<ctr, vol, image, bundle, job>>
    BY DEF Migrate, At
  <1>3. CASE Abort("failed") /\ schema' = schema
    BY <1>2, <1>3, ThawedOutside, AbortKeeps DEF Backed, Outcomes
  <1>4. CASE rel' = Popped /\ schema' = rel.revision
    <2>1. RelType' /\ LoopsOverItsWork' /\ Pops /\ Kept /\ rel.revision \in Nat
      BY <1>1, <1>2, <1>4, PopMoves, TypesAre DEF RelType
    <2>2. TypeOK'
      BY <2>1, <1>1, <1>2, <1>4, TypesAre, TypesHold DEF CtrType, VolType, BundleType
    <2>3. Mounted' /\ OneInstallation' /\ ManifestMeansComplete'
      BY <1>1, <1>2 DEF HostInv, Mounted, OneInstallation, ManifestMeansComplete
    <2>4. CodeMatchesSchema'
      BY <1>2 DEF ReleaseInv, AppsDown, Quiet, Taken, Backed, CodeMatchesSchema, Apps
    <2>5. AppsDown' /\ Stored' /\ Dumped'
      <3>1. rel'.pc = "migrate" /\ AppsKept /\ rel'.dump = rel.dump
        BY <2>1, <1>2 DEF Pops, Kept, AppsKept
      <3> QED BY <3>1, <1>2, QuietKeeps DEF Quiet, Taken, Backed
    <2>6. Migrated' /\ Frozen' /\ Restartable' /\ ThawsWhatItFroze'
      BY <2>1, <1>2, <1>4 DEF Migrated, Frozen, Restartable, ThawsWhatItFroze, Pops, Kept, Late,
                              Snapshot
    <2>7. Gathered' /\ Completion' /\ Archived'
      BY ZenonT(20), <2>1, <1>2 DEF ReleaseInv, Gathered, Completion, Archived, Pops, Kept,
                        Early, Taken, Snapshot, Backed, Late
    <2> QED BY <2>1, <2>2, <2>3, <2>4, <2>5, <2>6, <2>7 DEF ReleaseInv, HostInv
  <1> QED BY <1>3, <1>4 DEF Migrate

\* The final verification only decides the outcome.
LEMMA VerifyKeeps == ASSUME ReleaseInv, Verify PROVE ReleaseInv'
  <1>1. /\ rel.pc = "verify" /\ UNCHANGED <<ctr, vol, image, schema, bundle, job>>
        /\ rel.revision \in Nat
    BY TypesAre DEF Verify, At, host, ReleaseInv, HostInv, RelType
  <1>2. CASE rel' = Idle(rel.revision, "verified")
    BY <1>1, <1>2, IdleKeeps DEF Outcomes
  <1>3. CASE Abort("failed")
    BY <1>1, <1>3, ThawedOutside, AbortKeeps DEF Late, Outcomes
  <1> QED BY <1>2, <1>3 DEF Verify

\* A command that fails outside the snapshot ends the release.
LEMMA RaiseKeeps == ASSUME ReleaseInv, Raise PROVE ReleaseInv'
  <1>1. /\ rel.pc \in Early \cup {"gather"} \cup Backed \cup Late /\ rel.pc # "idle"
        /\ Abort("failed") /\ UNCHANGED <<ctr, vol, image, schema, bundle, job>>
    BY DEF Raise, host, Phases, Early, Backed, Late
  <1> QED BY <1>1, ThawedOutside, AbortKeeps DEF Outcomes

\* The machine that drives the release dies: the host stays as it is.
LEMMA CrashKeeps == ASSUME ReleaseInv, Crash PROVE ReleaseInv'
  <1>1. /\ rel' = Idle(rel.revision, "crashed") /\ UNCHANGED <<ctr, vol, image, schema, bundle, job>>
        /\ rel.revision \in Nat
    BY TypesAre DEF Crash, host, ReleaseInv, HostInv, RelType
  <1> QED BY <1>1, IdleKeeps DEF Outcomes

\* The rescue block stops the application and leaves the rest as it is.
LEMMA RescueKeeps == ASSUME ReleaseInv, Rescue PROVE ReleaseInv'
  <1>1. HostInv /\ TypeOK /\ LoopsOverItsWork /\ RelType
    BY TypesAre DEF ReleaseInv, HostInv
  <1>2. rel.pc = "rescue" /\ UNCHANGED <<vol, image, schema, bundle, job>>
    BY DEF Rescue
  <1>3. CASE rel.todo = <<>> /\ ctr' = ctr /\ rel' = Idle(rel.revision, rel.outcome)
    BY <1>1, <1>2, <1>3, IdleKeeps DEF RelType
  <1>4. ASSUME RelType', LoopsOverItsWork', rel'.pc = "rescue", Kept, HostInv',
               \A s \in Volumes : ctr'[s] = ctr[s]
        PROVE  ReleaseInv'
    <2>1. AppsDown' /\ Migrated' /\ Stored' /\ Dumped' /\ Frozen' /\ Restartable'
      BY <1>4 DEF AppsDown, Migrated, Stored, Dumped, Frozen, Restartable,
                  Quiet, Taken, Snapshot, Backed, Late
    <2>2. Gathered' /\ Completion' /\ Archived'
      BY ZenonT(20), <1>2, <1>4 DEF ReleaseInv, Gathered, Completion, Archived, Kept,
                        Early, Taken, Snapshot, Backed, Late
    <2>3. ThawsWhatItFroze'
      BY <1>1, <1>2, <1>4 DEF ReleaseInv, ThawsWhatItFroze, Kept, RelType
    <2> QED BY <1>4, <2>1, <2>2, <2>3 DEF ReleaseInv
  <1>5. CASE rel.todo # <<>> /\ Stop(Service) /\ rel' = Popped
    <2>1. Service \in Apps /\ Service \in Services /\ Service \notin Volumes
      BY <1>1, <1>2, <1>5, ServiceAtHand, VolumesAre
    <2>2. RelType' /\ LoopsOverItsWork' /\ rel'.pc = "rescue" /\ Kept
      BY <1>1, <1>2, <1>5, PopMoves DEF Pops
    <2>3. HostInv' /\ \A t \in Services \ {Service} : ctr'[t] = ctr[t]
      BY <2>1, <2>2, <1>1, <1>2, <1>5, StopKeeps
    <2>4. \A s \in Volumes : ctr'[s] = ctr[s]
      BY <2>1, <2>3, VolumesAre
    <2> QED BY <2>2, <2>3, <2>4, <1>4
  <1>6. CASE ctr' = ctr /\ rel' = [rel EXCEPT !.todo = <<>>]
    <2>1. RelType' /\ rel'.pc = "rescue" /\ Kept /\ rel'.todo = <<>>
      <3>1. <<>> \in Seq(Services \cup {"release"})
        OBVIOUS
      <3> QED BY ZenonT(20), <3>1, <1>1, <1>2, <1>6 DEF RelType, Kept
    <2>2. LoopsOverItsWork'
      <3>1. <<>> \in Seq(Apps)
        OBVIOUS
      <3> QED BY <3>1, <2>1 DEF LoopsOverItsWork
    <2>3. HostInv'
      BY <2>1, <1>1, <1>2, <1>6, HostStays
    <2> QED BY <2>1, <2>2, <2>3, <1>4, <1>6
  <1> QED BY <1>3, <1>5, <1>6 DEF Rescue

\* The application writes, but not while the release relies on the volumes.
LEMMA WriteKeeps == ASSUME ReleaseInv, Write PROVE ReleaseInv'
  <1>1. HostInv /\ TypeOK
    BY DEF ReleaseInv, HostInv
  <1>2. /\ UNCHANGED <<ctr, image, schema, rel, bundle, job>>
        /\ \E a \in Apps : ctr[a] = "running"
    BY DEF Write, Apps
  <1>3. PICK s \in Core : vol' = [vol EXCEPT ![s].writes = @ + 1]
    BY ZenonT(20) DEF Write
  <1>4. s \in Persistent /\ vol \in [Persistent -> Contents] /\ Core \subseteq Persistent
    BY <1>1, TypesAre DEF VolType, Persistent
  <1>5. /\ vol' \in [Persistent -> Contents] /\ vol'[s].writes # 0 /\ vol'[s].age = vol[s].age
        /\ \A t \in Persistent \ {s} : vol'[t] = vol[t]
    BY <1>3, <1>4 DEF Contents
  <1>6. \A t \in Persistent : vol[t] # NoVolume => vol'[t] # NoVolume
    BY <1>5 DEF NoVolume, Volume
  <1>7. rel.pc \notin Quiet
    BY <1>2 DEF ReleaseInv, AppsDown, Quiet, Taken, Snapshot, Backed
  <1>8. RelType' /\ CtrType' /\ BundleType' /\ VolType' /\ Kept /\ AppsKept
    BY <1>1, <1>2, <1>5, TypesAre DEF RelType, CtrType, BundleType, VolType, Kept, AppsKept
  <1>9. TypeOK'
    BY <1>1, <1>2, <1>8, TypesAre, TypesHold
  <1>10. Mounted' /\ CodeMatchesSchema' /\ ManifestMeansComplete'
    BY <1>1, <1>2, <1>6 DEF HostInv, Mounted, CodeMatchesSchema, ManifestMeansComplete
  <1>11. OneInstallation'
    <2>1. \A t \in Core : vol'[t].age = vol[t].age
      BY <1>4, <1>5
    <2> QED BY <2>1, <1>1 DEF HostInv, OneInstallation, Core
  <1>12. HostInv'
    BY <1>9, <1>10, <1>11 DEF HostInv
  <1> QED BY <1>2, <1>6, <1>7, <1>8, <1>12, StayKeeps

\* The backup timer starts and stops the database only.
LEMMA BackupKeeps == ASSUME ReleaseInv, BackupBegin \/ BackupEnd PROVE ReleaseInv'
  <1>1. HostInv /\ TypeOK /\ RelType /\ CtrType /\ "postgres" \in Services
    BY TypesAre, VolumesAre DEF ReleaseInv, HostInv
  <1>2. /\ UNCHANGED <<vol, image, schema, bundle>> /\ job' \in {"idle", "dump", "started"}
        /\ ctr["postgres"] # "absent"
    BY <1>1 DEF BackupBegin, BackupEnd, HostInv, Mounted
  <1>3. /\ CtrType' /\ ctr'["postgres"] # "absent"
        /\ \A t \in Services \ {"postgres"} : ctr'[t] = ctr[t]
    <2>1. CASE BackupBegin
      BY <2>1, <1>1 DEF BackupBegin, CtrType
    <2>2. CASE BackupEnd
      BY <2>2, <1>1, <1>2 DEF BackupEnd, CtrType
    <2> QED BY <2>1, <2>2
  <1>4. RelType' /\ Kept /\ rel'.pc = rel.pc /\ rel'.todo = rel.todo
    <2>1. CASE BackupBegin
      BY ZenonT(20), <2>1, <1>1 DEF BackupBegin, RelType, Kept
    <2>2. CASE BackupEnd
      BY ZenonT(20), <2>2, <1>1 DEF BackupEnd, RelType, Kept
    <2> QED BY <2>1, <2>2
  <1>5. VolType' /\ BundleType' /\ AppsKept /\ \A s \in Volumes : ctr'[s] = ctr[s]
    BY <1>1, <1>2, <1>3, TypesAre, VolumesAre DEF VolType, BundleType, AppsKept
  <1>6. TypeOK'
    BY <1>1, <1>2, <1>3, <1>4, <1>5, TypesAre, TypesHold
  <1>7. Mounted'
    BY <1>1, <1>2, <1>3, VolumesAre DEF HostInv, Mounted
  <1>8. CodeMatchesSchema' /\ OneInstallation' /\ ManifestMeansComplete'
    BY <1>1, <1>2, <1>5 DEF HostInv, CodeMatchesSchema, OneInstallation, ManifestMeansComplete,
                            AppsKept, Apps
  <1>9. HostInv'
    BY <1>6, <1>7, <1>8 DEF HostInv
  <1> QED BY <1>2, <1>4, <1>5, <1>9, StayKeeps

\* A release begins with an empty record and no bundle.
LEMMA BeginKeeps == ASSUME ReleaseInv, Begin PROVE ReleaseInv'
  <1>1. HostInv /\ TypeOK /\ RelType
    BY TypesAre DEF ReleaseInv, HostInv
  <1>2. bundle' = NoBundle /\ UNCHANGED <<ctr, vol, image, schema, job>>
    BY DEF Begin, host
  <1>3. /\ rel'.pc = "recover" /\ rel'.todo = Work("recover") /\ rel'.items = {} /\ rel'.running = {}
        /\ rel'.stopped = {} /\ rel'.lost = {} /\ rel'.completed = FALSE
    BY DEF Begin, Idle
  <1>4. Work("recover") \in Seq(Elems(Work("recover"))) /\ Work("recover") \in Seq(Services \cup {"release"})
    BY WorkIs
  <1>5. RelType'
    <2>1. NoVolume \in Contents /\ rel.revision + 1 \in Nat
      BY <1>1 DEF NoVolume, Volume, Contents, RelType
    <2>2. "recover" \in DOMAIN Phases /\ "none" \in Outcomes /\ (job = "started") \in BOOLEAN
      BY DEF Phases, Outcomes
    <2> QED BY ZenonT(20), <2>1, <2>2, <1>4 DEF Begin, Idle, RelType
  <1>6. LoopsOverItsWork'
    BY <1>3, <1>4 DEF LoopsOverItsWork
  <1>7. TypeOK'
    BY <1>1, <1>2, <1>5, NoBundleIs, TypesAre, TypesHold DEF CtrType, VolType, BundleType
  <1>8. Mounted' /\ CodeMatchesSchema' /\ OneInstallation' /\ ManifestMeansComplete'
    BY <1>1, <1>2, NoBundleIs DEF HostInv, Mounted, CodeMatchesSchema, OneInstallation,
                                  ManifestMeansComplete
  <1>9. AppsDown' /\ Migrated' /\ Stored' /\ Dumped' /\ Frozen' /\ Restartable' /\ ThawsWhatItFroze'
    BY <1>3 DEF AppsDown, Migrated, Stored, Dumped, Frozen, Restartable, ThawsWhatItFroze,
                Quiet, Taken, Snapshot, Backed, Late
  <1>10. Gathered' /\ Completion' /\ Archived'
    BY ZenonT(20), <1>2, <1>3, NoBundleIs DEF Gathered, Completion, Archived, Early, Taken, Snapshot, Backed,
                                  Late
  <1> QED BY <1>6, <1>7, <1>8, <1>9, <1>10 DEF ReleaseInv, HostInv

\* The table of the phases.
LEMMA PhasesAre ==
    ASSUME NEW pc, NEW next, pc \in DOMAIN Phases, next = Phases[pc]
    PROVE  /\ pc = "recover" => next = "build"
           /\ pc = "build" => next = "storage"
           /\ pc = "storage" => next = "drain"
           /\ pc = "drain" => next = "stop"
           /\ pc = "stop" => next = "ensure"
           /\ pc = "ensure" => next = "dump"
           /\ pc = "dump" => next = "gather"
           /\ pc = "gather" => next = "freeze"
           /\ pc = "freeze" => next = "copy"
           /\ pc = "copy" => next = "archive"
           /\ pc = "archive" => next = "seal"
           /\ pc = "seal" => next = "thaw"
           /\ pc = "thaw" => next = "remove_stale"
           /\ pc = "remove_stale" => next = "remove_persisted"
           /\ pc = "remove_persisted" => next = "reconcile"
           /\ pc = "reconcile" => next = "migrate"
           /\ pc = "migrate" => next = "start"
           /\ pc = "start" => next = "observe"
           /\ pc = "observe" => next = "verify"
           /\ pc \in Early \cup {"gather", "thaw"} \cup Snapshot \cup Backed \cup {"start", "observe"}
  BY SMTT(30) DEF Phases, Early, Snapshot, Backed

\* The next phase begins where the one before has ended.
LEMMA AdvanceKeeps == ASSUME ReleaseInv, Advance PROVE ReleaseInv'
  <1> DEFINE next == Phases[rel.pc]
  <1>1. HostInv /\ TypeOK /\ RelType /\ rel.items \subseteq Volumes
    BY TypesAre DEF ReleaseInv, HostInv, RelType
  <1>2. /\ rel.pc \in DOMAIN Phases /\ rel.pc # "thaw" /\ rel.todo = <<>>
        /\ UNCHANGED <<ctr, vol, image, schema, bundle, job>>
        /\ rel' = [rel EXCEPT !.pc = next, !.todo = Work(next),
                              !.maintenance = @ \/ next = "stop"]
    BY DEF Advance, host
  <1>3. Elems(rel.todo) = {}
    BY <1>2 DEF Elems
  <1>4. /\ rel'.pc = next /\ rel'.todo = Work(next)
        /\ rel'.revision = rel.revision /\ rel'.dump = rel.dump
        /\ rel'.items = rel.items /\ rel'.running = rel.running
        /\ rel'.stopped = rel.stopped /\ rel'.lost = rel.lost /\ rel'.completed = rel.completed
    BY <1>1, <1>2 DEF RelType
  <1>5. /\ Work(next) \in Seq(Elems(Work(next))) /\ Work(next) \in Seq(Services \cup {"release"})
        /\ next \in {"storage", "build", "drain", "dump", "gather", "copy", "seal", "migrate"}
              => Work(next) # <<>>
        /\ next = "stop" => Elems(Work(next)) = Apps
        /\ next \in {"freeze", "archive", "thaw"} => Elems(Work(next)) = Volumes
    <2>1. Elems(<<>>) = {}
      BY DEF Elems
    <2> QED BY <2>1, WorkIs DEF Apps, Volumes
  <1>6. next \in DOMAIN Phases \cup {"verify"} /\ next # "rescue"
    BY <1>2 DEF Phases
  <1>7. RelType'
    BY ZenonT(20), <1>1, <1>2, <1>5, <1>6 DEF RelType
  <1>8. LoopsOverItsWork'
    BY <1>4, <1>5, <1>6 DEF LoopsOverItsWork
  <1>9. HostInv'
    BY <1>1, <1>2, <1>7, HostStays
  <1>10. /\ rel.pc = "recover" => next = "build"
         /\ rel.pc = "build" => next = "storage"
         /\ rel.pc = "storage" => next = "drain"
         /\ rel.pc = "drain" => next = "stop"
         /\ rel.pc = "stop" => next = "ensure"
         /\ rel.pc = "ensure" => next = "dump"
         /\ rel.pc = "dump" => next = "gather"
         /\ rel.pc = "gather" => next = "freeze"
         /\ rel.pc = "freeze" => next = "copy"
         /\ rel.pc = "copy" => next = "archive"
         /\ rel.pc = "archive" => next = "seal"
         /\ rel.pc = "seal" => next = "thaw"
         /\ rel.pc = "remove_stale" => next = "remove_persisted"
         /\ rel.pc = "remove_persisted" => next = "reconcile"
         /\ rel.pc = "reconcile" => next = "migrate"
         /\ rel.pc = "migrate" => next = "start"
         /\ rel.pc = "start" => next = "observe"
         /\ rel.pc = "observe" => next = "verify"
         /\ rel.pc \in {"recover", "build", "storage", "drain", "stop", "ensure", "dump", "gather",
                        "freeze", "copy", "archive", "seal", "remove_stale", "remove_persisted",
                        "reconcile", "migrate", "start", "observe"}
    BY <1>2, PhasesAre DEF Early, Snapshot, Backed
  <1> HIDE DEF next
  <1>11. AppsDown'
    BY <1>2, <1>3, <1>4, <1>5, <1>10 DEF ReleaseInv, AppsDown, Quiet, Taken, Snapshot, Backed
  <1>12. Migrated'
    BY <1>2, <1>4, <1>5, <1>10 DEF ReleaseInv, Migrated, Late
  <1>13. Stored'
    BY <1>2, <1>4, <1>5, <1>10 DEF ReleaseInv, Stored, Quiet, Taken, Snapshot, Backed
  <1>14. Dumped'
    BY <1>2, <1>4, <1>5, <1>10 DEF ReleaseInv, Dumped, Taken, Snapshot, Backed
  <1>15. Gathered'
    BY <1>2, <1>4, <1>5, <1>10 DEF ReleaseInv, Gathered, Early, Taken, Snapshot, Backed
  <1>16. Completion'
    BY <1>2, <1>4, <1>5, <1>10 DEF ReleaseInv, Completion, Early, Backed, Late
  <1>17. Frozen' /\ Restartable'
    <2>1. rel.running \subseteq rel.items /\ rel.stopped \subseteq rel.running /\ ctr' = ctr
      BY <1>2 DEF ReleaseInv, Gathered
    <2>2. CASE rel.pc = "dump"
      <3>1. rel.items = {} /\ next = "gather"
        BY <2>2, <1>10 DEF ReleaseInv, Gathered, Early
      <3> QED BY <3>1, <2>1, <1>4 DEF Frozen, Restartable, Snapshot
    <2>3. CASE rel.pc = "gather"
      <3>1. next = "freeze" /\ Elems(rel'.todo) = Volumes
        BY <2>3, <1>4, <1>5, <1>10
      <3>2. /\ \A s \in rel.items : ctr[s] = "running" => s \in rel.running
            /\ \A s \in rel.running : ctr[s] # "absent" /\ (ctr[s] = "running" \/ s \in rel.stopped)
        BY <2>3 DEF ReleaseInv, Frozen, Restartable
      <3> QED BY <3>1, <3>2, <2>1, <1>1, <1>4 DEF Frozen, Restartable, Snapshot
    <2>4. CASE rel.pc \in {"freeze", "copy", "archive"}
      <3>1. next \in Snapshot /\ next \notin {"gather", "freeze", "thaw"}
        BY <2>4, <1>10 DEF Snapshot
      <3>2. /\ \A s \in rel.items : ctr[s] # "running"
            /\ \A s \in rel.running : ctr[s] # "absent" /\ s \in rel.stopped
        BY <2>1, <2>4, <1>3 DEF ReleaseInv, Frozen, Restartable, Snapshot
      <3> QED BY <3>1, <3>2, <2>1, <1>4 DEF Frozen, Restartable
    <2>5. CASE rel.pc = "seal"
      <3>1. next = "thaw" /\ Elems(rel'.todo) = Volumes
        BY <2>5, <1>4, <1>5, <1>10
      <3>2. \A s \in rel.running : ctr[s] # "absent" /\ (ctr[s] = "running" \/ s \in rel.stopped)
        BY <2>5 DEF ReleaseInv, Restartable, Snapshot
      <3> QED BY <3>1, <3>2, <2>1, <1>1, <1>4 DEF Frozen, Restartable, Snapshot
    <2>6. CASE rel.pc \notin {"dump", "gather", "freeze", "copy", "archive", "seal"}
      <3>1. next \notin {"gather", "thaw"} \cup Snapshot
        BY <2>6, <1>10 DEF Snapshot
      <3> QED BY <3>1, <1>4 DEF Frozen, Restartable, Snapshot
    <2> QED BY <2>2, <2>3, <2>4, <2>5, <2>6
  <1>18. ThawsWhatItFroze'
    BY <1>2, <1>4, <1>10 DEF ThawsWhatItFroze
  <1>19. Archived'
    <2> Archived /\ Completion /\ rel.todo = <<>>
      BY <1>2 DEF ReleaseInv
    <2>1. bundle' = bundle /\ vol' = vol /\ \A s \in Volumes : bundle.volumes[s] # Torn
      BY <1>2 DEF Archived
    <2>2. CASE rel.pc = "copy"
      <3>1. next = "archive" /\ Elems(rel'.todo) = Volumes
        BY <2>2, <1>4, <1>5, <1>10
      <3>2. bundle.postgres = rel.dump
        BY <2>2 DEF Archived
      <3> QED BY <3>1, <3>2, <2>1, <1>1, <1>4 DEF Archived, Backed
    <2>3. CASE rel.pc = "archive"
      <3>1. next = "seal"
        BY <2>3, <1>10
      <3>2. bundle.postgres = rel.dump /\ \A s \in rel.items : bundle.volumes[s] = vol[s]
        BY <2>3, <1>3 DEF Archived
      <3> QED BY <3>1, <3>2, <2>1, <1>4 DEF Archived, Backed
    <2>4. CASE rel.pc \in {"seal"} \cup Backed
      <3>1. bundle.postgres = rel.dump /\ \A s \in rel.items : bundle.volumes[s] = vol[s]
        BY <2>4 DEF Archived, Completion
      <3>2. next # "archive"
        BY <2>4, <1>10 DEF Backed
      <3> QED BY <3>1, <3>2, <2>1, <1>4 DEF Archived, Backed
    <2>5. CASE rel.pc \notin {"copy", "archive", "seal"} \cup Backed
      <3>1. next \notin {"archive", "seal", "thaw"} \cup Backed
        BY <2>5, <1>10 DEF Backed
      <3>2. next = "copy" => rel'.todo # <<>>
        BY <1>4, <1>5
      <3> QED BY <3>1, <3>2, <2>1, <1>4 DEF Archived
    <2> QED BY <2>2, <2>3, <2>4, <2>5
  <1> QED BY <1>8, <1>9, <1>11, <1>12, <1>13, <1>14, <1>15, <1>16, <1>17, <1>18, <1>19
          DEF ReleaseInv

-----------------------------------------------------------------------------
(* The dump and the snapshot *)

\* The second dump: both databases run, so they have their volumes.
LEMMA DumpKeeps == ASSUME ReleaseInv, Dump PROVE ReleaseInv'
  <1>1. HostInv /\ TypeOK /\ LoopsOverItsWork /\ RelType /\ VolType
    BY TypesAre DEF ReleaseInv, HostInv
  <1>2. rel.pc = "dump" /\ rel.todo # <<>> /\ UNCHANGED <<ctr, vol, image, schema, bundle, job>>
    BY DEF Dump, At, host
  <1>3. CASE Abort("failed")
    BY <1>2, <1>3, ThawedOutside, AbortKeeps DEF Early, Outcomes
  <1>4. CASE /\ \A s \in Databases : ctr[s] = "running"
             /\ rel' = [Popped EXCEPT !.dump = vol["postgres"]]
    <2>1. /\ rel'.pc = rel.pc /\ rel'.todo = Tail(rel.todo) /\ rel'.dump = vol["postgres"]
          /\ rel'.items = rel.items /\ rel'.running = rel.running /\ rel'.stopped = rel.stopped
          /\ rel'.lost = rel.lost /\ rel'.completed = rel.completed
      BY <1>1, <1>4 DEF RelType, Popped
    <2>2. LoopsOverItsWork'
      BY <2>1, <1>1, <1>2, LoopMoves
    <2>3. RelType'
      <3>1. Tail(rel.todo) \in Seq(Services \cup {"release"}) /\ vol["postgres"] \in Contents
        BY <1>1, <1>2, ServiceAtHand, VolumesAre DEF VolType
      <3> QED BY ZenonT(20), <3>1, <1>1, <1>4 DEF RelType, Popped
    <2>4. HostInv' /\ AppsKept
      BY <2>3, <1>1, <1>2, HostStays
    <2>5. AppsDown' /\ Stored' /\ Migrated'
      BY <2>1, <2>4, <1>2, QuietKeeps DEF Quiet
    <2>6. Dumped'
      <3>1. \A s \in Databases : vol[s] # NoVolume
        BY <1>1, <1>4 DEF HostInv, Mounted, Persistent, Core
      <3> QED BY <3>1, <2>1, <1>2 DEF Dumped
    <2>7. Gathered' /\ Completion' /\ Frozen' /\ Restartable' /\ ThawsWhatItFroze' /\ Archived'
      BY ZenonT(20), <2>1, <1>2 DEF ReleaseInv, Gathered, Completion, Frozen, Restartable, ThawsWhatItFroze,
                        Archived, Early, Taken, Snapshot, Backed, Late
    <2> QED BY <2>2, <2>4, <2>5, <2>6, <2>7 DEF ReleaseInv
  <1> QED BY <1>3, <1>4 DEF Dump

\* The bundle changes, the host does not.
LEMMA BundleKeeps ==
    ASSUME HostInv, RelType', BundleType', ManifestMeansComplete',
           UNCHANGED <<ctr, vol, image, schema, job>>
    PROVE  HostInv' /\ AppsKept
  <1>1. TypeOK'
    BY TypesAre, TypesHold DEF HostInv, CtrType, VolType
  <1> QED BY ZenonT(20), <1>1 DEF HostInv, Mounted, CodeMatchesSchema, OneInstallation, AppsKept

\* What there is to archive: at least the volumes of Kafka and SeaweedFS.
LEMMA GatherKeeps == ASSUME ReleaseInv, Gather PROVE ReleaseInv'
  <1>1. HostInv /\ TypeOK /\ LoopsOverItsWork /\ RelType
    BY TypesAre DEF ReleaseInv, HostInv
  <1>2. /\ rel.pc = "gather" /\ rel.todo # <<>> /\ bundle' = NoBundle
        /\ UNCHANGED <<ctr, vol, image, schema, job>>
    BY DEF Gather, At, host
  <1>3. rel.completed = FALSE /\ rel.lost = {} /\ rel.stopped = {}
    BY <1>1, <1>2 DEF ReleaseInv, Completion, Gathered, RelType
  <1>4. CASE Abort("failed")
    BY <1>2, <1>3, <1>4, ThawedOutside, AbortKeeps DEF Outcomes
  <1>5. CASE rel' = [Popped EXCEPT !.items = gather,
                                   !.running = {s \in gather : ctr[s] = "running"}]
    <2>1. /\ rel'.pc = rel.pc /\ rel'.todo = Tail(rel.todo) /\ rel'.dump = rel.dump
          /\ rel'.items = gather /\ rel'.running = {s \in gather : ctr[s] = "running"}
          /\ rel'.stopped = rel.stopped /\ rel'.lost = rel.lost /\ rel'.completed = rel.completed
      BY <1>1, <1>5 DEF RelType, Popped
    <2>2. LoopsOverItsWork'
      BY <2>1, <1>1, <1>2, LoopMoves
    <2>3. gather \subseteq Volumes /\ {s \in gather : ctr[s] = "running"} \subseteq Volumes
      BY DEF gather, Volumes
    <2>4. RelType'
      <3>1. Tail(rel.todo) \in Seq(Services \cup {"release"})
        BY <1>1, <1>2, ServiceAtHand
      <3> HIDE DEF gather
      <3> QED BY ZenonT(20), <3>1, <2>3, <1>1, <1>5 DEF RelType, Popped
    <2>5. HostInv' /\ AppsKept
      <3>1. BundleType' /\ ManifestMeansComplete'
        BY <1>2, NoBundleIs DEF BundleType, ManifestMeansComplete
      <3> QED BY <3>1, <2>4, <1>1, <1>2, BundleKeeps
    <2>6. AppsDown' /\ Stored' /\ Migrated' /\ Dumped'
      BY <2>1, <2>5, <1>2, QuietKeeps DEF Quiet
    <2>7. {"kafka", "seaweedfs"} \subseteq gather /\ \A s \in gather : vol[s] # NoVolume
      <3>1. vol["kafka"] # NoVolume /\ vol["seaweedfs"] # NoVolume
        BY <1>2 DEF ReleaseInv, Stored, Dumped, Quiet, Databases
      <3>2. {"kafka", "seaweedfs"} \subseteq Volumes
        BY VolumesAre
      <3> QED BY <3>1, <3>2 DEF gather, volume_path, Volumes
    <2> HIDE DEF gather
    <2>8. Gathered'
      BY <2>1, <2>7, <1>2, <1>3 DEF Gathered, Early, Taken, Snapshot, Backed
    <2>9. Completion' /\ ThawsWhatItFroze' /\ Archived'
      BY ZenonT(20), <2>1, <1>2, <1>3, NoBundleIs DEF Completion, ThawsWhatItFroze, Archived, Early, Backed, Late
    <2>10. Frozen' /\ Restartable'
      BY <2>1, <1>2 DEF Frozen, Restartable, Snapshot
    <2> QED BY <2>2, <2>5, <2>6, <2>8, <2>9, <2>10 DEF ReleaseInv
  <1> QED BY <1>4, <1>5 DEF Gather

\* A service is stopped, or passed over, and remembered.
LEMMA FreezeKeeps == ASSUME ReleaseInv, Freeze PROVE ReleaseInv'
  <1>1. HostInv /\ TypeOK /\ LoopsOverItsWork /\ RelType
    BY TypesAre DEF ReleaseInv, HostInv
  <1>2. rel.pc = "freeze" /\ rel.todo # <<>> /\ UNCHANGED <<vol, image, schema, bundle, job>>
    BY DEF Freeze, At
  <1>3. /\ Service \in Volumes /\ Service \in Services /\ Volumes \subseteq Services
        /\ rel.items \subseteq Volumes
    BY ZenonT(20), <1>1, <1>2, ServiceAtHand, WorkIs, VolumesAre DEF Volumes, RelType
  <1>4. ASSUME RelType', LoopsOverItsWork', Pops, HostInv', AppsKept,
               rel'.dump = rel.dump, rel'.items = rel.items, rel'.running = rel.running,
               rel'.lost = rel.lost, rel'.completed = rel.completed,
               rel'.stopped \subseteq rel.running, rel.stopped \subseteq rel'.stopped,
               Service \in rel.running => ctr'[Service] # "running" /\ Service \in rel'.stopped,
               \A t \in Services : ctr'[t] = "absent" <=> ctr[t] = "absent",
               \A t \in Services \ {Service} : ctr'[t] = ctr[t],
               Service \notin rel.running => ctr' = ctr
        PROVE  ReleaseInv'
    <2>1. rel'.pc = "freeze" /\ Elems(rel.todo) = {Service} \cup Elems(rel'.todo)
      BY <1>2, <1>4 DEF Pops
    <2>2. AppsDown' /\ Stored' /\ Migrated' /\ Dumped'
      BY <2>1, <1>2, <1>4, QuietKeeps DEF Quiet, Taken, Snapshot
    <2>3. Gathered'
      BY <2>1, <1>2, <1>4 DEF ReleaseInv, Gathered, Early, Taken, Snapshot, Backed
    <2>4. Completion' /\ ThawsWhatItFroze' /\ Archived'
      BY ZenonT(20), <2>1, <1>2, <1>4 DEF ReleaseInv, Completion, ThawsWhatItFroze, Archived, Early, Backed, Late
    <2>5. rel.running \subseteq rel.items
      BY DEF ReleaseInv, Gathered
    <2>6. Frozen'
      <3>1. ASSUME NEW s \in rel.items, ctr'[s] = "running"
            PROVE  s \in rel.running /\ s \in Elems(rel'.todo)
        <4>1. ctr[s] = "running" /\ (s = Service => s \notin rel.running)
          BY <3>1, <1>3, <1>4
        <4>2. s \in rel.running /\ s \in Elems(rel.todo)
          BY <4>1, <1>2 DEF ReleaseInv, Frozen, Snapshot
        <4> QED BY <4>1, <4>2, <2>1
      <3> QED BY <3>1, <2>1, <1>4 DEF Frozen
    <2>7. Restartable'
      <3>1. ASSUME NEW s \in rel.running
            PROVE  ctr'[s] # "absent" /\ (ctr'[s] = "running" \/ s \in rel'.stopped)
        <4>1. ctr[s] # "absent" /\ (ctr[s] = "running" \/ s \in rel.stopped)
          BY <1>2 DEF ReleaseInv, Restartable, Snapshot
        <4> QED BY ZenonT(20), <4>1, <2>5, <1>3, <1>4
      <3> QED BY <3>1, <2>1, <1>4 DEF Restartable
    <2> QED BY ZenonT(20), <1>4, <2>2, <2>3, <2>4, <2>6, <2>7 DEF ReleaseInv
  <1>5. rel.stopped \subseteq rel.running /\ rel.running \subseteq Volumes
    BY <1>1 DEF ReleaseInv, Gathered, RelType
  <1>6. CASE Service \in rel.running
    <2>1. Stop(Service) /\ rel' = [Popped EXCEPT !.stopped = @ \cup {Service}]
      BY <1>6 DEF Freeze
    <2>2. /\ rel'.pc = rel.pc /\ rel'.todo = Tail(rel.todo) /\ rel'.dump = rel.dump
          /\ rel'.items = rel.items /\ rel'.running = rel.running
          /\ rel'.stopped = rel.stopped \cup {Service}
          /\ rel'.lost = rel.lost /\ rel'.completed = rel.completed
      BY <2>1, <1>1 DEF RelType, Popped
    <2>3. LoopsOverItsWork' /\ Pops
      BY <2>2, <1>1, <1>2, LoopMoves
    <2>4. RelType'
      <3>1. Tail(rel.todo) \in Seq(Services \cup {"release"}) /\ rel.stopped \cup {Service} \subseteq Volumes
        BY <1>1, <1>2, <1>3, <1>5, ServiceAtHand
      <3> QED BY ZenonT(20), <3>1, <2>1, <1>1 DEF RelType, Popped
    <2>5. /\ HostInv' /\ AppsKept /\ ctr'[Service] # "running"
          /\ \A t \in Services : ctr'[t] = "absent" <=> ctr[t] = "absent"
          /\ \A t \in Services \ {Service} : ctr'[t] = ctr[t]
      BY <2>1, <2>4, <1>1, <1>2, <1>3, StopKeeps
    <2> QED BY <2>2, <2>3, <2>4, <2>5, <1>4, <1>5, <1>6
  <1>7. CASE Service \notin rel.running
    <2>1. rel' = Popped /\ ctr' = ctr
      BY <1>7 DEF Freeze
    <2>2. RelType' /\ LoopsOverItsWork' /\ Pops /\ Kept
      BY <2>1, <1>1, <1>2, PopMoves
    <2>3. HostInv' /\ AppsKept
      BY <2>1, <2>2, <1>1, <1>2, HostStays
    <2> QED BY <2>1, <2>2, <2>3, <1>4, <1>5, <1>7 DEF Kept
  <1> QED BY <1>6, <1>7

\* The steps of the try block after the stops: the record is popped and may be
\* completed, the host is left alone.
LEMMA InsideKeeps ==
    ASSUME ReleaseInv, rel.pc \in {"copy", "archive", "seal"}, rel'.pc = rel.pc,
           vol' = vol, ctr' = ctr,
           rel'.dump = rel.dump, rel'.items = rel.items, rel'.running = rel.running,
           rel'.stopped = rel.stopped, rel'.lost = rel.lost
    PROVE  /\ AppsDown' /\ Stored' /\ Migrated' /\ Dumped' /\ Gathered'
           /\ Frozen' /\ Restartable' /\ ThawsWhatItFroze'
  <1>1. AppsDown' /\ Stored' /\ Migrated' /\ Dumped'
    <2>1. AppsKept
      BY DEF AppsKept
    <2> QED BY <2>1, QuietKeeps DEF Quiet, Taken, Snapshot
  <1>2. Gathered'
    BY DEF ReleaseInv, Gathered, Early, Taken, Snapshot, Backed
  <1>3. Frozen' /\ Restartable' /\ ThawsWhatItFroze'
    BY DEF ReleaseInv, Frozen, Restartable, ThawsWhatItFroze, Snapshot
  <1> QED BY <1>1, <1>2, <1>3

\* Nothing is completed, and no manifest written, before the end.
LEMMA NotYetSealed ==
    ASSUME ReleaseInv, rel.pc \in {"copy", "archive"}
    PROVE  rel.completed = FALSE /\ bundle.manifest = FALSE
  <1>1. RelType /\ BundleType
    BY TypesAre DEF ReleaseInv, HostInv
  <1> QED BY <1>1 DEF ReleaseInv, Completion, RelType, BundleType

\* The dump of the database is copied into the bundle.
LEMMA CopyKeeps == ASSUME ReleaseInv, CopyDump PROVE ReleaseInv'
  <1>1. HostInv /\ TypeOK /\ LoopsOverItsWork /\ RelType /\ BundleType
    BY TypesAre DEF ReleaseInv, HostInv
  <1>2. /\ rel.pc = "copy" /\ rel.todo # <<>> /\ rel' = Popped
        /\ bundle' = [bundle EXCEPT !.postgres = rel.dump]
        /\ UNCHANGED <<ctr, vol, image, schema, job>>
    BY DEF CopyDump, At, host
  <1>3. RelType' /\ LoopsOverItsWork' /\ Pops /\ Kept
    BY <1>1, <1>2, PopMoves
  <1>4. /\ BundleType' /\ bundle'.postgres = rel.dump /\ bundle'.volumes = bundle.volumes
        /\ bundle'.manifest = bundle.manifest
    BY <1>1, <1>2 DEF BundleType, RelType
  <1>5. rel.completed = FALSE /\ bundle.manifest = FALSE
    BY ZenonT(20), <1>2, NotYetSealed
  <1>6. HostInv'
    BY <1>1, <1>2, <1>3, <1>4, <1>5, BundleKeeps DEF ManifestMeansComplete
  <1>7. /\ AppsDown' /\ Stored' /\ Migrated' /\ Dumped' /\ Gathered'
        /\ Frozen' /\ Restartable' /\ ThawsWhatItFroze'
    BY <1>2, <1>3, InsideKeeps DEF Pops, Kept
  <1>8. Completion'
    BY ZenonT(20), <1>2, <1>3, <1>4, <1>5 DEF Completion, Pops, Kept, Early, Backed, Late
  <1>9. Archived'
    <2>1. \A s \in Volumes : bundle'.volumes[s] # Torn
      BY ZenonT(20), <1>4 DEF ReleaseInv, Archived
    <2> QED BY <2>1, <1>2, <1>3, <1>4, <1>5 DEF Archived, Pops, Kept, Backed
  <1> QED BY <1>3, <1>6, <1>7, <1>8, <1>9 DEF ReleaseInv

\* A volume is archived while its service is stopped.
LEMMA TarKeeps == ASSUME ReleaseInv, make_tar PROVE ReleaseInv'
  <1>1. HostInv /\ TypeOK /\ LoopsOverItsWork /\ RelType /\ BundleType /\ VolType
    BY TypesAre DEF ReleaseInv, HostInv
  <1>2. /\ rel.pc = "archive" /\ rel.todo # <<>> /\ rel' = Popped
        /\ UNCHANGED <<ctr, vol, image, schema, job>>
    BY DEF make_tar, At, host
  <1>3. RelType' /\ LoopsOverItsWork' /\ Pops /\ Kept
    BY <1>1, <1>2, PopMoves
  <1>4. Service \in Volumes /\ Service \in Persistent /\ rel.items \subseteq Volumes
    BY ZenonT(20), <1>1, <1>2, ServiceAtHand, WorkIs, VolumesAre DEF Volumes, RelType
  <1>5. vol[Service] \in Contents /\ vol[Service] # Torn
    BY <1>1, <1>4 DEF VolType, Contents, Torn, Volume
  <1>6. /\ BundleType' /\ bundle'.postgres = bundle.postgres
        /\ bundle'.manifest = bundle.manifest
        /\ Service \in rel.items => bundle'.volumes[Service] = vol[Service]
        /\ Service \notin rel.items => bundle' = bundle
        /\ \A t \in Volumes \ {Service} : bundle'.volumes[t] = bundle.volumes[t]
    <2>1. CASE Service \in rel.items
      <3>1. ctr[Service] # "running"
        BY <2>1, <1>2 DEF ReleaseInv, Frozen, Snapshot
      <3>2. bundle' = [bundle EXCEPT !.volumes[Service] = vol[Service]]
        BY <2>1, <3>1 DEF make_tar
      <3> QED BY <3>2, <2>1, <1>1, <1>4, <1>5 DEF BundleType
    <2>2. CASE Service \notin rel.items
      <3>1. bundle' = bundle
        BY <2>2 DEF make_tar
      <3> QED BY <3>1, <2>2, <1>1 DEF BundleType
    <2> QED BY <2>1, <2>2
  <1>7. rel.completed = FALSE /\ bundle.manifest = FALSE
    BY ZenonT(20), <1>2, NotYetSealed
  <1>8. HostInv'
    BY <1>1, <1>2, <1>3, <1>6, <1>7, BundleKeeps DEF ManifestMeansComplete
  <1>9. /\ AppsDown' /\ Stored' /\ Migrated' /\ Dumped' /\ Gathered'
        /\ Frozen' /\ Restartable' /\ ThawsWhatItFroze'
    BY <1>2, <1>3, InsideKeeps DEF Pops, Kept
  <1>10. Completion'
    BY ZenonT(20), <1>2, <1>3, <1>6, <1>7 DEF Completion, Pops, Kept, Early, Backed, Late
  <1>11. Archived'
    <2>1. \A s \in Volumes : bundle'.volumes[s] # Torn
      BY <1>5, <1>6 DEF ReleaseInv, Archived
    <2>2. bundle'.postgres = rel.dump
      BY <1>2, <1>6 DEF ReleaseInv, Archived
    <2>3. \A s \in rel.items : s \in Elems(rel'.todo) \/ bundle'.volumes[s] = vol[s]
      <3>1. \A s \in rel.items : s \in {Service} \cup Elems(rel'.todo) \/ bundle.volumes[s] = vol[s]
        BY <1>2, <1>3 DEF ReleaseInv, Archived, Pops
      <3> QED BY <3>1, <1>4, <1>6
    <2> QED BY <2>1, <2>2, <2>3, <1>2, <1>3, <1>7 DEF Archived, Pops, Kept, Backed
  <1> QED BY <1>3, <1>8, <1>9, <1>10, <1>11 DEF ReleaseInv

\* The manifest is written when everything it vouches for is there.
LEMMA SealKeeps == ASSUME ReleaseInv, Seal PROVE ReleaseInv'
  <1>1. HostInv /\ TypeOK /\ LoopsOverItsWork /\ RelType /\ BundleType
    BY TypesAre DEF ReleaseInv, HostInv
  <1>2. /\ rel.pc = "seal" /\ rel.todo # <<>> /\ rel' = [Popped EXCEPT !.completed = TRUE]
        /\ bundle' = [bundle EXCEPT !.manifest = TRUE]
        /\ UNCHANGED <<ctr, vol, image, schema, job>>
    BY DEF Seal, At, host
  <1>3. /\ rel'.pc = rel.pc /\ rel'.todo = Tail(rel.todo) /\ rel'.dump = rel.dump
        /\ rel'.items = rel.items /\ rel'.running = rel.running /\ rel'.stopped = rel.stopped
        /\ rel'.lost = rel.lost /\ rel'.completed = TRUE
    BY <1>1, <1>2 DEF RelType, Popped
  <1>4. LoopsOverItsWork'
    BY <1>1, <1>2, <1>3, LoopMoves
  <1>5. RelType'
    <2>1. Tail(rel.todo) \in Seq(Services \cup {"release"})
      BY <1>1, <1>2, ServiceAtHand
    <2> QED BY ZenonT(20), <2>1, <1>1, <1>2 DEF RelType, Popped
  <1>6. /\ BundleType' /\ bundle'.postgres = bundle.postgres /\ bundle'.volumes = bundle.volumes
        /\ bundle'.manifest = TRUE
    BY ZenonT(20), <1>1, <1>2 DEF BundleType
  <1>7. /\ bundle.postgres = rel.dump /\ \A s \in rel.items : bundle.volumes[s] = vol[s]
        /\ \A s \in Volumes : bundle.volumes[s] # Torn
    BY <1>2 DEF ReleaseInv, Archived
  <1>8. /\ rel.dump # NoVolume /\ {"kafka", "seaweedfs"} \subseteq rel.items
        /\ \A s \in rel.items : vol[s] # NoVolume
    BY <1>2 DEF ReleaseInv, Dumped, Gathered, Taken, Snapshot, Databases
  <1>9. ManifestMeansComplete'
    <2>1. \A s \in Volumes : s \in Core => s \in rel.items
      BY <1>8, VolumesAre DEF Core, Databases
    <2> QED BY <2>1, <1>6, <1>7, <1>8 DEF ManifestMeansComplete, Volumes
  <1>10. HostInv'
    BY <1>1, <1>2, <1>5, <1>6, <1>9, BundleKeeps
  <1>11. /\ AppsDown' /\ Stored' /\ Migrated' /\ Dumped' /\ Gathered'
         /\ Frozen' /\ Restartable' /\ ThawsWhatItFroze'
    BY <1>2, <1>3, InsideKeeps
  <1>12. Completion' /\ Archived'
    BY <1>2, <1>3, <1>6, <1>7 DEF Completion, Archived, Early, Backed
  <1> QED BY <1>4, <1>10, <1>11, <1>12 DEF ReleaseInv

\* An exception in the try block: the finally block has everything it needs to
\* restart what was stopped, but for the service whose docker stop failed.
LEMMA RaisesKeeps == ASSUME ReleaseInv, SnapshotRaises PROVE ReleaseInv'
  <1>1. HostInv /\ TypeOK /\ LoopsOverItsWork /\ RelType
    BY TypesAre DEF ReleaseInv, HostInv
  <1>2. rel.pc \in Snapshot /\ rel.todo # <<>> /\ UNCHANGED <<vol, image, schema, bundle, job>>
    BY DEF SnapshotRaises, Snapshot
  <1>3. /\ VOLUMES \in Seq(Services \cup {"release"}) /\ Work("thaw") = VOLUMES
        /\ VOLUMES \in Seq(Volumes) /\ Volumes \subseteq Services
    BY VolumesAre, WorkIs
  <1>4. rel.running \subseteq Volumes /\ rel.items \subseteq Volumes
    BY <1>1 DEF RelType
  <1>5. ASSUME RelType', rel'.pc = "thaw", rel'.todo = VOLUMES, HostInv', AppsKept,
               rel'.dump = rel.dump, rel'.items = rel.items, rel'.running = rel.running,
               rel'.stopped = rel.stopped, rel'.completed = rel.completed,
               \A t \in rel.running \ rel'.lost : ctr'[t] = ctr[t],
               \A t \in rel.running : ctr'[t] = "absent" <=> ctr[t] = "absent"
        PROVE  ReleaseInv'
    <2>1. LoopsOverItsWork'
      BY <1>3, <1>5 DEF LoopsOverItsWork, Volumes
    <2>2. AppsDown' /\ Stored' /\ Migrated' /\ Dumped'
      BY <1>2, <1>5, QuietKeeps DEF Quiet, Taken
    <2>3. Gathered'
      BY <1>2, <1>5 DEF ReleaseInv, Gathered, Early, Taken, Snapshot, Backed
    <2>4. Completion' /\ ThawsWhatItFroze' /\ Frozen'
      BY ZenonT(20), <1>2, <1>5 DEF ReleaseInv, Completion, ThawsWhatItFroze, Frozen, Early, Snapshot, Backed,
                        Late
    <2>5. Restartable'
      <3>1. \A s \in rel.running : ctr[s] # "absent" /\ (ctr[s] = "running" \/ s \in rel.stopped)
        BY <1>2 DEF ReleaseInv, Restartable
      <3>2. Elems(rel'.todo) = Volumes
        BY <1>5 DEF Volumes
      <3> QED BY <3>1, <3>2, <1>4, <1>5 DEF Restartable, Snapshot
    <2>6. Archived'
      <3>1. rel.completed => rel.pc = "seal"
        BY <1>2 DEF ReleaseInv, Completion, Snapshot
      <3> QED BY ZenonT(20), <3>1, <1>2, <1>5 DEF ReleaseInv, Archived, Backed
    <2> QED BY <1>5, <2>1, <2>2, <2>3, <2>4, <2>5, <2>6 DEF ReleaseInv
  <1>6. "thaw" \in DOMAIN Phases
    BY ZenonT(20) DEF Phases
  <1>7. CASE /\ rel.pc = "freeze" /\ (Stop(Service) \/ UNCHANGED ctr)
             /\ rel' = [rel EXCEPT !.pc = "thaw", !.todo = Work("thaw"), !.lost = {Service}]
    <2>1. Service \in Volumes /\ Service \in Services
      BY <1>1, <1>2, <1>3, <1>7, ServiceAtHand, WorkIs DEF Volumes
    <2>2. /\ rel'.pc = "thaw" /\ rel'.todo = VOLUMES /\ rel'.dump = rel.dump
          /\ rel'.items = rel.items /\ rel'.running = rel.running /\ rel'.stopped = rel.stopped
          /\ rel'.completed = rel.completed /\ rel'.lost = {Service}
      BY <1>1, <1>3, <1>7 DEF RelType
    <2>3. RelType'
      BY ZenonT(20), <2>1, <1>1, <1>3, <1>6, <1>7 DEF RelType
    <2>4. /\ HostInv' /\ AppsKept /\ \A t \in Services \ {Service} : ctr'[t] = ctr[t]
          /\ \A t \in Services : ctr'[t] = "absent" <=> ctr[t] = "absent"
      <3>1. CASE Stop(Service)
        BY <3>1, <2>1, <2>3, <1>1, <1>2, StopKeeps
      <3>2. CASE UNCHANGED ctr
        BY <3>2, <2>3, <1>1, <1>2, HostStays
      <3> QED BY <3>1, <3>2, <1>7
    <2> QED BY <2>2, <2>3, <2>4, <1>3, <1>4, <1>5
  <1>8. CASE UNCHANGED ctr /\ rel' = [rel EXCEPT !.pc = "thaw", !.todo = Work("thaw")]
    <2>1. /\ rel'.pc = "thaw" /\ rel'.todo = VOLUMES /\ rel'.dump = rel.dump
          /\ rel'.items = rel.items /\ rel'.running = rel.running /\ rel'.stopped = rel.stopped
          /\ rel'.completed = rel.completed
      BY <1>1, <1>3, <1>8 DEF RelType
    <2>2. RelType'
      BY ZenonT(20), <1>1, <1>3, <1>6, <1>8 DEF RelType
    <2>3. HostInv' /\ AppsKept
      BY <2>2, <1>1, <1>2, <1>8, HostStays
    <2> QED BY <2>1, <2>2, <2>3, <1>5, <1>8
  <1> QED BY <1>7, <1>8 DEF SnapshotRaises

\* The finally block restarts a service, passes over one, or notes the failure.
LEMMA ThawKeeps == ASSUME ReleaseInv, Thaw PROVE ReleaseInv'
  <1>1. HostInv /\ TypeOK /\ LoopsOverItsWork /\ RelType /\ CtrType
    BY TypesAre DEF ReleaseInv, HostInv
  <1>2. rel.pc = "thaw" /\ rel.todo # <<>> /\ UNCHANGED <<vol, image, schema, bundle, job>>
    BY DEF Thaw, At
  <1>3. /\ Service \in Volumes /\ Service \in Services /\ Service \notin Apps
        /\ Service # "postgres" /\ Volumes \subseteq Services /\ rel.running \subseteq Volumes
    BY ZenonT(20), <1>1, <1>2, ServiceAtHand, WorkIs, VolumesAre DEF Volumes, RelType
  <1>4. ASSUME RelType', LoopsOverItsWork', Pops, HostInv', AppsKept,
               rel'.dump = rel.dump, rel'.items = rel.items, rel'.running = rel.running,
               rel'.stopped = rel.stopped, rel'.completed = rel.completed,
               rel.lost \subseteq rel'.lost,
               Service \in rel.stopped => Service \in rel'.lost \/ ctr'[Service] = "running",
               \A t \in Volumes : ctr[t] = "running" => ctr'[t] = "running",
               \A t \in Volumes : ctr[t] # "absent" => ctr'[t] # "absent"
        PROVE  ReleaseInv'
    <2>1. rel'.pc = "thaw" /\ Elems(rel.todo) = {Service} \cup Elems(rel'.todo)
      BY ZenonT(20), <1>2, <1>4 DEF Pops
    <2>2. AppsDown' /\ Stored' /\ Migrated' /\ Dumped'
      BY <2>1, <1>2, <1>4, QuietKeeps DEF Quiet, Taken
    <2>3. Gathered'
      BY ZenonT(20), <2>1, <1>2, <1>4 DEF ReleaseInv, Gathered, Early, Taken, Snapshot, Backed
    <2>4. Completion' /\ ThawsWhatItFroze' /\ Frozen' /\ Archived'
      BY ZenonT(20), <2>1, <1>2, <1>4 DEF ReleaseInv, Completion, ThawsWhatItFroze, Frozen, Archived, Early,
                              Snapshot, Backed, Late
    <2>5. Restartable'
      <3>1. /\ \A s \in rel.running \ rel.lost :
                  ctr[s] = "running" \/ (s \in rel.stopped /\ s \in Elems(rel.todo))
            /\ \A s \in rel.running : ctr[s] # "absent"
        BY <1>2 DEF ReleaseInv, Restartable
      <3>2. ASSUME NEW s \in rel.running \ rel'.lost
            PROVE  ctr'[s] = "running" \/ (s \in rel'.stopped /\ s \in Elems(rel'.todo))
        <4>1. s \in Volumes /\ s \notin rel.lost
          BY <3>2, <1>3, <1>4
        <4> QED BY <4>1, <3>1, <3>2, <2>1, <1>4
      <3>3. \A s \in rel.running : ctr'[s] # "absent"
        BY <3>1, <1>3, <1>4
      <3> QED BY ZenonT(20), <3>2, <3>3, <2>1, <1>4 DEF Restartable, Snapshot
    <2> QED BY ZenonT(20), <1>4, <2>2, <2>3, <2>4, <2>5 DEF ReleaseInv
  <1>5. CASE Service \in rel.stopped /\ ctr' = [ctr EXCEPT ![Service] = "running"] /\ rel' = Popped
    <2>1. RelType' /\ LoopsOverItsWork' /\ Pops /\ Kept
      BY <1>1, <1>2, <1>5, PopMoves
    <2>2. CtrType' /\ ctr'[Service] = "running" /\ \A t \in Services \ {Service} : ctr'[t] = ctr[t]
      BY <1>1, <1>3, <1>5 DEF CtrType
    <2>3. VolType' /\ VolKept /\ AppsKept /\ OneInstallation'
      BY <2>2, <1>1, <1>2, <1>3, TypesAre, VolumesAre
      DEF VolType, VolKept, AppsKept, HostInv, OneInstallation
    <2>4. vol[Service] # NoVolume
      BY ZenonT(20), <1>2, <1>5 DEF ReleaseInv, Gathered, Taken
    <2>5. HostInv'
      <3>1. /\ \A t \in Persistent : ctr'[t] # "absent" => ctr[t] # "absent" \/ vol'[t] # NoVolume
            /\ ctr["postgres"] # "absent" => ctr'["postgres"] # "absent"
        BY ZenonT(20), <2>2, <2>4, <1>2, <1>3, VolumesAre
      <3> QED BY ZenonT(20), <3>1, <2>1, <2>2, <2>3, <1>1, <1>2, HostKeeps
    <2> QED BY <2>1, <2>2, <2>3, <2>5, <1>3, <1>4 DEF Kept
  <1>6. CASE Service \notin rel.stopped /\ ctr' = ctr /\ rel' = Popped
    <2>1. RelType' /\ LoopsOverItsWork' /\ Pops /\ Kept
      BY <1>1, <1>2, <1>6, PopMoves
    <2>2. HostInv' /\ AppsKept
      BY <2>1, <1>1, <1>2, <1>6, HostStays
    <2> QED BY <2>1, <2>2, <1>4, <1>6 DEF Kept
  <1>7. CASE ctr' = ctr /\ rel' = [Popped EXCEPT !.lost = @ \cup {Service}]
    <2>1. /\ rel'.pc = rel.pc /\ rel'.todo = Tail(rel.todo) /\ rel'.dump = rel.dump
          /\ rel'.items = rel.items /\ rel'.running = rel.running /\ rel'.stopped = rel.stopped
          /\ rel'.lost = rel.lost \cup {Service} /\ rel'.completed = rel.completed
      BY <1>1, <1>7 DEF RelType, Popped
    <2>2. LoopsOverItsWork' /\ Pops
      BY <2>1, <1>1, <1>2, LoopMoves
    <2>3. RelType'
      <3>1. Tail(rel.todo) \in Seq(Services \cup {"release"}) /\ rel.lost \cup {Service} \subseteq Volumes
        BY <1>1, <1>2, <1>3, ServiceAtHand DEF RelType
      <3> QED BY ZenonT(20), <3>1, <1>1, <1>7 DEF RelType, Popped
    <2>4. HostInv' /\ AppsKept
      BY <2>3, <1>1, <1>2, <1>7, HostStays
    <2> QED BY <2>1, <2>2, <2>3, <2>4, <1>4, <1>7
  <1> QED BY <1>5, <1>6, <1>7 DEF Thaw

\* The end of create_snapshot: on to the next phase, or the release has failed
\* with everything restarted that could be.
LEMMA ThawEndsKeeps == ASSUME ReleaseInv, ThawEnds PROVE ReleaseInv'
  <1> DEFINE failed == rel.stopped \cap rel.lost # {}
  <1>1. HostInv /\ TypeOK /\ RelType
    BY TypesAre DEF ReleaseInv, HostInv
  <1>2. rel.pc = "thaw" /\ rel.todo = <<>> /\ UNCHANGED <<ctr, vol, image, schema, job>>
    BY DEF ThawEnds, host
  <1>3. /\ \A s \in rel.running \ rel.lost : ctr[s] = "running"
        /\ Elems(rel.todo) = {}
    <2>1. Elems(rel.todo) = {}
      BY <1>2 DEF Elems
    <2> QED BY ZenonT(20), <2>1, <1>2 DEF ReleaseInv, Restartable
  <1>4. CASE ~(rel.completed /\ ~failed)
    <2>1. Abort("failed") /\ (bundle' = bundle \/ (bundle' = NoBundle /\ ~rel.completed))
      BY <1>4 DEF ThawEnds
    <2>2. Thawed
      BY <1>3 DEF Thawed
    <2> QED BY <2>1, <2>2, <1>2, AbortKeeps DEF Outcomes
  <1>5. CASE rel.completed /\ ~failed
    <2>1. /\ bundle' = bundle
          /\ rel' = [rel EXCEPT !.pc = "remove_stale", !.todo = Work("remove_stale")]
      <3>1. Phases["thaw"] = "remove_stale"
        BY ZenonT(20) DEF Phases
      <3> QED BY <3>1, <1>5 DEF ThawEnds
    <2>2. /\ rel'.pc = "remove_stale" /\ rel'.todo = Work("remove_stale") /\ rel'.dump = rel.dump
          /\ rel'.items = rel.items /\ rel'.running = rel.running /\ rel'.stopped = rel.stopped
          /\ rel'.lost = rel.lost /\ rel'.completed = rel.completed
      BY <2>1, <1>1 DEF RelType
    <2>3. /\ Work("remove_stale") \in Seq(Elems(Work("remove_stale")))
          /\ Work("remove_stale") \in Seq(Services \cup {"release"})
          /\ "remove_stale" \in DOMAIN Phases
      <3>1. Work("remove_stale") \in Seq(Elems(Work("remove_stale")))
        BY ZenonT(20), WorkIs
      <3>2. Elems(Work("remove_stale")) \subseteq Services \cup {"release"}
        BY ZenonT(20), WorkIs
      <3>3. Work("remove_stale") \in Seq(Services \cup {"release"})
        BY <3>1, <3>2
      <3>4. "remove_stale" \in DOMAIN Phases
        BY DEF Phases
      <3> QED BY <3>1, <3>3, <3>4
    <2>4. RelType'
      BY ZenonT(20), <2>1, <2>3, <1>1 DEF RelType
    <2>5. LoopsOverItsWork'
      BY <2>2, <2>3 DEF LoopsOverItsWork
    <2>6. HostInv' /\ AppsKept
      BY <2>1, <2>4, <1>1, <1>2, HostStays
    <2>7. AppsDown' /\ Stored' /\ Migrated' /\ Dumped'
      BY <2>2, <2>6, <1>2, QuietKeeps DEF Quiet, Taken, Backed
    <2>8. Gathered' /\ Completion' /\ Archived'
      BY ZenonT(20), <2>1, <2>2, <1>2, <1>5 DEF ReleaseInv, Gathered, Completion, Archived, Early, Taken,
                                    Snapshot, Backed, Late
    <2>9. Frozen' /\ Restartable' /\ ThawsWhatItFroze'
      BY ZenonT(20), <2>2, <1>2, <1>3 DEF Frozen, Restartable, ThawsWhatItFroze, Snapshot
    <2> QED BY <2>5, <2>6, <2>7, <2>8, <2>9 DEF ReleaseInv
  <1> QED BY <1>4, <1>5

-----------------------------------------------------------------------------
(* The inductive invariant *)

\* The hosts that a first release may find have no new database.
LEMMA ReleaseInit == Init => ReleaseInv
  <1> SUFFICES ASSUME Init PROVE ReleaseInv
    OBVIOUS
  <1>1. PICK h \in Hosts : ctr = h.ctr /\ vol = h.vol
    BY DEF Init
  <1>2. /\ CtrType /\ vol \in [Persistent -> Found]
        /\ \A s \in Persistent : ctr[s] # "absent" => vol[s] # NoVolume
    BY ZenonT(20), <1>1, ConstantsAssumption DEF CtrType
  <1>3. VolType /\ OneInstallation
    BY <1>2 DEF VolType, OneInstallation, Found, Contents, Persistent, Core
  <1>4. bundle = NoBundle /\ rel = Idle(0, "none") /\ job = "idle" /\ schema = 0
        /\ image = [a \in Apps |-> 0]
    BY DEF Init, Apps
  <1>5. /\ rel.pc = "idle" /\ rel.todo = <<>> /\ rel.items = {} /\ rel.running = {}
        /\ rel.stopped = {} /\ rel.lost = {}
    BY <1>4 DEF Idle
  <1>6. RelType /\ LoopsOverItsWork
    <2>1. NoVolume \in Contents /\ "none" \in Outcomes
      BY DEF NoVolume, Volume, Contents, Outcomes
    <2>2. <<>> \in Seq(Services \cup {"release"}) /\ <<>> \in Seq(Elems(Work("idle")))
      OBVIOUS
    <2>3. RelType
      BY ZenonT(20), <2>1, <2>2, <1>4 DEF Idle, RelType
    <2> QED BY <2>2, <2>3, <1>5 DEF LoopsOverItsWork
  <1>7. BundleType /\ ~bundle.manifest /\ \A s \in Volumes : bundle.volumes[s] # Torn
    BY <1>4, NoBundleIs DEF BundleType
  <1>8. TypeOK
    BY <1>2, <1>3, <1>4, <1>6, <1>7, TypesAre
  <1>9. Mounted /\ ManifestMeansComplete
    BY <1>2, <1>4, <1>7 DEF Mounted, ManifestMeansComplete
  <1>10. CodeMatchesSchema
    BY <1>4 DEF CodeMatchesSchema, Apps
  <1>11. /\ AppsDown /\ Migrated /\ Stored /\ Dumped /\ Gathered /\ Completion
         /\ Frozen /\ Restartable /\ ThawsWhatItFroze /\ Archived
    BY ZenonT(20), <1>5, <1>7 DEF AppsDown, Migrated, Stored, Dumped, Gathered, Completion, Frozen, Restartable,
                      ThawsWhatItFroze, Archived, Early, Quiet, Taken, Snapshot, Backed, Late
  <1> QED BY <1>3, <1>6, <1>8, <1>9, <1>10, <1>11 DEF ReleaseInv, HostInv

\* Every step of a release, on any host, keeps the invariant.
LEMMA ReleaseNext == ReleaseInv /\ [Next]_vars => ReleaseInv'
  <1> SUFFICES ASSUME ReleaseInv, [Next]_vars PROVE ReleaseInv'
    OBVIOUS
  <1>1. CASE UNCHANGED vars
    <2>1. UNCHANGED <<ctr, vol, image, schema, rel, bundle, job>> /\ HostInv /\ TypeOK
      BY <1>1 DEF vars, host, ReleaseInv, HostInv
    <2>2. RelType' /\ Kept
      BY ZenonT(20), <2>1, TypesAre DEF RelType, Kept
    <2> QED BY <2>1, <2>2, HostStays, StayKeeps
  <1>2. CASE Next
    <2>1. CASE ReleaseStep
      BY <2>1, AdvanceKeeps, EnsureKeeps, BuildKeeps, DrainKeeps, StopApplicationKeeps, DumpKeeps,
         GatherKeeps, FreezeKeeps, CopyKeeps, TarKeeps, SealKeeps, ThawKeeps, ThawEndsKeeps,
         RemoveStaleKeeps, RemovePersistedKeeps, ReconcileKeeps, MigrateKeeps, StartKeeps,
         VerifyKeeps, RescueKeeps DEF ReleaseStep
    <2> QED BY <2>1, <1>2, BeginKeeps, RaisesKeeps, RaiseKeeps, CrashKeeps, WriteKeeps, BackupKeeps
            DEF Next
  <1> QED BY <1>1, <1>2

\* The invariant holds in every state of every release.
LEMMA ReleaseAlways == Spec => []ReleaseInv
  BY ReleaseInit, ReleaseNext, PTL DEF Spec

\* The types of the variables, for any hosts and services.
THEOREM TypesCorrect == Spec => []TypeOK
  <1>1. ReleaseInv => TypeOK
    BY DEF ReleaseInv, HostInv
  <1> QED BY <1>1, ReleaseAlways, PTL

\* alembic runs only with all that the application had written in the bundle of
\* release_backup.py, for any hosts, services, faults and writes.
THEOREM MigratesWithBackup == Spec => []MigrationIsBackedUp
  <1>1. ReleaseInv => MigrationIsBackedUp
    <2> SUFFICES ASSUME ReleaseInv, At("migrate")
                 PROVE  /\ bundle.manifest /\ bundle.postgres = vol["postgres"]
                        /\ \A s \in Core \ {"postgres"} : bundle.volumes[s] = vol[s]
      BY DEF MigrationIsBackedUp
    <2>1. rel.pc = "migrate" /\ rel.completed /\ bundle.manifest = rel.completed
      BY DEF ReleaseInv, Completion, Backed, At
    <2>2. bundle.postgres = rel.dump /\ \A s \in rel.items : bundle.volumes[s] = vol[s]
      BY ZenonT(20), <2>1 DEF ReleaseInv, Archived, Backed
    <2>3. rel.dump = vol["postgres"] /\ {"kafka", "seaweedfs"} \subseteq rel.items
      BY ZenonT(20), <2>1 DEF ReleaseInv, Dumped, Gathered, Taken, Backed
    <2> QED BY <2>1, <2>2, <2>3 DEF Core, Databases
  <1> QED BY <1>1, ReleaseAlways, PTL

\* The manifest that create_snapshot writes vouches for a whole bundle, however
\* the release goes on.
THEOREM ManifestsAreComplete == Spec => []ManifestMeansComplete
  <1>1. ReleaseInv => ManifestMeansComplete
    BY DEF ReleaseInv, HostInv
  <1> QED BY <1>1, ReleaseAlways, PTL

\* No application container runs beside a schema of another revision, however
\* the releases before have ended.
THEOREM CodeFitsSchema == Spec => []CodeMatchesSchema
  <1>1. ReleaseInv => CodeMatchesSchema
    BY DEF ReleaseInv, HostInv
  <1> QED BY <1>1, ReleaseAlways, PTL

\* The finally block of create_snapshot restarts what its try block has stopped,
\* wherever the exception was raised.
THEOREM SnapshotRestarts == Spec => []ThawsWhatItFroze
  <1>1. ReleaseInv => ThawsWhatItFroze
    BY DEF ReleaseInv
  <1> QED BY <1>1, ReleaseAlways, PTL

\* recover_missing_database and ensure_infrastructure never mix two installations.
THEOREM InstallationsStayApart == Spec => []OneInstallation
  <1>1. ReleaseInv => OneInstallation
    BY DEF ReleaseInv, HostInv
  <1> QED BY <1>1, ReleaseAlways, PTL

-----------------------------------------------------------------------------
(* Which steps create and remove containers *)

\* No container comes or goes.
ContainersStay == \A s \in Services : ctr'[s] = "absent" <=> ctr[s] = "absent"

\* Most steps leave the containers, stop one, or start one that there is.
LEMMA MostStepsKeepContainers ==
    ASSUME ReleaseInv, Next, ~EnsureInfrastructure, ~remove_stale, ~remove_stale_persisted,
           ~Reconcile, ~StartApplication
    PROVE  ContainersStay
  <1>1. HostInv /\ TypeOK /\ LoopsOverItsWork /\ RelType /\ CtrType
    BY TypesAre DEF ReleaseInv, HostInv
  <1>2. ASSUME NEW s \in Services, Stop(s) PROVE ContainersStay
    BY <1>1, <1>2, StopMoves DEF ContainersStay
  <1>3. ASSUME NEW s \in Services, NEW now \in {"stopped", "running"}, ctr[s] # "absent",
               ctr' = [ctr EXCEPT ![s] = now]
        PROVE  ContainersStay
    BY <1>1, <1>3 DEF CtrType, ContainersStay
  <1>4. ASSUME ctr' = ctr PROVE ContainersStay
    BY <1>4 DEF ContainersStay
  <1>5. ASSUME rel.pc \in {"stop", "freeze", "rescue"}, rel.todo # <<>> PROVE Service \in Services
    BY <1>1, <1>5, ServiceAtHand, WorkIs, VolumesAre DEF Apps, Volumes
  <1>6. CASE StopApplication \/ Freeze \/ SnapshotRaises \/ Rescue
    <2>1. ctr' = ctr \/ (Stop(Service) /\ rel.pc \in {"stop", "freeze", "rescue"} /\ rel.todo # <<>>)
      BY <1>6 DEF StopApplication, Freeze, SnapshotRaises, Rescue, At
    <2> QED BY <2>1, <1>2, <1>4, <1>5
  <1>7. CASE Thaw
    <2>1. CASE ctr' = ctr
      BY <2>1, <1>4
    <2>2. CASE Service \in rel.stopped /\ ctr' = [ctr EXCEPT ![Service] = "running"]
      <3>1. ctr[Service] # "absent" /\ Service \in Services
        BY <2>2, <1>1, <1>7, VolumesAre DEF Thaw, At, ReleaseInv, Gathered, Restartable, RelType
      <3> QED BY ZenonT(20), <3>1, <2>2, <1>3
    <2> QED BY <2>1, <2>2, <1>7 DEF Thaw
  <1>8. CASE BackupBegin \/ BackupEnd
    <2>1. "postgres" \in Services /\ ctr["postgres"] # "absent"
      BY <1>1, <1>8, VolumesAre DEF BackupBegin, BackupEnd, HostInv, Mounted
    <2>2. CASE BackupBegin
      BY ZenonT(20), <2>1, <2>2, <1>3 DEF BackupBegin
    <2>3. CASE BackupEnd
      <3>1. ctr["postgres"] \in {"stopped", "running"}
        BY <2>1, <1>1 DEF CtrType
      <3> QED BY ZenonT(20), <3>1, <2>1, <2>3, <1>3 DEF BackupEnd
    <2> QED BY <2>2, <2>3, <1>8
  <1>9. CASE ctr' = ctr
    BY <1>9, <1>4
  <1> QED BY <1>6, <1>7, <1>8, <1>9
          DEF Next, ReleaseStep, Begin, Advance, Build, Drain, Dump, Gather, CopyDump, make_tar, Seal,
              ThawEnds, Migrate, Verify, Raise, Crash, Write, host

\* A step that removes a container has stopped it and holds its archive; one
\* that creates a database container has archived the volume, if there is one.
ContainerStep ==
    \A s \in Services :
        /\ ctr[s] # "absent" /\ ctr'[s] = "absent" =>
              /\ s \notin Databases /\ ctr[s] = "stopped"
              /\ s \in Persistent => bundle.manifest /\ bundle.volumes[s] # NoVolume
        /\ ctr[s] = "absent" /\ ctr'[s] # "absent" /\ s \in Databases =>
              vol[s] \in {NoVolume, cold[s]}

\* No step of a release removes a container but those it may replace.
LEMMA ContainerSteps == ReleaseInv /\ [Next]_vars => [ContainerStep]_vars
  <1> SUFFICES ASSUME ReleaseInv, Next PROVE ContainerStep
    OBVIOUS
  <1>1. HostInv /\ TypeOK /\ LoopsOverItsWork /\ RelType /\ CtrType
    BY TypesAre DEF ReleaseInv, HostInv
  <1>2. ASSUME ContainersStay PROVE ContainerStep
    BY <1>2 DEF ContainersStay, ContainerStep
  <1>3. ASSUME NEW s \in Services, Up(s), s \in Databases /\ ctr[s] = "absent" => vol[s] \in {NoVolume, cold[s]}
        PROVE  ContainerStep
    <2>1. ctr'[s] = "running" /\ \A t \in Services \ {s} : ctr'[t] = ctr[t]
      BY <1>1, <1>3, UpMoves
    <2> QED BY <2>1, <1>3 DEF ContainerStep
  <1>4. ASSUME NEW s \in Services \ Databases, Remove(s), ctr[s] = "stopped",
               s \in Persistent => bundle.manifest /\ bundle.volumes[s] # NoVolume
        PROVE  ContainerStep
    <2>1. ctr'[s] = "absent" /\ \A t \in Services \ {s} : ctr'[t] = ctr[t]
      BY <1>1, <1>4 DEF Remove, CtrType
    <2> QED BY ZenonT(20), <2>1, <1>4 DEF ContainerStep
  <1>5. CASE EnsureInfrastructure
    <2>1. rel.pc \in {"recover", "storage", "ensure"} /\ rel.todo # <<>>
      BY ZenonT(20), <1>5 DEF EnsureInfrastructure, At
    <2>2. Service \in Core /\ Service \in Services
      BY <1>1, <2>1, ServiceAtHand, WorkIs DEF Core, Databases, Services, Persistent
    <2>3. CASE ctr' = ctr
      BY <2>3, <1>2 DEF ContainersStay
    <2>4. CASE recover_missing_database(Service) = "ORPHAN" /\ Reattach(Service)
      BY <2>2, <2>4, <1>3 DEF Reattach
    <2>5. CASE recover_missing_database(Service) = "NEW_INSTALL" /\ Up(Service)
      <3>1. Service \in Databases => vol[Service] = NoVolume
        BY <2>5 DEF recover_missing_database, orphan_volume
      <3> QED BY ZenonT(20), <3>1, <2>2, <2>5, <1>3
    <2>6. CASE recover_missing_database(Service) = "EXISTING" /\ ctr' = [ctr EXCEPT ![Service] = "running"]
      <3>1. ctr[Service] # "absent"
        BY <2>6 DEF recover_missing_database, containers
      <3>2. ContainersStay
        BY <3>1, <2>2, <2>6, <1>1 DEF CtrType, ContainersStay
      <3> QED BY <3>2, <1>2
    <2> QED BY <1>5, <2>3, <2>4, <2>5, <2>6 DEF EnsureInfrastructure, cold_recovery_snapshot, host
  <1>6. CASE remove_stale
    <2>1. Service \in Apps /\ Service \in Services \ Databases /\ Service \notin Persistent
      <3>1. Service \in Apps
        BY ZenonT(20), <1>1, <1>6, ServiceAtHand, WorkIs DEF remove_stale, At, Apps
      <3> QED BY <3>1, VolumesAre DEF Persistent, Core
    <2>2. CASE ctr' = ctr
      BY <2>2, <1>2 DEF ContainersStay
    <2>3. CASE Remove(Service) /\ Stale(Service) /\ ctr[Service] # "running"
      <3>1. ctr[Service] = "stopped"
        BY <2>1, <2>3, <1>1 DEF Stale, CtrType
      <3> QED BY ZenonT(20), <3>1, <2>1, <2>3, <1>4
    <2> QED BY <1>6, <2>2, <2>3 DEF remove_stale, host
  <1>7. CASE remove_stale_persisted
    <2>1. Service \in Services \ Databases
      <3>1. Service \in {"seaweedfs"} \cup Elems(Observability)
        BY ZenonT(20), <1>1, <1>7, ServiceAtHand, WorkIs, VolumesAre DEF remove_stale_persisted, At
      <3> QED BY <3>1, VolumesAre, ConstantsAssumption DEF Databases, Core
    <2>2. CASE ctr' = ctr
      BY <2>2, <1>2 DEF ContainersStay
    <2>3. CASE Stop(Service)
      BY <2>1, <2>3, <1>1, <1>2, StopMoves DEF ContainersStay
    <2>4. CASE /\ Remove(Service) /\ Stale(Service) /\ ctr[Service] # "running"
               /\ bundle.manifest /\ bundle.volumes[Service] # NoVolume
      <3>1. ctr[Service] = "stopped"
        BY <2>1, <2>4, <1>1 DEF Stale, CtrType
      <3> QED BY <3>1, <2>1, <2>4, <1>4
    <2> QED BY <1>7, <2>2, <2>3, <2>4 DEF remove_stale_persisted, host
  <1>8. CASE Reconcile
    <2>1. Service \in {"seaweedfs"} \cup Elems(Observability) /\ Up(Service)
      BY ZenonT(20), <1>1, <1>8, ServiceAtHand, WorkIs, VolumesAre DEF Reconcile, At
    <2>2. Service \in Services \ Databases
      BY <2>1, VolumesAre, ConstantsAssumption DEF Databases, Core
    <2> QED BY <2>1, <2>2, <1>3
  <1>9. CASE StartApplication
    <2>1. Service \in Apps /\ Up(Service)
      BY ZenonT(20), <1>1, <1>9, ServiceAtHand, WorkIs DEF StartApplication, At, Apps
    <2>2. Service \in Services \ Databases
      BY <2>1, VolumesAre DEF Persistent, Core
    <2> QED BY ZenonT(20), <2>1, <2>2, <1>3
  <1> QED BY <1>2, <1>5, <1>6, <1>7, <1>8, <1>9, MostStepsKeepContainers

\* The tools remove no database container and no running application container,
\* another persistent container only with its archive in a finished bundle, and
\* give an orphaned database volume a container only after archiving it.
THEOREM ContainersAreKept == Spec => KeepsContainers
  <1>1. ReleaseInv /\ [Next]_vars => [\A s \in Services :
         /\ ctr[s] # "absent" /\ ctr'[s] = "absent" =>
               /\ s \notin Databases /\ ctr[s] = "stopped"
               /\ s \in Persistent => bundle.manifest /\ bundle.volumes[s] # NoVolume
         /\ ctr[s] = "absent" /\ ctr'[s] # "absent" /\ s \in Databases =>
               vol[s] \in {NoVolume, cold[s]}]_vars
    BY ContainerSteps DEF ContainerStep
  <1> QED BY <1>1, ReleaseAlways, PTL DEF Spec, KeepsContainers

=============================================================================
