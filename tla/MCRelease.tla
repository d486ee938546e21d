----------------------------- MODULE MCRelease -----------------------------
(***************************************************************************)
(* Instances of Release: a host that runs an installation, hosts on which  *)
(* containers, images, mounts or volumes were lost, and a new host.        *)
(***************************************************************************)
EXTENDS Release, TLC

Apps == <<"api", "crawler">>
Observers == <<"loki">>

Old == Volume("old", 0)

Host(state, volume, lost, wrong) ==
    [ctr |-> [s \in Services |-> IF s \in DOMAIN state THEN state[s] ELSE "running"],
     vol |-> [s \in Persistent |-> IF s \in DOMAIN volume THEN volume[s] ELSE Old],
     stale |-> lost, foreign |-> wrong]

None == [s \in {} |-> Old]
Nothing == [s \in Services |-> "absent"]

KnownHosts ==
    { Host(None, None, {}, {}),
      Host(None, None, {"loki", "api"}, {}),
      Host([postgres |-> "absent", kafka |-> "absent", seaweedfs |-> "stopped"], None,
           {"seaweedfs", "crawler"}, {}),
      Host([postgres |-> "stopped", loki |-> "absent"], [loki |-> NoVolume], {}, {}),
      Host([kafka |-> "absent", api |-> "absent", crawler |-> "absent"],
           [kafka |-> NoVolume], {}, {}),
      Host([kafka |-> "absent"], [kafka |-> Empty], {}, {}),
      Host(None, None, {}, {"kafka"}),
      Host([seaweedfs |-> "stopped"], None, {}, {"seaweedfs"}),
      Host(None, None, {"loki"}, {"loki"}),
      Host([seaweedfs |-> "absent"], [seaweedfs |-> NoVolume], {}, {}),
      Host(Nothing, [postgres |-> NoVolume, kafka |-> NoVolume], {}, {}),
      Host(Nothing, [s \in Persistent |-> NoVolume], {}, {}) }
=============================================================================
