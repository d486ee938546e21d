----------------------------- MODULE TopicAdmin -----------------------------
(***************************************************************************)
(* ensure_topics (messaging/admin.py), run by the processes that need the  *)
(* topics when they start: read the metadata, verify what exists, create   *)
(* what is missing and verify what another process created meanwhile.  The *)
(* processes may be configured with different topologies, and metadata     *)
(* lags behind the controller.                                             *)
(***************************************************************************)
EXTENDS Integers

CONSTANTS Admins,         \* processes that run ensure_topics
          Names,          \* SAHABINO_TOPICS
          Topology,       \* kafka_topic_partitions and replication_factor of each process
          Found,          \* topics the first process may find
          MaxErrors       \* bound: requests that fail

VARIABLES topics,     \* topics of the controller, with their topology
          visible,    \* the ones the metadata shows
          adm,        \* progress of each process
          failures

vars == <<topics, visible, adm, failures>>

\* A process begins, or begins again: its container, or the release that runs
\* it, is started again when ensure_topics has raised.
Fresh == [pc |-> "read", missing |-> {}, raced |-> {}]

Init ==
    /\ topics \in Found /\ visible = DOMAIN topics
    /\ adm = [p \in Admins |-> Fresh]
    /\ failures = 0

\* Mutant: topologies are compared by identity.
Mismatch_Mutant(p, names) == names # {}

\* _verify_topic_topology of the topics in the metadata.
Mismatch(p, names) == \E n \in names : topics[n] # Topology[p]

\* The metadata is read; topics that exist are verified before any is created.
ReadMetadata(p) ==
    LET missing == Names \ visible
    IN  /\ adm[p].pc = "read"
        /\ adm' = [adm EXCEPT ![p] =
              IF Mismatch(p, Names \cap visible) THEN Fresh
              ELSE [Fresh EXCEPT !.pc = IF missing = {} THEN "done" ELSE "create",
                                 !.missing = missing]]
        /\ UNCHANGED <<topics, visible, failures>>

\* The broker has a topic more, with the topology of p.
Created(p, made) ==
    [n \in DOMAIN topics \cup made |-> IF n \in DOMAIN topics THEN topics[n] ELSE Topology[p]]

\* Mutant: a topic that somebody else created counts as created.
CreateTopic_Mutant(p) ==
    \E n \in adm[p].missing :
        LET rest == adm[p].missing \ {n}
        IN  /\ adm[p].pc = "create"
            /\ topics' = Created(p, {n})
            /\ adm' = [adm EXCEPT ![p].missing = rest,
                                  ![p].pc = IF rest # {} THEN "create" ELSE "done"]
            /\ UNCHANGED <<visible, failures>>

\* The result of the creation of one topic, of those that were requested
\* together: created, or it exists by now.
CreateTopic(p) ==
    \E n \in adm[p].missing :
        LET rest == adm[p].missing \ {n}
            raced == adm[p].raced \cup ({n} \cap DOMAIN topics)
        IN  /\ adm[p].pc = "create"
            /\ topics' = Created(p, {n})
            /\ adm' = [adm EXCEPT ![p].missing = rest, ![p].raced = raced,
                                  ![p].pc = IF rest # {} THEN "create"
                                            ELSE IF raced = {} THEN "done" ELSE "refresh"]
            /\ UNCHANGED <<visible, failures>>

\* The metadata is read again for the topics that others created.
Refresh(p) ==
    /\ adm[p].pc = "refresh"
    /\ adm' = [adm EXCEPT ![p] =
                  IF adm[p].raced \subseteq visible /\ ~Mismatch(p, adm[p].raced)
                  THEN [Fresh EXCEPT !.pc = "done"] ELSE Fresh]
    /\ UNCHANGED <<topics, visible, failures>>

\* A request times out or is answered with an error; any of the topics it asked
\* for may be created nevertheless.
RequestFails(p) ==
    /\ adm[p].pc \in {"read", "create", "refresh"} /\ failures < MaxErrors
    /\ failures' = failures + 1
    /\ \E made \in SUBSET adm[p].missing : topics' = Created(p, made)
    /\ adm' = [adm EXCEPT ![p] = Fresh]
    /\ UNCHANGED visible

\* The metadata catches up.
Propagate ==
    /\ visible # DOMAIN topics
    /\ visible' = DOMAIN topics
    /\ UNCHANGED <<topics, adm, failures>>

Step(p) == ReadMetadata(p) \/ CreateTopic(p) \/ Refresh(p)

Next == Propagate \/ \E p \in Admins : Step(p) \/ RequestFails(p)

-----------------------------------------------------------------------------
\* ensure_topics returned only if every topic exists as configured for this
\* process: also one that another process, perhaps with another configuration,
\* created at the same time.
EnsuredMeansReady ==
    \A p \in Admins : adm[p].pc = "done" =>
        \A n \in Names : n \in DOMAIN topics /\ topics[n] = Topology[p]

\* A process gets ready unless a topic contradicts its configuration: neither
\* lost races nor late metadata nor failed requests keep it out for ever.
EventuallyReady ==
    \A p \in Admins :
        <>[](\/ adm[p].pc = "done"
             \/ \E n \in DOMAIN topics : topics[n] # Topology[p])
=============================================================================
