----------------------------- MODULE Messaging ------------------------------
(***************************************************************************)
(* The messaging layer of a process: ensure_topics at its start            *)
(* (crawler/bootstrap/container.py, or the release's messaging-admin), then *)
(* the calls of its threads to the one KafkaProducer, on a broker that      *)
(* creates no topics by itself (KAFKA_AUTO_CREATE_TOPICS_ENABLE: false).    *)
(***************************************************************************)
EXTENDS KafkaProducer

CONSTANTS Admins, Names, Topology, Found, MaxErrors,
          Provisioner    \* the process that ensures the topics for the threads

VARIABLES visible, adm, failures

TA == INSTANCE TopicAdmin

admin == <<visible, adm, failures>>

MInit == Init /\ TA!Init

\* build_container makes the producer after ensure_topics has returned.
MNext ==
    \/ TA!Next /\ UNCHANGED <<client, errors, lock, closed, th, sent, history, exceptions>>
    \/ adm[Provisioner].pc = "done" /\ Next /\ UNCHANGED admin

MSpec == MInit /\ [][MNext]_<<vars, admin>>

\* Threads and processes that have begun go on; nothing makes the broker answer.
FairSpec ==
    /\ MSpec
    /\ \A t \in Threads : WF_<<vars, admin>>(Step(t) /\ UNCHANGED admin)
    /\ \A p \in Admins :
         WF_<<vars, admin>>(/\ TA!Step(p)
                            /\ UNCHANGED <<client, errors, lock, closed, th, sent, history,
                                           exceptions>>)
    /\ WF_<<vars, admin>>(/\ TA!Propagate
                          /\ UNCHANGED <<client, errors, lock, closed, th, sent, history,
                                         exceptions>>)

-----------------------------------------------------------------------------
\* ensure_topics returned only if every topic exists as configured.
EnsuredMeansReady == TA!EnsuredMeansReady

\* A process gets ready unless a topic contradicts its configuration.
EventuallyReady == TA!EventuallyReady
=============================================================================
