----------------------------- MODULE EventStore -----------------------------
(***************************************************************************)
(* What ingestion promises: each collected event takes effect once, and    *)
(* the tables are determined by the set of events that took effect, not by *)
(* the order or the number of times they were delivered.                   *)
(***************************************************************************)
EXTENDS Integers

CONSTANTS Events,    \* collected events; two analyses of a capture share an id
          Subjects,  \* reviews and captures
          NoReview   \* no row for a review

VARIABLES applied,       \* events that took effect
          snapshots,     \* rows of playstore_app_snapshots
          reviews,       \* rows of reviews
          observations,  \* rows of review_observations
          results        \* rows of network_analysis_results

tables == <<snapshots, reviews, observations, results>>

Of(kind) == {e \in applied : e.kind = kind}

\* The rows are events of this kind that took effect, the first of each key.
OneRowPer(rows, kind, key(_)) ==
    /\ rows \subseteq Of(kind)
    /\ \A e \in Of(kind) : \E x \in rows : key(x) = key(e)
    /\ \A x, y \in rows : key(x) = key(y) => x = y

Task(e) == e.task
Observation(e) == <<e.task, e.subject>>

\* A review spans its observations and shows one of the latest.
ReviewReflects(s) ==
    LET seen == {e \in Of("review") : e.subject = s}
    IN  IF seen = {} THEN reviews[s] = NoReview
        ELSE /\ reviews[s] # NoReview
             /\ \A e \in seen : reviews[s].first <= e.at /\ e.at <= reviews[s].last
             /\ \E e \in seen : reviews[s].first = e.at
             /\ \E e \in seen : reviews[s].last = e.at /\ reviews[s].body = e.body

TablesReflectApplied ==
    /\ OneRowPer(snapshots, "stats", Task)
    /\ OneRowPer(observations, "review", Observation)
    /\ results = Of("analysis")
    /\ \A s \in Subjects : ReviewReflects(s)

Init ==
    /\ applied = {}
    /\ snapshots = {} /\ observations = {} /\ results = {}
    /\ reviews = [s \in Subjects |-> NoReview]

\* An event takes effect; no inserted row is changed or removed.
Apply(e) ==
    /\ \A x \in applied : x.id # e.id
    /\ applied' = applied \cup {e}
    /\ TablesReflectApplied'
    /\ snapshots \subseteq snapshots' /\ observations \subseteq observations'

Next == \E e \in Events : Apply(e)

Spec == Init /\ [][Next]_<<applied, tables>>

=============================================================================
