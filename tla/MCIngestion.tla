---------------------------- MODULE MCIngestion ----------------------------
(***************************************************************************)
(* Instances of Ingestion: two observations of one review by two crawls,   *)
(* the later one with another text, an app snapshot and a capture analysis.*)
(***************************************************************************)
EXTENDS Ingestion

Collected(id, kind, task, subject, at, body) ==
    [id |-> id, kind |-> kind, task |-> task, subject |-> subject,
     at |-> at, body |-> body]

OldReview == Collected("e1", "review", "t1", "review", 1, "old")
NewReview == Collected("e2", "review", "t2", "review", 2, "new")
AgainReview == Collected("e3", "review", "t2", "review", 2, "again")
AppStats == Collected("e4", "stats", "t1", "review", 1, "stats")
Analysis == Collected("e5", "analysis", "none", "capture", 1, "metrics")
Reanalysis == Collected("e5", "analysis", "none", "capture", 2, "metrics")

AllEvents == {OldReview, NewReview, AgainReview, AppStats, Analysis, Reanalysis}
=============================================================================
