----------------------------- MODULE MCCrawlRun -----------------------------
(* Small instances of CrawlRun for model checking.                         *)
EXTENDS CrawlRun, TLC

CONSTANTS a1, a2, r1, r2

OneApp == {a1}
TwoApps == {a1, a2}
OneRun == {r1}
TwoRuns == {r1, r2}

(* Applications are interchangeable, and so are the identities of runs. *)
Symmetry == Permutations(Apps) \cup Permutations(Runs)

=============================================================================
