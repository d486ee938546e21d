--------------------------- MODULE MCCrawlClient ---------------------------
(* Small instances of CrawlClient for model checking.                      *)
EXTENDS CrawlClient, TLC

CONSTANTS c1, c2, c3

TwoContexts == {c1, c2}
ThreeContexts == {c1, c2, c3}

Symmetry == Permutations(Contexts)

=============================================================================
