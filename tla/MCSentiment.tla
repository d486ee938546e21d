---------------------------- MODULE MCSentiment ----------------------------
(***************************************************************************)
(* An instance of Sentiment: one review whose text is missing in the       *)
(* second of three crawls and the same Persian text in the others, so that *)
(* a page of two separates the observations of one text.                   *)
(***************************************************************************)
EXTENDS Sentiment

Observation(review, task, content) ==
    [review |-> review, task |-> task, content |-> content]

ThreeObservations ==
    {Observation(1, 1, "persian"), Observation(1, 2, "null"), Observation(1, 3, "persian")}

LanguageOf == [null |-> "none", persian |-> "fa"]
=============================================================================
