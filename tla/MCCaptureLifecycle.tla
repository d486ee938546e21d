----------------------- MODULE MCCaptureLifecycle -----------------------
(***************************************************************************)
(* Instances of CaptureLifecycle for TLC.  Requests and workers are        *)
(* interchangeable; symmetry is used only where no liveness is checked.    *)
(***************************************************************************)
EXTENDS CaptureLifecycle, TLC

RequestSymmetry == Permutations(Requests)
Symmetry == RequestSymmetry \cup Permutations(Workers)
=============================================================================
