-------------------------- MODULE MCGovernorRoute --------------------------
(* Two handler threads; between them they bring prompts of every size. *)
EXTENDS GovernorRoute, TLC

CONSTANTS t1, t2

TwoThreads == (t1 :> {"small", "fits"}) @@ (t2 :> {"fits", "large"})
=============================================================================
