-------------------------- MODULE MCAnalysisQueue --------------------------
(***************************************************************************)
(* Instances of the analysis queue for TLC: the jobs a and b, the workers  *)
(* w1 and w2 and the request threads r1 and r2 are model values.           *)
(***************************************************************************)
EXTENDS AnalysisQueueRefinement

CONSTANTS a, b

=============================================================================
