------------------------- MODULE MCMeasuredAudits -------------------------
(***************************************************************************)
(* Instances of the paid step for TLC.                                     *)
(***************************************************************************)
EXTENDS MeasuredAudits, TLC

\* Two of the pages are on one site.
OneSite == [p \in Pages |-> IF p \in Unreadable THEN "elsewhere" ELSE "site"]

Interchangeable == Permutations(Pages \ Unreadable)

=============================================================================
