--------------------------- MODULE MCSubmissions ---------------------------
(***************************************************************************)
(* Instances of the submission gates for TLC. Rows and requests are        *)
(* interchangeable.                                                        *)
(***************************************************************************)
EXTENDS Submissions, TLC

TwoMonths == 1 .. 2
Interchangeable == Permutations(Requests) \cup Permutations(RowIds)
=============================================================================
