---------------------------- MODULE MCBacklinks ----------------------------
(***************************************************************************)
(* Instances of the backlink refresh for TLC: a farm with two links, one   *)
(* of them with a commercial anchor, and a paper with one.                 *)
(***************************************************************************)
EXTENDS Backlinks, TLC

Links == {"farm1", "farm2", "paper1"}
Referrer == [k \in Links |-> IF k = "paper1" THEN "paper" ELSE "farm"]
Look == [k \in Links |-> [follow |-> k # "farm2", money |-> k = "farm1",
                          class |-> IF k = "paper1" THEN "brand" ELSE "partial"]]
Tabulated(n) == CASE n = 1 -> 1003 [] n = 2 -> 1590 [] n = 3 -> 2007
Numbers == [d \in {"farm", "paper"} |->
    [authority |-> IF d = "farm" THEN 3 ELSE 60, spam |-> d = "farm", tld |-> FALSE]]

\* The month ends before the last refresh.
Months == [n \in 1 .. 4 |-> IF n < 3 THEN 1 ELSE 2]

Interchangeable == Permutations(Requests) \cup Permutations(Subjects)
=============================================================================
