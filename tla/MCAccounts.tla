----------------------------- MODULE MCAccounts -----------------------------
(***************************************************************************)
(* Instances of the accounts for TLC: g1 and g2 are Google's ids of p1 and *)
(* p2, x1 is Apple's id of p1.  Clients are interchangeable.               *)
(***************************************************************************)
EXTENDS Accounts, TLC

CONSTANTS p1, p2, g1, g2, x1, base

Owners == [s \in Subjects |-> IF s = g2 THEN p2 ELSE p1]
SameBase == [e \in Emails |-> base]
Interchangeable == Permutations(Clients)
=============================================================================
