-------------------------- MODULE MCOrganizations --------------------------
(***************************************************************************)
(* Instances of the organizations for TLC: u1 founded o1, and o2 if there  *)
(* is a second organization was founded by u2.                             *)
(***************************************************************************)
EXTENDS Organizations, TLC

CONSTANTS o1, o2, u1, u2

Founded == [o \in Orgs |-> IF o = o1 THEN u1 ELSE u2]
AnyRequest == Permutations(Requests)

=============================================================================
