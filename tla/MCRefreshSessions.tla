------------------------- MODULE MCRefreshSessions -------------------------
(***************************************************************************)
(* Instances of the sign-ins for TLC. The run states liveness, so it uses  *)
(* no symmetry.                                                            *)
(***************************************************************************)
EXTENDS RefreshSessions
=============================================================================
