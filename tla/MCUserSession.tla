---------------------------- MODULE MCUserSession ----------------------------
(* The instance of UserSession that TLC checks.                             *)
EXTENDS UserSession, TLC

Symmetry == Permutations(Handlers)
=============================================================================
