----------------------------- MODULE MCAuthTabs -----------------------------
(* The instances of AuthTabs that TLC checks.                               *)
EXTENDS AuthTabs, TLC

Symmetry == Permutations(Tabs)
=============================================================================
