-------------------------- MODULE MCBillingSession --------------------------
(* The instance of BillingSession that TLC checks.                          *)
EXTENDS BillingSession, TLC

Symmetry == Permutations(Requests)
=============================================================================
