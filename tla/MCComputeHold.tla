---------------------------- MODULE MCComputeHold ----------------------------
(* Small instances of ComputeHold: two logins that share a wallet or own one *)
(* each, and request handlers that may be symmetric.                         *)
EXTENDS ComputeHold, TLC

CONSTANTS u1, u2, w1, w2, h1, h2

\* One wallet for every login.
OneWallet == w1 :> 3
SharedMember == [u \in Users |-> w1]

\* Each login has a wallet to itself.
OwnWallet == w1 :> 2 @@ w2 :> 1
OwnMember == u1 :> w1 @@ u2 :> w2

TwoEach == [u \in Users |-> 2]

Symmetry == Permutations(Handlers) \cup Permutations(Events)
==============================================================================
