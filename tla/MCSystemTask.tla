---------------------------- MODULE MCSystemTask ----------------------------
(* Small instances of SystemTask: two or three interchangeable runners.      *)
EXTENDS SystemTask, TLC

Symmetry == Permutations(Runners)
=============================================================================
