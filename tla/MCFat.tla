------------------------------- MODULE MCFat -------------------------------
(* Instances of Fat for TLC: see the README for the bounds. *)
EXTENDS Fat
Symmetric == Permutations(Names)
=============================================================================
