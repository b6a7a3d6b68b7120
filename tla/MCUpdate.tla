------------------------------ MODULE MCUpdate ------------------------------
(* An instance of Update for TLC: see the README for the bounds. *)
EXTENDS Update
=============================================================================
