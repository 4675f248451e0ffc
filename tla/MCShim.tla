------------------------------- MODULE MCShim -------------------------------
(* Shim for TLC. *)
EXTENDS Shim, TLC

Symmetry == Permutations(Ids)
=============================================================================
