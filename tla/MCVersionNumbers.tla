-------------------------- MODULE MCVersionNumbers --------------------------
(* Instances of VersionNumbers for TLC. *)
EXTENDS VersionNumbers, TLC

Symmetry == Permutations(Callers)
=============================================================================
