--------------------------- MODULE MCVastJobQueue ---------------------------
(* Instances of VastJobQueue for TLC. *)
EXTENDS VastJobQueue, TLC

Reports == {"processing", "completed"}

Symmetry == Permutations(Jobs) \cup Permutations(Workers) \cup Permutations(Calls)
=============================================================================
