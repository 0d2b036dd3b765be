----------------------------- MODULE MCCheckIn -----------------------------
(* Instances of CheckIn for TLC. *)
EXTENDS CheckIn

CONSTANT First

(* Two roles, or one for all: the client decides (normalizeFiles). *)
DistinctOrEqual ==
  {[f \in Files |-> IF f = First THEN r ELSE "sidecar"] : r \in {"primary", "sidecar"}}
=============================================================================
