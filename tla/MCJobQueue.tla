---------------------------- MODULE MCJobQueue -----------------------------
(* Instances of JobQueue for TLC. *)
EXTENDS JobQueue, TLC

(* Every kind of event, from clients that are not the media worker. *)
AllEvents ==
  {<<t, "v1">> : t \in EventType}
    \cup {<<"asset.processing.failed", r>> : r \in {"legacy", "vast"}}

ReplayRequests == {<<"asset.processing.replay_requested", "v1">>}

AheadAndBehind == {-5, 0, 5}

Symmetry == Permutations(Workers) \cup Permutations(Slots)
=============================================================================
