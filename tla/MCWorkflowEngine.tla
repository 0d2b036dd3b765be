-------------------------- MODULE MCWorkflowEngine --------------------------
(* Instances of WorkflowEngine for TLC. *)
EXTENDS WorkflowEngine, TLC

(* The definition of the engine's header, with a branch that sends the work  *)
(* back to approval.                                                         *)
ReviewNodes == {"start", "approve", "notify", "check", "end"}
ReviewKind ==
  [n \in ReviewNodes |->
    IF n = "approve" THEN "approval" ELSE IF n = "notify" THEN "http"
    ELSE IF n = "check" THEN "branch" ELSE n]
ReviewEdges ==
  {<<"start", "approve">>, <<"approve", "notify">>, <<"notify", "check">>,
   <<"check", "approve">>, <<"check", "end">>}

Named == {"notify", "end", "nowhere"}

ASSUME ReviewAssumption == ShortStretches

Symmetry == Permutations(Requests)
=============================================================================
