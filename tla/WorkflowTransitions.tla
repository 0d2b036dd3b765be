------------------------ MODULE WorkflowTransitions ------------------------
(***************************************************************************)
(* The status graph every workflow job moves along.  Both persistence      *)
(* adapters, the event processor and the approval routes consult this one  *)
(* table before they change a status; the operations that do not consult   *)
(* it (claim, reap, failure handling, replay) are modelled with the queue. *)
(***************************************************************************)

(* Statuses from which the review side of the workflow takes over. *)
ReviewStatus ==
  {"qc_pending", "qc_in_review", "qc_approved", "qc_rejected",
   "revision_required", "retake",
   "client_submitted", "client_approved", "client_rejected"}

WorkflowStatus ==
  {"pending", "processing", "completed", "failed", "needs_replay"}
    \cup ReviewStatus

(* Done as far as processing is concerned. *)
Settled == {"completed"} \cup ReviewStatus

(* The edges other than the self loops, which every status has. *)
Transitions ==
  UNION {{"pending"} \X {"processing", "completed", "failed", "needs_replay"},
         {"processing"} \X {"pending", "failed", "completed", "needs_replay"},
         {"failed"} \X {"pending", "needs_replay"},
         {"needs_replay"} \X {"pending", "processing", "completed", "failed"},
         {"qc_in_review"} \X {"qc_approved", "qc_rejected", "revision_required"},
         {"client_submitted"} \X {"client_approved", "client_rejected"},
         {<<"completed", "qc_pending">>, <<"qc_pending", "qc_in_review">>,
          <<"qc_approved", "client_submitted">>, <<"qc_rejected", "needs_replay">>,
          <<"revision_required", "retake">>, <<"retake", "pending">>,
          <<"client_rejected", "revision_required">>}}

CanTransition(from, to) == from = to \/ <<from, to>> \in Transitions
=============================================================================
