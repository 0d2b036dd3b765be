---------------------------- MODULE MCAutomation ----------------------------
(* Instances of Automation for TLC: a check-in of two files, one trigger     *)
(* that posts an event, one that starts a workflow on it, one that does      *)
(* nothing, one webhook.                                                     *)
EXTENDS Automation

CONSTANTS c1, f1, f2, t1, t2, t3, t4

OneCheckIn == (c1 :> Files)
TwoKinds == (f1 :> "image") @@ (f2 :> "raw_camera")

FourTriggers == <<t1, t2, t3, t4>>
Selectors ==
  (t1 :> {"version.processing.started"}) @@ (t2 :> {"proxies.wanted", "checkin.committed"})
    @@ (t3 :> {"version.proxy.generated"}) @@ (t4 :> {"workflow.started"})
Actions ==
  (t1 :> "post_event") @@ (t2 :> "run_workflow") @@ (t3 :> "http_call") @@ (t4 :> "none")
PostedTypes == [t \in {t1, t2, t3, t4} |-> IF t = t1 THEN "proxies.wanted" ELSE "none"]
=============================================================================
