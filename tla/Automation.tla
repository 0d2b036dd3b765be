----------------------------- MODULE Automation -----------------------------
(***************************************************************************)
(* The dispatch ledger and the trigger consumer on one event bus: from the *)
(* commit of a check-in, over the artifacts of its files, to the webhooks  *)
(* that tell about them.                                                   *)
(***************************************************************************)
EXTENDS DispatchPoller, Triggers

vars == <<pollerVars, triggerVars, bus>>

Init == PollerInit /\ TriggersInit /\ bus = <<>>

Next ==
  \/ Settled /\ PollerNext /\ UNCHANGED triggerVars
  \/ TriggersNext /\ UNCHANGED pollerVars

(* Handlers go on, and the version store answers; that a sweep begins or     *)
(* finds anything, an attempt succeeds or an administrator calls is          *)
(* nobody's duty.                                                            *)
Fairness ==
  /\ \A s \in Sweeps : WF_vars(Settled /\ Attached(s) /\ UNCHANGED triggerVars)
  /\ WF_vars(HandleEvent /\ UNCHANGED pollerVars)
  /\ WF_vars((\E i \in DOMAIN running : Fire(i)) /\ UNCHANGED pollerVars)
  /\ WF_vars(Settled /\ (\E i \in DOMAIN running : Attempt(i)) /\ UNCHANGED pollerVars)

FairSpec == Init /\ [][Next]_vars /\ Fairness

-----------------------------------------------------------------------------
Types == {"checkin.committed", "version.processing.started", "version.processing.abandoned",
          "version.proxy.generated", "workflow.started"} \cup {Posts[t] : t \in AllTriggers}

Events == [type : Types, of : CheckIns \cup Files]

TypeOK ==
  /\ committed \subseteq CheckIns
  /\ row \in [Files -> [status : {"absent", "pending", "completed", "abandoned"},
                        left : 0..Sla, ago : 0..Cooldown]]
  /\ sweep \in [Sweeps -> [step : {"idle", "list", "probe", "attach"}, todo : SUBSET Files,
                           late : SUBSET Files, seen : [Files -> 0..Cooldown],
                           age : 0..Cooldown, file : Files \cup {None}]]
  /\ bus \in Seq(Events)
  /\ announced \in [Files -> Nat]
  /\ raced \subseteq Files
  /\ enabled \subseteq AllTriggers
  /\ revoked \subseteq AllTriggers
  /\ \A i \in DOMAIN running :
       running[i] \in [event : Events, todo : Seq(AllTriggers) \ {<<>>}, attempt : 0..MaxAttempts]
  /\ delivered \subseteq AllTriggers \X Events
  /\ exhausted \subseteq AllTriggers \X Events
  /\ instances \subseteq AllTriggers \X Events

Attaching(f) == \E s \in Sweeps : sweep[s].step = "attach" /\ sweep[s].file = f

(* "completed -> (terminal)" (migration 022), as long as no two sweeps have  *)
(* had the row in hand at once: a completed dispatch stays completed.        *)
CompletedStays ==
  [][\A f \in Files \ raced' :
       row[f].status = "completed" => row'[f].status = "completed"]_vars

(* Such a row's completion is published once, and no sooner than it is       *)
(* written: subscribers of version.proxy.generated hear of each dispatch     *)
(* exactly once.                                                             *)
AnnouncedOnce ==
  \A f \in Files \ raced :
    announced[f] = IF row[f].status = "completed" /\ ~Attaching(f) THEN 1 ELSE 0

(* From the ledger to the receiver: once a dispatch is written as completed, *)
(* whether or not its URLs can be attached to the version, its event leads   *)
(* to a delivery that succeeds or uses up its attempts, for every webhook    *)
(* that listens, unless an administrator switches the trigger off or revokes *)
(* the endpoint meanwhile.                                                   *)
Generated(f) == Event("version.proxy.generated", f)

ReachesReceiver ==
  \A f \in Files, t \in AllTriggers :
    ActionOf[t] = "http_call" /\ Generated(f).type \in Selects[t] =>
      (Attaching(f) \/ Generated(f) \in Range(bus) ~>
         \/ <<t, Generated(f)>> \in delivered \cup exhausted
         \/ t \notin enabled \/ t \in revoked)

(* Where no trigger is fired by what it, or a trigger it fires, publishes,   *)
(* cascades end: in the end nothing is in flight.                            *)
CascadesEnd == <>[](bus = <<>> /\ running = <<>>)
=============================================================================
