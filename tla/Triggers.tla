------------------------------ MODULE Triggers ------------------------------
(***************************************************************************)
(* The trigger consumer: it sees every event of the bus, fires the enabled *)
(* triggers that match, one after the other, and delivers webhooks with    *)
(* retries.  An event is handled by a promise of its own, so the handlers  *)
(* of several events, the attempts of several deliveries and the requests  *)
(* of administrators interleave.                                           *)
(*                                                                         *)
(* A selector with its condition is the set of event types it matches.     *)
(* Payloads, signatures and the waiting times between attempts are left    *)
(* out, and so are webhooks named by URL instead of id (one attempt, no    *)
(* log) and the event types an endpoint allows (it allows those of its     *)
(* triggers).                                                              *)
(***************************************************************************)
EXTENDS Naturals, SequencesExt, EventBus

CONSTANTS
  Order,        \* the triggers, in the order the store lists them
  Selects,      \* the event types each of them matches
  ActionOf,     \* "http_call", "post_event", "run_workflow" or "none"
  Posts,        \* the type of the event a post_event trigger publishes
  MaxAttempts,  \* MAX_ATTEMPTS of outbound-webhook.ts
  Administered  \* bound: the triggers whose row or endpoint administrators change

AllTriggers == {Order[i] : i \in DOMAIN Order}

ASSUME TriggersAssumption ==
  /\ Selects \in [AllTriggers -> SUBSET STRING]
  /\ ActionOf \in [AllTriggers -> {"http_call", "post_event", "run_workflow", "none"}]
  /\ Posts \in [AllTriggers -> STRING]
  /\ MaxAttempts \in Nat \ {0}
  /\ Administered \subseteq AllTriggers

VARIABLES
  enabled,    \* the triggers that are enabled
  revoked,    \* http_call triggers whose webhook endpoint was revoked
  running,    \* handlers under way
  delivered,  \* deliveries, <<trigger, event>>, whose last row in the log says succeeded
  exhausted,  \* deliveries whose attempts all failed
  instances   \* workflow instances created, all of them pending

triggerVars == <<enabled, revoked, running, delivered, exhausted, instances>>

TriggersInit ==
  /\ enabled = AllTriggers
  /\ revoked = {}
  /\ running = <<>>
  /\ delivered = {}
  /\ exhausted = {}
  /\ instances = {}

-----------------------------------------------------------------------------
(* handleEvent: the enabled triggers are listed once for the event. *)
Matching(type) ==
  SelectSeq(Order, LAMBDA t : t \in enabled /\ type \in Selects[t])

HandleEvent ==
  /\ bus # <<>>
  /\ LET todo == Matching(Head(bus).type)
     IN running' = IF todo = <<>> THEN running
                   ELSE Append(running, [event |-> Head(bus), todo |-> todo, attempt |-> 0])
  /\ bus' = Tail(bus)
  /\ UNCHANGED <<enabled, revoked, delivered, exhausted, instances>>

(* The handler goes on to its next trigger, or has done. *)
NextTrigger(i) ==
  running' = IF Len(running[i].todo) = 1 THEN RemoveAt(running, i)
             ELSE [running EXCEPT ![i] = [@ EXCEPT !.todo = Tail(@), !.attempt = 0]]

First(i) == Head(running[i].todo)
Firing(i, action) == running[i].attempt = 0 /\ ActionOf[First(i)] = action

(* A trigger that was disabled or deleted since the list was read (while the *)
(* one before it was delivered) is fired all the same; the endpoint is read  *)
(* now.                                                                      *)
FireHttpCall(i) ==
  /\ Firing(i, "http_call")
  /\ IF First(i) \in revoked THEN NextTrigger(i)
     ELSE running' = [running EXCEPT ![i] = [@ EXCEPT !.attempt = 1]]
  /\ UNCHANGED <<bus, enabled, revoked, delivered, exhausted, instances>>

(* Mutant: the event posted has the type of the one that fired the trigger. *)
FirePostSameType(i) ==
  /\ Firing(i, "post_event")
  /\ Publish(running[i].event.type, running[i].event.of)
  /\ NextTrigger(i)
  /\ UNCHANGED <<enabled, revoked, delivered, exhausted, instances>>

FirePostEvent(i) ==
  /\ Firing(i, "post_event")
  /\ Publish(Posts[First(i)], running[i].event.of)
  /\ NextTrigger(i)
  /\ UNCHANGED <<enabled, revoked, delivered, exhausted, instances>>

FireRunWorkflow(i) ==
  /\ Firing(i, "run_workflow")
  /\ instances' = instances \cup {<<First(i), running[i].event>>}
  /\ Publish("workflow.started", running[i].event.of)
  /\ NextTrigger(i)
  /\ UNCHANGED <<enabled, revoked, delivered, exhausted>>

(* enqueue_job and run_script are stubs. *)
FireNothing(i) ==
  /\ Firing(i, "none")
  /\ NextTrigger(i)
  /\ UNCHANGED <<bus, enabled, revoked, delivered, exhausted, instances>>

-----------------------------------------------------------------------------
(* deliverWebhook: an attempt is answered with success, or it is not (the    *)
(* receiver may have got it).  The endpoint is not read again.               *)
Delivery(i) == <<First(i), running[i].event>>

AttemptSucceeds(i) ==
  /\ running[i].attempt > 0
  /\ delivered' = delivered \cup {Delivery(i)}
  /\ NextTrigger(i)
  /\ UNCHANGED <<bus, enabled, revoked, exhausted, instances>>

AttemptFails(i) ==
  /\ running[i].attempt > 0
  /\ IF running[i].attempt < MaxAttempts
     THEN /\ running' = [running EXCEPT ![i] = [@ EXCEPT !.attempt = @ + 1]]
          /\ UNCHANGED exhausted
     ELSE /\ exhausted' = exhausted \cup {Delivery(i)}
          /\ NextTrigger(i)
  /\ UNCHANGED <<bus, enabled, revoked, delivered, instances>>

-----------------------------------------------------------------------------
(* Administrators: PATCH of a trigger, DELETE of an endpoint.  A trigger that *)
(* is deleted is one that stays disabled.                                    *)
SetEnabled(t) ==
  /\ enabled' = IF t \in enabled THEN enabled \ {t} ELSE enabled \cup {t}
  /\ UNCHANGED <<bus, revoked, running, delivered, exhausted, instances>>

RevokeEndpoint(t) ==
  /\ ActionOf[t] = "http_call" /\ t \notin revoked
  /\ revoked' = revoked \cup {t}
  /\ UNCHANGED <<bus, enabled, running, delivered, exhausted, instances>>

(* Triggers, endpoints, instances and the log are kept in memory: only the    *)
(* answer of a receiver is waited for, the rest of a handler runs before any *)
(* other answer, timer or request is taken up.                               *)
Fire(i) == FireHttpCall(i) \/ FirePostEvent(i) \/ FireRunWorkflow(i) \/ FireNothing(i)

Settled == bus = <<>> /\ \A i \in DOMAIN running : running[i].attempt > 0

Attempt(i) == AttemptSucceeds(i) \/ AttemptFails(i)

TriggersNext ==
  \/ HandleEvent
  \/ \E i \in DOMAIN running : Fire(i)
  \/ Settled /\ \E i \in DOMAIN running : Attempt(i)
  \/ Settled /\ \E t \in Administered : SetEnabled(t) \/ RevokeEndpoint(t)
=============================================================================
