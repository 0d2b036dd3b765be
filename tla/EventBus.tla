------------------------------ MODULE EventBus ------------------------------
(***************************************************************************)
(* The in-process event bus.  publish calls the subscribers one after the  *)
(* other; here an event waits in bus until the trigger consumer, which     *)
(* sees every event, has taken it.                                         *)
(***************************************************************************)
EXTENDS Sequences

VARIABLE bus    \* events published and not yet handed to the trigger consumer

Event(type, of) == [type |-> type, of |-> of]

Publish(type, of) == bus' = Append(bus, Event(type, of))
=============================================================================
