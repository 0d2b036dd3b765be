--------------------------- MODULE CircuitBreaker ---------------------------
(***************************************************************************)
(* The circuit breaker around VAST Trino, S3 and Kafka.  execute runs up   *)
(* to fn() without yielding; any number of calls are then in flight, and   *)
(* the code after fn() runs when its promise settles.  A call that is      *)
(* refused changes nothing and is not an action.                           *)
(***************************************************************************)
EXTENDS Naturals

CONSTANTS
  Calls,            \* calls that may be in flight together
  FailureThreshold,
  OpenDuration

ASSUME BreakerAssumption == FailureThreshold \in Nat \ {0} /\ OpenDuration \in Nat

VARIABLES
  state,
  failureCount,  \* only ever compared with the threshold, and held at it
  wait,          \* time left until nextAttemptAt
  inProbe,
  call           \* idle, a call in flight, or a call let through as the probe

breakerVars == <<state, failureCount, wait, inProbe, call>>

BreakerInit ==
  /\ state = "closed"
  /\ failureCount = 0
  /\ wait = 0
  /\ inProbe = FALSE
  /\ call = [c \in Calls |-> "idle"]

(* execute, before fn(): let through when closed, or as the probe. *)
LetThrough(c) ==
  /\ call[c] = "idle"
  /\ state = "closed"
  /\ call' = [call EXCEPT ![c] = "calling"]
  /\ UNCHANGED <<state, failureCount, wait, inProbe>>

(* Mutant: the window is not looked at. *)
ProbeEarly(c) ==
  /\ call[c] = "idle"
  /\ state = "open" \/ (state = "half-open" /\ ~inProbe)
  /\ state' = "half-open"
  /\ inProbe' = TRUE
  /\ call' = [call EXCEPT ![c] = "probing"]
  /\ UNCHANGED <<failureCount, wait>>

Probe(c) ==
  /\ call[c] = "idle"
  /\ (state = "open" /\ wait = 0) \/ (state = "half-open" /\ ~inProbe)
  /\ state' = "half-open"
  /\ inProbe' = TRUE
  /\ call' = [call EXCEPT ![c] = "probing"]
  /\ UNCHANGED <<failureCount, wait>>

Settle(c) ==
  /\ call[c] # "idle"
  /\ call' = [call EXCEPT ![c] = "idle"]

(* Mutant: a success closes the circuit but leaves the failures counted. *)
OnSuccessKeepsCount(c) ==
  /\ Settle(c)
  /\ state' = IF state = "half-open" THEN "closed" ELSE state
  /\ wait' = IF state = "half-open" THEN 0 ELSE wait
  /\ inProbe' = FALSE
  /\ UNCHANGED failureCount

OnSuccess(c) ==
  /\ Settle(c)
  /\ failureCount' = 0
  /\ state' = IF state = "half-open" THEN "closed" ELSE state
  /\ wait' = IF state = "half-open" THEN 0 ELSE wait
  /\ inProbe' = FALSE

(* Mutant: an expected error leaves the probe marked as in flight. *)
ExpectedErrorKeepsProbe(c) ==
  /\ Settle(c)
  /\ UNCHANGED <<state, failureCount, wait, inProbe>>

(* An error isExpectedError accepts (S3's 404) neither trips nor closes. *)
ExpectedError(c) ==
  /\ Settle(c)
  /\ inProbe' = FALSE
  /\ UNCHANGED <<state, failureCount, wait>>

Opens(count) == state = "half-open" \/ count >= FailureThreshold

(* Mutant: failures are counted and never open the circuit. *)
OnFailureUnopened(c) ==
  /\ Settle(c)
  /\ failureCount' = failureCount + 1
  /\ UNCHANGED <<state, wait, inProbe>>

(* onFailure and open(): also in the open state, where a late failure starts *)
(* the window again.                                                         *)
OnFailure(c) ==
  LET count == IF failureCount < FailureThreshold THEN failureCount + 1 ELSE failureCount IN
  /\ Settle(c)
  /\ failureCount' = count
  /\ state' = IF Opens(count) THEN "open" ELSE state
  /\ wait' = IF Opens(count) THEN OpenDuration ELSE wait
  /\ inProbe' = IF Opens(count) THEN FALSE ELSE inProbe

(* The reset endpoint of routes/breakers.ts. *)
Reset ==
  /\ state' = "closed"
  /\ failureCount' = 0
  /\ wait' = 0
  /\ inProbe' = FALSE
  /\ UNCHANGED call

Tick ==
  /\ wait > 0
  /\ wait' = wait - 1
  /\ UNCHANGED <<state, failureCount, inProbe, call>>

BeginCall(c) == LetThrough(c) \/ Probe(c)

BreakerNext ==
  \/ \E c \in Calls :
       \/ LetThrough(c) \/ Probe(c)
       \/ OnSuccess(c) \/ ExpectedError(c) \/ OnFailure(c)
  \/ Reset
  \/ Tick

BreakerSpec == BreakerInit /\ [][BreakerNext]_breakerVars

(* Requests keep coming, time passes, and a call in flight is answered or    *)
(* times out; nothing is assumed of the answer.                              *)
Fairness ==
  /\ WF_breakerVars(\E c \in Calls : BeginCall(c))
  /\ WF_breakerVars(Tick)
  /\ \A c \in Calls : WF_breakerVars(OnSuccess(c) \/ ExpectedError(c) \/ OnFailure(c))

FairBreakerSpec == BreakerSpec /\ Fairness

-----------------------------------------------------------------------------
(* Properties. *)

(* Type invariant. *)
BreakerTypeOK ==
  /\ state \in {"closed", "open", "half-open"}
  /\ failureCount \in 0 .. FailureThreshold
  /\ wait \in 0 .. OpenDuration
  /\ inProbe \in BOOLEAN
  /\ call \in [Calls -> {"idle", "calling", "probing"}]

(* While the breaker refuses everybody because a probe is in flight, some    *)
(* probe is: its answer will move the breaker.  A path of execute that ends  *)
(* a probe without clearing inProbe would wedge it for good.                 *)
NoWedge ==
  inProbe => state = "half-open" /\ \E c \in Calls : call[c] = "probing"

(* A closed breaker has room for a failure: whichever way it was closed (a   *)
(* probe, a late success, a reset), it does not open at the first error      *)
(* because of failures from before.                                          *)
ClosedHasRoom == state = "closed" => failureCount < FailureThreshold

(* What the next caller meets is what the calls so far have earned, whatever *)
(* order they are answered in: refusal for a probe only while there is one,  *)
(* closed only with room for a failure.                                      *)
NextCallIsSound == NoWedge /\ ClosedHasRoom

(* An open breaker is left by a probe after its window, or by reset: answers *)
(* of calls that began before it opened neither close it nor shorten the     *)
(* window.                                                                   *)
OpenIsKept ==
  [][state = "open" =>
       \/ state' = "open" /\ (wait' = wait \/ wait' + 1 = wait \/ wait' = OpenDuration)
       \/ state' = "half-open" /\ wait = 0
       \/ Reset]_breakerVars

(* Once the service answers, the breaker closes again for good: with no more *)
(* errors of either kind it does not stay open or half-open.                 *)
Recovers ==
  (<>[][\A c \in Calls : ~OnFailure(c) /\ ~ExpectedError(c)]_breakerVars) => []<>(state = "closed")
=============================================================================
