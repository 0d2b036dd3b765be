------------------------------ MODULE JobLease ------------------------------
(***************************************************************************)
(* What the job queue promises to the workers and to its operators, with   *)
(* no queue, no dead letters, no retry counter and no events in sight: a   *)
(* job is offered, held by one worker under a lease, idle until somebody   *)
(* asks for it again, or settled.                                          *)
(***************************************************************************)
EXTENDS Integers

CONSTANTS Jobs, Workers, None,
  LeaseSeconds,  \* when a lease may end, counted from when it is written
  Steps,         \* by how much time may advance at once
  Clocks,        \* how far ahead the clocks are that leases are judged by
  Horizon        \* further back than this no clock reaches

VARIABLES
  phase,   \* "absent", "offered", "held", "idle" or "settled"
  owner,   \* who holds the job
  left     \* for how long still, negative once it is over

leaseVars == <<phase, owner, left>>

Init ==
  /\ phase = [j \in Jobs |-> "absent"]
  /\ owner = [j \in Jobs |-> None]
  /\ left = [j \in Jobs |-> 0]

(* The jobs of S go to the given phase and nobody holds them any more. *)
Move(S, to) ==
  /\ phase' = [j \in Jobs |-> IF j \in S THEN to ELSE phase[j]]
  /\ owner' = [j \in Jobs |-> IF j \in S THEN None ELSE owner[j]]
  /\ left' = [j \in Jobs |-> IF j \in S THEN 0 ELSE left[j]]

(* Only an offered job is granted, so never to a second worker. *)
Grant(j, w, n) ==
  /\ phase[j] = "offered"
  /\ phase' = [phase EXCEPT ![j] = "held"]
  /\ owner' = [owner EXCEPT ![j] = w]
  /\ left' = [left EXCEPT ![j] = n]

Renew(j, n) ==
  /\ phase[j] = "held"
  /\ left' = [left EXCEPT ![j] = n]
  /\ UNCHANGED <<phase, owner>>

(* Many jobs may go back in line at once, but of the held ones only those  *)
(* whose lease is over by one and the same clock.                          *)
Reoffer(S, now) ==
  /\ \A j \in S : phase[j] = "idle" \/ (phase[j] = "held" /\ left[j] <= now)
  /\ Move(S, "offered")

(* A report about one job: it goes back in line, to rest, or is settled. *)
Report(j, to) ==
  /\ phase[j] \in {"offered", "held", "idle"}
  /\ Move({j}, to)

Publish(j) ==
  /\ phase[j] = "absent"
  /\ Move({j}, "offered")

(* What is settled stays so until it is asked for anew. *)
Reopen(j) ==
  /\ phase[j] = "settled"
  /\ Move({j}, "idle")

Pass(d) ==
  /\ left' = [j \in Jobs |-> IF phase[j] # "held" THEN 0
                             ELSE IF left[j] - d > -Horizon THEN left[j] - d
                             ELSE -Horizon]
  /\ UNCHANGED <<phase, owner>>

Next ==
  \/ \E j \in Jobs : \/ Publish(j) \/ Reopen(j)
                     \/ \E to \in {"offered", "idle", "settled"} : Report(j, to)
                     \/ \E n \in LeaseSeconds : Renew(j, n)
                     \/ \E w \in Workers, n \in LeaseSeconds : Grant(j, w, n)
  \/ \E S \in SUBSET Jobs, now \in Clocks : Reoffer(S, now)
  \/ \E d \in Steps : Pass(d)

Spec == Init /\ [][Next]_leaseVars
=============================================================================
