------------------------------ MODULE JobQueue ------------------------------
(***************************************************************************)
(* The workflow job queue of the control plane over its local persistence  *)
(* adapter: ingest, claim, heartbeat, the lease reaper, retry with         *)
(* back-off, the dead-letter queue, replay, the event endpoint that moves  *)
(* a job along its status graph, and the media workers that drive it.      *)
(*                                                                         *)
(* One job is spread over three maps: its row (job), its queue entry       *)
(* (queue) and its dead letter (dlq).  An adapter call runs to completion  *)
(* between two turns of the event loop, so each is one action; what is     *)
(* concurrent are the workers, the clients, the timers and the delivery of *)
(* events, which is at least once, in any order and after any delay.       *)
(*                                                                         *)
(* Times are relative to the server's clock: availableIn and leaseLeft hold *)
(* in how many seconds availableAt and leaseExpiresAt come, negative once  *)
(* they are past.  The claim and reap routes and the DataEngine endpoint   *)
(* take the time from their caller, and everything they compare and write  *)
(* goes by it: now says how far the caller's clock is ahead (or, negative, *)
(* behind).  What lies further back than any of these clocks is kept as    *)
(* Horizon seconds ago, and ahead remembers the order of availableAt.      *)
(***************************************************************************)
EXTENDS Integers, WorkflowTransitions

CONSTANTS
  Jobs, Workers, Slots,   \* jobs, media workers, events in flight at a time
  None,                   \* null: no lease owner, no job
  MaxAttempts,            \* DEFAULT_MAX_ATTEMPTS
  AttemptCap,             \* where the model stops counting attempts
  LeaseSeconds,           \* lease lengths workers ask for
  Steps,                  \* by how much time may advance at once
  Clocks,                 \* how far ahead callers' clocks are; 0 is the server's
  Horizon,                \* further back than this no clock reaches
  External                \* <<event type, route>> other clients may post

VARIABLES
  job,        \* this.jobs: one row per job
  queue,      \* this.queue: one entry per queued job
  ahead,      \* the queued jobs whose availableAt is not after this one's
  dlq,        \* this.dlq: the dead-lettered jobs
  events,     \* the event each slot carries, until its sender stops resending
  processed,  \* this.processedEventIds: the slots whose event was handled
  worker      \* what each media worker is doing

vars == <<job, queue, ahead, dlq, events, processed, worker>>

EventType ==
  {"asset.processing.started", "asset.processing.completed",
   "asset.processing.failed", "asset.processing.replay_requested",
   "asset.review.qc_pending", "asset.review.in_review",
   "asset.review.approved", "asset.review.rejected"}

(* /events, /api/v1/events, and the DataEngine completion endpoint. *)
Route == {"legacy", "v1", "vast"}

Phase == {"claimed", "working", "overtime"}

ASSUME ConstantsAssumption ==
  /\ None \notin Workers /\ None \notin Jobs
  /\ MaxAttempts \in Nat /\ AttemptCap \in Nat /\ MaxAttempts <= AttemptCap
  /\ LeaseSeconds \subseteq Nat \ {0} /\ Steps \subseteq Nat \ {0}
  /\ Clocks \subseteq Int /\ 0 \in Clocks
  /\ Horizon \in Nat /\ \A now \in Clocks : -Horizon <= now
  /\ External \subseteq EventType \X Route

NoEvent == [type |-> "none", route |-> "none", job |-> None]
NoRow   == [status |-> "absent", attemptCount |-> 0, leaseOwner |-> None, leaseLeft |-> 0]
Idle    == [phase |-> "idle", job |-> None]
NoEntry == [queued |-> FALSE, availableIn |-> 0, leaseOwner |-> None, leaseLeft |-> 0]

Init ==
  /\ job = [j \in Jobs |-> NoRow]
  /\ queue = [j \in Jobs |-> NoEntry]
  /\ ahead = [j \in Jobs |-> {}]
  /\ dlq = {}
  /\ events = [e \in Slots |-> NoEvent]
  /\ processed = {}
  /\ worker = [w \in Workers |-> Idle]

-----------------------------------------------------------------------------
(* Shared pieces of the adapter's operations. *)

(* What is over stays over for every clock. *)
Kept(t) == IF t > -Horizon THEN t ELSE -Horizon

(* min(60, 5 * 2^(max(0, n - 1))), tabulated. *)
BackoffSeconds(n) ==
  CASE n <= 1 -> 5 [] n = 2 -> 10 [] n = 3 -> 20 [] n = 4 -> 40 [] OTHER -> 60

FreshEntry(at) ==
  [queued |-> TRUE, availableIn |-> at, leaseOwner |-> None, leaseLeft |-> 0]

(* queue.set for every job of S, available at a given time, which may be   *)
(* past: S goes behind what is available by then and before what is later. *)
Enqueue(S, at) ==
  /\ queue' = [k \in Jobs |-> IF k \in S THEN FreshEntry(at) ELSE queue[k]]
  /\ ahead' = [k \in Jobs |->
       IF k \in S
       THEN {i \in Jobs \ S : queue[i].queued /\ queue[i].availableIn <= at}
       ELSE IF queue[k].queued /\ queue[k].availableIn > at
            THEN ahead[k] \cup S
            ELSE ahead[k] \ S]

Dequeue(j) ==
  /\ queue' = [queue EXCEPT ![j] = NoEntry]
  /\ ahead' = [k \in Jobs |-> IF k = j THEN {} ELSE ahead[k] \ {j}]

(* A row nobody holds; a job back in line is a pending one. *)
RestingRow(s, n) ==
  [status |-> s, attemptCount |-> n, leaseOwner |-> None, leaseLeft |-> 0]

PendingRow(n) == RestingRow("pending", n)

(* Mutant: completion forgets the dead letter of an earlier failure. *)
SetJobStatusKeepsDeadLetter(j, s) ==
  /\ job[j].status # "absent"
  /\ CanTransition(job[j].status, s)
  /\ job' = [job EXCEPT ![j] = RestingRow(s, @.attemptCount)]
  /\ IF s \in {"completed", "failed"} THEN Dequeue(j) ELSE UNCHANGED <<queue, ahead>>
  /\ UNCHANGED dlq

(* Its branch for pending, which would queue the job anew, has no caller. *)
SetJobStatus(j, s) ==
  /\ job[j].status # "absent"
  /\ CanTransition(job[j].status, s)
  /\ job' = [job EXCEPT ![j] =
       [status |-> s, attemptCount |-> @.attemptCount,
        leaseOwner |-> IF s = "processing" THEN @.leaseOwner ELSE None,
        leaseLeft |-> IF s = "processing" THEN @.leaseLeft ELSE 0]]
  /\ dlq' = IF s = "completed" THEN dlq \ {j} ELSE dlq
  /\ \/ s \in {"completed", "failed"} /\ Dequeue(j)
     \/ s \notin {"completed", "failed"} /\ UNCHANGED <<queue, ahead>>

(* Mutant: a retry resets the row and leaves the queue entry as it was. *)
HandleJobFailureRowOnly(j, now) ==
  /\ job[j].attemptCount < MaxAttempts
  /\ job' = [job EXCEPT ![j] = PendingRow(job[j].attemptCount)]
  /\ UNCHANGED <<queue, ahead, dlq>>

(* Mutant: a dead letter gets a status of its own. *)
HandleJobFailureOwnStatus(j, now) ==
  /\ job' = [job EXCEPT ![j] = RestingRow("dead_lettered", @.attemptCount)]
  /\ Dequeue(j)
  /\ dlq' = dlq \cup {j}

(* The back-off counts from the caller's time. *)
HandleJobFailure(j, now) ==
  \/ /\ job[j].attemptCount < MaxAttempts
     /\ job' = [job EXCEPT ![j] = PendingRow(job[j].attemptCount)]
     /\ Enqueue({j}, now + BackoffSeconds(job[j].attemptCount))
     /\ UNCHANGED dlq
  \/ /\ job[j].attemptCount >= MaxAttempts
     /\ job' = [job EXCEPT ![j] = RestingRow("failed", @.attemptCount)]
     /\ Dequeue(j)
     /\ dlq' = dlq \cup {j}

(* replayJob asks nothing about the status: that is left to its callers. *)
ReplayJobs(S) ==
  /\ job' = [k \in Jobs |-> IF k \in S THEN PendingRow(0) ELSE job[k]]
  /\ Enqueue(S, 0)
  /\ dlq' = dlq \ S

-----------------------------------------------------------------------------
(* Ingest, the workers' calls and the background reaper. *)

CreateIngestAsset(j) ==
  /\ job[j].status = "absent"
  /\ job' = [job EXCEPT ![j] = PendingRow(0)]
  /\ Enqueue({j}, 0)
  /\ UNCHANGED <<dlq, events, processed, worker>>

(* Mutant: the candidate's row is not looked at. *)
ClaimableByEntry(j, now) ==
  queue[j].queued /\ queue[j].availableIn <= now
    /\ (queue[j].leaseOwner = None \/ queue[j].leaseLeft <= now)

Claimable(j, now) ==
  /\ queue[j].queued /\ queue[j].availableIn <= now
  /\ queue[j].leaseOwner = None \/ queue[j].leaseLeft <= now
  /\ job[j].status = "pending"

(* Mutant: the lease is written to the row alone. *)
ClaimNextJobRowOnly(w, j, lease, now) ==
  /\ Claimable(j, now)
  /\ job' = [job EXCEPT ![j] = [status |-> "processing", attemptCount |-> @.attemptCount,
                                leaseOwner |-> w, leaseLeft |-> now + lease]]
  /\ UNCHANGED <<queue, ahead, dlq>>

(* Mutant: any claimable entry will do, not the oldest. *)
ClaimAnyJob(w, j, lease, now) ==
  /\ Claimable(j, now)
  /\ job' = [job EXCEPT ![j] = [status |-> "processing", attemptCount |-> @.attemptCount,
                                leaseOwner |-> w, leaseLeft |-> now + lease]]
  /\ queue' = [queue EXCEPT ![j] = [queued |-> TRUE, availableIn |-> now,
                                    leaseOwner |-> w, leaseLeft |-> now + lease]]
  /\ UNCHANGED <<ahead, dlq>>

(* The oldest claimable entry by the caller's clock, from which the lease   *)
(* counts too; the second check on the row guards it.                       *)
ClaimNextJob(w, j, lease, now) ==
  /\ Claimable(j, now)
  /\ \A k \in ahead[j] : ~Claimable(k, now)
  /\ job[j].leaseOwner = None
  /\ job' = [job EXCEPT ![j] =
       [status |-> "processing",
        attemptCount |-> IF @.attemptCount < AttemptCap THEN @.attemptCount + 1
                         ELSE AttemptCap,
        leaseOwner |-> w, leaseLeft |-> now + lease]]
  /\ queue' = [queue EXCEPT ![j] = [queued |-> TRUE, availableIn |-> now,
                                    leaseOwner |-> w, leaseLeft |-> now + lease]]
  /\ UNCHANGED <<ahead, dlq>>

(* The media worker sends no time, so it goes by the server's clock: now is *)
(* 0.  A client of the route that sends one goes on as a worker does.       *)
Claim(w, now) ==
  /\ worker[w].phase = "idle"
  /\ \E j \in Jobs, lease \in LeaseSeconds :
       /\ ClaimNextJob(w, j, lease, now)
       /\ worker' = [worker EXCEPT ![w] = [phase |-> "claimed", job |-> j]]
  /\ UNCHANGED <<events, processed>>

(* HeartbeatThread runs until the job thread ends; a refused beat is        *)
(* swallowed, so a worker that lost its lease works on.                     *)
Heartbeat(w) ==
  /\ worker[w].phase \in {"working", "overtime"}
  /\ \E lease \in LeaseSeconds : LET j == worker[w].job IN
       /\ queue[j].queued /\ job[j].leaseOwner = w /\ queue[j].leaseOwner = w
       /\ job' = [job EXCEPT ![j] = [@ EXCEPT !.leaseLeft = lease]]
       /\ queue' = [queue EXCEPT ![j] = [@ EXCEPT !.leaseLeft = lease]]
  /\ UNCHANGED <<ahead, dlq, events, processed, worker>>

(* Mutant: jobs that used up their attempts are left to the failure path. *)
StaleJobsWithAttempts(now) ==
  {j \in Jobs : /\ queue[j].queued /\ queue[j].leaseOwner # None
                /\ queue[j].leaseLeft <= now /\ job[j].status = "processing"
                /\ job[j].attemptCount < MaxAttempts}

StaleJobs(now) ==
  {j \in Jobs : /\ queue[j].queued /\ queue[j].leaseOwner # None
                /\ queue[j].leaseLeft <= now
                /\ job[j].status = "processing"}

(* Mutant: what is reaped by a caller's clock is available at once. *)
ReapAndOfferNow(now) ==
  /\ StaleJobs(now) # {}
  /\ job' = [k \in Jobs |-> IF k \in StaleJobs(now) THEN PendingRow(job[k].attemptCount)
                            ELSE job[k]]
  /\ Enqueue(StaleJobs(now), 0)
  /\ UNCHANGED <<dlq, events, processed, worker>>

(* The interval timer passes the server's time, clients of the route any. *)
ReapStaleLeases(now) ==
  /\ StaleJobs(now) # {}
  /\ job' = [k \in Jobs |-> IF k \in StaleJobs(now) THEN PendingRow(job[k].attemptCount)
                            ELSE job[k]]
  /\ Enqueue(StaleJobs(now), now)
  /\ UNCHANGED <<dlq, events, processed, worker>>

-----------------------------------------------------------------------------
(* Events: a sender puts one in a free slot; until its sender stops         *)
(* resending it, it may be handled, and handled again.                      *)

Send(type, route, j) ==
  \E e \in Slots :
    /\ events[e] = NoEvent
    /\ events' = [events EXCEPT ![e] = [type |-> type, route |-> route, job |-> j]]

PostStarted(w) ==
  /\ worker[w].phase = "claimed"
  /\ Send("asset.processing.started", "v1", worker[w].job)
  /\ worker' = [worker EXCEPT ![w] = [@ EXCEPT !.phase = "working"]]
  /\ UNCHANGED <<job, queue, ahead, dlq, processed>>

(* The job timeout reports a failure while the job thread goes on. *)
PostTimeout(w) ==
  /\ worker[w].phase = "working"
  /\ Send("asset.processing.failed", "vast", worker[w].job)
  /\ worker' = [worker EXCEPT ![w] = [@ EXCEPT !.phase = "overtime"]]
  /\ UNCHANGED <<job, queue, ahead, dlq, processed>>

PostCompletion(w) ==
  /\ worker[w].phase \in {"working", "overtime"}
  /\ \E type \in {"asset.processing.completed", "asset.processing.failed"} :
       Send(type, "vast", worker[w].job)
  /\ worker' = [worker EXCEPT ![w] = Idle]
  /\ UNCHANGED <<job, queue, ahead, dlq, processed>>

(* The process dies, or a request fails and run_forever starts over. *)
WorkerGivesUp(w) ==
  /\ worker[w].phase # "idle"
  /\ worker' = [worker EXCEPT ![w] = Idle]
  /\ UNCHANGED <<job, queue, ahead, dlq, events, processed>>

PostExternal ==
  /\ \E x \in External, j \in Jobs : job[j].status # "absent" /\ Send(x[1], x[2], j)
  /\ UNCHANGED <<job, queue, ahead, dlq, processed, worker>>

Retire(e) ==
  /\ events[e] # NoEvent
  /\ events' = [events EXCEPT ![e] = NoEvent]
  /\ processed' = processed \ {e}
  /\ UNCHANGED <<job, queue, ahead, dlq, worker>>

MapEventToStatus(type) ==
  CASE type = "asset.processing.started"          -> "processing"
    [] type = "asset.processing.completed"        -> "completed"
    [] type = "asset.processing.failed"           -> "failed"
    [] type = "asset.processing.replay_requested" -> "needs_replay"
    [] type = "asset.review.qc_pending"           -> "qc_pending"
    [] type = "asset.review.in_review"            -> "qc_in_review"
    [] type = "asset.review.approved"             -> "qc_approved"
    [] type = "asset.review.rejected"             -> "qc_rejected"

(* A failure retries unless it came over the legacy route, counted from the *)
(* time in the event if the DataEngine endpoint took it; every other event, *)
(* and that one, goes through the status table.                             *)
ApplyEvent(ev) ==
  IF ev.type = "asset.processing.failed" /\ ev.route # "legacy"
  THEN \E now \in IF ev.route = "vast" THEN Clocks ELSE {0} : HandleJobFailure(ev.job, now)
  ELSE SetJobStatus(ev.job, MapEventToStatus(ev.type))

(* The event is marked before it is judged: a refused one is spent too.     *)
(* A second delivery finds the mark and changes nothing.                    *)
ProcessAssetEvent(e) ==
  /\ events[e] # NoEvent
  /\ e \notin processed
  /\ processed' = processed \cup {e}
  /\ LET ev == events[e] IN
       \/ /\ CanTransition(job[ev.job].status, MapEventToStatus(ev.type))
          /\ ApplyEvent(ev)
       \/ /\ ~CanTransition(job[ev.job].status, MapEventToStatus(ev.type))
          /\ UNCHANGED <<job, queue, ahead, dlq>>
  /\ UNCHANGED <<events, worker>>

-----------------------------------------------------------------------------
(* Operators: replay, the dead-letter endpoints, review, the dev endpoint. *)

ReplayRoute(j) ==
  /\ job[j].status \in {"failed", "needs_replay"}
  /\ ReplayJobs({j})
  /\ UNCHANGED <<events, processed, worker>>

(* One dead letter, or all of them: membership of the DLQ is the only test. *)
ReplayDlq ==
  /\ \E S \in {{j} : j \in dlq} \cup ({dlq} \ {{}}) : ReplayJobs(S)
  /\ UNCHANGED <<events, processed, worker>>

(* failedAt is abstracted, so any set of dead letters may predate the cut. *)
PurgeDlqItems ==
  /\ \E S \in SUBSET dlq : S # {} /\ dlq' = dlq \ S
  /\ UNCHANGED <<job, queue, ahead, events, processed, worker>>

(* The approval endpoints ask for one exact status and compare-and-set it.   *)
ApprovalAction(j) ==
  /\ \/ job[j].status = "qc_pending" /\ SetJobStatus(j, "qc_in_review")
     \/ job[j].status = "qc_in_review"
        /\ \E s \in {"qc_approved", "qc_rejected"} : SetJobStatus(j, s)
  /\ UNCHANGED <<events, processed, worker>>

(* The context menu of an asset offers four statuses and asks the table.     *)
AssetMenuAction(j) ==
  /\ \E s \in {"qc_pending", "qc_approved", "qc_rejected", "revision_required"} :
       SetJobStatus(j, s)
  /\ UNCHANGED <<events, processed, worker>>

(* Completed, then at once qc_pending, in development mode. *)
DevComplete(j) ==
  /\ job[j].status \in {"pending", "processing"}
  /\ job' = [job EXCEPT ![j] = RestingRow("qc_pending", @.attemptCount)]
  /\ Dequeue(j)
  /\ dlq' = dlq \ {j}
  /\ UNCHANGED <<events, processed, worker>>

Tick ==
  /\ \E d \in Steps :
       /\ job' = [j \in Jobs |-> [job[j] EXCEPT
            !.leaseLeft = IF job[j].leaseOwner = None THEN 0 ELSE Kept(@ - d)]]
       /\ queue' = [j \in Jobs |-> [queue[j] EXCEPT
            !.availableIn = IF queue[j].queued THEN Kept(@ - d) ELSE 0,
            !.leaseLeft = IF queue[j].leaseOwner = None THEN 0 ELSE Kept(@ - d)]]
  /\ UNCHANGED <<ahead, dlq, events, processed, worker>>

Next ==
  \/ \E j \in Jobs : \/ CreateIngestAsset(j) \/ ReplayRoute(j)
                     \/ ApprovalAction(j) \/ AssetMenuAction(j) \/ DevComplete(j)
  \/ \E w \in Workers : \/ \E now \in Clocks : Claim(w, now)
                        \/ Heartbeat(w) \/ PostStarted(w) \/ PostTimeout(w)
                        \/ PostCompletion(w) \/ WorkerGivesUp(w)
  \/ \E e \in Slots : ProcessAssetEvent(e) \/ Retire(e)
  \/ \E now \in Clocks : ReapStaleLeases(now)
  \/ PostExternal \/ ReplayDlq \/ PurgeDlqItems \/ Tick

Spec == Init /\ [][Next]_vars

(* A media worker polls for ever and every call it makes ends; the reaper   *)
(* is on an interval timer; both go by the server's clock.  Time passes.    *)
(* Heartbeats, clients, operators and the network owe nothing.              *)
WorkerStep(w) ==
  Claim(w, 0) \/ PostStarted(w) \/ PostCompletion(w) \/ WorkerGivesUp(w)

Fairness ==
  /\ \A w \in Workers : WF_vars(WorkerStep(w))
  /\ WF_vars(ReapStaleLeases(0))
  /\ WF_vars(Tick)

FairSpec == Spec /\ Fairness

-----------------------------------------------------------------------------
(* Type invariant: the shape of the three maps, the event slots and the     *)
(* workers.                                                                 *)
Event == [type : EventType, route : Route, job : Jobs] \cup {NoEvent}

JobRow == [status : WorkflowStatus \cup {"absent"}, attemptCount : 0 .. AttemptCap,
           leaseOwner : Workers \cup {None}, leaseLeft : Int]

QueueEntry == [queued : BOOLEAN, availableIn : Int,
               leaseOwner : Workers \cup {None}, leaseLeft : Int]

TypeOK ==
  /\ job \in [Jobs -> JobRow]
  /\ queue \in [Jobs -> QueueEntry]
  /\ ahead \in [Jobs -> SUBSET Jobs]
  /\ dlq \subseteq Jobs
  /\ events \in [Slots -> Event]
  /\ processed \subseteq Slots
  /\ worker \in [Workers -> [phase : Phase, job : Jobs] \cup {Idle}]

(* The lease on the row and the lease on the queue entry are written by      *)
(* separate statements of every operation.  A leased row is being processed, *)
(* still queued, and its entry names the same owner until the same moment:   *)
(* otherwise heartbeats are refused and the reaper misses the job.  A row    *)
(* that has no owner keeps no lease time of an earlier one.                  *)
LeaseAgreement ==
  \A j \in Jobs :
    IF job[j].leaseOwner = None
    THEN job[j].leaseLeft = 0
    ELSE /\ job[j].status = "processing"
         /\ queue[j].queued
         /\ queue[j].leaseOwner = job[j].leaseOwner
         /\ queue[j].leaseLeft = job[j].leaseLeft

(* A pending job has a queue entry that nobody holds, so that a worker can   *)
(* claim it: no path back to pending loses the entry or keeps an old lease.  *)
PendingIsClaimable ==
  \A j \in Jobs : job[j].status = "pending" =>
    /\ queue[j].queued /\ queue[j].leaseOwner = None /\ queue[j].leaseLeft = 0
    /\ job[j].leaseOwner = None

(* What failed for good, was completed or went on to review is out of the    *)
(* queue, and no dead letter is left of what was completed, although the     *)
(* queue entry and the dead letter are deleted by different operations.      *)
FinishedIsUnqueued ==
  \A j \in Jobs :
    /\ job[j].status \in Settled \cup {"failed", "absent"} => ~queue[j].queued
    /\ job[j].status \in Settled \cup {"absent"} => j \notin dlq

(* A dead letter is never also a job in line: replaying the dead letter      *)
(* would then restart work already under way.  It has used up its attempts.  *)
DeadLetterIsOut ==
  \A j \in dlq : ~queue[j].queued /\ job[j].attemptCount >= MaxAttempts

(* The three maps agree on where a job stands, whatever late, repeated and   *)
(* reordered reports, reaping and replay do: pending jobs can be claimed,    *)
(* finished ones are out of the queue, dead letters out of line.             *)
MapsAgree == PendingIsClaimable /\ FinishedIsUnqueued /\ DeadLetterIsOut

(* A settled job comes back only through an explicit request for replay,     *)
(* although replayJob itself does not look at the status and the dead-letter *)
(* routes call it for whatever the DLQ holds.                                *)
SettledStaysSettled ==
  [][\A j \in Jobs : job[j].status \in Settled =>
       job'[j].status \in Settled \cup {"needs_replay"}]_vars

(* A lease that has not expired ends only because an event about the job was *)
(* handled, because the developer endpoint completed it, or because a caller *)
(* whose clock is ahead had it reaped; and then the job goes back in line no *)
(* sooner than its lease would have ended, so nobody who goes by the         *)
(* server's clock takes it from a live worker (claimNextJob, reapStaleLeases *)
(* and the routes that pass them the caller's time).                         *)
LeaseHonoured ==
  [][\A j \in Jobs :
       job[j].leaseLeft > 0 /\ job'[j].leaseOwner # job[j].leaseOwner =>
         \/ \E e \in Slots : events[e].job = j /\ e \in processed' \ processed
         \/ job'[j].status = "qc_pending"
         \/ job'[j].status = "pending" /\ queue'[j].availableIn >= job[j].leaseLeft]_vars

(* The queue implements the lease discipline of JobLease: whatever rows,     *)
(* entries, dead letters and events do, a job is granted only while it is    *)
(* offered, jobs go back in line in bulk only from rest or from a lease that *)
(* is over by the clock of whoever asks, and a settled job is only ever      *)
(* reopened.                                                                 *)
LeasePhase(row) ==
  IF row.status = "absent" THEN "absent"
  ELSE IF row.status = "pending" THEN "offered"
  ELSE IF row.leaseOwner # None THEN "held"
  ELSE IF row.status \in Settled THEN "settled" ELSE "idle"

Lease == INSTANCE JobLease WITH
  LeaseSeconds <- {n + now : n \in LeaseSeconds, now \in Clocks},
  phase <- [j \in Jobs |-> LeasePhase(job[j])],
  owner <- [j \in Jobs |-> job[j].leaseOwner],
  left <- [j \in Jobs |-> job[j].leaseLeft]

ImplementsLease == Lease!Spec

(* No job waits in line for ever while workers poll: claims go to the oldest *)
(* entry, so jobs that keep coming back cannot overtake it again and again,  *)
(* not even those that come back with a time of long ago.                    *)
PendingIsServed ==
  \A j \in Jobs : job[j].status = "pending" ~> job[j].status # "pending"

(* The lease of a worker that died or lost its reports does not last.        *)
LeasesEnd ==
  \A j \in Jobs : job[j].leaseOwner # None ~> job[j].leaseOwner = None
=============================================================================
