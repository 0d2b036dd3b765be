--------------------------- MODULE JobQueueProofs ---------------------------
(***************************************************************************)
(* Safety of the job queue for every number of jobs, workers and events.   *)
(* The inductive invariant is the conjunction of the invariants TLC        *)
(* checks: none is inductive alone.  LeaseAgreement needs PendingIsClaim-  *)
(* able when an event moves a pending job to processing; PendingIsClaim-   *)
(* able needs FinishedIsUnqueued and DeadLetterIsOut to know which rows a  *)
(* replay meets; and those two need each other.                            *)
(***************************************************************************)
EXTENDS JobQueue, TLAPS

(* TypeOK in two parts: the maps, and the rest. *)
Maps ==
  /\ job \in [Jobs -> JobRow] /\ queue \in [Jobs -> QueueEntry]
  /\ ahead \in [Jobs -> SUBSET Jobs] /\ dlq \subseteq Jobs

MapsInv ==
  Maps /\ LeaseAgreement /\ PendingIsClaimable /\ FinishedIsUnqueued /\ DeadLetterIsOut

Others ==
  /\ events \in [Slots -> Event] /\ processed \subseteq Slots
  /\ worker \in [Workers -> [phase : Phase, job : Jobs] \cup {Idle}]

IInv == MapsInv /\ Others

-----------------------------------------------------------------------------
(* The operators the actions are built from. *)

(* A time kept back to the horizon is a time. *)
LEMMA KeptInt ==
  ASSUME NEW a \in Int PROVE Kept(a) \in Int
BY ConstantsAssumption DEF Kept

(* Back-off is a number of seconds, whatever the attempt. *)
LEMMA BackoffNat ==
  ASSUME NEW n \in Nat PROVE BackoffSeconds(n) \in Nat
<1>1. BackoffSeconds(n) \in {5, 10, 20, 40, 60}
  BY Zenon DEF BackoffSeconds
<1> QED
  BY <1>1

(* Where the status table lets a job come from. *)
LEMMA TransitionSources ==
  ASSUME NEW f \in WorkflowStatus \cup {"absent"}, NEW s \in WorkflowStatus,
         CanTransition(f, s)
  PROVE  /\ f # "absent"
         /\ s = "processing" => f \in {"pending", "processing", "needs_replay"}
         /\ s = "completed" => f \in {"pending", "processing", "needs_replay", "completed"}
         /\ s = "failed" => f \in {"pending", "processing", "needs_replay", "failed"}
         /\ s \in ReviewStatus => f \in Settled
         /\ s = "pending" => f \in {"pending", "processing", "needs_replay", "failed", "retake"}
         /\ f \in Settled => s \in Settled \cup {"needs_replay", "pending"}
         /\ f \in Settled /\ s = "pending" => f = "retake"
BY DEF CanTransition, Transitions, WorkflowStatus, ReviewStatus, Settled

(* The status an event asks for. *)
LEMMA EventStatus ==
  ASSUME NEW t \in EventType
  PROVE  MapEventToStatus(t) \in
           {"processing", "completed", "failed", "needs_replay",
            "qc_pending", "qc_in_review", "qc_approved", "qc_rejected"}
BY Zenon DEF EventType, MapEventToStatus

(* Putting a set of jobs in line keeps the queue well formed. *)
LEMMA EnqueueType ==
  ASSUME queue \in [Jobs -> QueueEntry], ahead \in [Jobs -> SUBSET Jobs],
         NEW S \in SUBSET Jobs, NEW n \in Int, Enqueue(S, n)
  PROVE  /\ queue' \in [Jobs -> QueueEntry]
         /\ ahead' \in [Jobs -> SUBSET Jobs]
         /\ \A j \in S : queue'[j].queued /\ queue'[j].leaseOwner = None
                         /\ queue'[j].leaseLeft = 0
         /\ \A j \in Jobs \ S : queue'[j] = queue[j]
<1>1. \A j \in S : queue'[j] = FreshEntry(n)
  BY DEF Enqueue
<1>2. FreshEntry(n).queued /\ FreshEntry(n).leaseOwner = None /\ FreshEntry(n).leaseLeft = 0
  BY DEF FreshEntry
<1>3. \A j \in S : queue'[j].queued /\ queue'[j].leaseOwner = None
                   /\ queue'[j].leaseLeft = 0
  BY Zenon, <1>1, <1>2
<1>4. \A j \in Jobs \ S : queue'[j] = queue[j]
  BY DEF Enqueue
<1>5. queue' \in [Jobs -> QueueEntry] /\ ahead' \in [Jobs -> SUBSET Jobs]
  BY DEF Enqueue, FreshEntry, QueueEntry
<1> QED
  BY <1>3, <1>4, <1>5

(* Taking a job out of line touches no other job. *)
LEMMA DequeueType ==
  ASSUME queue \in [Jobs -> QueueEntry], ahead \in [Jobs -> SUBSET Jobs],
         NEW j \in Jobs, Dequeue(j)
  PROVE  /\ queue' \in [Jobs -> QueueEntry]
         /\ ahead' \in [Jobs -> SUBSET Jobs]
         /\ ~queue'[j].queued
         /\ \A k \in Jobs \ {j} : queue'[k] = queue[k]
BY DEF Dequeue, NoEntry, QueueEntry

-----------------------------------------------------------------------------
(* The operations on the three maps keep the inductive invariant. *)

(* A status change that the table allows keeps the maps consistent. *)
LEMMA SetJobStatusInv ==
  ASSUME MapsInv, NEW j \in Jobs, NEW s \in WorkflowStatus \ {"pending"},
         SetJobStatus(j, s)
  PROVE  MapsInv'
PROOF
<1> USE ConstantsAssumption DEF MapsInv, Maps, RestingRow
<1>1. /\ job[j].status \in WorkflowStatus \cup {"absent"}
      /\ CanTransition(job[j].status, s)
  BY DEF JobRow, SetJobStatus
<1>2. /\ s = "processing" => job[j].status \in {"pending", "processing", "needs_replay"}
      /\ s = "completed" => job[j].status \in {"pending", "processing", "needs_replay", "completed"}
      /\ s = "failed" => job[j].status \in {"pending", "processing", "needs_replay", "failed"}
      /\ s \in ReviewStatus => job[j].status \in Settled
  BY <1>1, TransitionSources
<1>3. /\ job' \in [Jobs -> JobRow]
      /\ job'[j].status = s
      /\ job'[j].attemptCount = job[j].attemptCount
      /\ s = "processing" => job'[j].leaseOwner = job[j].leaseOwner
                             /\ job'[j].leaseLeft = job[j].leaseLeft
      /\ s # "processing" => job'[j].leaseOwner = None /\ job'[j].leaseLeft = 0
      /\ \A k \in Jobs \ {j} : job'[k] = job[k]
  BY DEF SetJobStatus, JobRow
<1>4. CASE s \in {"completed", "failed"}
  <2>1. /\ queue' \in [Jobs -> QueueEntry]
        /\ ahead' \in [Jobs -> SUBSET Jobs]
        /\ ~queue'[j].queued
        /\ \A k \in Jobs \ {j} : queue'[k] = queue[k]
    BY <1>4, DequeueType DEF SetJobStatus
  <2>2. dlq' = IF s = "completed" THEN dlq \ {j} ELSE dlq
    BY DEF SetJobStatus
  <2>3. LeaseAgreement' /\ PendingIsClaimable'
    BY <1>3, <1>4, <2>1 DEF LeaseAgreement, PendingIsClaimable
  <2>4. FinishedIsUnqueued'
    BY <1>3, <1>4, <2>1, <2>2 DEF FinishedIsUnqueued, Settled, ReviewStatus
  <2>5. DeadLetterIsOut'
    BY <1>3, <2>1, <2>2 DEF DeadLetterIsOut
  <2> QED
    BY <1>3, <2>1, <2>2, <2>3, <2>4, <2>5
<1>5. CASE s \notin {"completed", "failed"}
  <2>1. queue' = queue /\ ahead' = ahead /\ dlq' = dlq
    BY <1>5 DEF SetJobStatus
  <2>2. s \in {"processing", "needs_replay"} \cup ReviewStatus
    BY <1>5 DEF WorkflowStatus
  <2>3. LeaseAgreement'
    BY <1>2, <1>3, <2>1, <2>2 DEF LeaseAgreement, PendingIsClaimable
  <2>4. PendingIsClaimable'
    BY <1>3, <2>1, <2>2 DEF PendingIsClaimable, ReviewStatus
  <2>5. FinishedIsUnqueued'
    BY <1>2, <1>3, <2>1, <2>2 DEF FinishedIsUnqueued, Settled, ReviewStatus
  <2>6. DeadLetterIsOut'
    BY <1>3, <2>1 DEF DeadLetterIsOut
  <2> QED
    BY <1>3, <2>1, <2>3, <2>4, <2>5, <2>6
<1> QED
  BY <1>4, <1>5

(* A failure of a job that is neither settled nor absent retries it or moves *)
(* it to the dead letters, and keeps the maps consistent.                    *)
LEMMA HandleJobFailureInv ==
  ASSUME MapsInv, NEW j \in Jobs, NEW now \in Int, CanTransition(job[j].status, "failed"),
         HandleJobFailure(j, now)
  PROVE  MapsInv'
PROOF
<1> USE ConstantsAssumption DEF MapsInv, Maps, RestingRow, PendingRow
<1>1. job[j].status \in {"pending", "processing", "needs_replay", "failed"}
  <2>1. job[j].status \in WorkflowStatus \cup {"absent"} /\ "failed" \in WorkflowStatus
    BY DEF JobRow, WorkflowStatus
  <2> QED
    BY <2>1, TransitionSources
<1>2. job[j].attemptCount \in Nat /\ job[j].attemptCount \in 0 .. AttemptCap
  BY DEF JobRow
<1>3. CASE job[j].attemptCount < MaxAttempts
  <2>1. /\ job' = [job EXCEPT ![j] = PendingRow(job[j].attemptCount)]
        /\ Enqueue({j}, now + BackoffSeconds(job[j].attemptCount))
        /\ dlq' = dlq
    BY <1>2, <1>3 DEF HandleJobFailure
  <2>2. now + BackoffSeconds(job[j].attemptCount) \in Int
    BY <1>2, BackoffNat
  <2>3. /\ queue' \in [Jobs -> QueueEntry] /\ ahead' \in [Jobs -> SUBSET Jobs]
        /\ queue'[j].queued /\ queue'[j].leaseOwner = None /\ queue'[j].leaseLeft = 0
        /\ \A k \in Jobs \ {j} : queue'[k] = queue[k]
    BY <2>1, <2>2, EnqueueType
  <2>4. /\ job' \in [Jobs -> JobRow]
        /\ job'[j].status = "pending" /\ job'[j].leaseOwner = None
        /\ job'[j].leaseLeft = 0
        /\ \A k \in Jobs \ {j} : job'[k] = job[k]
    BY <1>2, <2>1 DEF JobRow, WorkflowStatus
  <2>5. j \notin dlq
    BY <1>2, <1>3 DEF DeadLetterIsOut
  <2>6. LeaseAgreement' /\ PendingIsClaimable'
    BY <2>3, <2>4 DEF LeaseAgreement, PendingIsClaimable
  <2>7. FinishedIsUnqueued'
    <3>1. job'[j].status \notin Settled \cup {"failed", "absent"}
      BY <2>4 DEF Settled, ReviewStatus
    <3> QED
      BY <2>1, <2>3, <2>4, <3>1 DEF FinishedIsUnqueued
  <2>8. DeadLetterIsOut'
    BY <2>1, <2>3, <2>4, <2>5 DEF DeadLetterIsOut
  <2> QED
    BY <2>1, <2>3, <2>4, <2>6, <2>7, <2>8
<1>4. CASE job[j].attemptCount >= MaxAttempts
  <2>1. /\ job' = [job EXCEPT ![j] = RestingRow("failed", job[j].attemptCount)]
        /\ Dequeue(j)
        /\ dlq' = dlq \cup {j}
    BY <1>2, <1>4 DEF HandleJobFailure
  <2>2. /\ queue' \in [Jobs -> QueueEntry] /\ ahead' \in [Jobs -> SUBSET Jobs]
        /\ ~queue'[j].queued
        /\ \A k \in Jobs \ {j} : queue'[k] = queue[k]
    BY <2>1, DequeueType
  <2>3. /\ job' \in [Jobs -> JobRow]
        /\ job'[j].status = "failed" /\ job'[j].leaseOwner = None
        /\ job'[j].leaseLeft = 0
        /\ job'[j].attemptCount >= MaxAttempts
        /\ \A k \in Jobs \ {j} : job'[k] = job[k]
    BY <1>2, <1>4, <2>1 DEF JobRow, WorkflowStatus
  <2>4. LeaseAgreement' /\ PendingIsClaimable'
    BY <2>2, <2>3 DEF LeaseAgreement, PendingIsClaimable
  <2>5. FinishedIsUnqueued' /\ DeadLetterIsOut'
    BY <2>1, <2>2, <2>3 DEF FinishedIsUnqueued, DeadLetterIsOut, Settled, ReviewStatus
  <2> QED
    BY <2>1, <2>2, <2>3, <2>4, <2>5
<1> QED
  BY <1>2, <1>3, <1>4

(* Putting jobs back in line keeps the maps consistent if none of them is a  *)
(* dead letter any more: the case of ingest, the reaper and replay alike.    *)
LEMMA RequeueInv ==
  ASSUME MapsInv, NEW S \in SUBSET Jobs, NEW n \in Int, Enqueue(S, n),
         job' \in [Jobs -> JobRow],
         \A j \in S : job'[j].status = "pending" /\ job'[j].leaseOwner = None
                      /\ job'[j].leaseLeft = 0,
         \A j \in Jobs \ S : job'[j] = job[j],
         dlq' = dlq \ S
  PROVE  MapsInv'
PROOF
<1> USE DEF MapsInv, Maps
<1>1. /\ queue' \in [Jobs -> QueueEntry] /\ ahead' \in [Jobs -> SUBSET Jobs]
      /\ \A j \in S : queue'[j].queued /\ queue'[j].leaseOwner = None /\ queue'[j].leaseLeft = 0
      /\ \A j \in Jobs \ S : queue'[j] = queue[j]
  BY EnqueueType
<1>2. LeaseAgreement'
  BY <1>1 DEF LeaseAgreement
<1>3. PendingIsClaimable'
  BY <1>1 DEF PendingIsClaimable
<1>4. FinishedIsUnqueued'
  <2>1. "pending" \notin Settled \cup {"failed", "absent"}
    BY DEF Settled, ReviewStatus
  <2> QED
    BY <1>1, <2>1 DEF FinishedIsUnqueued
<1>5. DeadLetterIsOut'
  BY <1>1 DEF DeadLetterIsOut
<1> QED
  BY <1>1, <1>2, <1>3, <1>4, <1>5

(* ReplayJobs asks nothing about the status of the jobs it puts back. *)
LEMMA ReplayJobsInv ==
  ASSUME MapsInv, NEW S \in SUBSET Jobs, ReplayJobs(S)
  PROVE  MapsInv'
PROOF
<1>1. PendingRow(0) \in JobRow
  BY ConstantsAssumption DEF PendingRow, RestingRow, JobRow, WorkflowStatus
<1>2. /\ job' \in [Jobs -> JobRow]
      /\ \A j \in S : job'[j].status = "pending" /\ job'[j].leaseOwner = None
                      /\ job'[j].leaseLeft = 0
      /\ \A j \in Jobs \ S : job'[j] = job[j]
  BY <1>1 DEF ReplayJobs, PendingRow, RestingRow, MapsInv, Maps
<1> QED
  BY <1>2, RequeueInv DEF ReplayJobs

-----------------------------------------------------------------------------
(* Every action keeps the inductive invariant. *)

(* It holds of the empty queue. *)
LEMMA InitInv == Init => IInv
PROOF
<1> SUFFICES ASSUME Init PROVE IInv
  OBVIOUS
<1>1. Maps /\ Others
  BY ConstantsAssumption
  DEF Init, Maps, Others, JobRow, NoRow, QueueEntry, NoEntry, Event, NoEvent, Phase
<1>2. \A j \in Jobs : /\ job[j].status = "absent" /\ ~queue[j].queued
                      /\ job[j].leaseOwner = None /\ job[j].leaseLeft = 0
  BY DEF Init, NoRow, NoEntry
<1>3. dlq = {}
  BY DEF Init
<1>4. LeaseAgreement /\ DeadLetterIsOut
  BY <1>2, <1>3 DEF LeaseAgreement, DeadLetterIsOut
<1>5. PendingIsClaimable
  BY <1>2 DEF PendingIsClaimable
<1>6. FinishedIsUnqueued
  BY Zenon, <1>2, <1>3 DEF FinishedIsUnqueued
<1> QED
  BY <1>1, <1>4, <1>5, <1>6 DEF IInv, MapsInv

(* Ingest. *)
LEMMA CreateInv ==
  ASSUME IInv, NEW j \in Jobs, CreateIngestAsset(j) PROVE IInv'
PROOF
<1> USE DEF IInv
<1>1. j \notin dlq
  BY DEF MapsInv, FinishedIsUnqueued, CreateIngestAsset
<1>2. PendingRow(0) \in JobRow
  BY ConstantsAssumption DEF PendingRow, RestingRow, JobRow, WorkflowStatus
<1>3. /\ job' \in [Jobs -> JobRow]
      /\ job'[j].status = "pending" /\ job'[j].leaseOwner = None
      /\ job'[j].leaseLeft = 0
      /\ \A k \in Jobs \ {j} : job'[k] = job[k]
  BY <1>2 DEF CreateIngestAsset, PendingRow, RestingRow, MapsInv, Maps
<1>4. MapsInv'
  <2>1. Enqueue({j}, 0) /\ dlq' = dlq \ {j}
    BY <1>1 DEF CreateIngestAsset
  <2> QED
    BY <1>3, <2>1, RequeueInv
<1> QED
  BY <1>4 DEF CreateIngestAsset, Others

(* A claim: the job was pending, so its entry was free and it is no dead     *)
(* letter.                                                                   *)
LEMMA ClaimInv ==
  ASSUME IInv, NEW w \in Workers, NEW now \in Clocks, Claim(w, now) PROVE IInv'
PROOF
<1> USE DEF IInv
<1>1. PICK j \in Jobs, lease \in LeaseSeconds :
        /\ ClaimNextJob(w, j, lease, now)
        /\ worker' = [worker EXCEPT ![w] = [phase |-> "claimed", job |-> j]]
        /\ UNCHANGED <<events, processed>>
  BY DEF Claim
<1>2. /\ job[j].status = "pending" /\ queue[j].queued
      /\ ahead' = ahead /\ dlq' = dlq
  BY <1>1 DEF ClaimNextJob, Claimable
<1>3. /\ job' \in [Jobs -> JobRow]
      /\ job'[j].status = "processing" /\ job'[j].leaseOwner = w
      /\ job'[j].leaseLeft = now + lease
      /\ \A k \in Jobs \ {j} : job'[k] = job[k]
  BY <1>1, ConstantsAssumption DEF ClaimNextJob, MapsInv, Maps, JobRow, WorkflowStatus
<1>4. /\ queue' \in [Jobs -> QueueEntry]
      /\ queue'[j].leaseOwner = w /\ queue'[j].leaseLeft = now + lease
      /\ \A k \in Jobs \ {j} : queue'[k] = queue[k]
  BY <1>1, ConstantsAssumption DEF ClaimNextJob, MapsInv, Maps, QueueEntry
<1>5. queue'[j].queued
  <2> DEFINE held == [queued |-> TRUE, availableIn |-> now, leaseOwner |-> w, leaseLeft |-> now + lease]
  <2>1. queue'[j] = held
    BY <1>1 DEF ClaimNextJob, MapsInv, Maps
  <2>2. held.queued
    OBVIOUS
  <2> HIDE DEF held
  <2> QED
    BY Zenon, <2>1, <2>2
<1>6. j \notin dlq
  BY <1>2 DEF MapsInv, DeadLetterIsOut
<1>7. LeaseAgreement' /\ PendingIsClaimable'
  BY <1>3, <1>4, <1>5, ConstantsAssumption DEF MapsInv, LeaseAgreement, PendingIsClaimable
<1>8. FinishedIsUnqueued'
  <2>1. "processing" \notin Settled \cup {"failed", "absent"}
    BY DEF Settled, ReviewStatus
  <2> QED
    BY <1>2, <1>3, <1>4, <2>1 DEF MapsInv, FinishedIsUnqueued
<1>9. DeadLetterIsOut'
  BY <1>2, <1>3, <1>4, <1>6 DEF MapsInv, Maps, DeadLetterIsOut
<1>10. Others'
  BY <1>1 DEF Others, Phase
<1> QED
  BY <1>2, <1>3, <1>4, <1>7, <1>8, <1>9, <1>10 DEF MapsInv, Maps

(* A heartbeat moves both clocks of the job its sender holds. *)
LEMMA HeartbeatInv ==
  ASSUME IInv, NEW w \in Workers, Heartbeat(w) PROVE IInv'
PROOF
<1> USE DEF IInv
<1>1. PICK lease \in LeaseSeconds : LET j == worker[w].job IN
        /\ queue[j].queued /\ job[j].leaseOwner = w /\ queue[j].leaseOwner = w
        /\ job' = [job EXCEPT ![j] = [@ EXCEPT !.leaseLeft = lease]]
        /\ queue' = [queue EXCEPT ![j] = [@ EXCEPT !.leaseLeft = lease]]
  BY DEF Heartbeat
<1> DEFINE j == worker[w].job
<1>2. UNCHANGED <<ahead, dlq, events, processed, worker>>
  BY DEF Heartbeat
<1>3. lease \in Int /\ None \notin Workers
  BY ConstantsAssumption
<1>4. CASE j \in Jobs
  <2>1. job[j].status = "processing"
    BY <1>1, <1>3, <1>4 DEF MapsInv, LeaseAgreement
  <2>2. /\ job' \in [Jobs -> JobRow]
        /\ job'[j].status = job[j].status /\ job'[j].leaseOwner = job[j].leaseOwner
        /\ job'[j].leaseLeft = lease /\ job'[j].attemptCount = job[j].attemptCount
        /\ \A k \in Jobs \ {j} : job'[k] = job[k]
    BY <1>1, <1>3, <1>4 DEF MapsInv, Maps, JobRow
  <2>3. /\ queue' \in [Jobs -> QueueEntry]
        /\ queue'[j].queued = queue[j].queued /\ queue'[j].leaseOwner = queue[j].leaseOwner
        /\ queue'[j].leaseLeft = lease
        /\ \A k \in Jobs \ {j} : queue'[k] = queue[k]
    BY <1>1, <1>3, <1>4 DEF MapsInv, Maps, QueueEntry
  <2>4. LeaseAgreement'
    BY <1>1, <1>3, <1>4, <2>1, <2>2, <2>3 DEF MapsInv, LeaseAgreement
  <2>5. PendingIsClaimable'
    BY <2>1, <2>2, <2>3 DEF MapsInv, PendingIsClaimable
  <2>6. FinishedIsUnqueued'
    BY <1>2, <2>2, <2>3 DEF MapsInv, FinishedIsUnqueued
  <2>7. DeadLetterIsOut'
    BY <1>2, <2>2, <2>3 DEF MapsInv, Maps, DeadLetterIsOut
  <2> QED
    BY <1>2, <2>2, <2>3, <2>4, <2>5, <2>6, <2>7 DEF MapsInv, Maps, Others
<1>5. CASE j \notin Jobs
  <2>1. job' = job /\ queue' = queue
    BY <1>1, <1>5 DEF MapsInv, Maps
  <2> QED
    BY <1>2, <2>1
    DEF MapsInv, Maps, Others, LeaseAgreement, PendingIsClaimable,
        FinishedIsUnqueued, DeadLetterIsOut
<1> QED
  BY <1>4, <1>5

(* The reaper: what it puts back is queued, so it is no dead letter. *)
LEMMA ReapInv ==
  ASSUME IInv, NEW now \in Clocks, ReapStaleLeases(now) PROVE IInv'
PROOF
<1> USE ConstantsAssumption DEF IInv
<1> DEFINE S == StaleJobs(now)
<1>1. S \in SUBSET Jobs /\ S \cap dlq = {}
  BY DEF StaleJobs, MapsInv, DeadLetterIsOut
<1>2. /\ job' \in [Jobs -> JobRow]
      /\ \A j \in S : job'[j].status = "pending" /\ job'[j].leaseOwner = None
                              /\ job'[j].leaseLeft = 0
      /\ \A j \in Jobs \ S : job'[j] = job[j]
  <2>1. \A j \in Jobs : PendingRow(job[j].attemptCount) \in JobRow
    BY DEF PendingRow, RestingRow, MapsInv, Maps, JobRow, WorkflowStatus
  <2> QED
    BY <1>1, <2>1 DEF ReapStaleLeases, MapsInv, Maps, PendingRow, RestingRow
<1>3. now \in Int /\ Enqueue(S, now) /\ dlq' = dlq \ S
  BY <1>1 DEF ReapStaleLeases
<1>4. MapsInv'
  BY <1>1, <1>2, <1>3, RequeueInv
<1> QED
  BY <1>4 DEF ReapStaleLeases, Others

(* The steps of workers, senders and the network that leave the maps alone. *)
LEMMA MapsUntouched ==
  ASSUME MapsInv, UNCHANGED <<job, queue, ahead, dlq>> PROVE MapsInv'
BY DEF MapsInv, Maps, LeaseAgreement, PendingIsClaimable, FinishedIsUnqueued, DeadLetterIsOut

(* An event put in a slot is an event. *)
LEMMA SendType ==
  ASSUME events \in [Slots -> Event], NEW t \in EventType, NEW r \in Route,
         NEW j \in Jobs, Send(t, r, j)
  PROVE  events' \in [Slots -> Event]
BY DEF Send, Event

(* An event: refused, a failure, or a status change, each kept above. *)
LEMMA ProcessInv ==
  ASSUME IInv, NEW e \in Slots, ProcessAssetEvent(e) PROVE IInv'
PROOF
<1> DEFINE ev == events[e]
           s == MapEventToStatus(ev.type)
<1> SUFFICES MapsInv'
  BY DEF ProcessAssetEvent, IInv, Others
<1>1. ev.type \in EventType /\ ev.route \in Route /\ ev.job \in Jobs
  BY DEF ProcessAssetEvent, IInv, Others, Event
<1>2. s \in WorkflowStatus \ {"pending"}
  BY <1>1, EventStatus DEF WorkflowStatus, ReviewStatus
<1>3. CASE CanTransition(job[ev.job].status, s) /\ ApplyEvent(ev)
  <2>1. CASE ev.type = "asset.processing.failed" /\ ev.route # "legacy"
    <3>1. PICK now \in Int : HandleJobFailure(ev.job, now)
      BY <1>3, <2>1, ConstantsAssumption DEF ApplyEvent
    <3>2. s = "failed"
      BY Zenon, <2>1 DEF MapEventToStatus
    <3> QED
      BY <1>1, <1>3, <3>1, <3>2, HandleJobFailureInv DEF IInv
  <2>2. CASE ~(ev.type = "asset.processing.failed" /\ ev.route # "legacy")
    <3>1. SetJobStatus(ev.job, s)
      BY <1>3, <2>2 DEF ApplyEvent
    <3> QED
      BY <1>1, <1>2, <3>1, SetJobStatusInv DEF IInv
  <2> QED
    BY <2>1, <2>2
<1>4. CASE UNCHANGED <<job, queue, ahead, dlq>>
  BY <1>4, MapsUntouched DEF IInv
<1> QED
  BY <1>3, <1>4 DEF ProcessAssetEvent

(* The dev endpoint completes a job and sends it to review at once. *)
LEMMA DevCompleteInv ==
  ASSUME IInv, NEW j \in Jobs, DevComplete(j) PROVE IInv'
PROOF
<1> USE DEF IInv
<1>1. /\ queue' \in [Jobs -> QueueEntry] /\ ahead' \in [Jobs -> SUBSET Jobs]
      /\ ~queue'[j].queued
      /\ \A k \in Jobs \ {j} : queue'[k] = queue[k]
  BY DequeueType DEF DevComplete, MapsInv, Maps
<1>2. /\ job' \in [Jobs -> JobRow]
      /\ job'[j].status = "qc_pending" /\ job'[j].leaseOwner = None /\ job'[j].leaseLeft = 0
      /\ \A k \in Jobs \ {j} : job'[k] = job[k]
  BY DEF DevComplete, RestingRow, MapsInv, Maps, JobRow, WorkflowStatus, ReviewStatus
<1>3. dlq' = dlq \ {j}
  BY DEF DevComplete
<1>4. LeaseAgreement' /\ PendingIsClaimable'
  BY <1>1, <1>2 DEF MapsInv, LeaseAgreement, PendingIsClaimable
<1>5. FinishedIsUnqueued'
  BY <1>1, <1>2, <1>3 DEF MapsInv, FinishedIsUnqueued
<1>6. DeadLetterIsOut'
  BY <1>1, <1>2, <1>3 DEF MapsInv, Maps, DeadLetterIsOut
<1> QED
  BY <1>1, <1>2, <1>3, <1>4, <1>5, <1>6 DEF DevComplete, Others, MapsInv, Maps

(* The passage of time: a lease runs down on the row as on the entry. *)
LEMMA TickInv ==
  ASSUME IInv, Tick PROVE IInv'
PROOF
<1> USE DEF IInv
<1>1. PICK d \in Steps :
        /\ job' = [j \in Jobs |-> [job[j] EXCEPT
             !.leaseLeft = IF job[j].leaseOwner = None THEN 0 ELSE Kept(@ - d)]]
        /\ queue' = [j \in Jobs |-> [queue[j] EXCEPT
             !.availableIn = IF queue[j].queued THEN Kept(@ - d) ELSE 0,
             !.leaseLeft = IF queue[j].leaseOwner = None THEN 0 ELSE Kept(@ - d)]]
  BY DEF Tick
<1>2. UNCHANGED <<ahead, dlq, events, processed, worker>>
  BY DEF Tick
<1> DEFINE down(t) == Kept(t - d)
<1>d. \A t \in Int : down(t) \in Int
  <2>1. d \in Int
    BY ConstantsAssumption
  <2>2. \A t \in Int : t - d \in Int
    BY <2>1
  <2> QED
    BY <2>2, KeptInt
<1>1a. /\ \A j \in Jobs : job'[j] = [job[j] EXCEPT
             !.leaseLeft = IF job[j].leaseOwner = None THEN 0 ELSE down(@)]
       /\ \A j \in Jobs : queue'[j] = [queue[j] EXCEPT
             !.availableIn = IF queue[j].queued THEN down(@) ELSE 0,
             !.leaseLeft = IF queue[j].leaseOwner = None THEN 0 ELSE down(@)]
  BY <1>1
<1> HIDE DEF down
<1>3. \A j \in Jobs : /\ job'[j] \in JobRow
                      /\ job'[j].status = job[j].status
                      /\ job'[j].attemptCount = job[j].attemptCount
                      /\ job'[j].leaseOwner = job[j].leaseOwner
                      /\ job'[j].leaseLeft = IF job[j].leaseOwner = None THEN 0
                                             ELSE down(job[j].leaseLeft)
  <2> TAKE j \in Jobs
  <2>1. job[j] \in JobRow
    BY DEF MapsInv, Maps
  <2>2. down(job[j].leaseLeft) \in Int
    BY <1>d, <2>1 DEF JobRow
  <2> DEFINE t == IF job[j].leaseOwner = None THEN 0 ELSE down(job[j].leaseLeft)
  <2>3. t \in Int
    BY <2>2
  <2>4. job'[j] = [job[j] EXCEPT !.leaseLeft = t]
    BY <1>1a
  <2> HIDE DEF t
  <2>5. /\ job'[j] \in JobRow
        /\ job'[j].status = job[j].status /\ job'[j].attemptCount = job[j].attemptCount
        /\ job'[j].leaseOwner = job[j].leaseOwner /\ job'[j].leaseLeft = t
    BY <2>1, <2>3, <2>4 DEF JobRow
  <2> QED
    BY <2>5 DEF t
<1>4. \A j \in Jobs : /\ queue'[j] \in QueueEntry
                      /\ queue'[j].queued = queue[j].queued
                      /\ queue'[j].leaseOwner = queue[j].leaseOwner
                      /\ queue'[j].leaseLeft = IF queue[j].leaseOwner = None THEN 0
                                               ELSE down(queue[j].leaseLeft)
  <2> TAKE j \in Jobs
  <2>1. queue[j] \in QueueEntry
    BY DEF MapsInv, Maps
  <2>2. down(queue[j].leaseLeft) \in Int /\ down(queue[j].availableIn) \in Int
    BY <1>d, <2>1 DEF QueueEntry
  <2> DEFINE t == IF queue[j].leaseOwner = None THEN 0 ELSE down(queue[j].leaseLeft)
             a == IF queue[j].queued THEN down(queue[j].availableIn) ELSE 0
  <2>3. t \in Int /\ a \in Int
    BY <2>2
  <2>4. queue'[j] = [queue[j] EXCEPT !.availableIn = a, !.leaseLeft = t]
    BY <1>1a
  <2> HIDE DEF t, a
  <2>5. /\ queue'[j] \in QueueEntry
        /\ queue'[j].queued = queue[j].queued
        /\ queue'[j].leaseOwner = queue[j].leaseOwner /\ queue'[j].leaseLeft = t
    BY <2>1, <2>3, <2>4 DEF QueueEntry
  <2> QED
    BY <2>5 DEF t
<1>5. job' \in [Jobs -> JobRow] /\ queue' \in [Jobs -> QueueEntry]
  BY <1>1, <1>3, <1>4
<1>7. LeaseAgreement' /\ PendingIsClaimable'
  BY <1>3, <1>4 DEF MapsInv, LeaseAgreement, PendingIsClaimable
<1>8. FinishedIsUnqueued'
  BY <1>2, <1>3, <1>4 DEF MapsInv, FinishedIsUnqueued
<1>9. DeadLetterIsOut'
  BY <1>2, <1>3, <1>4 DEF MapsInv, Maps, DeadLetterIsOut
<1> QED
  BY <1>2, <1>5, <1>7, <1>8, <1>9 DEF MapsInv, Maps, Others

(* What workers and senders do without calling the adapter. *)
LEMMA OutsideInv ==
  ASSUME IInv, UNCHANGED <<job, queue, ahead, dlq>>,
         \/ \E w \in Workers : \/ PostStarted(w) \/ PostTimeout(w)
                               \/ PostCompletion(w) \/ WorkerGivesUp(w)
         \/ \E e \in Slots : Retire(e)
         \/ PostExternal
  PROVE  IInv'
PROOF
<1> USE DEF IInv
<1> SUFFICES Others'
  BY MapsUntouched
<1>1. ASSUME NEW w \in Workers,
             PostStarted(w) \/ PostTimeout(w) \/ PostCompletion(w) \/ WorkerGivesUp(w)
      PROVE  Others'
  <2>1. worker' \in [Workers -> [phase : Phase, job : Jobs] \cup {Idle}]
    BY <1>1 DEF PostStarted, PostTimeout, PostCompletion, WorkerGivesUp, Others, Phase, Idle
  <2>2. processed' = processed
    BY <1>1 DEF PostStarted, PostTimeout, PostCompletion, WorkerGivesUp
  <2>3. events' \in [Slots -> Event]
    <3>1. CASE WorkerGivesUp(w)
      BY <3>1 DEF WorkerGivesUp, Others
    <3>2. CASE ~WorkerGivesUp(w)
      <4>1. worker[w].job \in Jobs
        BY <1>1, <3>2 DEF PostStarted, PostTimeout, PostCompletion, Others, Idle
      <4>2. PICK t \in EventType, r \in Route : Send(t, r, worker[w].job)
        BY <1>1, <3>2 DEF PostStarted, PostTimeout, PostCompletion, EventType, Route
      <4> QED
        BY <4>1, <4>2, SendType DEF Others
    <3> QED
      BY <3>1, <3>2
  <2> QED
    BY <2>1, <2>2, <2>3 DEF Others
<1>2. ASSUME NEW e \in Slots, Retire(e) PROVE Others'
  BY <1>2 DEF Retire, Others, Event
<1>3. CASE PostExternal
  <2>1. PICK x \in External, j \in Jobs : Send(x[1], x[2], j)
    BY <1>3 DEF PostExternal
  <2>2. x[1] \in EventType /\ x[2] \in Route
    BY ConstantsAssumption
  <2> QED
    BY <1>3, <2>1, <2>2, SendType DEF PostExternal, Others
<1> QED
  BY <1>1, <1>2, <1>3

(* Replay, purging, review. *)
LEMMA OperatorInv ==
  ASSUME IInv,
         \/ \E j \in Jobs : ReplayRoute(j) \/ ApprovalAction(j) \/ AssetMenuAction(j)
         \/ ReplayDlq \/ PurgeDlqItems
  PROVE  IInv'
PROOF
<1> USE DEF IInv
<1>1. ASSUME NEW j \in Jobs, ReplayRoute(j) PROVE IInv'
  BY <1>1, ReplayJobsInv DEF ReplayRoute, Others
<1>2. ASSUME NEW j \in Jobs, ApprovalAction(j) \/ AssetMenuAction(j) PROVE IInv'
  <2>1. PICK s \in ReviewStatus : SetJobStatus(j, s)
    BY <1>2 DEF ApprovalAction, AssetMenuAction, ReviewStatus
  <2>2. s \in WorkflowStatus \ {"pending"}
    BY DEF WorkflowStatus, ReviewStatus
  <2> QED
    BY <1>2, <2>1, <2>2, SetJobStatusInv DEF ApprovalAction, AssetMenuAction, Others
<1>3. CASE ReplayDlq
  <2>1. PICK S \in SUBSET Jobs : ReplayJobs(S)
    BY <1>3 DEF ReplayDlq, MapsInv, Maps
  <2> QED
    BY <1>3, <2>1, ReplayJobsInv DEF ReplayDlq, Others
<1>4. CASE PurgeDlqItems
  <2>1. /\ dlq' \subseteq dlq
        /\ UNCHANGED <<job, queue, ahead, events, processed, worker>>
    BY <1>4 DEF PurgeDlqItems
  <2> QED
    BY <2>1
    DEF MapsInv, Maps, Others, LeaseAgreement, PendingIsClaimable,
        FinishedIsUnqueued, DeadLetterIsOut
<1> QED
  BY <1>1, <1>2, <1>3, <1>4

(* One step of the queue, whatever it is. *)
LEMMA NextInv == IInv /\ [Next]_vars => IInv'
PROOF
<1> SUFFICES ASSUME IInv, [Next]_vars PROVE IInv'
  OBVIOUS
<1>1. ASSUME NEW j \in Jobs,
             \/ CreateIngestAsset(j) \/ ReplayRoute(j) \/ DevComplete(j)
             \/ ApprovalAction(j) \/ AssetMenuAction(j)
      PROVE  IInv'
  BY <1>1, CreateInv, OperatorInv, DevCompleteInv
<1>2. ASSUME NEW w \in Workers, (\E now \in Clocks : Claim(w, now)) \/ Heartbeat(w)
      PROVE  IInv'
  BY <1>2, ClaimInv, HeartbeatInv
<1>3. ASSUME NEW w \in Workers,
             PostStarted(w) \/ PostTimeout(w) \/ PostCompletion(w) \/ WorkerGivesUp(w)
      PROVE  IInv'
  <2>1. UNCHANGED <<job, queue, ahead, dlq>>
    BY <1>3 DEF PostStarted, PostTimeout, PostCompletion, WorkerGivesUp
  <2> QED
    BY <1>3, <2>1, OutsideInv
<1>4. ASSUME NEW e \in Slots, ProcessAssetEvent(e) PROVE IInv'
  BY <1>4, ProcessInv
<1>5. ASSUME NEW e \in Slots, Retire(e) PROVE IInv'
  <2>1. UNCHANGED <<job, queue, ahead, dlq>>
    BY <1>5 DEF Retire
  <2> QED
    BY <1>5, <2>1, OutsideInv
<1>6. CASE PostExternal
  <2>1. UNCHANGED <<job, queue, ahead, dlq>>
    BY <1>6 DEF PostExternal
  <2> QED
    BY <1>6, <2>1, OutsideInv
<1>7. CASE (\E now \in Clocks : ReapStaleLeases(now)) \/ ReplayDlq \/ PurgeDlqItems \/ Tick
  BY <1>7, ReapInv, OperatorInv, TickInv
<1>8. CASE UNCHANGED vars
  <2>1. Others'
    BY <1>8 DEF vars, IInv, Others
  <2> QED
    BY <1>8, <2>1, MapsUntouched DEF vars, IInv
<1> QED
  BY <1>1, <1>2, <1>3, <1>4, <1>5, <1>6, <1>7, <1>8 DEF Next

-----------------------------------------------------------------------------
(* Theorems about every behaviour of the queue. *)

(* The inductive invariant holds throughout. *)
THEOREM QueueInvariant == Spec => []IInv
<1> QED
  BY InitInv, NextInv, PTL DEF Spec

(* The three maps, the slots and the workers keep their shape. *)
THEOREM TypeCorrect == Spec => []TypeOK
<1>1. IInv => TypeOK
  BY DEF IInv, MapsInv, Maps, Others, TypeOK
<1> QED
  BY <1>1, QueueInvariant, PTL

(* Row and queue entry always agree on who holds a job and for how long. *)
THEOREM LeasesAgree == Spec => []LeaseAgreement
<1>1. IInv => LeaseAgreement
  BY DEF IInv, MapsInv
<1> QED
  BY <1>1, QueueInvariant, PTL

(* The maps agree: no path back to pending leaves a job no worker could ever *)
(* claim, what is finished is neither queued nor, if settled, a dead letter, *)
(* and a dead letter is never a job in line (the adapter's three maps).      *)
THEOREM MapsAlwaysAgree == Spec => []MapsAgree
<1>1. IInv => MapsAgree
  BY DEF IInv, MapsInv, MapsAgree
<1> QED
  BY <1>1, QueueInvariant, PTL

-----------------------------------------------------------------------------
(* The queue implements the lease discipline of JobLease: each action of the *)
(* queue is one action of JobLease on the mapped variables, or leaves them   *)
(* alone.  The two step properties follow.                                   *)

(* The mapping. *)

(* The phase a row stands for. *)
LEMMA PhaseOfRow ==
  ASSUME NEW row
  PROVE  /\ row.status = "absent" => LeasePhase(row) = "absent"
         /\ row.status = "pending" => LeasePhase(row) = "offered"
         /\ row.status \notin {"absent", "pending"} /\ row.leaseOwner # None
              => LeasePhase(row) = "held"
         /\ row.status \in Settled /\ row.leaseOwner = None
              => LeasePhase(row) = "settled"
         /\ row.status \notin Settled \cup {"absent", "pending"} /\ row.leaseOwner = None
              => LeasePhase(row) = "idle"
<1>1. "absent" \notin Settled /\ "pending" \notin Settled /\ "absent" # "pending"
  BY DEF Settled, ReviewStatus
<1> QED
  BY <1>1 DEF LeasePhase

(* Rows that leave their holders for one phase are a move of JobLease. *)
LEMMA RowsMove ==
  ASSUME NEW S \in SUBSET Jobs, NEW to,
         \A j \in S : /\ LeasePhase(job'[j]) = to
                      /\ job'[j].leaseOwner = None /\ job'[j].leaseLeft = 0,
         \A j \in Jobs \ S : job'[j] = job[j]
  PROVE  Lease!Move(S, to)
BY DEF Lease!Move

(* A row that keeps its phase, owner and time is a stutter of JobLease. *)
LEMMA RowStutters ==
  ASSUME NEW j \in Jobs,
         LeasePhase(job'[j]) = LeasePhase(job[j]),
         job'[j].leaseOwner = job[j].leaseOwner, job'[j].leaseLeft = job[j].leaseLeft,
         \A k \in Jobs \ {j} : job'[k] = job[k]
  PROVE  UNCHANGED Lease!leaseVars
BY DEF Lease!leaseVars

(* What the invariant says of one row: a job that is not being processed is  *)
(* held by nobody.                                                           *)
LEMMA RowFacts ==
  ASSUME IInv, NEW j \in Jobs
  PROVE  /\ job[j].status # "processing"
              => job[j].leaseOwner = None /\ job[j].leaseLeft = 0
         /\ job[j].leaseOwner = None => job[j].leaseLeft = 0
         /\ job[j].status \in WorkflowStatus \cup {"absent"}
<1>1. job[j].status \in WorkflowStatus \cup {"absent"}
  BY DEF IInv, MapsInv, Maps, JobRow
<1> QED
  BY <1>1 DEF IInv, MapsInv, LeaseAgreement

(* Being processed is neither settled nor in line. *)
LEMMA StatusFacts ==
  /\ {"failed", "needs_replay", "processing"} \cap (Settled \cup {"absent", "pending"}) = {}
  /\ ReviewStatus \subseteq Settled /\ "completed" \in Settled
  /\ "absent" \notin Settled /\ "pending" \notin Settled
BY DEF Settled, ReviewStatus

-----------------------------------------------------------------------------
(* One lemma per kind of step. *)

(* Rows a report may move: not settled and not absent. *)
LEMMA ReportStep ==
  ASSUME IInv, NEW j \in Jobs, NEW to \in {"offered", "idle", "settled"},
         job[j].status \in {"pending", "processing", "needs_replay", "failed"},
         LeasePhase(job'[j]) = to,
         job'[j].leaseOwner = None, job'[j].leaseLeft = 0,
         \A k \in Jobs \ {j} : job'[k] = job[k]
  PROVE  Lease!Next
<1>1. LeasePhase(job[j]) \in {"offered", "held", "idle"}
  BY PhaseOfRow, StatusFacts
<1>2. Lease!Move({j}, to)
  BY RowsMove
<1>3. Lease!Report(j, to)
  BY <1>1, <1>2 DEF Lease!Report
<1> QED
  BY <1>3 DEF Lease!Next

(* Failures are reports. *)
LEMMA FailureStep ==
  ASSUME IInv, NEW j \in Jobs, NEW now \in Int,
         CanTransition(job[j].status, "failed"), HandleJobFailure(j, now)
  PROVE  Lease!Next
<1>1. job[j].status \in {"pending", "processing", "needs_replay", "failed"}
  <2>1. "failed" \in WorkflowStatus
    BY DEF WorkflowStatus
  <2> QED
    BY <2>1, RowFacts, TransitionSources
<1>2. job \in [Jobs -> JobRow]
  BY DEF IInv, MapsInv, Maps
<1>3. PICK s \in {"pending", "failed"} :
        job' = [job EXCEPT ![j] = RestingRow(s, job[j].attemptCount)]
  BY DEF HandleJobFailure, PendingRow
<1>4. /\ job'[j].status = s /\ job'[j].leaseOwner = None /\ job'[j].leaseLeft = 0
      /\ \A k \in Jobs \ {j} : job'[k] = job[k]
  BY <1>2, <1>3 DEF RestingRow
<1>5. LeasePhase(job'[j]) \in {"offered", "idle"}
  BY <1>4, PhaseOfRow, StatusFacts
<1> QED
  BY <1>1, <1>4, <1>5, ReportStep

(* Status changes are reports, reopen what is settled, or change nothing.    *)
LEMMA StatusStep ==
  ASSUME IInv, NEW j \in Jobs, NEW s \in WorkflowStatus \ {"pending"}, SetJobStatus(j, s)
  PROVE  [Lease!Next]_(Lease!leaseVars)
<1> DEFINE f == job[j].status
<1>1. CanTransition(f, s) /\ f \in WorkflowStatus \cup {"absent"}
  BY RowFacts DEF SetJobStatus
<1>2. job \in [Jobs -> JobRow]
  BY DEF IInv, MapsInv, Maps
<1>3. /\ job'[j].status = s
      /\ s = "processing" => job'[j].leaseOwner = job[j].leaseOwner
                             /\ job'[j].leaseLeft = job[j].leaseLeft
      /\ s # "processing" => job'[j].leaseOwner = None /\ job'[j].leaseLeft = 0
      /\ \A k \in Jobs \ {j} : job'[k] = job[k]
  BY <1>2 DEF SetJobStatus
<1>4. CASE s = "processing" /\ f = "processing"
  <2>1. LeasePhase(job'[j]) = LeasePhase(job[j])
    BY <1>3, <1>4, PhaseOfRow, StatusFacts
  <2> QED
    BY <1>3, <1>4, <2>1, RowStutters
<1>5. CASE s = "processing" /\ f # "processing"
  <2>1. f \in {"pending", "needs_replay"}
    BY <1>1, <1>5, TransitionSources
  <2>2. job'[j].leaseOwner = None /\ job'[j].leaseLeft = 0
    BY <1>3, <1>5, RowFacts
  <2>3. LeasePhase(job'[j]) = "idle"
    BY <1>3, <1>5, <2>2, PhaseOfRow, StatusFacts
  <2> QED
    BY <1>3, <2>1, <2>2, <2>3, ReportStep
<1>6. CASE s \in Settled /\ f \in Settled
  <2>1. job[j].leaseOwner = None /\ job[j].leaseLeft = 0
    BY <1>6, RowFacts, StatusFacts
  <2>2. LeasePhase(job'[j]) = LeasePhase(job[j])
    BY <1>3, <1>6, <2>1, PhaseOfRow, StatusFacts
  <2> QED
    BY <1>3, <1>6, <2>1, <2>2, StatusFacts, RowStutters
<1>7. CASE s \in Settled /\ f \notin Settled
  <2>1. f \in {"pending", "processing", "needs_replay"}
    BY <1>1, <1>7, TransitionSources, StatusFacts DEF Settled
  <2>2. LeasePhase(job'[j]) = "settled"
    BY <1>3, <1>7, PhaseOfRow, StatusFacts
  <2> QED
    BY <1>3, <1>7, <2>1, <2>2, StatusFacts, ReportStep
<1>8. CASE s \in {"failed", "needs_replay"} /\ f \notin Settled
  <2>1. f \in {"pending", "processing", "needs_replay", "failed"}
    BY <1>1, <1>8, TransitionSources DEF WorkflowStatus, Settled
  <2>2. LeasePhase(job'[j]) = "idle"
    BY <1>3, <1>8, PhaseOfRow, StatusFacts
  <2> QED
    BY <1>3, <1>8, <2>1, <2>2, ReportStep
<1>9. CASE s \in {"failed", "needs_replay"} /\ f \in Settled
  <2>1. job[j].leaseOwner = None /\ LeasePhase(job[j]) = "settled"
    BY <1>9, RowFacts, PhaseOfRow, StatusFacts
  <2>2. LeasePhase(job'[j]) = "idle" /\ job'[j].leaseOwner = None /\ job'[j].leaseLeft = 0
    BY <1>3, <1>9, PhaseOfRow, StatusFacts
  <2>3. Lease!Move({j}, "idle")
    BY <1>3, <2>2, RowsMove
  <2>4. Lease!Reopen(j)
    BY <2>1, <2>3 DEF Lease!Reopen
  <2> QED
    BY <2>4 DEF Lease!Next
<1> QED
  BY <1>4, <1>5, <1>6, <1>7, <1>8, <1>9 DEF WorkflowStatus, Settled

(* An event is a report, a reopening, or leaves the rows alone. *)
LEMMA EventStep ==
  ASSUME IInv, NEW e \in Slots, ProcessAssetEvent(e)
  PROVE  [Lease!Next]_(Lease!leaseVars)
<1> DEFINE ev == events[e]
           s == MapEventToStatus(ev.type)
<1>1. ev.type \in EventType /\ ev.route \in Route /\ ev.job \in Jobs
  BY DEF ProcessAssetEvent, IInv, Others, Event
<1>2. s \in WorkflowStatus \ {"pending"}
  BY <1>1, EventStatus DEF WorkflowStatus, ReviewStatus
<1>3. CASE CanTransition(job[ev.job].status, s) /\ ApplyEvent(ev)
  <2>1. CASE ev.type = "asset.processing.failed" /\ ev.route # "legacy"
    <3>1. PICK now \in Int : HandleJobFailure(ev.job, now)
      BY <1>3, <2>1, ConstantsAssumption DEF ApplyEvent
    <3>2. s = "failed"
      BY Zenon, <2>1 DEF MapEventToStatus
    <3> QED
      BY <1>1, <1>3, <3>1, <3>2, FailureStep
  <2>2. CASE ~(ev.type = "asset.processing.failed" /\ ev.route # "legacy")
    <3>1. SetJobStatus(ev.job, s)
      BY <1>3, <2>2 DEF ApplyEvent
    <3> QED
      BY <1>1, <1>2, <3>1, StatusStep
  <2> QED
    BY <2>1, <2>2
<1>4. CASE job' = job
  BY <1>4 DEF Lease!leaseVars
<1> QED
  BY <1>3, <1>4 DEF ProcessAssetEvent

(* Rows put back in line, when none is settled, absent or held in time. *)
LEMMA ReofferStep ==
  ASSUME IInv, NEW S \in SUBSET Jobs, NEW now \in Clocks,
         \A j \in S : /\ job[j].status \notin Settled \cup {"absent", "pending"}
                      /\ job[j].leaseOwner = None \/ job[j].leaseLeft <= now
                      /\ job'[j].status = "pending" /\ job'[j].leaseOwner = None
                      /\ job'[j].leaseLeft = 0,
         \A j \in Jobs \ S : job'[j] = job[j]
  PROVE  Lease!Next
<1>1. \A j \in S : /\ LeasePhase(job'[j]) = "offered"
                   /\ \/ LeasePhase(job[j]) = "idle"
                      \/ LeasePhase(job[j]) = "held" /\ job[j].leaseLeft <= now
  BY PhaseOfRow
<1>2. Lease!Move(S, "offered")
  BY <1>1, RowsMove
<1>3. Lease!Reoffer(S, now)
  BY <1>1, <1>2 DEF Lease!Reoffer
<1> QED
  BY <1>3 DEF Lease!Next

(* The reaper re-offers what is past its lease. *)
LEMMA ReapStep ==
  ASSUME IInv, NEW now \in Clocks, ReapStaleLeases(now) PROVE Lease!Next
<1> DEFINE S == StaleJobs(now)
<1>1. S \in SUBSET Jobs
  BY DEF StaleJobs
<1>2. \A j \in S : /\ job[j].status = "processing"
                   /\ job[j].leaseOwner = None \/ job[j].leaseLeft <= now
  BY DEF StaleJobs, IInv, MapsInv, LeaseAgreement
<1>3. /\ \A j \in S : /\ job'[j].status = "pending" /\ job'[j].leaseOwner = None
                              /\ job'[j].leaseLeft = 0
      /\ \A j \in Jobs \ S : job'[j] = job[j]
  BY <1>1 DEF ReapStaleLeases, PendingRow, RestingRow, IInv, MapsInv, Maps
<1> QED
  BY <1>1, <1>2, <1>3, StatusFacts, ReofferStep

(* Dead letters are at rest, so replaying them re-offers idle jobs. *)
LEMMA DeadLettersRest ==
  ASSUME IInv, NEW j \in dlq
  PROVE  /\ j \in Jobs
         /\ job[j].status \notin Settled \cup {"absent", "pending"}
         /\ job[j].leaseOwner = None /\ job[j].leaseLeft = 0
<1>1. j \in Jobs /\ ~queue[j].queued
  BY DEF IInv, MapsInv, Maps, DeadLetterIsOut
<1>2. job[j].status \notin Settled \cup {"absent"}
  BY <1>1 DEF IInv, MapsInv, FinishedIsUnqueued
<1>3. job[j].status # "pending"
  BY <1>1 DEF IInv, MapsInv, PendingIsClaimable
<1>4. job[j].leaseOwner = None /\ job[j].leaseLeft = 0
  BY <1>1 DEF IInv, MapsInv, LeaseAgreement
<1> QED
  BY <1>1, <1>2, <1>3, <1>4

(* Replaying whatever rests. *)
LEMMA ReplayStep ==
  ASSUME IInv, NEW S \in SUBSET Jobs, ReplayJobs(S),
         \A j \in S : /\ job[j].status \notin Settled \cup {"absent", "pending"}
                      /\ job[j].leaseOwner = None
  PROVE  Lease!Next
<1>1. /\ \A j \in S : /\ job'[j].status = "pending" /\ job'[j].leaseOwner = None
                      /\ job'[j].leaseLeft = 0
      /\ \A j \in Jobs \ S : job'[j] = job[j]
  BY DEF ReplayJobs, PendingRow, RestingRow
<1> QED
  BY <1>1, ReofferStep, ConstantsAssumption

(* A claim is a grant of an offered job. *)
LEMMA ClaimStep ==
  ASSUME IInv, NEW w \in Workers, NEW now \in Clocks, Claim(w, now) PROVE Lease!Next
<1>1. PICK j \in Jobs, lease \in LeaseSeconds : ClaimNextJob(w, j, lease, now)
  BY DEF Claim
<1>2. job[j].status = "pending"
  BY <1>1 DEF ClaimNextJob, Claimable
<1>3. /\ job'[j].status = "processing" /\ job'[j].leaseOwner = w
      /\ job'[j].leaseLeft = now + lease
      /\ \A k \in Jobs \ {j} : job'[k] = job[k]
      /\ DOMAIN job' = Jobs
  BY <1>1 DEF ClaimNextJob, IInv, MapsInv, Maps
<1>4. LeasePhase(job[j]) = "offered" /\ LeasePhase(job'[j]) = "held"
  BY <1>2, <1>3, PhaseOfRow, ConstantsAssumption
<1>5. Lease!Grant(j, w, now + lease)
  BY <1>3, <1>4 DEF Lease!Grant
<1>6. now + lease \in {n + m : n \in LeaseSeconds, m \in Clocks}
  BY ConstantsAssumption
<1> QED
  BY <1>5, <1>6 DEF Lease!Next

(* A heartbeat renews a lease its sender holds. *)
LEMMA HeartbeatStep ==
  ASSUME IInv, NEW w \in Workers, Heartbeat(w) PROVE Lease!Next
<1> DEFINE j == worker[w].job
<1>1. PICK lease \in LeaseSeconds :
        /\ job[j].leaseOwner = w
        /\ job' = [job EXCEPT ![j] = [@ EXCEPT !.leaseLeft = lease]]
  BY DEF Heartbeat
<1>2. j \in Jobs
  BY DEF Heartbeat, IInv, Others, Idle
<1>3. job[j].leaseOwner # None /\ job[j].status = "processing"
  BY <1>1, <1>2, ConstantsAssumption DEF IInv, MapsInv, LeaseAgreement
<1>4. /\ job'[j].status = job[j].status /\ job'[j].leaseOwner = job[j].leaseOwner
      /\ job'[j].leaseLeft = lease
      /\ \A k \in Jobs \ {j} : job'[k] = job[k]
  BY <1>1, <1>2 DEF IInv, MapsInv, Maps, JobRow
<1>5. LeasePhase(job[j]) = "held" /\ LeasePhase(job'[j]) = "held"
  BY <1>3, <1>4, PhaseOfRow
<1>6. Lease!Renew(j, lease)
  BY <1>2, <1>4, <1>5 DEF Lease!Renew
<1>7. lease \in {n + m : n \in LeaseSeconds, m \in Clocks}
  BY ConstantsAssumption
<1> QED
  BY <1>2, <1>6, <1>7 DEF Lease!Next

(* Time passes for both. *)
LEMMA TickStep ==
  ASSUME IInv, Tick PROVE Lease!Next
<1>1. PICK d \in Steps :
        job' = [j \in Jobs |-> [job[j] EXCEPT
          !.leaseLeft = IF job[j].leaseOwner = None THEN 0 ELSE Kept(@ - d)]]
  BY DEF Tick
<1>2. \A j \in Jobs : /\ job'[j].status = job[j].status
                      /\ job'[j].leaseOwner = job[j].leaseOwner
                      /\ job'[j].leaseLeft = IF job[j].leaseOwner = None THEN 0
                                             ELSE Kept(job[j].leaseLeft - d)
  BY <1>1 DEF IInv, MapsInv, Maps, JobRow
<1>3. \A j \in Jobs : LeasePhase(job'[j]) = LeasePhase(job[j])
  BY <1>2 DEF LeasePhase
<1>4. \A j \in Jobs : LeasePhase(job[j]) = "held" <=> job[j].leaseOwner # None
  BY RowFacts, PhaseOfRow, StatusFacts DEF WorkflowStatus
<1>5. Lease!Pass(d)
  BY <1>2, <1>3, <1>4 DEF Lease!Pass, Kept
<1> QED
  BY <1>5 DEF Lease!Next

(* Ingest publishes, the replay route and the dev endpoint report, review    *)
(* moves a settled job among settled statuses.                               *)
LEMMA JobStep ==
  ASSUME IInv, NEW j \in Jobs,
         \/ CreateIngestAsset(j) \/ ReplayRoute(j) \/ DevComplete(j)
             \/ ApprovalAction(j) \/ AssetMenuAction(j)
  PROVE  [Lease!Next]_(Lease!leaseVars)
<1> USE DEF PendingRow, RestingRow
<1>1. job \in [Jobs -> JobRow]
  BY DEF IInv, MapsInv, Maps
<1>2. CASE CreateIngestAsset(j)
  <2>1. /\ job'[j].status = "pending" /\ job'[j].leaseOwner = None /\ job'[j].leaseLeft = 0
        /\ \A k \in Jobs \ {j} : job'[k] = job[k]
    BY <1>1, <1>2 DEF CreateIngestAsset
  <2>2. LeasePhase(job[j]) = "absent" /\ LeasePhase(job'[j]) = "offered"
    BY <1>2, <2>1, PhaseOfRow DEF CreateIngestAsset
  <2>3. Lease!Move({j}, "offered")
    BY <2>1, <2>2, RowsMove
  <2>4. Lease!Publish(j)
    BY <2>2, <2>3 DEF Lease!Publish
  <2> QED
    BY <2>4 DEF Lease!Next
<1>3. CASE ReplayRoute(j)
  <2>1. job[j].status \in {"failed", "needs_replay"} /\ ReplayJobs({j})
    BY <1>3 DEF ReplayRoute
  <2> QED
    BY <2>1, RowFacts, StatusFacts, ReplayStep
<1>4. CASE ApprovalAction(j) \/ AssetMenuAction(j)
  <2>1. PICK s \in ReviewStatus : SetJobStatus(j, s)
    BY <1>4 DEF ApprovalAction, AssetMenuAction, ReviewStatus
  <2>2. s \in WorkflowStatus \ {"pending"}
    BY DEF WorkflowStatus, ReviewStatus
  <2> QED
    BY <2>1, <2>2, StatusStep
<1>5. CASE DevComplete(j)
  <2>1. /\ job'[j].status = "qc_pending" /\ job'[j].leaseOwner = None /\ job'[j].leaseLeft = 0
        /\ \A k \in Jobs \ {j} : job'[k] = job[k]
    BY <1>1, <1>5 DEF DevComplete
  <2>2. LeasePhase(job'[j]) = "settled"
    BY <2>1, PhaseOfRow, StatusFacts DEF ReviewStatus
  <2> QED
    BY <1>5, <2>1, <2>2, ReportStep DEF DevComplete
<1> QED
  BY <1>2, <1>3, <1>4, <1>5

(* Every step of the queue is a step of JobLease or leaves it alone. *)
LEMMA LeaseStep == IInv /\ [Next]_vars => [Lease!Next]_(Lease!leaseVars)
PROOF
<1> SUFFICES ASSUME IInv, [Next]_vars PROVE [Lease!Next]_(Lease!leaseVars)
  OBVIOUS
<1>1. ASSUME NEW j \in Jobs,
             \/ CreateIngestAsset(j) \/ ReplayRoute(j) \/ DevComplete(j)
             \/ ApprovalAction(j) \/ AssetMenuAction(j)
      PROVE  [Lease!Next]_(Lease!leaseVars)
  BY <1>1, JobStep
<1>2. ASSUME NEW w \in Workers, (\E now \in Clocks : Claim(w, now)) \/ Heartbeat(w)
      PROVE  [Lease!Next]_(Lease!leaseVars)
  BY <1>2, ClaimStep, HeartbeatStep
<1>3. ASSUME NEW e \in Slots, ProcessAssetEvent(e)
      PROVE  [Lease!Next]_(Lease!leaseVars)
  BY <1>3, EventStep
<1>4. CASE ReplayDlq
  <2>1. PICK S \in SUBSET dlq : ReplayJobs(S)
    BY <1>4 DEF ReplayDlq
  <2>2. S \in SUBSET Jobs
    BY DEF IInv, MapsInv, Maps
  <2> QED
    BY <2>1, <2>2, DeadLettersRest, ReplayStep
<1>5. CASE (\E now \in Clocks : ReapStaleLeases(now)) \/ Tick
  BY <1>5, ReapStep, TickStep
<1>6. CASE job' = job
  BY <1>6 DEF Lease!leaseVars
<1> QED
  BY <1>1, <1>2, <1>3, <1>4, <1>5, <1>6
  DEF Next, vars, PostStarted, PostTimeout, PostCompletion, WorkerGivesUp, Retire,
      PostExternal, PurgeDlqItems

(* The empty queue is the empty lease table. *)
LEMMA LeaseInit == Init => Lease!Init
BY DEF Init, NoRow, LeasePhase, Lease!Init

(* The queue implements the lease discipline, for every number of jobs,      *)
(* workers and events: a job is granted only while offered, leases in bulk   *)
(* end only when expired, and what is settled is only ever reopened.         *)
THEOREM QueueImplementsLease == Spec => ImplementsLease
<1> QED
  BY LeaseInit, LeaseStep, QueueInvariant, PTL DEF Spec, ImplementsLease, Lease!Spec

-----------------------------------------------------------------------------
(* The two step properties. *)

(* A status change leaves what is settled settled, or asks for a replay. *)
LEMMA StatusKeepsSettled ==
  ASSUME IInv, NEW j \in Jobs, NEW s \in WorkflowStatus \ {"pending"}, SetJobStatus(j, s),
         NEW k \in Jobs, job[k].status \in Settled
  PROVE  job'[k].status \in Settled \cup {"needs_replay"}
<1>1. job \in [Jobs -> JobRow]
  BY DEF IInv, MapsInv, Maps
<1>2. CASE k = j
  <2>1. CanTransition(job[j].status, s) /\ job'[j].status = s
    BY <1>1 DEF SetJobStatus
  <2> QED
    BY <1>2, <2>1, RowFacts, TransitionSources
<1>3. CASE k # j
  BY <1>1, <1>3 DEF SetJobStatus
<1> QED
  BY <1>2, <1>3

(* What an event does to the rows: it concerns one job, the one it names,    *)
(* and leaves what is settled settled or asks for a replay.                  *)
LEMMA EventTouches ==
  ASSUME IInv, NEW e \in Slots, ProcessAssetEvent(e)
  PROVE  /\ \A k \in Jobs \ {events[e].job} : job'[k] = job[k]
         /\ \A k \in Jobs : job[k].status \in Settled
              => job'[k].status \in Settled \cup {"needs_replay"}
<1> DEFINE ev == events[e]
           s == MapEventToStatus(ev.type)
<1>1. ev.type \in EventType /\ ev.job \in Jobs
  BY DEF ProcessAssetEvent, IInv, Others, Event
<1>2. s \in WorkflowStatus \ {"pending"}
  BY <1>1, EventStatus DEF WorkflowStatus, ReviewStatus
<1>3. job \in [Jobs -> JobRow]
  BY DEF IInv, MapsInv, Maps
<1>4. CASE CanTransition(job[ev.job].status, s) /\ ApplyEvent(ev)
  <2>1. CASE ev.type = "asset.processing.failed" /\ ev.route # "legacy"
    <3>1. PICK now \in Int : HandleJobFailure(ev.job, now)
      BY <1>4, <2>1, ConstantsAssumption DEF ApplyEvent
    <3>2. s = "failed"
      BY Zenon, <2>1 DEF MapEventToStatus
    <3>3. job[ev.job].status \in {"pending", "processing", "needs_replay", "failed"}
      BY <1>1, <1>2, <1>4, <3>2, RowFacts, TransitionSources
    <3>4. \A k \in Jobs \ {ev.job} : job'[k] = job[k]
      BY <1>3, <3>1 DEF HandleJobFailure
    <3> QED
      BY <1>1, <3>3, <3>4, StatusFacts
  <2>2. CASE ~(ev.type = "asset.processing.failed" /\ ev.route # "legacy")
    <3>1. SetJobStatus(ev.job, s)
      BY <1>4, <2>2 DEF ApplyEvent
    <3>2. \A k \in Jobs \ {ev.job} : job'[k] = job[k]
      BY <1>3, <3>1 DEF SetJobStatus
    <3> QED
      BY <1>1, <1>2, <3>1, <3>2, StatusKeepsSettled
  <2> QED
    BY <2>1, <2>2
<1>5. CASE job' = job
  BY <1>5
<1> QED
  BY <1>4, <1>5 DEF ProcessAssetEvent

(* The rows other actions change: what they were and what they become. *)
LEMMA OtherStepsTouch ==
  ASSUME IInv, [Next]_vars, ~ \E e \in Slots : ProcessAssetEvent(e), NEW k \in Jobs
  PROVE  \/ job'[k].status = job[k].status /\ job'[k].leaseOwner = job[k].leaseOwner
         \/ job[k].status \notin Settled /\ job[k].leaseLeft = 0
         \/ job[k].status \notin Settled /\ job'[k].status = "qc_pending"
         \/ job[k].leaseLeft = 0 /\ job'[k].status \in Settled
         \/ /\ job[k].status \notin Settled /\ job'[k].status = "pending"
            /\ queue'[k].availableIn >= job[k].leaseLeft
PROOF
<1> USE RowFacts
<1>0. job \in [Jobs -> JobRow]
  BY DEF IInv, MapsInv, Maps
<1> DEFINE Goal ==
      \/ job'[k].status = job[k].status /\ job'[k].leaseOwner = job[k].leaseOwner
      \/ job[k].status \notin Settled /\ job[k].leaseLeft = 0
      \/ job[k].status \notin Settled /\ job'[k].status = "qc_pending"
      \/ job[k].leaseLeft = 0 /\ job'[k].status \in Settled
      \/ /\ job[k].status \notin Settled /\ job'[k].status = "pending"
         /\ queue'[k].availableIn >= job[k].leaseLeft
<1>1. ASSUME NEW j \in Jobs, CreateIngestAsset(j) PROVE Goal
  BY <1>0, <1>1, StatusFacts DEF CreateIngestAsset
<1>2. ASSUME NEW j \in Jobs, ReplayRoute(j) PROVE Goal
  BY <1>0, <1>2, StatusFacts DEF ReplayRoute, ReplayJobs
<1>3. ASSUME NEW j \in Jobs, DevComplete(j) PROVE Goal
  BY <1>0, <1>3, StatusFacts DEF DevComplete, RestingRow
<1>4. ASSUME NEW j \in Jobs, ApprovalAction(j) \/ AssetMenuAction(j) PROVE Goal
  <2>1. PICK s \in ReviewStatus : SetJobStatus(j, s)
    BY <1>4 DEF ApprovalAction, AssetMenuAction, ReviewStatus
  <2>2. /\ CanTransition(job[j].status, s)
        /\ job'[j].status = s
        /\ \A i \in Jobs \ {j} : job'[i] = job[i]
    BY <1>0, <2>1 DEF SetJobStatus
  <2>3. job[j].status \in Settled /\ s \in Settled
    BY <2>2, TransitionSources, StatusFacts DEF WorkflowStatus
  <2> QED
    BY <2>2, <2>3, StatusFacts
<1>5. ASSUME NEW w \in Workers, NEW now \in Clocks, Claim(w, now) PROVE Goal
  <2>1. PICK j \in Jobs, lease \in LeaseSeconds : ClaimNextJob(w, j, lease, now)
    BY <1>5 DEF Claim
  <2> QED
    BY <1>0, <2>1, StatusFacts DEF ClaimNextJob, Claimable
<1>6. ASSUME NEW w \in Workers, Heartbeat(w) PROVE Goal
  BY <1>0, <1>6 DEF Heartbeat, JobRow
<1>7. ASSUME NEW now \in Clocks, ReapStaleLeases(now) PROVE Goal
  <2> DEFINE S == StaleJobs(now)
  <2>1. CASE k \in S
    <3>1. /\ job[k].status = "processing"
          /\ job[k].leaseLeft = 0 \/ job[k].leaseLeft <= now
      BY <2>1 DEF StaleJobs, IInv, MapsInv, LeaseAgreement
    <3>2. job'[k].status = "pending"
      BY <1>7, <2>1 DEF ReapStaleLeases, PendingRow, RestingRow
    <3>3. queue'[k].availableIn = now
      BY <1>7, <2>1 DEF ReapStaleLeases, Enqueue, FreshEntry
    <3>4. now \in Int /\ job[k].leaseLeft \in Int
      BY <1>0, ConstantsAssumption DEF JobRow
    <3> QED
      BY <3>1, <3>2, <3>3, <3>4, StatusFacts
  <2>2. CASE k \notin S
    BY <1>7, <2>2 DEF ReapStaleLeases
  <2> QED
    BY <2>1, <2>2
<1>8. CASE ReplayDlq
  <2>1. PICK S \in SUBSET dlq : ReplayJobs(S)
    BY <1>8 DEF ReplayDlq
  <2> QED
    BY <1>0, <2>1, DeadLettersRest DEF ReplayJobs
<1>9. CASE Tick
  <2>1. PICK d \in Steps :
          job' = [j \in Jobs |-> [job[j] EXCEPT
            !.leaseLeft = IF job[j].leaseOwner = None THEN 0 ELSE Kept(@ - d)]]
    BY <1>9 DEF Tick
  <2> QED
    BY <1>0, <2>1 DEF JobRow
<1>10. CASE job' = job
  BY <1>10
<1> QED
  BY <1>1, <1>2, <1>3, <1>4, <1>5, <1>6, <1>7, <1>8, <1>9, <1>10
  DEF Next, vars, PostStarted, PostTimeout, PostCompletion, WorkerGivesUp, Retire,
      PostExternal, PurgeDlqItems

(* What is settled comes back only through a request for replay. *)
THEOREM SettledIsKept == Spec => SettledStaysSettled
<1> DEFINE Stays == \A j \in Jobs : job[j].status \in Settled =>
                      job'[j].status \in Settled \cup {"needs_replay"}
<1>1. IInv /\ [Next]_vars => [Stays]_vars
  <2> SUFFICES ASSUME IInv, [Next]_vars, NEW j \in Jobs, job[j].status \in Settled
               PROVE  job'[j].status \in Settled \cup {"needs_replay"}
    OBVIOUS
  <2>1. CASE \E e \in Slots : ProcessAssetEvent(e)
    BY <2>1, EventTouches
  <2>2. CASE ~ \E e \in Slots : ProcessAssetEvent(e)
    BY <2>2, OtherStepsTouch
  <2> QED
    BY <2>1, <2>2
<1> QED
  BY <1>1, QueueInvariant, PTL DEF Spec, SettledStaysSettled

(* An unexpired lease ends only through an event about the job, in the dev   *)
(* endpoint, or when a clock that is ahead has it reaped, and then the job   *)
(* is in line no sooner than the lease would have ended.                     *)
THEOREM LeasesAreHonoured == Spec => LeaseHonoured
<1> DEFINE Honoured == \A j \in Jobs :
             job[j].leaseLeft > 0 /\ job'[j].leaseOwner # job[j].leaseOwner =>
               \/ \E e \in Slots : events[e].job = j /\ e \in processed' \ processed
               \/ job'[j].status = "qc_pending"
               \/ job'[j].status = "pending" /\ queue'[j].availableIn >= job[j].leaseLeft
<1>1. IInv /\ [Next]_vars => [Honoured]_vars
  <2> SUFFICES ASSUME IInv, [Next]_vars, NEW j \in Jobs,
                      job[j].leaseLeft > 0, job'[j].leaseOwner # job[j].leaseOwner
               PROVE  \/ \E e \in Slots : events[e].job = j /\ e \in processed' \ processed
                      \/ job'[j].status = "qc_pending"
                      \/ /\ job'[j].status = "pending"
                         /\ queue'[j].availableIn >= job[j].leaseLeft
    OBVIOUS
  <2>1. ASSUME NEW e \in Slots, ProcessAssetEvent(e)
        PROVE  \E d \in Slots : events[d].job = j /\ d \in processed' \ processed
    <3>1. events[e].job = j
      BY <2>1, EventTouches
    <3>2. e \in processed' \ processed
      BY <2>1 DEF ProcessAssetEvent
    <3> QED
      BY <3>1, <3>2
  <2>2. CASE ~ \E e \in Slots : ProcessAssetEvent(e)
    <3>1. job[j].leaseLeft # 0
      OBVIOUS
    <3> QED
      BY <2>2, <3>1, OtherStepsTouch
  <2> QED
    BY <2>1, <2>2
<1> QED
  BY <1>1, QueueInvariant, PTL DEF Spec, LeaseHonoured
=============================================================================
