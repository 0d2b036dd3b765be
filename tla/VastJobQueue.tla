---------------------------- MODULE VastJobQueue ----------------------------
(***************************************************************************)
(* The job queue over the VAST database.  An adapter call is a sequence of *)
(* SQL statements, each atomic, with no transaction around them: between   *)
(* two statements of a call any other call may run, and a statement that   *)
(* fails ends the call where it stands.                                    *)
(*                                                                         *)
(* A call is its program counter (step), its arguments and what it read    *)
(* before (seen).  The queue table has no key: queue[j] is the sequence of *)
(* the rows it holds for job j.  Audit and outbox rows are left out.       *)
(* Times are relative and clocks are the callers', as in JobQueue; seconds *)
(* is the time a call computed before its statements: a lease's end, the   *)
(* moment of the next attempt or the present as the caller has it.         *)
(*                                                                         *)
(* Nothing orders the calls on one job, and where two of them overlap the  *)
(* tables promise nothing; crossed remembers these jobs, and failed those  *)
(* on which a call broke off.                                              *)
(***************************************************************************)
EXTENDS Integers, Sequences, WorkflowTransitions

CONSTANTS
  Jobs, Workers, None,
  Calls,          \* requests in progress at a time
  MaxAttempts, AttemptCap,
  LeaseLength,    \* the lease every worker asks for
  Backoff,        \* seconds before a retry
  Clocks,         \* how far ahead callers' clocks are; 0 is the server's
  Horizon,        \* further back than this no clock reaches
  Targets,        \* statuses that events and reviewers may ask for
  Failures,       \* whether the report of a failure may arrive
  Replays,        \* whether operators replay jobs
  StatementsFail, \* whether a statement may throw
  Crossing        \* jobs on which two calls may overlap

ASSUME ConstantsAssumption ==
  /\ None \notin Workers /\ None \notin Jobs
  /\ MaxAttempts \in Nat /\ AttemptCap \in Nat /\ MaxAttempts <= AttemptCap
  /\ LeaseLength \in Nat \ {0} /\ Backoff \in Nat
  /\ Clocks \subseteq Int /\ 0 \in Clocks
  /\ Horizon \in Nat /\ \A now \in Clocks : -Horizon <= now
  /\ Crossing \subseteq Jobs
  /\ Targets \subseteq WorkflowStatus \ {"pending"}
  /\ Failures \in BOOLEAN /\ Replays \in BOOLEAN /\ StatementsFail \in BOOLEAN

VARIABLES
  job,     \* table jobs
  queue,   \* table queue
  dlq,     \* table dlq: the jobs it has rows for
  call,    \* what each request is doing
  holds,   \* the job each worker believes it holds
  failed,  \* history: the jobs on which a call's statement failed
  crossed  \* history: the jobs two calls have had in hand at once

vars == <<job, queue, dlq, call, holds, failed, crossed>>

NoRow == [status |-> "absent", attemptCount |-> 0, leaseOwner |-> None, leaseLeft |-> 0]

Row(s, n, w, t) == [status |-> s, attemptCount |-> n, leaseOwner |-> w, leaseLeft |-> t]

Idle == [op |-> "none", step |-> "none", job |-> None, worker |-> None,
         to |-> "none", seen |-> NoRow, seconds |-> 0, todo |-> {}]

Init ==
  /\ job = [j \in Jobs |-> NoRow]
  /\ queue = [j \in Jobs |-> <<>>]
  /\ dlq = {}
  /\ call = [c \in Calls |-> Idle]
  /\ holds = [w \in Workers |-> None]
  /\ failed = {}
  /\ crossed = {}

-----------------------------------------------------------------------------
(* Statements. *)

(* A call starts with its first statement; later ones move it on. *)
Start(c, r) == call[c] = Idle /\ call' = [call EXCEPT ![c] = r]
At(c, op, step) == call[c].op = op /\ call[c].step = step
Goto(c, step) == call' = [call EXCEPT ![c] = [@ EXCEPT !.step = step]]
Return(c) == call' = [call EXCEPT ![c] = Idle]

(* The jobs a call writes or is still to write. *)
Hand(c) == ({call[c].job} \ {None}) \cup call[c].todo

Kept(t) == IF t > -Horizon THEN t ELSE -Horizon

Fresh(wait) == [wait |-> wait, leased |-> FALSE, left |-> 0]

UpdateJob(j, row) == job' = [job EXCEPT ![j] = row]
InsertQueue(j, wait) == queue' = [queue EXCEPT ![j] = Append(@, Fresh(wait))]
DeleteQueue(j) == queue' = [queue EXCEPT ![j] = <<>>]
UpdateQueue(j, entry) == queue' = [queue EXCEPT ![j] = [i \in DOMAIN @ |-> entry]]

-----------------------------------------------------------------------------
(* createIngestAsset: the row, then the queue entry. *)

(* Mutant: the row starts out in a status of its own. *)
CreateRowQueued(c, j) ==
  /\ job[j].status = "absent"
  /\ Start(c, [Idle EXCEPT !.op = "create", !.step = "insert", !.job = j])
  /\ UpdateJob(j, Row("queued", 0, None, 0))
  /\ UNCHANGED <<queue, dlq, holds>>

CreateRow(c, j) ==
  /\ job[j].status = "absent"
  /\ Start(c, [Idle EXCEPT !.op = "create", !.step = "insert", !.job = j])
  /\ UpdateJob(j, Row("pending", 0, None, 0))
  /\ UNCHANGED <<queue, dlq, holds>>

CreateQueue(c) ==
  /\ At(c, "create", "insert")
  /\ InsertQueue(call[c].job, call[c].seconds)
  /\ Return(c)
  /\ UNCHANGED <<job, dlq, holds>>

(* claimNextJob: a candidate by the server's clock, its row again, the row  *)
(* if still pending, the queue entry; the lease counts from the caller's    *)
(* time.  Nobody looks at how many rows the conditional update hit.         *)
Candidate(j) ==
  /\ job[j].status = "pending"
  /\ \E i \in DOMAIN queue[j] :
       queue[j][i].wait <= 0 /\ (queue[j][i].leased => queue[j][i].left <= 0)

ClaimSelect(c, w, j) ==
  /\ holds[w] = None /\ \A d \in Calls : call[d].worker # w
  /\ Candidate(j)
  /\ \E now \in Clocks :
       Start(c, [Idle EXCEPT !.op = "claim", !.step = "recheck", !.job = j,
                             !.worker = w, !.seconds = now + LeaseLength])
  /\ UNCHANGED <<job, queue, dlq, holds>>

ClaimRecheck(c) ==
  /\ At(c, "claim", "recheck")
  /\ LET row == job[call[c].job] IN
       IF row.status = "pending" /\ row.leaseOwner = None
       THEN call' = [call EXCEPT ![c] = [@ EXCEPT !.step = "row", !.seen = row]]
       ELSE Return(c)
  /\ UNCHANGED <<job, queue, dlq, holds>>

ClaimRow(c) ==
  /\ At(c, "claim", "row")
  /\ LET j == call[c].job
         n == call[c].seen.attemptCount
     IN IF job[j].status = "pending"
        THEN UpdateJob(j, Row("processing", IF n < AttemptCap THEN n + 1 ELSE n,
                              call[c].worker, call[c].seconds))
        ELSE UNCHANGED job
  /\ Goto(c, "queue")
  /\ UNCHANGED <<queue, dlq, holds>>

ClaimQueue(c) ==
  /\ At(c, "claim", "queue")
  /\ UpdateQueue(call[c].job, [wait |-> Kept(call[c].seconds - LeaseLength),
                                leased |-> TRUE, left |-> call[c].seconds])
  /\ holds' = [holds EXCEPT ![call[c].worker] = call[c].job]
  /\ Return(c)
  /\ UNCHANGED <<job, dlq>>

(* The worker is done with the job, or dies. *)
Release(w) ==
  /\ holds[w] # None
  /\ holds' = [holds EXCEPT ![w] = None]
  /\ UNCHANGED <<job, queue, dlq, call>>

(* heartbeatJob: the row is read, then updated if the owner is still the    *)
(* same; the queue entry is updated in any case.                            *)
HeartbeatSelect(c, w) ==
  /\ holds[w] # None /\ \A d \in Calls : call[d].worker # w
  /\ job[holds[w]].leaseOwner = w
  /\ Start(c, [Idle EXCEPT !.op = "heartbeat", !.step = "row", !.job = holds[w],
                           !.worker = w, !.seconds = LeaseLength])
  /\ UNCHANGED <<job, queue, dlq, holds>>

HeartbeatRow(c) ==
  /\ At(c, "heartbeat", "row")
  /\ LET j == call[c].job IN
       IF job[j].leaseOwner = call[c].worker
       THEN UpdateJob(j, [job[j] EXCEPT !.leaseLeft = call[c].seconds])
       ELSE UNCHANGED job
  /\ Goto(c, "queue")
  /\ UNCHANGED <<queue, dlq, holds>>

HeartbeatQueue(c) ==
  /\ At(c, "heartbeat", "queue")
  /\ LET j == call[c].job IN
       queue' = [queue EXCEPT ![j] =
         [i \in DOMAIN @ |-> [@[i] EXCEPT !.leased = TRUE, !.left = call[c].seconds]]]
  /\ Return(c)
  /\ UNCHANGED <<job, dlq, holds>>

(* reapStaleLeases: one query for what is stale by the caller's clock, then *)
(* for each job its row and its queue entry, unconditionally.               *)
Stale(now) ==
  {j \in Jobs : /\ job[j].status = "processing"
                /\ \E i \in DOMAIN queue[j] : queue[j][i].leased /\ queue[j][i].left <= now}

ReapSelect(c) ==
  /\ \E now \in Clocks :
       /\ Stale(now) # {}
       /\ Start(c, [Idle EXCEPT !.op = "reap", !.step = "row",
                                !.seconds = now, !.todo = Stale(now)])
  /\ UNCHANGED <<job, queue, dlq, holds>>

ReapRow(c) ==
  /\ At(c, "reap", "row")
  /\ \E j \in call[c].todo :
       /\ UpdateJob(j, Row("pending", job[j].attemptCount, None, 0))
       /\ call' = [call EXCEPT ![c] = [@ EXCEPT !.step = "queue", !.job = j,
                                                !.todo = call[c].todo \ {j}]]
  /\ UNCHANGED <<queue, dlq, holds>>

(* Mutant: the queue entry keeps its old lease. *)
ReapQueueKeeps(c) ==
  /\ At(c, "reap", "queue")
  /\ IF call[c].todo = {} THEN Return(c) ELSE Goto(c, "row")
  /\ UNCHANGED <<job, queue, dlq, holds>>

ReapQueue(c) ==
  /\ At(c, "reap", "queue")
  /\ UpdateQueue(call[c].job, Fresh(call[c].seconds))
  /\ IF call[c].todo = {} THEN Return(c) ELSE Goto(c, "row")
  /\ UNCHANGED <<job, dlq, holds>>

-----------------------------------------------------------------------------
(* A failed event: the processor checks the status, handleJobFailure reads  *)
(* the attempts and asks nothing about the status.                          *)
FailCheck(c, j) ==
  /\ Failures
  /\ job[j].status # "absent" /\ CanTransition(job[j].status, "failed")
  /\ Start(c, [Idle EXCEPT !.op = "fail", !.step = "read", !.job = j])
  /\ UNCHANGED <<job, queue, dlq, holds>>

FailRead(c) ==
  /\ At(c, "fail", "read")
  /\ \E now \in Clocks :
       call' = [call EXCEPT ![c] = [@ EXCEPT !.step = "row",
         !.seen = [NoRow EXCEPT !.attemptCount = job[call[c].job].attemptCount],
                                             !.seconds = now + Backoff]]
  /\ UNCHANGED <<job, queue, dlq, holds>>

FailRow(c) ==
  /\ At(c, "fail", "row")
  /\ LET j == call[c].job
         s == IF call[c].seen.attemptCount < MaxAttempts THEN "pending" ELSE "failed"
     IN /\ UpdateJob(j, Row(s, job[j].attemptCount, None, 0))
        /\ call' = [call EXCEPT ![c] = [@ EXCEPT !.step = "delete", !.to = s]]
  /\ UNCHANGED <<queue, dlq, holds>>

FailDelete(c) ==
  /\ At(c, "fail", "delete")
  /\ DeleteQueue(call[c].job)
  /\ Goto(c, "insert")
  /\ UNCHANGED <<job, dlq, holds>>

FailInsert(c) ==
  /\ At(c, "fail", "insert")
  /\ IF call[c].to = "pending"
     THEN InsertQueue(call[c].job, call[c].seconds) /\ UNCHANGED dlq
     ELSE dlq' = dlq \cup {call[c].job} /\ UNCHANGED queue
  /\ Return(c)
  /\ UNCHANGED <<job, holds>>

(* setJobStatus: what is written depends on the row as it was read. *)
StatusRead(c, j, s) ==
  /\ job[j].status # "absent" /\ CanTransition(job[j].status, s)
  /\ Start(c, [Idle EXCEPT !.op = "status", !.step = "row", !.job = j, !.to = s,
                           !.seen = [NoRow EXCEPT !.leaseOwner = job[j].leaseOwner],
                           !.seconds = job[j].leaseLeft])
  /\ UNCHANGED <<job, queue, dlq, holds>>

StatusRow(c) ==
  /\ At(c, "status", "row")
  /\ LET j == call[c].job
         s == call[c].to
         w == IF s = "processing" THEN call[c].seen.leaseOwner ELSE None
     IN UpdateJob(j, Row(s, job[j].attemptCount, w, IF w = None THEN 0 ELSE call[c].seconds))
  /\ IF call[c].to \in {"completed", "failed"} THEN Goto(c, "delete") ELSE Return(c)
  /\ UNCHANGED <<queue, dlq, holds>>

StatusDelete(c) ==
  /\ At(c, "status", "delete")
  /\ DeleteQueue(call[c].job)
  /\ IF call[c].to = "completed" THEN Goto(c, "dlq") ELSE Return(c)
  /\ UNCHANGED <<job, dlq, holds>>

StatusDlq(c) ==
  /\ At(c, "status", "dlq")
  /\ dlq' = dlq \ {call[c].job}
  /\ Return(c)
  /\ UNCHANGED <<job, queue, holds>>

(* replayJob: the route checks the status, or finds a dead letter.          *)
(* Mutant: the route asks nothing. *)
ReplayUnchecked(c, j) ==
  /\ Replays
  /\ job[j].status # "absent"
  /\ Start(c, [Idle EXCEPT !.op = "replay", !.step = "dlq", !.job = j])
  /\ UNCHANGED <<job, queue, dlq, holds>>

ReplayCheck(c, j) ==
  /\ Replays
  /\ job[j].status \in {"failed", "needs_replay"} \/ j \in dlq
  /\ Start(c, [Idle EXCEPT !.op = "replay", !.step = "dlq", !.job = j])
  /\ UNCHANGED <<job, queue, dlq, holds>>

ReplayDlq(c) ==
  /\ At(c, "replay", "dlq")
  /\ dlq' = dlq \ {call[c].job}
  /\ Goto(c, "row")
  /\ UNCHANGED <<job, queue, holds>>

ReplayRow(c) ==
  /\ At(c, "replay", "row")
  /\ UpdateJob(call[c].job, Row("pending", 0, None, 0))
  /\ Goto(c, "delete")
  /\ UNCHANGED <<queue, dlq, holds>>

ReplayDelete(c) ==
  /\ At(c, "replay", "delete")
  /\ DeleteQueue(call[c].job)
  /\ Goto(c, "insert")
  /\ UNCHANGED <<job, dlq, holds>>

ReplayInsert(c) ==
  /\ At(c, "replay", "insert")
  /\ InsertQueue(call[c].job, call[c].seconds)
  /\ Return(c)
  /\ UNCHANGED <<job, dlq, holds>>

-----------------------------------------------------------------------------
(* A statement throws: the call ends, what it wrote stays. *)
StatementFails(c) ==
  /\ StatementsFail
  /\ call[c] # Idle
  /\ Return(c)
  /\ failed' = failed \cup Hand(c)
  /\ UNCHANGED <<job, queue, dlq, holds, crossed>>

Tick ==
  /\ job' = [j \in Jobs |-> [job[j] EXCEPT
       !.leaseLeft = IF job[j].leaseOwner = None THEN 0 ELSE Kept(@ - 1)]]
  /\ queue' = [j \in Jobs |-> [i \in DOMAIN queue[j] |-> [queue[j][i] EXCEPT
       !.wait = Kept(@ - 1),
       !.left = IF queue[j][i].leased THEN Kept(@ - 1) ELSE 0]]]
  /\ call' = [c \in Calls |-> IF call[c] = Idle THEN Idle
                             ELSE [call[c] EXCEPT !.seconds = Kept(@ - 1)]]
  /\ UNCHANGED <<dlq, holds>>

Begin(c) ==
  \/ \E j \in Jobs : CreateRow(c, j) \/ FailCheck(c, j) \/ ReplayCheck(c, j)
  \/ \E j \in Jobs, s \in Targets : StatusRead(c, j, s)
  \/ \E j \in Jobs, w \in Workers : ClaimSelect(c, w, j)
  \/ \E w \in Workers : HeartbeatSelect(c, w)
  \/ ReapSelect(c)

Continue(c) ==
  \/ CreateQueue(c) \/ ClaimRecheck(c) \/ ClaimRow(c) \/ ClaimQueue(c)
  \/ HeartbeatRow(c) \/ HeartbeatQueue(c) \/ ReapRow(c) \/ ReapQueue(c)
  \/ FailRead(c) \/ FailRow(c) \/ FailDelete(c) \/ FailInsert(c)
  \/ StatusRow(c) \/ StatusDelete(c) \/ StatusDlq(c)
  \/ ReplayDlq(c) \/ ReplayRow(c) \/ ReplayDelete(c) \/ ReplayInsert(c)

(* The jobs a call that begins finds in another call's hands. *)
Meets(c) == {j \in Jobs : j \in Hand(c)' /\ \E d \in Calls \ {c} : j \in Hand(d)}

Next ==
  \/ \E c \in Calls : /\ Begin(c)
                     /\ crossed' = crossed \cup Meets(c) /\ crossed' \subseteq Crossing
                     /\ UNCHANGED failed
  \/ /\ \/ \E c \in Calls : Continue(c)
        \/ \E w \in Workers : Release(w)
        \/ Tick
     /\ UNCHANGED <<failed, crossed>>
  \/ \E c \in Calls : StatementFails(c)

Spec == Init /\ [][Next]_vars

-----------------------------------------------------------------------------
(* Properties. *)

(* Type invariant. *)
JobRow == [status : WorkflowStatus \cup {"absent"}, attemptCount : 0 .. AttemptCap,
           leaseOwner : Workers \cup {None}, leaseLeft : Int]

TypeOK ==
  /\ job \in [Jobs -> JobRow]
  /\ queue \in [Jobs -> Seq([wait : Int, leased : BOOLEAN, left : Int])]
  /\ dlq \subseteq Jobs
  /\ holds \in [Workers -> Jobs \cup {None}]
  /\ failed \subseteq Jobs /\ crossed \subseteq Jobs
  /\ \A c \in Calls :
       /\ call[c].job \in Jobs \cup {None} /\ call[c].worker \in Workers \cup {None}
       /\ call[c].seen \in JobRow /\ call[c].todo \subseteq Jobs

(* No call has the job in hand. *)
Quiet(j) == \A c \in Calls : j \notin Hand(c)

RestoredByCalls ==
  \A j \in Jobs \ (crossed \cup failed) : Quiet(j) =>
    /\ job[j].status = "pending" => queue[j] # <<>> /\ ~queue[j][1].leased
    /\ job[j].leaseOwner # None =>
         /\ job[j].status = "processing"
         /\ queue[j] # <<>> /\ queue[j][1].leased /\ queue[j][1].left = job[j].leaseLeft
    /\ job[j].status \in Settled \cup {"failed", "absent"} => queue[j] = <<>>
    /\ j \in dlq => queue[j] = <<>> /\ job[j].status \notin Settled

QueuedOnce == \A j \in Jobs \ crossed : Len(queue[j]) <= 1

(* While no call has a job in hand the tables agree on it, unless two calls  *)
(* ever overlapped on it or a statement about it failed: the statements of   *)
(* each call, run to the end while other calls work on other jobs, restore   *)
(* what the local adapter keeps at every step (vast-workflow-client.ts,      *)
(* every write of jobs, queue and dlq).  And the queue, which has no key and *)
(* knows no upsert, has a job once even when calls end anywhere: every       *)
(* insert follows a delete or the creation of the job (handleJobFailure,     *)
(* replayJob).                                                               *)
TablesAgree == RestoredByCalls /\ QueuedOnce

LeasePhase(row) ==
  IF row.status = "absent" THEN "absent"
  ELSE IF row.status = "pending" THEN "offered"
  ELSE IF row.leaseOwner # None THEN "held"
  ELSE IF row.status \in Settled THEN "settled" ELSE "idle"

Lease == INSTANCE JobLease WITH
  LeaseSeconds <- UNION {(-Horizon) .. (now + LeaseLength) : now \in Clocks},
  Steps <- {1},
  phase <- [j \in Jobs |-> LeasePhase(job[j])],
  owner <- [j \in Jobs |-> job[j].leaseOwner],
  left <- [j \in Jobs |-> job[j].leaseLeft]

(* Every step of the table jobs is a step of JobLease or leaves it alone, as *)
(* the local adapter's are, although a claim or a report takes its           *)
(* statements one by one while other calls work on other jobs and time       *)
(* passes; all but the steps of a job on which calls overlapped or broke off.*)
KeepsLease ==
  Lease!Init /\
  [][\/ [Lease!Next]_<<job>>
     \/ \E j \in crossed' \cup failed' : job'[j] # job[j]]_vars
=============================================================================
