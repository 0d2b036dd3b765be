----------------------------- MODULE VastProofs -----------------------------
(***************************************************************************)
(* What the statement sequences of the VAST adapter keep, for any number   *)
(* of callers that overlap: those of the job queue for any number of jobs, *)
(* workers and clocks, and those of insertVersion.                         *)
(*                                                                         *)
(* Of the queue the invariant has two parts.  One holds whatever fails: a  *)
(* job that no two calls had in hand at once has one queue row at most,    *)
(* since an insert finds none (Placed).  The other holds of the jobs that  *)
(* no call broke off on either (Sound): the tables agree on such a job     *)
(* unless a call has it in hand, one alone (Apart), and of that call the   *)
(* invariant says, statement by statement, how far the tables are apart    *)
(* (Halfway).                                                              *)
(***************************************************************************)
EXTENDS VastJobQueue, VersionNumbers, SequenceTheorems, WellFoundedInduction, TLAPS

Entry == [wait : Int, leased : BOOLEAN, left : Int]
Statuses == WorkflowStatus \cup {"absent"}

CallOps == {"none", "create", "claim", "heartbeat", "reap", "fail", "status", "replay"}
CallSteps == {"none", "insert", "recheck", "row", "queue", "read", "delete", "dlq"}
CallType ==
  [op : CallOps, step : CallSteps, job : Jobs \cup {None}, worker : Workers \cup {None},
   to : WorkflowStatus \cup {"none"}, seen : JobRow, seconds : Int, todo : SUBSET Jobs]

Shape ==
  /\ job \in [Jobs -> JobRow] /\ queue \in [Jobs -> Seq(Entry)] /\ dlq \subseteq Jobs
  /\ holds \in [Workers -> Jobs \cup {None}]
  /\ failed \subseteq Jobs /\ crossed \subseteq Jobs
  /\ call \in [Calls -> CallType]

(* When a lease that a worker asks for may end. *)
LeaseTimes == UNION {(-Horizon) .. (now + LeaseLength) : now \in Clocks}

StepOf(op, step) ==
  \/ op = "none" /\ step = "none"
  \/ op = "create" /\ step = "insert"
  \/ op = "claim" /\ step \in {"recheck", "row", "queue"}
  \/ op \in {"heartbeat", "reap"} /\ step \in {"row", "queue"}
  \/ op = "fail" /\ step \in {"read", "row", "delete", "insert"}
  \/ op = "status" /\ step \in {"row", "delete", "dlq"}
  \/ op = "replay" /\ step \in {"dlq", "row", "delete", "insert"}

-----------------------------------------------------------------------------
(* Whatever fails. *)
Known(j) == job[j].status # "absent"

QueuedRight(j) ==
  /\ j \notin crossed => Len(queue[j]) <= 1
  /\ ~Known(j) => queue[j] = <<>> /\ j \notin dlq
  /\ job[j].leaseOwner = None => job[j].leaseLeft = 0
  /\ job[j].leaseOwner # None => job[j].status = "processing"

Placed(c) ==
  LET j == call[c].job IN
  /\ StepOf(call[c].op, call[c].step)
  /\ call[c].op = "none" => call[c] = Idle
  /\ call[c].op # "none" /\ ~At(c, "reap", "row") => j \in Jobs /\ Known(j)
  /\ \A k \in call[c].todo : Known(k)
  /\ call[c].op # "reap" => call[c].todo = {}
  /\ call[c].op \in {"claim", "heartbeat"} =>
       call[c].worker # None /\ call[c].seconds \in LeaseTimes
  /\ call[c].step = "insert" /\ j \notin crossed => queue[j] = <<>>
  /\ call[c].op = "fail" /\ call[c].step \in {"delete", "insert"} =>
       call[c].to \in {"pending", "failed"}
  /\ call[c].op = "status" => call[c].to \in Targets

Apart == \A c \in Calls : \A d \in Calls \ {c} : Hand(c) \cap Hand(d) \subseteq crossed

-----------------------------------------------------------------------------
(* On the jobs that no two calls had in hand at once and no call broke off on. *)
Sound == Jobs \ (crossed \cup failed)

Unowned(j) == job[j].leaseOwner = None /\ job[j].leaseLeft = 0
Waiting(j) == job[j].status = "pending" /\ Unowned(j) /\ j \notin dlq
InUse(j) == queue[j] # <<>> /\ queue[j][1].leased
Given(j) == job[j].status = "processing" /\ job[j].leaseOwner # None /\ j \notin dlq
UsedUp(j) == job[j].attemptCount >= MaxAttempts
DeadIsOut(j) == j \in dlq => queue[j] = <<>> /\ UsedUp(j)
Unsettled(j) == job[j].status \in {"pending", "processing", "needs_replay", "failed"}
Dead(j) ==
  job[j].status = "processing" /\ InUse(j) /\ \E now \in Clocks : queue[j][1].left <= now

Agree(j) ==
  /\ job[j].status = "pending" => queue[j] # <<>> /\ ~queue[j][1].leased
  /\ job[j].leaseOwner # None =>
       job[j].status = "processing" /\ InUse(j) /\ queue[j][1].left = job[j].leaseLeft
  /\ job[j].status \in Settled \cup {"failed", "absent"} => queue[j] = <<>>
  /\ DeadIsOut(j) /\ (j \in dlq => job[j].status \notin Settled)

(* Before the first write, what the call has read is still so.               *)
Reads(c, j) ==
  \/ call[c].op = "claim" /\ call[c].step = "recheck" /\ job[j].status = "pending"
  \/ /\ call[c].op = "claim" /\ call[c].step = "row"
     /\ job[j].status = "pending" /\ call[c].seen.attemptCount = job[j].attemptCount
  \/ /\ call[c].op = "heartbeat" /\ call[c].step = "row"
     /\ job[j].leaseOwner = call[c].worker
  \/ call[c].op = "fail" /\ call[c].step = "read" /\ Unsettled(j)
  \/ /\ call[c].op = "fail" /\ call[c].step = "row"
     /\ Unsettled(j) /\ call[c].seen.attemptCount = job[j].attemptCount
  \/ /\ call[c].op = "status" /\ call[c].step = "row"
     /\ CanTransition(job[j].status, call[c].to)
     /\ call[c].seen.leaseOwner = job[j].leaseOwner
     /\ job[j].leaseOwner # None => call[c].seconds = job[j].leaseLeft
  \/ call[c].op = "replay" /\ call[c].step = "dlq" /\ Unsettled(j)
  \/ call[c].op = "replay" /\ call[c].step = "row" /\ Unsettled(j) /\ j \notin dlq

(* After it, the tables are apart on the job in hand.                        *)
Halfway(c, j) ==
  \/ call[c].op = "create" /\ call[c].step = "insert" /\ Waiting(j)
  \/ /\ call[c].op = "claim" /\ call[c].step = "queue"
     /\ Given(j) /\ job[j].leaseLeft = call[c].seconds /\ queue[j] # <<>>
  \/ /\ call[c].op = "heartbeat" /\ call[c].step = "queue"
     /\ Given(j) /\ job[j].leaseLeft = call[c].seconds /\ InUse(j)
  \/ /\ call[c].op = "reap" /\ call[c].step = "queue"
     /\ Waiting(j) /\ queue[j] # <<>> /\ j \notin call[c].todo
  \/ /\ call[c].op = "fail" /\ call[c].step \in {"delete", "insert"}
     /\ job[j].status = call[c].to /\ Unowned(j) /\ DeadIsOut(j)
     /\ IF call[c].to = "pending" THEN j \notin dlq ELSE UsedUp(j)
  \/ /\ call[c].op = "status" /\ call[c].step = "delete"
     /\ call[c].to \in {"completed", "failed"} /\ job[j].status = call[c].to /\ Unowned(j)
     /\ call[c].to = "failed" => DeadIsOut(j)
  \/ /\ call[c].op = "status" /\ call[c].step = "dlq"
     /\ job[j].status = "completed" /\ Unowned(j) /\ queue[j] = <<>>
  \/ call[c].op = "replay" /\ call[c].step \in {"delete", "insert"} /\ Waiting(j)

InHand(c, j) == (Reads(c, j) /\ Agree(j)) \/ Halfway(c, j)

Consistent ==
  /\ \A j \in Sound : Agree(j) \/ \E c \in Calls : call[c].job = j /\ Halfway(c, j)
  /\ \A c \in Calls :
       /\ call[c].op # "none" /\ ~At(c, "reap", "row") /\ call[c].job \in Sound =>
            InHand(c, call[c].job)
       /\ \A k \in call[c].todo \cap Sound : Dead(k) /\ Agree(k)

IInv ==
  /\ Shape
  /\ \A j \in Jobs : QueuedRight(j)
  /\ \A c \in Calls : Placed(c)
  /\ Apart
  /\ Consistent

-----------------------------------------------------------------------------
(* Records, rows and queues. *)
LEMMA Nothing ==
  /\ None \notin Workers /\ None \notin Jobs
  /\ NoRow \in JobRow /\ NoRow.status = "absent"
  /\ NoRow.leaseOwner = None /\ NoRow.leaseLeft = 0
  /\ Idle \in CallType /\ Idle.op = "none" /\ Idle.step = "none" /\ Idle.job = None
  /\ Idle.todo = {} /\ Idle.worker = None
<1>1. NoRow \in JobRow
  BY ConstantsAssumption DEF NoRow, JobRow
<1>2. Idle \in CallType
  BY <1>1 DEF Idle, CallType, CallOps, CallSteps
<1>3. QED
  BY <1>1, <1>2, ConstantsAssumption DEF NoRow, Idle

LEMMA RowType ==
  ASSUME NEW s \in Statuses, NEW n \in 0 .. AttemptCap, NEW w \in Workers \cup {None},
         NEW t \in Int
  PROVE  /\ Row(s, n, w, t) \in JobRow /\ Row(s, n, w, t).status = s
         /\ Row(s, n, w, t).attemptCount = n
         /\ Row(s, n, w, t).leaseOwner = w /\ Row(s, n, w, t).leaseLeft = t
BY DEF Row, JobRow, Statuses

LEMMA PendingRow ==
  ASSUME NEW n \in 0 .. AttemptCap
  PROVE  \E row \in JobRow :
           /\ row = Row("pending", n, None, 0) /\ row.status = "pending"
           /\ row.leaseOwner = None /\ row.leaseLeft = 0
<1>1. "pending" \in Statuses /\ None \in Workers \cup {None} /\ 0 \in Int
  BY DEF Statuses, WorkflowStatus
<1>2. QED
  BY <1>1, RowType

LEMMA RowIs ==
  ASSUME Shape, NEW j \in Jobs
  PROVE  /\ job[j] \in JobRow /\ job[j].status \in Statuses
         /\ job[j].attemptCount \in 0 .. AttemptCap
         /\ job[j].leaseOwner \in Workers \cup {None} /\ job[j].leaseLeft \in Int
         /\ queue[j] \in Seq(Entry)
BY DEF Shape, JobRow, Statuses

LEMMA CallIs ==
  ASSUME Shape, NEW c \in Calls
  PROVE  /\ call[c] \in CallType
         /\ call[c].op \in CallOps /\ call[c].step \in CallSteps
         /\ call[c].job \in Jobs \cup {None} /\ call[c].worker \in Workers \cup {None}
         /\ call[c].to \in WorkflowStatus \cup {"none"}
         /\ call[c].seen \in JobRow /\ call[c].seconds \in Int /\ call[c].todo \subseteq Jobs
         /\ call[c].seen.attemptCount \in 0 .. AttemptCap
         /\ call[c].seen.leaseOwner \in Workers \cup {None}
BY DEF Shape, CallType, JobRow

LEMMA JobUpdated ==
  ASSUME Shape, NEW j \in Jobs, NEW row \in JobRow, UpdateJob(j, row)
  PROVE  /\ job' \in [Jobs -> JobRow] /\ job'[j] = row
         /\ \A k \in Jobs \ {j} : job'[k] = job[k]
BY DEF Shape, UpdateJob

LEMMA QueueSet ==
  ASSUME Shape, NEW j \in Jobs, NEW q \in Seq(Entry), queue' = [queue EXCEPT ![j] = q]
  PROVE  /\ queue' \in [Jobs -> Seq(Entry)] /\ queue'[j] = q
         /\ \A k \in Jobs \ {j} : queue'[k] = queue[k]
BY DEF Shape

LEMMA QueueDeleted ==
  ASSUME Shape, NEW j \in Jobs, DeleteQueue(j)
  PROVE  /\ queue' \in [Jobs -> Seq(Entry)] /\ queue'[j] = <<>>
         /\ \A k \in Jobs \ {j} : queue'[k] = queue[k]
<1>1. PICK q : q = <<>>
  OBVIOUS
<1>2. q \in Seq(Entry)
  BY <1>1
<1>3. queue' = [queue EXCEPT ![j] = q]
  BY <1>1 DEF DeleteQueue
<1>4. QED
  BY <1>1, <1>2, <1>3, QueueSet

LEMMA FreshEntry ==
  ASSUME NEW n \in Int
  PROVE  Fresh(n) \in Entry /\ ~Fresh(n).leased
BY DEF Fresh, Entry

LEMMA QueueInserted ==
  ASSUME Shape, NEW j \in Jobs, NEW n \in Int, InsertQueue(j, n)
  PROVE  /\ queue' \in [Jobs -> Seq(Entry)] /\ \A k \in Jobs \ {j} : queue'[k] = queue[k]
         /\ queue[j] = <<>> =>
              Len(queue'[j]) <= 1 /\ queue'[j] # <<>> /\ ~queue'[j][1].leased
<1>1. PICK e \in Entry : e = Fresh(n) /\ ~e.leased
  BY FreshEntry
<1>2. queue' = [queue EXCEPT ![j] = Append(queue[j], e)]
  BY <1>1 DEF InsertQueue, Shape
<1>3. PICK q : q = Append(queue[j], e)
  OBVIOUS
<1>4. queue[j] \in Seq(Entry) /\ q \in Seq(Entry)
  BY <1>3, AppendProperties DEF Shape
<1>5. ASSUME queue[j] = <<>> PROVE Len(q) <= 1 /\ q # <<>> /\ q[1] = e
  <2>1. <<>> \in Seq(Entry) /\ q = Append(<<>>, e)
    BY <1>3, <1>5
  <2>2. QED
    BY <1>1, <2>1, AppendProperties
<1>6. QED
  BY <1>1, <1>2, <1>3, <1>4, <1>5, QueueSet

LEMMA LongAs ==
  ASSUME NEW s \in Seq(Entry), NEW q \in Seq(Entry), Len(q) = Len(s)
  PROVE  (q = <<>> <=> s = <<>>) /\ (s # <<>> => 1 \in DOMAIN s)
<1>1. (s = <<>> <=> Len(s) = 0) /\ (q = <<>> <=> Len(q) = 0)
  BY EmptySeq
<1>2. Len(s) \in Nat /\ DOMAIN s = 1 .. Len(s)
  OBVIOUS
<1>3. QED
  BY <1>1, <1>2

LEMMA QueueUpdated ==
  ASSUME Shape, NEW j \in Jobs, NEW e \in Entry, UpdateQueue(j, e)
  PROVE  /\ queue' \in [Jobs -> Seq(Entry)]
         /\ Len(queue'[j]) = Len(queue[j]) /\ (queue'[j] = <<>> <=> queue[j] = <<>>)
         /\ queue'[j] # <<>> => queue'[j][1] = e
         /\ \A k \in Jobs \ {j} : queue'[k] = queue[k]
<1>1. queue[j] \in Seq(Entry)
  BY DEF Shape
<1>2. PICK q : q = [i \in DOMAIN queue[j] |-> e]
  OBVIOUS
<1>3. q \in Seq(Entry) /\ Len(q) = Len(queue[j])
  BY <1>1, <1>2
<1>4. (q = <<>> <=> queue[j] = <<>>) /\ (q # <<>> => q[1] = e)
  BY <1>1, <1>2, <1>3, LongAs
<1>5. queue' = [queue EXCEPT ![j] = q]
  BY <1>1, <1>2 DEF UpdateQueue, Shape
<1>6. QED
  BY <1>3, <1>4, <1>5, QueueSet

LEMMA LeaseFits ==
  /\ \A now \in Clocks : now + LeaseLength \in LeaseTimes
  /\ LeaseLength \in LeaseTimes /\ LeaseTimes \subseteq Int
<1>1. ASSUME NEW now \in Clocks PROVE now + LeaseLength \in (-Horizon) .. (now + LeaseLength)
  BY ConstantsAssumption
<1>2. \A now \in Clocks : now + LeaseLength \in LeaseTimes
  BY <1>1 DEF LeaseTimes
<1>3. 0 + LeaseLength \in LeaseTimes
  BY <1>2, ConstantsAssumption
<1>4. LeaseTimes \subseteq Int
  BY ConstantsAssumption DEF LeaseTimes
<1>5. QED
  BY <1>2, <1>3, <1>4, ConstantsAssumption

(* The call goes from record to record. *)
Moves(c, next) ==
  /\ call' \in [Calls -> CallType] /\ call'[c] = next
  /\ \A d \in Calls \ {c} : call'[d] = call[d]

LEMMA Moved ==
  ASSUME Shape, NEW c \in Calls, NEW next \in CallType, call' = [call EXCEPT ![c] = next]
  PROVE  Moves(c, next)
BY DEF Moves, Shape

LEMMA Returned ==
  ASSUME Shape, NEW c \in Calls, Return(c)
  PROVE  Moves(c, Idle)
BY Moved, Nothing DEF Return

LEMMA WentTo ==
  ASSUME Shape, NEW c \in Calls, NEW step \in CallSteps, Goto(c, step)
  PROVE  \E next \in CallType :
           /\ Moves(c, next)
           /\ next.step = step /\ next.op = call[c].op /\ next.job = call[c].job
           /\ next.worker = call[c].worker /\ next.to = call[c].to /\ next.seen = call[c].seen
           /\ next.seconds = call[c].seconds /\ next.todo = call[c].todo
<1>1. call[c] \in CallType
  BY DEF Shape
<1>2. PICK next : next = [call[c] EXCEPT !.step = step]
  OBVIOUS
<1>3. /\ next \in CallType
      /\ next.step = step /\ next.op = call[c].op /\ next.job = call[c].job
      /\ next.worker = call[c].worker /\ next.to = call[c].to /\ next.seen = call[c].seen
      /\ next.seconds = call[c].seconds /\ next.todo = call[c].todo
  BY <1>1, <1>2 DEF CallType
<1>4. call' = [call EXCEPT ![c] = next]
  BY <1>2 DEF Shape, Goto
<1>5. QED
  BY <1>3, <1>4, Moved

-----------------------------------------------------------------------------
(* A call meets others on the jobs it takes in hand when it begins, and then *)
(* no more: Joins(c, j) says that j has not been in two hands unless it      *)
(* counts as crossed from now on.                                            *)
Met(c) == failed' = failed /\ crossed' = crossed \cup Meets(c)

Joins(c, j) ==
  /\ failed' = failed /\ crossed \subseteq crossed' /\ crossed' \subseteq Jobs
  /\ j \notin crossed' => \A d \in Calls \ {c} : j \notin Hand(d)

Whole(j) == j \notin crossed' \cup failed'

LEMMA Joined ==
  ASSUME Shape, NEW c \in Calls, NEW j \in Jobs, NEW next, Moves(c, next), next.job = j, Met(c)
  PROVE  Joins(c, j)
<1>1. j \in Hand(c)'
  BY Nothing DEF Hand, Moves
<1>2. QED
  BY <1>1 DEF Joins, Met, Meets, Shape

LEMMA StaysApart ==
  ASSUME IInv, NEW c \in Calls, NEW j \in Hand(c), UNCHANGED <<failed, crossed>>
  PROVE  Joins(c, j)
BY DEF IInv, Apart, Shape, Joins

(* A statement of call c about job j: the other jobs stay as they are.       *)
Ahead(c, j, next) ==
  /\ c \in Calls /\ j \in Jobs /\ Moves(c, next) /\ Joins(c, j)
  /\ call[c].op = "none" \/ At(c, "reap", "row") \/ call[c].job = j
  /\ IF next.op = "none" THEN next = Idle ELSE next.job = j
  /\ next.todo \subseteq call[c].todo

Acts(c, j, next) ==
  /\ Ahead(c, j, next)
  /\ job' \in [Jobs -> JobRow] /\ queue' \in [Jobs -> Seq(Entry)] /\ dlq' \subseteq Jobs
  /\ holds' \in [Workers -> Jobs \cup {None}]
  /\ \A k \in Jobs \ {j} :
       job'[k] = job[k] /\ queue'[k] = queue[k] /\ (k \in dlq' <=> k \in dlq)

Restores(c, j, next) ==
  Whole(j) =>
    /\ IF next.op = "none" \/ (next.op = "reap" /\ next.step = "row")
       THEN Agree(j)' ELSE InHand(c, j)'
    /\ j \notin next.todo

LEMMA StepKeeps ==
  ASSUME IInv, NEW c, NEW j, NEW next, Acts(c, j, next),
         QueuedRight(j)', Known(j)', Placed(c)', Restores(c, j, next)
  PROVE  IInv'
<1>1. /\ c \in Calls /\ j \in Jobs /\ call'[c] = next
      /\ \A d \in Calls \ {c} : call'[d] = call[d]
      /\ failed' = failed /\ crossed \subseteq crossed' /\ crossed' \subseteq Jobs
      /\ j \notin crossed' => \A d \in Calls \ {c} : j \notin Hand(d)
  BY DEF Acts, Ahead, Moves, Joins
<1>2. \A k \in Jobs \ {j} :
        job'[k] = job[k] /\ queue'[k] = queue[k] /\ (k \in dlq' <=> k \in dlq)
  BY DEF Acts
<1>3. Shape'
  BY <1>1 DEF Acts, Ahead, Moves, IInv, Shape
<1>4. \A k \in Jobs : QueuedRight(k)' /\ (Known(k) => Known(k)')
  <2>1. ASSUME NEW k \in Jobs \ {j} PROVE QueuedRight(k)' /\ (Known(k) => Known(k)')
    <3>1. QueuedRight(k)
      BY DEF IInv
    <3>2. QED
      BY <1>1, <1>2, <3>1 DEF QueuedRight, Known
  <2>2. QED
    BY <2>1
<1>5. \A d \in Calls : Placed(d)'
  <2>1. ASSUME NEW d \in Calls \ {c} PROVE Placed(d)'
    <3>1. Placed(d) /\ call'[d] = call[d] /\ call[d].todo \subseteq Jobs
      BY <1>1, CallIs DEF IInv
    <3>2. ASSUME call[d].job \in Jobs, call[d].job \notin crossed'
          PROVE  queue'[call[d].job] = queue[call[d].job] /\ call[d].job \notin crossed
      <4>1. call[d].job \in Hand(d)
        BY <3>2, Nothing DEF Hand
      <4>2. call[d].job # j
        BY <1>1, <3>2, <4>1
      <4>3. QED
        BY <1>1, <1>2, <3>2, <4>2
    <3>3. \A k \in Jobs : Known(k) => job'[k].status # "absent"
      BY <1>4 DEF Known
    <3>4. StepOf(call[d].op, call[d].step) /\ call[d].step = "insert" =>
            call[d].op # "none" /\ ~At(d, "reap", "row")
      BY DEF StepOf, At
    <3>5. QED
      BY <3>1, <3>2, <3>3, <3>4 DEF Placed, At, Known
  <2>2. QED
    BY <2>1
<1>6. Hand(c)' \subseteq Hand(c) \cup {j} /\ \A d \in Calls \ {c} : Hand(d)' = Hand(d)
  BY <1>1, Nothing DEF Acts, Ahead, Hand
<1>7. Apart'
  BY <1>1, <1>6 DEF IInv, Apart
<1>8. \A k \in Sound' : k \in Sound /\ k \in Jobs
  BY <1>1 DEF Sound
<1>9. Consistent'
  <2>1. ASSUME NEW k \in Jobs \ {j}
        PROVE  /\ Agree(k) => Agree(k)'
               /\ Dead(k) => Dead(k)'
               /\ \A d \in Calls \ {c} : Halfway(d, k) => Halfway(d, k)'
               /\ \A d \in Calls \ {c} : Reads(d, k) => Reads(d, k)'
    <3>1. job'[k] = job[k] /\ queue'[k] = queue[k] /\ (k \in dlq' <=> k \in dlq)
      BY <1>2
    <3>2. (Agree(k) => Agree(k)') /\ (Dead(k) => Dead(k)')
      BY <3>1 DEF Agree, Dead, InUse, DeadIsOut, UsedUp
    <3>3. ASSUME NEW d \in Calls \ {c} PROVE Halfway(d, k) => Halfway(d, k)'
      BY <1>1, <3>1 DEF Halfway, Waiting, Given, Unowned, InUse, DeadIsOut, UsedUp
    <3>4. ASSUME NEW d \in Calls \ {c} PROVE Reads(d, k) => Reads(d, k)'
      BY <1>1, <3>1 DEF Reads, Unsettled
    <3>5. QED
      BY <3>2, <3>3, <3>4
  <2>2. \A k \in Sound' : Agree(k)' \/ \E d \in Calls : call'[d].job = k /\ Halfway(d, k)'
    <3>1. ASSUME NEW k \in Sound', k # j
          PROVE  Agree(k)' \/ \E d \in Calls : call'[d].job = k /\ Halfway(d, k)'
      <4>1. ~(call[c].job = k /\ Halfway(c, k))
        BY <3>1 DEF Acts, Ahead, Halfway, At
      <4>2. Agree(k) \/ \E d \in Calls \ {c} : call[d].job = k /\ Halfway(d, k)
        BY <1>8, <4>1 DEF IInv, Consistent
      <4>3. QED
        BY <1>1, <1>8, <2>1, <3>1, <4>2
    <3>2. ASSUME j \in Sound' PROVE Agree(j)' \/ (call'[c].job = j /\ Halfway(c, j)')
      <4>1. Whole(j)
        BY <3>2 DEF Sound, Whole
      <4>2. QED
        BY <1>1, <4>1 DEF Restores, InHand, Acts, Ahead
    <3>3. QED
      BY <1>1, <3>1, <3>2
  <2>3. ASSUME NEW d \in Calls, call'[d].op # "none", ~At(d, "reap", "row")',
               NEW k \in Sound', k = call'[d].job
        PROVE  InHand(d, k)'
    <3>1. CASE d = c
      <4>1. k = j /\ Whole(j)
        BY <1>1, <2>3, <3>1 DEF Sound, Whole, Acts, Ahead
      <4>2. QED
        BY <1>1, <2>3, <3>1, <4>1 DEF Restores, At
    <3>2. CASE d # c
      <4>1. k \in Hand(d) /\ call[d].job = k /\ call[d].op # "none" /\ ~At(d, "reap", "row")
        BY <1>1, <1>8, <2>3, <3>2, Nothing DEF Hand, At
      <4>2. k # j /\ k \in Jobs /\ k \in Sound
        BY <1>1, <1>8, <3>2, <4>1, <2>3 DEF Sound
      <4>3. InHand(d, k)
        BY <4>1, <4>2 DEF IInv, Consistent
      <4>4. QED
        BY <2>1, <3>2, <4>2, <4>3 DEF InHand
    <3>3. QED
      BY <3>1, <3>2
  <2>4. ASSUME NEW d \in Calls, NEW k \in call'[d].todo, k \in Sound'
        PROVE  Dead(k)' /\ Agree(k)'
    <3>1. k \in call[d].todo
      BY <1>1, <2>4 DEF Acts, Ahead
    <3>2. k # j
      <4>1. CASE d = c
        BY <1>1, <2>4, <4>1 DEF Restores, Whole, Sound
      <4>2. CASE d # c
        BY <1>1, <2>4, <3>1, <4>2 DEF Hand, Sound
      <4>3. QED
        BY <4>1, <4>2
    <3>3. Dead(k) /\ Agree(k) /\ k \in Jobs
      BY <1>8, <2>4, <3>1 DEF IInv, Consistent
    <3>4. QED
      BY <2>1, <3>2, <3>3
  <2>5. \A d \in Calls : call'[d].op # "none" /\ ~At(d, "reap", "row")'
          /\ call'[d].job \in Sound' => InHand(d, call[d].job)'
    <3>1. TAKE d \in Calls
    <3>2. PICK k : k = call'[d].job
      OBVIOUS
    <3>3. call'[d].op # "none" /\ ~At(d, "reap", "row")' /\ k \in Sound' => InHand(d, k)'
      BY <2>3, <3>2
    <3>4. QED
      BY <3>2, <3>3
  <2>6. QED
    BY <2>2, <2>4, <2>5 DEF Consistent
<1>10. QED
  BY <1>3, <1>4, <1>5, <1>7, <1>9 DEF IInv

(* What a statement writes. *)
LEMMA WritesJob ==
  ASSUME IInv, NEW c, NEW j, NEW next, NEW row \in JobRow, Ahead(c, j, next),
         UpdateJob(j, row), UNCHANGED <<queue, dlq, holds>>
  PROVE  Acts(c, j, next) /\ job'[j] = row
BY JobUpdated DEF Acts, Ahead, IInv, Shape

LEMMA WritesQueue ==
  ASSUME IInv, NEW c, NEW j, NEW next, Ahead(c, j, next),
         queue' \in [Jobs -> Seq(Entry)], \A k \in Jobs \ {j} : queue'[k] = queue[k],
         UNCHANGED <<job, dlq>>, holds' \in [Workers -> Jobs \cup {None}]
  PROVE  Acts(c, j, next)
BY DEF Acts, IInv, Shape

LEMMA WritesDlq ==
  ASSUME IInv, NEW c, NEW j, NEW next, Ahead(c, j, next),
         dlq' \in {dlq, dlq \ {j}, dlq \cup {j}}, UNCHANGED <<job, queue, holds>>
  PROVE  Acts(c, j, next)
BY DEF Acts, Ahead, IInv, Shape

LEMMA Started ==
  ASSUME Shape, NEW c \in Calls, NEW r \in CallType, Start(c, r)
  PROVE  Moves(c, r) /\ call[c] = Idle /\ call[c].op = "none" /\ call[c].todo = {}
BY Moved, Nothing DEF Start

(* A job that only this call has in hand agrees before its first write. *)
LEMMA AllAgree ==
  ASSUME IInv, NEW c \in Calls, NEW j \in Jobs, Joins(c, j), Whole(j),
         \/ call[c].op = "none" \/ At(c, "reap", "row")
         \/ call[c].job # j
  PROVE  Agree(j)
<1>1. j \in Sound /\ \A d \in Calls \ {c} : j \notin Hand(d)
  BY DEF Joins, Whole, Sound
<1>2. \A d \in Calls \ {c} : call[d].job # j
  BY <1>1, Nothing DEF Hand
<1>3. ~(call[c].job = j /\ Halfway(c, j))
  BY DEF Halfway, At
<1>4. QED
  BY <1>1, <1>2, <1>3 DEF IInv, Consistent

(* What the invariant says of a call under way. *)
LEMMA Underway ==
  ASSUME IInv, NEW c \in Calls, call[c].op # "none", ~At(c, "reap", "row"),
         Joins(c, call[c].job)
  PROVE  /\ call[c].job \in Jobs /\ Known(call[c].job) /\ QueuedRight(call[c].job)
         /\ Placed(c) /\ (Whole(call[c].job) => InHand(c, call[c].job))
BY DEF IInv, Consistent, Placed, Joins, Whole, Sound

-----------------------------------------------------------------------------
(* createIngestAsset. *)
LEMMA CreateRowKeeps ==
  ASSUME IInv, NEW c \in Calls, NEW j \in Jobs, CreateRow(c, j), Met(c)
  PROVE  IInv'
<1>1. PICK row \in JobRow : row = Row("pending", 0, None, 0) /\ row.status = "pending"
                             /\ row.leaseOwner = None /\ row.leaseLeft = 0
  <2>1. 0 \in 0 .. AttemptCap
    BY ConstantsAssumption
  <2>2. QED
    BY <2>1, PendingRow
<1>2. PICK next : next = [Idle EXCEPT !.op = "create", !.step = "insert", !.job = j]
  OBVIOUS
<1>3. next \in CallType /\ next.op = "create" /\ next.step = "insert" /\ next.job = j
      /\ next.todo = {}
  BY <1>2, Nothing DEF CallType, CallOps, CallSteps, Idle
<1>4. Moves(c, next) /\ call[c].op = "none" /\ call[c].todo = {}
  BY <1>2, <1>3, Started DEF CreateRow, IInv
<1>5. Acts(c, j, next) /\ job'[j] = row /\ UNCHANGED <<queue, dlq>> /\ ~Known(j)
  <2>1. Joins(c, j)
    BY <1>3, <1>4, Joined DEF IInv
  <2>2. QED
    BY <1>1, <1>3, <1>4, <2>1, WritesJob DEF CreateRow, Ahead, Known
<1>6. QueuedRight(j) /\ call'[c] = next
  BY <1>4 DEF IInv, Moves
<1>7. QueuedRight(j)' /\ Known(j)'
  BY <1>1, <1>5, <1>6 DEF QueuedRight, Known, Joins
<1>8. Placed(c)'
  BY <1>1, <1>3, <1>5, <1>6 DEF Placed, StepOf, At, Known, QueuedRight
<1>9. Restores(c, j, next)
  BY <1>1, <1>3, <1>5, <1>6 DEF Restores, InHand, Halfway, Waiting, Unowned, QueuedRight
<1>10. QED
  BY <1>5, <1>7, <1>8, <1>9, StepKeeps

LEMMA CreateQueueKeeps ==
  ASSUME IInv, NEW c \in Calls, CreateQueue(c), Joins(c, call[c].job)
  PROVE  IInv'
<1>1. PICK j \in Jobs : j = call[c].job /\ Known(j) /\ QueuedRight(j) /\ Placed(c)
                         /\ (Whole(j) => InHand(c, j))
  BY Underway DEF CreateQueue, At
<1>2. call[c].op = "create" /\ call[c].step = "insert" /\ call[c].seconds \in Int
  BY CallIs DEF CreateQueue, At, IInv
<1>3. /\ queue' \in [Jobs -> Seq(Entry)] /\ \A k \in Jobs \ {j} : queue'[k] = queue[k]
      /\ j \notin crossed' =>
           Len(queue'[j]) <= 1 /\ queue'[j] # <<>> /\ ~queue'[j][1].leased
  <2>1. j \notin crossed' => queue[j] = <<>>
    BY <1>1, <1>2 DEF Placed, Joins
  <2>2. QED
    BY <1>1, <1>2, <2>1, QueueInserted DEF CreateQueue, IInv
<1>4. Moves(c, Idle)
  BY Returned DEF CreateQueue, IInv
<1>5. Acts(c, j, Idle) /\ UNCHANGED <<job, dlq>> /\ call'[c] = Idle
  BY <1>1, <1>3, <1>4, Nothing, WritesQueue DEF CreateQueue, Ahead, IInv, Shape, Moves
<1>6. QueuedRight(j)' /\ Known(j)'
  BY <1>1, <1>3, <1>5 DEF QueuedRight, Known, Joins
<1>7. Placed(c)'
  BY <1>5, Nothing DEF Placed, StepOf, At
<1>8. Restores(c, j, Idle)
  <2>1. ASSUME Whole(j) PROVE Waiting(j)
    BY <1>1, <1>2, <2>1 DEF InHand, Reads, Halfway
  <2>2. ASSUME Whole(j) PROVE Agree(j)'
    BY <1>3, <1>5, <2>1, <2>2
       DEF Whole, Waiting, Unowned, Agree, DeadIsOut, Settled, ReviewStatus
  <2>3. QED
    BY <2>2, Nothing DEF Restores
<1>9. QED
  BY <1>5, <1>6, <1>7, <1>8, StepKeeps

-----------------------------------------------------------------------------
(* A statement that only reads: what it read must still be so. *)
LEMMA OnlyReads ==
  ASSUME IInv, NEW c, NEW j, NEW next, Ahead(c, j, next),
         UNCHANGED <<job, queue, dlq, holds>>, Known(j), Placed(c)',
         Whole(j) => /\ Agree(j) /\ j \notin next.todo
                     /\ next.op # "none" => next.op # "reap" /\ Reads(c, j)'
  PROVE  IInv'
<1>1. Acts(c, j, next)
  BY WritesQueue DEF IInv, Shape
<1>2. QueuedRight(j)' /\ Known(j)'
  BY DEF Ahead, IInv, QueuedRight, Known, Joins
<1>3. Agree(j) => Agree(j)'
  BY DEF Agree, InUse, DeadIsOut, UsedUp
<1>4. Restores(c, j, next)
  BY <1>3 DEF Restores, InHand
<1>5. QED
  BY <1>1, <1>2, <1>4, StepKeeps

(* claimNextJob. *)
LEMMA ClaimSelectKeeps ==
  ASSUME IInv, NEW c \in Calls, NEW w \in Workers, NEW j \in Jobs,
         ClaimSelect(c, w, j), Met(c)
  PROVE  IInv'
<1>0. PICK now \in Clocks :
        Start(c, [Idle EXCEPT !.op = "claim", !.step = "recheck", !.job = j,
                              !.worker = w, !.seconds = now + LeaseLength])
  BY DEF ClaimSelect
<1>1. PICK next : next = [Idle EXCEPT !.op = "claim", !.step = "recheck", !.job = j,
                                      !.worker = w, !.seconds = now + LeaseLength]
  OBVIOUS
<1>2. /\ next \in CallType /\ next.op = "claim" /\ next.step = "recheck" /\ next.job = j
      /\ next.worker = w /\ next.seconds \in LeaseTimes /\ next.todo = {}
  <2>1. now + LeaseLength \in LeaseTimes /\ now + LeaseLength \in Int
    BY ConstantsAssumption, LeaseFits
  <2>2. QED
    BY <1>1, <2>1, Nothing DEF CallType, CallOps, CallSteps, Idle
<1>3. Moves(c, next) /\ call[c].op = "none" /\ call[c].todo = {}
  BY <1>0, <1>1, <1>2, Started DEF IInv
<1>4. Ahead(c, j, next) /\ call'[c] = next /\ job[j].status = "pending"
  BY <1>2, <1>3, Joined DEF ClaimSelect, Candidate, Ahead, Moves, IInv
<1>4a. Known(j)
  BY <1>4 DEF Known
<1>5. Placed(c)'
  BY <1>2, <1>4, ConstantsAssumption DEF ClaimSelect, Placed, StepOf, At, Known
<1>6. Reads(c, j)'
  BY <1>2, <1>4 DEF ClaimSelect, Reads
<1>7. ASSUME Whole(j) PROVE Agree(j)
  BY <1>3, <1>4, <1>7, AllAgree DEF Ahead
<1>8. QED
  BY <1>2, <1>4, <1>4a, <1>5, <1>6, <1>7, OnlyReads DEF ClaimSelect

LEMMA ClaimRecheckKeeps ==
  ASSUME IInv, NEW c \in Calls, ClaimRecheck(c), Joins(c, call[c].job)
  PROVE  IInv'
<1>1. PICK j \in Jobs : j = call[c].job /\ Known(j) /\ Placed(c) /\ (Whole(j) => InHand(c, j))
  BY Underway DEF ClaimRecheck, At
<1>2. call[c].op = "claim" /\ call[c].step = "recheck"
  BY DEF ClaimRecheck, At
<1>3. call[c] \in CallType /\ job[j] \in JobRow /\ call[c].todo = {}
  BY <1>1, <1>2 DEF IInv, Shape, Placed
<1>4. ASSUME Whole(j) PROVE Agree(j)
  BY <1>1, <1>2, <1>4 DEF InHand, Halfway
<1>5. CASE job[j].status = "pending" /\ job[j].leaseOwner = None
  <2>1. PICK next : next = [call[c] EXCEPT !.step = "row", !.seen = job[j]]
    OBVIOUS
  <2>2. /\ next \in CallType /\ next.op = "claim" /\ next.step = "row" /\ next.job = j
        /\ next.worker = call[c].worker /\ next.seconds = call[c].seconds /\ next.todo = {}
        /\ next.seen = job[j]
    BY <1>1, <1>2, <1>3, <2>1 DEF CallType, CallSteps
  <2>3. call' = [call EXCEPT ![c] = next]
    BY <1>1, <1>5, <2>1 DEF ClaimRecheck, IInv, Shape
  <2>4. Ahead(c, j, next) /\ call'[c] = next
    BY <1>1, <2>2, <2>3, Moved DEF Ahead, IInv, Moves
  <2>5. Placed(c)'
    BY <1>1, <1>2, <2>2, <2>4 DEF ClaimRecheck, Placed, StepOf, At, Known
  <2>6. Reads(c, j)'
    BY <1>5, <2>2, <2>4 DEF ClaimRecheck, Reads
  <2>7. QED
    BY <1>1, <1>4, <2>2, <2>4, <2>5, <2>6, OnlyReads DEF ClaimRecheck
<1>6. CASE ~(job[j].status = "pending" /\ job[j].leaseOwner = None)
  <2>1. Ahead(c, j, Idle) /\ call'[c] = Idle
    BY <1>1, <1>6, Returned, Nothing DEF ClaimRecheck, Ahead, IInv, Moves
  <2>2. Placed(c)'
    BY <2>1, Nothing DEF Placed, StepOf, At
  <2>3. QED
    BY <1>1, <1>4, <2>1, <2>2, Nothing, OnlyReads DEF ClaimRecheck
<1>7. QED
  BY <1>5, <1>6

LEMMA ClaimRowKeeps ==
  ASSUME IInv, NEW c \in Calls, ClaimRow(c), Joins(c, call[c].job)
  PROVE  IInv'
<1>1. PICK j \in Jobs : j = call[c].job /\ Known(j) /\ QueuedRight(j) /\ Placed(c)
                         /\ (Whole(j) => InHand(c, j))
  BY Underway DEF ClaimRow, At
<1>2. call[c].op = "claim" /\ call[c].step = "row"
  BY DEF ClaimRow, At
<1>3. /\ call[c].worker \in Workers /\ call[c].worker # None
      /\ call[c].seconds \in Int /\ call[c].seconds \in LeaseTimes
      /\ call[c].seen.attemptCount \in 0 .. AttemptCap /\ call[c].todo = {}
  BY <1>1, <1>2, CallIs DEF IInv, Placed
<1>4. PICK next \in CallType :
        /\ Moves(c, next) /\ next.step = "queue" /\ next.op = "claim" /\ next.job = j
        /\ next.worker = call[c].worker /\ next.seconds = call[c].seconds /\ next.todo = {}
  BY <1>1, <1>2, <1>3, WentTo DEF ClaimRow, IInv, CallSteps
<1>5. Ahead(c, j, next) /\ call'[c] = next
  BY <1>1, <1>4 DEF Ahead, Moves
<1>6. PICK n \in 0 .. AttemptCap :
        n = IF call[c].seen.attemptCount < AttemptCap
            THEN call[c].seen.attemptCount + 1 ELSE call[c].seen.attemptCount
  BY <1>3, ConstantsAssumption
<1>7. PICK row \in JobRow :
        /\ row = Row("processing", n, call[c].worker, call[c].seconds)
        /\ row.status = "processing" /\ row.leaseOwner = call[c].worker
        /\ row.leaseLeft = call[c].seconds
  BY <1>3, <1>6, RowType DEF Statuses, WorkflowStatus
<1>8. CASE job[j].status = "pending"
  <2>1. UpdateJob(j, row)
    BY <1>1, <1>6, <1>7, <1>8 DEF ClaimRow
  <2>2. Acts(c, j, next) /\ job'[j] = row /\ UNCHANGED <<queue, dlq>>
    BY <1>5, <2>1, WritesJob DEF ClaimRow
  <2>3. QueuedRight(j)' /\ Known(j)'
    BY <1>1, <1>3, <1>7, <2>2 DEF QueuedRight, Known, Joins
  <2>4. Placed(c)'
    BY <1>3, <1>4, <1>5, <1>7, <2>2 DEF Placed, StepOf, At, Known
  <2>5. ASSUME Whole(j) PROVE queue[j] # <<>> /\ j \notin dlq
    BY <1>1, <1>2, <1>8, <2>5 DEF InHand, Halfway, Agree, DeadIsOut
  <2>6. Restores(c, j, next)
    BY <1>3, <1>4, <1>5, <1>7, <2>2, <2>5 DEF Restores, InHand, Halfway, Given
  <2>7. QED
    BY <2>2, <2>3, <2>4, <2>6, StepKeeps
<1>9. CASE job[j].status # "pending"
  <2>1. UNCHANGED <<job, queue, dlq, holds>>
    BY <1>1, <1>9 DEF ClaimRow
  <2>2. Placed(c)'
    BY <1>1, <1>3, <1>4, <1>5, <2>1 DEF Placed, StepOf, At, Known
  <2>3. ~Whole(j)
    BY <1>1, <1>2, <1>9 DEF InHand, Reads, Halfway
  <2>4. QED
    BY <1>1, <1>5, <2>1, <2>2, <2>3, OnlyReads
<1>10. QED
  BY <1>8, <1>9

LEMMA ClaimQueueKeeps ==
  ASSUME IInv, NEW c \in Calls, ClaimQueue(c), Joins(c, call[c].job)
  PROVE  IInv'
<1>1. PICK j \in Jobs : j = call[c].job /\ Known(j) /\ QueuedRight(j) /\ Placed(c)
                         /\ (Whole(j) => InHand(c, j))
  BY Underway DEF ClaimQueue, At
<1>2. call[c].op = "claim" /\ call[c].step = "queue" /\ call[c].seconds \in Int
  BY CallIs DEF ClaimQueue, At, IInv
<1>3. PICK e : e = [wait |-> Kept(call[c].seconds - LeaseLength), leased |-> TRUE,
                    left |-> call[c].seconds]
  OBVIOUS
<1>4. e \in Entry /\ e.leased /\ e.left = call[c].seconds
  BY <1>2, <1>3, ConstantsAssumption DEF Entry, Kept
<1>5. /\ queue' \in [Jobs -> Seq(Entry)]
      /\ Len(queue'[j]) = Len(queue[j]) /\ (queue'[j] = <<>> <=> queue[j] = <<>>)
      /\ queue'[j] # <<>> => queue'[j][1] = e
      /\ \A k \in Jobs \ {j} : queue'[k] = queue[k]
  BY <1>1, <1>3, <1>4, QueueUpdated DEF ClaimQueue, IInv
<1>6. holds' \in [Workers -> Jobs \cup {None}]
  BY <1>1 DEF ClaimQueue, IInv, Shape
<1>7. Ahead(c, j, Idle) /\ call'[c] = Idle
  BY <1>1, Returned, Nothing DEF ClaimQueue, Ahead, IInv, Moves
<1>8. Acts(c, j, Idle) /\ UNCHANGED <<job, dlq>>
  BY <1>5, <1>6, <1>7, WritesQueue DEF ClaimQueue
<1>9. QueuedRight(j)' /\ Known(j)'
  BY <1>1, <1>5, <1>8 DEF QueuedRight, Known, Joins
<1>10. Placed(c)'
  BY <1>7, Nothing DEF Placed, StepOf, At
<1>11. Restores(c, j, Idle)
  <2>1. ASSUME Whole(j) PROVE Given(j) /\ job[j].leaseLeft = call[c].seconds /\ queue[j] # <<>>
    BY <1>1, <1>2, <2>1 DEF InHand, Reads, Halfway
  <2>2. ASSUME Whole(j) PROVE Agree(j)'
    BY <1>4, <1>5, <1>8, <2>1, <2>2 DEF Given, Agree, InUse, DeadIsOut, Settled, ReviewStatus
  <2>3. QED
    BY <2>2, Nothing DEF Restores
<1>12. QED
  BY <1>8, <1>9, <1>10, <1>11, StepKeeps

(* heartbeatJob. *)
LEMMA HeartbeatSelectKeeps ==
  ASSUME IInv, NEW c \in Calls, NEW w \in Workers,
         HeartbeatSelect(c, w), Met(c)
  PROVE  IInv'
<1>1. PICK j \in Jobs : j = holds[w]
  BY DEF HeartbeatSelect, IInv, Shape
<1>2. PICK next : next = [Idle EXCEPT !.op = "heartbeat", !.step = "row", !.job = j,
                                      !.worker = w, !.seconds = LeaseLength]
  OBVIOUS
<1>3. /\ next \in CallType /\ next.op = "heartbeat" /\ next.step = "row" /\ next.job = j
      /\ next.worker = w /\ next.seconds = LeaseLength /\ next.todo = {}
  <2>1. LeaseLength \in Int
    BY ConstantsAssumption
  <2>2. QED
    BY <1>2, <2>1, Nothing DEF CallType, CallOps, CallSteps, Idle
<1>4. Moves(c, next) /\ call[c].op = "none" /\ call[c].todo = {}
  BY <1>1, <1>2, <1>3, Started DEF HeartbeatSelect, IInv
<1>4a. LeaseLength \in LeaseTimes
  BY ConstantsAssumption, LeaseFits
<1>5. Ahead(c, j, next) /\ call'[c] = next /\ job[j].leaseOwner = w /\ w # None
  BY <1>1, <1>3, Joined, <1>4, ConstantsAssumption DEF HeartbeatSelect, Ahead, Moves, IInv
<1>6. Known(j)
  <2>1. job[j].status = "processing"
    BY <1>5 DEF IInv, QueuedRight
  <2>2. QED
    BY <2>1 DEF Known
<1>7. Placed(c)'
  BY <1>3, <1>4a, <1>5, <1>6 DEF HeartbeatSelect, Placed, StepOf, At, Known
<1>8. Reads(c, j)'
  BY <1>3, <1>5 DEF HeartbeatSelect, Reads
<1>9. ASSUME Whole(j) PROVE Agree(j)
  BY <1>4, <1>5, <1>9, AllAgree DEF Ahead
<1>10. QED
  BY <1>3, <1>5, <1>6, <1>7, <1>8, <1>9, OnlyReads DEF HeartbeatSelect

LEMMA HeartbeatRowKeeps ==
  ASSUME IInv, NEW c \in Calls, HeartbeatRow(c), Joins(c, call[c].job)
  PROVE  IInv'
<1>1. PICK j \in Jobs : j = call[c].job /\ Known(j) /\ QueuedRight(j) /\ Placed(c)
                         /\ (Whole(j) => InHand(c, j))
  BY Underway DEF HeartbeatRow, At
<1>2. call[c].op = "heartbeat" /\ call[c].step = "row"
  BY DEF HeartbeatRow, At
<1>3. /\ call[c].worker # None /\ call[c].seconds \in Int
      /\ call[c].seconds \in LeaseTimes /\ call[c].todo = {}
  BY <1>1, <1>2, CallIs DEF IInv, Placed
<1>4. PICK next \in CallType :
        /\ Moves(c, next) /\ next.step = "queue" /\ next.op = "heartbeat" /\ next.job = j
        /\ next.worker = call[c].worker /\ next.seconds = call[c].seconds /\ next.todo = {}
  BY <1>1, <1>2, <1>3, WentTo DEF HeartbeatRow, IInv, CallSteps
<1>5. Ahead(c, j, next) /\ call'[c] = next
  BY <1>1, <1>4 DEF Ahead, Moves
<1>6. CASE job[j].leaseOwner = call[c].worker
  <2>0. PICK row : row = [job[j] EXCEPT !.leaseLeft = call[c].seconds]
    OBVIOUS
  <2>1. /\ row \in JobRow
        /\ row.status = job[j].status /\ row.leaseOwner = job[j].leaseOwner
        /\ row.leaseLeft = call[c].seconds
    <3>1. job[j] \in JobRow
      BY RowIs DEF IInv
    <3>2. QED
      BY <1>3, <2>0, <3>1 DEF JobRow
  <2>2. UpdateJob(j, row)
    BY <1>1, <1>6, <2>0 DEF HeartbeatRow
  <2>3. Acts(c, j, next) /\ job'[j] = row /\ UNCHANGED <<queue, dlq>>
    BY <1>5, <2>1, <2>2, WritesJob DEF HeartbeatRow
  <2>4. QueuedRight(j)' /\ Known(j)'
    BY <1>1, <1>3, <1>6, <2>1, <2>3 DEF QueuedRight, Known, Joins
  <2>5. Placed(c)'
    BY <1>1, <1>3, <1>4, <1>5, <2>1, <2>3 DEF Placed, StepOf, At, Known
  <2>6. ASSUME Whole(j) PROVE job[j].status = "processing" /\ InUse(j) /\ j \notin dlq
    BY <1>1, <1>2, <1>3, <1>6, <2>6 DEF InHand, Halfway, Agree, DeadIsOut, InUse
  <2>7. Restores(c, j, next)
    BY <1>3, <1>4, <1>5, <1>6, <2>1, <2>3, <2>6 DEF Restores, InHand, Halfway, Given, InUse
  <2>8. QED
    BY <2>3, <2>4, <2>5, <2>7, StepKeeps
<1>7. CASE job[j].leaseOwner # call[c].worker
  <2>1. UNCHANGED <<job, queue, dlq, holds>>
    BY <1>1, <1>7 DEF HeartbeatRow
  <2>2. Placed(c)'
    BY <1>1, <1>3, <1>4, <1>5, <2>1 DEF Placed, StepOf, At, Known
  <2>3. ~Whole(j)
    BY <1>1, <1>2, <1>7 DEF InHand, Reads, Halfway
  <2>4. QED
    BY <1>1, <1>5, <2>1, <2>2, <2>3, OnlyReads
<1>8. QED
  BY <1>6, <1>7

LEMMA HeartbeatQueueKeeps ==
  ASSUME IInv, NEW c \in Calls, HeartbeatQueue(c), Joins(c, call[c].job)
  PROVE  IInv'
<1>1. PICK j \in Jobs : j = call[c].job /\ Known(j) /\ QueuedRight(j) /\ Placed(c)
                         /\ (Whole(j) => InHand(c, j))
  BY Underway DEF HeartbeatQueue, At
<1>2. call[c].op = "heartbeat" /\ call[c].step = "queue" /\ call[c].seconds \in Int
  BY CallIs DEF HeartbeatQueue, At, IInv
<1>3. PICK q : q = [i \in DOMAIN queue[j] |->
                      [queue[j][i] EXCEPT !.leased = TRUE, !.left = call[c].seconds]]
  OBVIOUS
<1>4. queue[j] \in Seq(Entry)
  BY DEF IInv, Shape
<1>5. \A i \in DOMAIN queue[j] :
        q[i] \in Entry /\ q[i].leased /\ q[i].left = call[c].seconds
  <2>1. TAKE i \in DOMAIN queue[j]
  <2>2. queue[j][i] \in Entry
    BY <1>4
  <2>3. QED
    BY <1>2, <1>3, <2>2 DEF Entry
<1>6. DOMAIN q = 1 .. Len(queue[j]) /\ q \in Seq(Entry) /\ Len(q) = Len(queue[j])
  <2>1. DOMAIN queue[j] = 1 .. Len(queue[j]) /\ Len(queue[j]) \in Nat
    BY <1>4
  <2>2. q \in [1 .. Len(queue[j]) -> Entry]
    BY <1>3, <1>5, <2>1
  <2>3. QED
    BY <2>1, <2>2
<1>7. (q = <<>> <=> queue[j] = <<>>) /\ (queue[j] # <<>> => q[1].leased
                                           /\ q[1].left = call[c].seconds)
  BY <1>4, <1>5, <1>6, LongAs
<1>8. queue' = [queue EXCEPT ![j] = q]
  BY <1>1, <1>3 DEF HeartbeatQueue, IInv, Shape
<1>9. queue' \in [Jobs -> Seq(Entry)] /\ queue'[j] = q
      /\ \A k \in Jobs \ {j} : queue'[k] = queue[k]
  BY <1>6, <1>8, QueueSet DEF IInv
<1>10. Ahead(c, j, Idle) /\ call'[c] = Idle
  BY <1>1, Returned, Nothing DEF HeartbeatQueue, Ahead, IInv, Moves
<1>11. Acts(c, j, Idle) /\ UNCHANGED <<job, dlq>>
  BY <1>9, <1>10, WritesQueue DEF HeartbeatQueue, IInv, Shape
<1>12. QueuedRight(j)' /\ Known(j)'
  BY <1>1, <1>6, <1>7, <1>9, <1>11 DEF QueuedRight, Known, Joins
<1>13. Placed(c)'
  BY <1>10, Nothing DEF Placed, StepOf, At
<1>14. Restores(c, j, Idle)
  <2>1. ASSUME Whole(j) PROVE Given(j) /\ job[j].leaseLeft = call[c].seconds /\ InUse(j)
    BY <1>1, <1>2, <2>1 DEF InHand, Reads, Halfway
  <2>2. ASSUME Whole(j) PROVE Agree(j)'
    BY <1>7, <1>9, <1>11, <2>1, <2>2 DEF Given, Agree, InUse, DeadIsOut, Settled, ReviewStatus
  <2>3. QED
    BY <2>2, Nothing DEF Restores
<1>15. QED
  BY <1>11, <1>12, <1>13, <1>14, StepKeeps

(* reapStaleLeases. *)
LEMMA ReapSelectKeeps ==
  ASSUME IInv, NEW c \in Calls, ReapSelect(c), Met(c)
  PROVE  IInv'
<1>0. PICK now \in Clocks :
        Start(c, [Idle EXCEPT !.op = "reap", !.step = "row",
                              !.seconds = now, !.todo = Stale(now)])
  BY DEF ReapSelect
<1>1. PICK next : next = [Idle EXCEPT !.op = "reap", !.step = "row",
                                      !.seconds = now, !.todo = Stale(now)]
  OBVIOUS
<1>2. /\ next \in CallType /\ next.op = "reap" /\ next.step = "row" /\ next.job = None
      /\ next.todo = Stale(now)
  <2>1. Stale(now) \subseteq Jobs /\ now \in Int
    BY ConstantsAssumption DEF Stale
  <2>2. QED
    BY <1>1, <2>1, Nothing DEF CallType, CallOps, CallSteps, Idle
<1>3. Moves(c, next) /\ call[c].op = "none" /\ call[c].todo = {} /\ call[c] = Idle
  BY <1>0, <1>1, <1>2, Started DEF IInv
<1>4. /\ UNCHANGED <<job, queue, dlq, holds, failed>> /\ call'[c] = next
      /\ \A d \in Calls \ {c} : call'[d] = call[d]
      /\ crossed \subseteq crossed' /\ crossed' \subseteq Jobs
  BY <1>3 DEF ReapSelect, Moves, Met, Meets, IInv, Shape
<1>5. Shape'
  BY <1>3, <1>4 DEF IInv, Shape, Moves
<1>6. \A j \in Jobs : QueuedRight(j)'
  BY <1>4 DEF IInv, QueuedRight, Known
<1>7. \A j \in Stale(now) : Known(j) /\ j \in Jobs /\ (j \notin crossed => Dead(j))
  <2>1. TAKE j \in Stale(now)
  <2>2. job[j].status = "processing" /\ j \in Jobs
    BY DEF Stale
  <2>3. PICK i \in DOMAIN queue[j] : queue[j][i].leased /\ queue[j][i].left <= now
    BY DEF Stale
  <2>4. queue[j] \in Seq(Entry) /\ (j \notin crossed => Len(queue[j]) <= 1)
    BY <2>2 DEF IInv, Shape, QueuedRight
  <2>5. j \notin crossed => i = 1 /\ queue[j] # <<>>
    BY <2>3, <2>4, EmptySeq
  <2>6. QED
    BY <2>2, <2>3, <2>5 DEF Known, Dead, InUse
<1>8. ASSUME NEW d \in Calls PROVE Placed(d)'
  <2>1. CASE d = c
    BY <1>2, <1>4, <1>7, <2>1 DEF Placed, StepOf, At, Known
  <2>2. CASE d # c
    BY <1>4, <2>2 DEF IInv, Placed, StepOf, At, Known
  <2>3. QED
    BY <2>1, <2>2
<1>9. Hand(c)' = Stale(now) /\ \A d \in Calls \ {c} : Hand(d)' = Hand(d)
  BY <1>2, <1>4, Nothing DEF Hand
<1>10. \A d \in Calls \ {c} : Stale(now) \cap Hand(d) \subseteq crossed'
  BY <1>7, <1>9 DEF Met, Meets
<1>11. Apart'
  BY <1>4, <1>9, <1>10 DEF IInv, Apart
<1>12. Sound' \subseteq Sound
  BY <1>4 DEF Sound
<1>13. Consistent'
  <2>1. \A j \in Jobs : (Agree(j) => Agree(j)') /\ (Dead(j) => Dead(j)')
    BY <1>4 DEF Agree, Dead, InUse, DeadIsOut, UsedUp
  <2>2. \A d \in Calls \ {c}, j \in Jobs :
          (Halfway(d, j) => Halfway(d, j)') /\ (Reads(d, j) => Reads(d, j)')
    BY <1>4 DEF Halfway, Waiting, Given, Unowned, InUse, DeadIsOut, UsedUp, Reads, Unsettled
  <2>3. \A j \in Sound : Agree(j) \/ \E d \in Calls \ {c} : call[d].job = j /\ Halfway(d, j)
    BY <1>3, Nothing DEF IInv, Consistent, Halfway
  <2>4. \A j \in Sound' : Agree(j)' \/ \E d \in Calls : call'[d].job = j /\ Halfway(d, j)'
    BY <1>4, <1>12, <2>1, <2>2, <2>3 DEF Sound
  <2>5. \A j \in Sound' \cap Stale(now) : Agree(j)
    <3>1. TAKE j \in Sound' \cap Stale(now)
    <3>2. \A d \in Calls \ {c} : j \notin Hand(d)
      BY <1>10 DEF Sound
    <3>3. \A d \in Calls \ {c} : call[d].job # j
      BY <1>7, <3>2, Nothing DEF Hand
    <3>4. QED
      BY <1>12, <2>3, <3>3
  <2>6. ASSUME NEW d \in Calls, NEW k \in call'[d].todo, k \in Sound'
        PROVE  Dead(k)' /\ Agree(k)'
    <3>1. CASE d = c
      BY <1>2, <1>4, <1>7, <1>12, <2>1, <2>5, <2>6, <3>1 DEF Sound
    <3>2. CASE d # c
      <4>1. k \in call[d].todo /\ k \in Sound /\ k \in Jobs
        BY <1>4, <1>12, <2>6, <3>2 DEF Sound
      <4>2. QED
        BY <2>1, <4>1 DEF IInv, Consistent
    <3>3. QED
      BY <3>1, <3>2
  <2>7. ASSUME NEW d \in Calls, call'[d].op # "none", ~At(d, "reap", "row")',
               NEW k \in Sound', k = call'[d].job
        PROVE  InHand(d, k)'
    <3>1. d # c /\ k \in Sound /\ k \in Jobs /\ k = call[d].job
      BY <1>2, <1>4, <1>12, <2>7 DEF At, Sound
    <3>2. call[d].op # "none" /\ ~At(d, "reap", "row")
      BY <1>4, <2>7, <3>1 DEF At
    <3>3. InHand(d, k)
      BY <3>1, <3>2 DEF IInv, Consistent
    <3>4. QED
      BY <2>1, <2>2, <3>1, <3>3 DEF InHand
  <2>8. \A d \in Calls : call'[d].op # "none" /\ ~At(d, "reap", "row")'
          /\ call'[d].job \in Sound' => InHand(d, call[d].job)'
    <3>1. TAKE d \in Calls
    <3>2. PICK k : k = call'[d].job
      OBVIOUS
    <3>3. call'[d].op # "none" /\ ~At(d, "reap", "row")' /\ k \in Sound' => InHand(d, k)'
      BY <2>7, <3>2
    <3>4. QED
      BY <3>2, <3>3
  <2>9. QED
    BY <2>4, <2>6, <2>8 DEF Consistent
<1>14. QED
  BY <1>5, <1>6, <1>8, <1>11, <1>13 DEF IInv

LEMMA ReapRowKeeps ==
  ASSUME IInv, NEW c \in Calls, ReapRow(c), \A k \in call[c].todo : Joins(c, k)
  PROVE  IInv'
<1>0. PICK j \in call[c].todo :
        /\ UpdateJob(j, Row("pending", job[j].attemptCount, None, 0))
        /\ call' = [call EXCEPT ![c] = [@ EXCEPT !.step = "queue", !.job = j,
                                                 !.todo = call[c].todo \ {j}]]
  BY DEF ReapRow
<1>1. /\ UpdateJob(j, Row("pending", job[j].attemptCount, None, 0))
      /\ call' = [call EXCEPT ![c] = [call[c] EXCEPT !.step = "queue", !.job = j,
                                                     !.todo = call[c].todo \ {j}]]
  BY <1>0 DEF IInv, Shape
<1>2. j \in Jobs /\ call[c] \in CallType /\ call[c].op = "reap" /\ call[c].step = "row"
  BY CallIs DEF ReapRow, At, IInv
<1>3. PICK next : next = [call[c] EXCEPT !.step = "queue", !.job = j,
                                         !.todo = call[c].todo \ {j}]
  OBVIOUS
<1>4. /\ next \in CallType /\ next.op = "reap" /\ next.step = "queue" /\ next.job = j
      /\ next.todo = call[c].todo \ {j}
  BY <1>2, <1>3 DEF CallType, CallSteps
<1>5. Ahead(c, j, next) /\ call'[c] = next
  BY <1>1, <1>2, <1>3, <1>4, Moved DEF Ahead, IInv, Moves, At
<1>6. PICK row \in JobRow : /\ row = Row("pending", job[j].attemptCount, None, 0)
                            /\ row.status = "pending" /\ row.leaseOwner = None
                            /\ row.leaseLeft = 0
  <2>1. job[j].attemptCount \in 0 .. AttemptCap
    BY <1>2, RowIs DEF IInv
  <2>2. QED
    BY <2>1, PendingRow
<1>7. Acts(c, j, next) /\ job'[j] = row /\ UNCHANGED <<queue, dlq>>
  BY <1>1, <1>5, <1>6, WritesJob DEF ReapRow
<1>8. Placed(c) /\ QueuedRight(j) /\ Known(j) /\ (Whole(j) => Dead(j) /\ Agree(j))
  BY <1>1, <1>2 DEF IInv, Placed, Consistent, Joins, Whole, Sound
<1>9. QueuedRight(j)' /\ Known(j)'
  BY <1>6, <1>7, <1>8 DEF QueuedRight, Known, Joins
<1>10. Placed(c)'
  <2>1. \A k \in next.todo : job'[k].status # "absent"
    BY <1>2, <1>4, <1>7, <1>8, CallIs DEF Placed, Known, Acts, IInv
  <2>2. QED
    BY <1>2, <1>4, <1>5, <1>6, <1>7, <2>1 DEF Placed, StepOf, At, Known
<1>11. ASSUME Whole(j) PROVE queue[j] # <<>> /\ j \notin dlq
  BY <1>8, <1>11 DEF Dead, InUse, Agree, DeadIsOut
<1>12. Restores(c, j, next)
  BY <1>4, <1>5, <1>6, <1>7, <1>11 DEF Restores, InHand, Halfway, Waiting, Unowned
<1>13. QED
  BY <1>7, <1>9, <1>10, <1>12, StepKeeps

LEMMA ReapQueueAgrees ==
  ASSUME IInv, NEW c \in Calls, ReapQueue(c), Joins(c, call[c].job)
  PROVE  IInv'
<1>1. PICK j \in Jobs : j = call[c].job /\ Known(j) /\ QueuedRight(j) /\ Placed(c)
                         /\ (Whole(j) => InHand(c, j))
  BY Underway DEF ReapQueue, At
<1>2. call[c].op = "reap" /\ call[c].step = "queue" /\ call[c].todo \subseteq Jobs
  BY CallIs DEF ReapQueue, At, IInv
<1>3. PICK e \in Entry : e = Fresh(call[c].seconds) /\ ~e.leased
  BY FreshEntry, CallIs DEF IInv
<1>4. /\ queue' \in [Jobs -> Seq(Entry)]
      /\ Len(queue'[j]) = Len(queue[j]) /\ (queue'[j] = <<>> <=> queue[j] = <<>>)
      /\ queue'[j] # <<>> => queue'[j][1] = e
      /\ \A k \in Jobs \ {j} : queue'[k] = queue[k]
  BY <1>1, <1>3, QueueUpdated DEF ReapQueue, IInv
<1>5. PICK next \in CallType :
        /\ Moves(c, next)
        /\ \/ next = Idle
           \/ /\ next.op = "reap" /\ next.step = "row" /\ next.job = j
              /\ next.todo = call[c].todo
  BY <1>1, <1>2, Returned, WentTo, Nothing DEF ReapQueue, IInv, CallSteps
<1>6. Ahead(c, j, next) /\ call'[c] = next
  BY <1>1, <1>5, Nothing DEF Ahead, Moves
<1>7. Acts(c, j, next) /\ UNCHANGED <<job, dlq>>
  BY <1>4, <1>6, WritesQueue DEF ReapQueue, IInv, Shape
<1>8. QueuedRight(j)' /\ Known(j)'
  BY <1>1, <1>4, <1>7 DEF QueuedRight, Known, Joins
<1>9. Placed(c)'
  BY <1>1, <1>5, <1>6, <1>7, Nothing DEF Placed, StepOf, At, Known
<1>10. Restores(c, j, next)
  <2>1. ASSUME Whole(j) PROVE Waiting(j) /\ queue[j] # <<>> /\ j \notin call[c].todo
    BY <1>1, <1>2, <2>1 DEF InHand, Reads, Halfway
  <2>2. ASSUME Whole(j) PROVE Agree(j)'
    BY <1>3, <1>4, <1>7, <2>1, <2>2
       DEF Waiting, Unowned, Agree, DeadIsOut, Settled, ReviewStatus
  <2>3. QED
    BY <1>5, <2>1, <2>2, Nothing DEF Restores
<1>11. QED
  BY <1>7, <1>8, <1>9, <1>10, StepKeeps

-----------------------------------------------------------------------------
(* Where the status table lets a job come from (as in JobQueueProofs). *)
LEMMA Sources ==
  ASSUME NEW f \in Statuses, NEW s \in WorkflowStatus, CanTransition(f, s)
  PROVE  /\ f # "absent"
         /\ s = "processing" => f \in {"pending", "processing", "needs_replay"}
         /\ s = "completed" => f \in {"pending", "processing", "needs_replay", "completed"}
         /\ s = "failed" => f \in {"pending", "processing", "needs_replay", "failed"}
         /\ s \in ReviewStatus => f \in Settled
         /\ s = "needs_replay" => f \in WorkflowStatus
BY DEF CanTransition, Transitions, WorkflowStatus, Statuses, ReviewStatus, Settled

(* handleJobFailure. *)
LEMMA FailCheckKeeps ==
  ASSUME IInv, NEW c \in Calls, NEW j \in Jobs, FailCheck(c, j), Met(c)
  PROVE  IInv'
<1>1. PICK next : next = [Idle EXCEPT !.op = "fail", !.step = "read", !.job = j]
  OBVIOUS
<1>2. /\ next \in CallType /\ next.op = "fail" /\ next.step = "read" /\ next.job = j
      /\ next.todo = {}
  BY <1>1, Nothing DEF CallType, CallOps, CallSteps, Idle
<1>3. Moves(c, next) /\ call[c].op = "none" /\ call[c].todo = {}
  BY <1>1, <1>2, Started DEF FailCheck, IInv
<1>4. Ahead(c, j, next) /\ call'[c] = next
  BY <1>2, <1>3, Joined DEF Ahead, Moves, IInv
<1>5. Known(j) /\ Unsettled(j)
  <2>1. job[j].status \in Statuses /\ "failed" \in WorkflowStatus
    BY RowIs DEF IInv, WorkflowStatus
  <2>2. QED
    BY <2>1, Sources DEF FailCheck, Known, Unsettled
<1>6. Placed(c)'
  BY <1>2, <1>4, <1>5 DEF FailCheck, Placed, StepOf, At, Known
<1>7. Reads(c, j)'
  BY <1>2, <1>4, <1>5 DEF FailCheck, Reads, Unsettled
<1>8. ASSUME Whole(j) PROVE Agree(j)
  BY <1>3, <1>4, <1>8, AllAgree DEF Ahead
<1>9. QED
  BY <1>2, <1>4, <1>5, <1>6, <1>7, <1>8, OnlyReads DEF FailCheck

LEMMA FailReadKeeps ==
  ASSUME IInv, NEW c \in Calls, FailRead(c), Joins(c, call[c].job)
  PROVE  IInv'
<1>1. PICK j \in Jobs : j = call[c].job /\ Known(j) /\ Placed(c) /\ (Whole(j) => InHand(c, j))
  BY Underway DEF FailRead, At
<1>2. call[c].op = "fail" /\ call[c].step = "read"
  BY DEF FailRead, At
<1>3. call[c] \in CallType /\ job[j] \in JobRow /\ call[c].todo = {}
  BY <1>1, <1>2 DEF IInv, Shape, Placed
<1>3a. PICK seen : seen = [NoRow EXCEPT !.attemptCount = job[j].attemptCount]
  OBVIOUS
<1>3b. seen \in JobRow /\ seen.attemptCount = job[j].attemptCount
  BY <1>3, <1>3a, Nothing DEF JobRow
<1>3c. PICK now \in Clocks :
        call' = [call EXCEPT ![c] = [call[c] EXCEPT !.step = "row", !.seen = seen,
                                                    !.seconds = now + Backoff]]
  BY <1>1, <1>3a DEF FailRead, IInv, Shape
<1>4. PICK next : next = [call[c] EXCEPT !.step = "row", !.seen = seen,
                                         !.seconds = now + Backoff]
  OBVIOUS
<1>5. /\ next \in CallType /\ next.op = "fail" /\ next.step = "row" /\ next.job = j
      /\ next.todo = {} /\ next.seen = seen
  <2>1. now + Backoff \in Int
    BY ConstantsAssumption
  <2>2. QED
    BY <1>1, <1>2, <1>3, <1>3b, <1>4, <2>1 DEF CallType, CallSteps
<1>6. call' = [call EXCEPT ![c] = next]
  BY <1>3c, <1>4
<1>7. Ahead(c, j, next) /\ call'[c] = next
  BY <1>1, <1>5, <1>6, Moved DEF Ahead, IInv, Moves
<1>8. Placed(c)'
  BY <1>1, <1>5, <1>7 DEF FailRead, Placed, StepOf, At, Known
<1>9. ASSUME Whole(j) PROVE Agree(j) /\ Reads(c, j)'
  <2>1. Agree(j) /\ Unsettled(j)
    BY <1>1, <1>2, <1>9 DEF InHand, Reads, Halfway
  <2>2. QED
    BY <1>3b, <1>5, <1>7, <2>1 DEF FailRead, Reads, Unsettled
<1>10. QED
  BY <1>1, <1>5, <1>7, <1>8, <1>9, OnlyReads DEF FailRead

LEMMA FailRowKeeps ==
  ASSUME IInv, NEW c \in Calls, FailRow(c), Joins(c, call[c].job)
  PROVE  IInv'
<1>1. PICK j \in Jobs : j = call[c].job /\ Known(j) /\ QueuedRight(j) /\ Placed(c)
                         /\ (Whole(j) => InHand(c, j))
  BY Underway DEF FailRow, At
<1>2. call[c].op = "fail" /\ call[c].step = "row"
  BY DEF FailRow, At
<1>3. /\ call[c] \in CallType /\ job[j].attemptCount \in 0 .. AttemptCap /\ call[c].todo = {}
      /\ call[c].seen.attemptCount \in 0 .. AttemptCap
  BY <1>1, <1>2, RowIs, CallIs DEF IInv, Placed
<1>4. PICK s : s = IF call[c].seen.attemptCount < MaxAttempts THEN "pending" ELSE "failed"
  OBVIOUS
<1>5. s \in {"pending", "failed"} /\ s \in Statuses
  BY <1>4 DEF Statuses, WorkflowStatus
<1>6. PICK row \in JobRow :
        /\ row = Row(s, job[j].attemptCount, None, 0) /\ row.status = s
        /\ row.leaseOwner = None /\ row.leaseLeft = 0
        /\ row.attemptCount = job[j].attemptCount
  BY <1>3, <1>5, RowType
<1>7. PICK next : next = [call[c] EXCEPT !.step = "delete", !.to = s]
  OBVIOUS
<1>8. /\ next \in CallType /\ next.op = "fail" /\ next.step = "delete" /\ next.job = j
      /\ next.to = s /\ next.todo = {}
  BY <1>1, <1>2, <1>3, <1>5, <1>7 DEF CallType, CallSteps, WorkflowStatus
<1>9. call' = [call EXCEPT ![c] = next] /\ UpdateJob(j, row)
  BY <1>1, <1>4, <1>6, <1>7 DEF FailRow, IInv, Shape
<1>10. Ahead(c, j, next) /\ call'[c] = next
  BY <1>1, <1>8, <1>9, Moved DEF Ahead, IInv, Moves
<1>11. Acts(c, j, next) /\ job'[j] = row /\ UNCHANGED <<queue, dlq>>
  BY <1>6, <1>9, <1>10, WritesJob DEF FailRow
<1>12. QueuedRight(j)' /\ Known(j)'
  BY <1>1, <1>5, <1>6, <1>11 DEF QueuedRight, Known, Joins
<1>13. Placed(c)'
  BY <1>1, <1>5, <1>6, <1>8, <1>10, <1>11 DEF Placed, StepOf, At, Known
<1>14. Restores(c, j, next)
  <2>1. ASSUME Whole(j) PROVE Agree(j) /\ call[c].seen.attemptCount = job[j].attemptCount
    BY <1>1, <1>2, <2>1 DEF InHand, Reads, Halfway
  <2>2. ASSUME Whole(j)
        PROVE  DeadIsOut(j)' /\ (IF s = "pending" THEN j \notin dlq ELSE UsedUp(j)')
    BY <1>3, <1>4, <1>6, <1>11, <2>1, <2>2, ConstantsAssumption DEF Agree, DeadIsOut, UsedUp
  <2>3. ASSUME Whole(j) PROVE Halfway(c, j)'
    BY <1>6, <1>8, <1>10, <1>11, <2>2, <2>3 DEF Halfway, Unowned
  <2>4. QED
    BY <1>8, <2>3 DEF Restores, InHand
<1>15. QED
  BY <1>11, <1>12, <1>13, <1>14, StepKeeps

LEMMA FailDeleteKeeps ==
  ASSUME IInv, NEW c \in Calls, FailDelete(c), Joins(c, call[c].job)
  PROVE  IInv'
<1>1. PICK j \in Jobs : j = call[c].job /\ Known(j) /\ QueuedRight(j) /\ Placed(c)
                         /\ (Whole(j) => InHand(c, j))
  BY Underway DEF FailDelete, At
<1>2. call[c].op = "fail" /\ call[c].step = "delete" /\ call[c].todo = {}
  BY <1>1 DEF FailDelete, At, Placed
<1>3. PICK next \in CallType :
        /\ Moves(c, next) /\ next.step = "insert" /\ next.op = "fail" /\ next.job = j
        /\ next.to = call[c].to /\ next.todo = {}
  BY <1>1, <1>2, WentTo DEF FailDelete, IInv, CallSteps
<1>4. Ahead(c, j, next) /\ call'[c] = next
  BY <1>1, <1>3 DEF Ahead, Moves
<1>5. queue' \in [Jobs -> Seq(Entry)] /\ queue'[j] = <<>>
      /\ \A k \in Jobs \ {j} : queue'[k] = queue[k]
  BY <1>1, QueueDeleted DEF FailDelete, IInv
<1>6. Acts(c, j, next) /\ UNCHANGED <<job, dlq>>
  BY <1>4, <1>5, WritesQueue DEF FailDelete, IInv, Shape
<1>7. QueuedRight(j)' /\ Known(j)'
  BY <1>1, <1>5, <1>6, EmptySeq DEF QueuedRight, Known, Joins
<1>8. Placed(c)'
  BY <1>1, <1>2, <1>3, <1>4, <1>5, <1>6 DEF Placed, StepOf, At, Known
<1>9. Restores(c, j, next)
  <2>1. ASSUME Whole(j)
        PROVE  /\ job[j].status = call[c].to /\ Unowned(j) /\ DeadIsOut(j)
               /\ IF call[c].to = "pending" THEN j \notin dlq ELSE UsedUp(j)
    BY <1>1, <1>2, <2>1 DEF InHand, Reads, Halfway
  <2>2. ASSUME Whole(j) PROVE Halfway(c, j)'
    BY <1>3, <1>4, <1>5, <1>6, <2>1, <2>2 DEF Halfway, Unowned, DeadIsOut, UsedUp
  <2>3. QED
    BY <1>3, <2>2 DEF Restores, InHand
<1>10. QED
  BY <1>6, <1>7, <1>8, <1>9, StepKeeps

LEMMA FailInsertKeeps ==
  ASSUME IInv, NEW c \in Calls, FailInsert(c), Joins(c, call[c].job)
  PROVE  IInv'
<1>1. PICK j \in Jobs : j = call[c].job /\ Known(j) /\ QueuedRight(j) /\ Placed(c)
                         /\ (Whole(j) => InHand(c, j))
  BY Underway DEF FailInsert, At
<1>2. /\ call[c].op = "fail" /\ call[c].step = "insert" /\ (j \notin crossed' => queue[j] = <<>>)
      /\ call[c].to \in {"pending", "failed"} /\ call[c].seconds \in Int
  BY <1>1, CallIs DEF FailInsert, At, Placed, IInv, Joins
<1>3. Ahead(c, j, Idle) /\ call'[c] = Idle
  BY <1>1, Returned, Nothing DEF FailInsert, Ahead, IInv, Moves
<1>4. Placed(c)'
  BY <1>3, Nothing DEF Placed, StepOf, At
<1>5. ASSUME Whole(j)
      PROVE  /\ job[j].status = call[c].to /\ Unowned(j) /\ DeadIsOut(j)
             /\ IF call[c].to = "pending" THEN j \notin dlq ELSE UsedUp(j)
  BY <1>1, <1>2, <1>5 DEF InHand, Reads, Halfway
<1>6. CASE call[c].to = "pending"
  <2>1. /\ queue' \in [Jobs -> Seq(Entry)] /\ \A k \in Jobs \ {j} : queue'[k] = queue[k]
        /\ j \notin crossed' =>
             Len(queue'[j]) <= 1 /\ queue'[j] # <<>> /\ ~queue'[j][1].leased
    BY <1>1, <1>2, <1>6, QueueInserted DEF FailInsert, IInv
  <2>2. Acts(c, j, Idle) /\ UNCHANGED <<job, dlq>>
    BY <1>3, <1>6, <2>1, WritesQueue DEF FailInsert, IInv, Shape
  <2>3. QueuedRight(j)' /\ Known(j)'
    BY <1>1, <2>1, <2>2 DEF QueuedRight, Known, Joins
  <2>4. ASSUME Whole(j) PROVE Agree(j)'
    BY <1>5, <1>6, <2>1, <2>2, <2>4
       DEF Whole, Unowned, Agree, DeadIsOut, Settled, ReviewStatus
  <2>5. Restores(c, j, Idle)
    BY <2>4, Nothing DEF Restores
  <2>6. QED
    BY <1>4, <2>2, <2>3, <2>5, StepKeeps
<1>7. CASE call[c].to = "failed"
  <2>1. dlq' = dlq \cup {j} /\ UNCHANGED <<job, queue, holds>>
    BY <1>1, <1>7 DEF FailInsert
  <2>2. Acts(c, j, Idle)
    BY <1>3, <2>1, WritesDlq
  <2>3. QueuedRight(j)' /\ Known(j)'
    BY <1>1, <2>1 DEF QueuedRight, Known, Joins
  <2>4. ASSUME Whole(j) PROVE Agree(j)'
    BY <1>2, <1>5, <1>7, <2>1, <2>4
       DEF Whole, Unowned, Agree, DeadIsOut, UsedUp, Settled, ReviewStatus
  <2>5. Restores(c, j, Idle)
    BY <2>4, Nothing DEF Restores
  <2>6. QED
    BY <1>4, <2>2, <2>3, <2>5, StepKeeps
<1>8. QED
  BY <1>2, <1>6, <1>7

-----------------------------------------------------------------------------
(* setJobStatus. *)
LEMMA StatusReadKeeps ==
  ASSUME IInv, NEW c \in Calls, NEW j \in Jobs, NEW s \in Targets,
         StatusRead(c, j, s), Met(c)
  PROVE  IInv'
<1>1. job[j] \in JobRow /\ job[j].leaseLeft \in Int /\ s \in WorkflowStatus
  BY RowIs, ConstantsAssumption DEF IInv
<1>2. PICK next : next = [Idle EXCEPT !.op = "status", !.step = "row", !.job = j, !.to = s,
                                      !.seen = [NoRow EXCEPT !.leaseOwner = job[j].leaseOwner],
                                      !.seconds = job[j].leaseLeft]
  OBVIOUS
<1>3. /\ next \in CallType /\ next.op = "status" /\ next.step = "row" /\ next.job = j
      /\ next.to = s /\ next.seen.leaseOwner = job[j].leaseOwner
      /\ next.seconds = job[j].leaseLeft /\ next.todo = {}
  <2>1. PICK seen : seen = [NoRow EXCEPT !.leaseOwner = job[j].leaseOwner]
    OBVIOUS
  <2>2. seen \in JobRow /\ seen.leaseOwner = job[j].leaseOwner
    BY <1>1, <2>1, Nothing DEF JobRow
  <2>3. QED
    BY <1>1, <1>2, <2>1, <2>2, Nothing DEF CallType, CallOps, CallSteps, Idle
<1>4. Moves(c, next) /\ call[c].op = "none" /\ call[c].todo = {}
  BY <1>2, <1>3, Started DEF StatusRead, IInv
<1>5. Ahead(c, j, next) /\ call'[c] = next
  BY <1>3, <1>4, Joined DEF Ahead, Moves, IInv
<1>5a. Known(j)
  BY DEF StatusRead, Known
<1>6. Placed(c)'
  BY <1>3, <1>5 DEF StatusRead, Placed, StepOf, At, Known
<1>7. Reads(c, j)'
  BY <1>3, <1>5 DEF StatusRead, Reads
<1>8. ASSUME Whole(j) PROVE Agree(j)
  BY <1>4, <1>5, <1>8, AllAgree DEF Ahead
<1>9. QED
  BY <1>3, <1>5, <1>5a, <1>6, <1>7, <1>8, OnlyReads DEF StatusRead

(* The row as setJobStatus writes it: tables that agreed do so again, unless *)
(* the queue entry is still to be deleted.                                   *)
LEMMA StatusWritten ==
  ASSUME IInv, NEW j \in Jobs, NEW s \in Targets, Agree(j), CanTransition(job[j].status, s),
         UNCHANGED <<queue, dlq>>, job'[j].status = s,
         job'[j].attemptCount = job[j].attemptCount,
         IF s = "processing"
         THEN job'[j].leaseOwner = job[j].leaseOwner /\ job'[j].leaseLeft = job[j].leaseLeft
         ELSE Unowned(j)'
  PROVE  /\ s \notin {"completed", "failed"} => Agree(j)'
         /\ s = "failed" => DeadIsOut(j)'
<1>1. job[j].status \in Statuses /\ s \in WorkflowStatus /\ s # "pending"
  BY RowIs, ConstantsAssumption DEF IInv
<1>2. /\ s = "processing" => job[j].status \in {"pending", "processing", "needs_replay"}
      /\ s \in ReviewStatus => job[j].status \in Settled
  BY <1>1, Sources
<1>3. DeadIsOut(j)'
  BY DEF Agree, DeadIsOut, UsedUp
<1>4. CASE s = "processing"
  <2>1. job[j].leaseOwner # None => InUse(j)' /\ queue'[j][1].left = job'[j].leaseLeft
    BY <1>4 DEF Agree, InUse
  <2>2. QED
    BY <1>2, <1>3, <1>4, <2>1 DEF Agree, Settled, ReviewStatus
<1>5. CASE s = "needs_replay"
  BY <1>3, <1>5 DEF Agree, Unowned, Settled, ReviewStatus
<1>6. CASE s \in ReviewStatus
  <2>1. job[j].status \in Settled
    BY <1>2, <1>6
  <2>2. queue[j] = <<>> /\ j \notin dlq
    BY <2>1 DEF Agree
  <2>3. s \notin {"pending", "processing", "failed", "absent"}
    BY <1>6 DEF ReviewStatus
  <2>4. QED
    BY <1>3, <1>6, <2>2, <2>3 DEF Agree, Unowned
<1>7. s \in {"completed", "failed", "processing", "needs_replay"} \cup ReviewStatus
  BY <1>1 DEF WorkflowStatus
<1>8. QED
  BY <1>3, <1>4, <1>5, <1>6, <1>7

LEMMA StatusRowKeeps ==
  ASSUME IInv, NEW c \in Calls, StatusRow(c), Joins(c, call[c].job)
  PROVE  IInv'
<1>1. PICK j \in Jobs : j = call[c].job /\ Known(j) /\ QueuedRight(j) /\ Placed(c)
                         /\ (Whole(j) => InHand(c, j))
  BY Underway DEF StatusRow, At
<1>2. /\ call[c].op = "status" /\ call[c].step = "row" /\ call[c].todo = {}
      /\ call[c].to \in Targets
  BY <1>1 DEF StatusRow, At, Placed
<1>3. /\ job[j].attemptCount \in 0 .. AttemptCap /\ call[c].seconds \in Int
      /\ call[c].seen.leaseOwner \in Workers \cup {None}
      /\ call[c].to \in Statuses /\ call[c].to # "absent"
  BY <1>1, <1>2, RowIs, CallIs, ConstantsAssumption
     DEF IInv, Statuses, WorkflowStatus, ReviewStatus
<1>4. PICK w, t : /\ w = IF call[c].to = "processing" THEN call[c].seen.leaseOwner ELSE None
                  /\ t = IF w = None THEN 0 ELSE call[c].seconds
  OBVIOUS
<1>5. PICK row \in JobRow :
        /\ row = Row(call[c].to, job[j].attemptCount, w, t)
        /\ row.status = call[c].to /\ row.attemptCount = job[j].attemptCount
        /\ row.leaseOwner = w /\ row.leaseLeft = t
  <2>1. w \in Workers \cup {None} /\ t \in Int
    BY <1>3, <1>4
  <2>2. QED
    BY <1>3, <2>1, RowType
<1>6. PICK next \in CallType :
        /\ Moves(c, next)
        /\ IF call[c].to \in {"completed", "failed"}
           THEN /\ next.op = "status" /\ next.step = "delete" /\ next.job = j
                /\ next.to = call[c].to /\ next.todo = {}
           ELSE next = Idle
  BY <1>1, <1>2, Returned, WentTo, Nothing DEF StatusRow, IInv, CallSteps
<1>7. Ahead(c, j, next) /\ call'[c] = next
  BY <1>1, <1>6, Nothing DEF Ahead, Moves
<1>8. UpdateJob(j, row)
  BY <1>1, <1>4, <1>5 DEF StatusRow
<1>9. Acts(c, j, next) /\ job'[j] = row /\ UNCHANGED <<queue, dlq>>
  BY <1>5, <1>7, <1>8, WritesJob DEF StatusRow
<1>10. QueuedRight(j)' /\ Known(j)'
  BY <1>1, <1>2, <1>3, <1>4, <1>5, <1>9 DEF QueuedRight, Known, Joins
<1>11. Placed(c)'
  BY <1>2, <1>3, <1>5, <1>6, <1>7, <1>9, Nothing DEF Placed, StepOf, At, Known
<1>12. Restores(c, j, next)
  <2>1. ASSUME Whole(j)
        PROVE  /\ Agree(j) /\ CanTransition(job[j].status, call[c].to)
               /\ call[c].seen.leaseOwner = job[j].leaseOwner
               /\ job[j].leaseOwner # None => call[c].seconds = job[j].leaseLeft
    BY <1>1, <1>2, <2>1 DEF InHand, Reads, Halfway
  <2>2. ASSUME Whole(j)
        PROVE  /\ call[c].to \notin {"completed", "failed"} => Agree(j)'
               /\ call[c].to = "failed" => DeadIsOut(j)'
    <3>1. /\ call[c].to = "processing" =>
               row.leaseOwner = job[j].leaseOwner /\ row.leaseLeft = job[j].leaseLeft
          /\ call[c].to # "processing" => row.leaseOwner = None /\ row.leaseLeft = 0
      BY <1>1, <1>4, <1>5, <2>1, <2>2 DEF QueuedRight
    <3>2. QED
      BY <1>2, <1>5, <1>9, <2>1, <2>2, <3>1, StatusWritten DEF Unowned
  <2>3. ASSUME Whole(j), call[c].to \in {"completed", "failed"} PROVE Halfway(c, j)'
    BY <1>4, <1>5, <1>6, <1>7, <1>9, <2>2, <2>3 DEF Halfway, Unowned
  <2>4. QED
    BY <1>6, <2>2, <2>3, Nothing DEF Restores, InHand
<1>13. QED
  BY <1>9, <1>10, <1>11, <1>12, StepKeeps

LEMMA StatusDeleteKeeps ==
  ASSUME IInv, NEW c \in Calls, StatusDelete(c), Joins(c, call[c].job)
  PROVE  IInv'
<1>1. PICK j \in Jobs : j = call[c].job /\ Known(j) /\ QueuedRight(j) /\ Placed(c)
                         /\ (Whole(j) => InHand(c, j))
  BY Underway DEF StatusDelete, At
<1>2. /\ call[c].op = "status" /\ call[c].step = "delete" /\ call[c].todo = {}
      /\ call[c].to \in Targets
  BY <1>1 DEF StatusDelete, At, Placed
<1>3. PICK next \in CallType :
        /\ Moves(c, next)
        /\ IF call[c].to = "completed"
           THEN /\ next.op = "status" /\ next.step = "dlq" /\ next.job = j
                /\ next.to = call[c].to /\ next.todo = {}
           ELSE next = Idle
  BY <1>1, <1>2, Returned, WentTo, Nothing DEF StatusDelete, IInv, CallSteps
<1>4. Ahead(c, j, next) /\ call'[c] = next
  BY <1>1, <1>3, Nothing DEF Ahead, Moves
<1>5. queue' \in [Jobs -> Seq(Entry)] /\ queue'[j] = <<>>
      /\ \A k \in Jobs \ {j} : queue'[k] = queue[k]
  BY <1>1, QueueDeleted DEF StatusDelete, IInv
<1>6. Acts(c, j, next) /\ UNCHANGED <<job, dlq>>
  BY <1>4, <1>5, WritesQueue DEF StatusDelete, IInv, Shape
<1>7. QueuedRight(j)' /\ Known(j)'
  BY <1>1, <1>5, <1>6, EmptySeq DEF QueuedRight, Known, Joins
<1>8. Placed(c)'
  BY <1>1, <1>2, <1>3, <1>4, <1>5, <1>6, Nothing DEF Placed, StepOf, At, Known
<1>9. Restores(c, j, next)
  <2>1. ASSUME Whole(j)
        PROVE  /\ call[c].to \in {"completed", "failed"} /\ job[j].status = call[c].to
               /\ Unowned(j) /\ (call[c].to = "failed" => DeadIsOut(j))
    BY <1>1, <1>2, <2>1 DEF InHand, Reads, Halfway
  <2>2. ASSUME Whole(j), call[c].to = "completed" PROVE Halfway(c, j)'
    BY <1>3, <1>4, <1>5, <1>6, <2>1, <2>2 DEF Halfway, Unowned
  <2>3. ASSUME Whole(j), call[c].to # "completed" PROVE Agree(j)'
    BY <1>5, <1>6, <2>1, <2>3 DEF Agree, Unowned, DeadIsOut, UsedUp, Settled, ReviewStatus
  <2>4. QED
    BY <1>3, <2>2, <2>3, Nothing DEF Restores, InHand
<1>10. QED
  BY <1>6, <1>7, <1>8, <1>9, StepKeeps

LEMMA StatusDlqKeeps ==
  ASSUME IInv, NEW c \in Calls, StatusDlq(c), Joins(c, call[c].job)
  PROVE  IInv'
<1>1. PICK j \in Jobs : j = call[c].job /\ Known(j) /\ QueuedRight(j) /\ Placed(c)
                         /\ (Whole(j) => InHand(c, j))
  BY Underway DEF StatusDlq, At
<1>2. call[c].op = "status" /\ call[c].step = "dlq"
  BY DEF StatusDlq, At
<1>3. Ahead(c, j, Idle) /\ call'[c] = Idle
  BY <1>1, Returned, Nothing DEF StatusDlq, Ahead, IInv, Moves
<1>4. dlq' = dlq \ {j} /\ UNCHANGED <<job, queue, holds>>
  BY <1>1 DEF StatusDlq
<1>5. Acts(c, j, Idle)
  BY <1>3, <1>4, WritesDlq
<1>6. QueuedRight(j)' /\ Known(j)'
  BY <1>1, <1>4 DEF QueuedRight, Known, Joins
<1>7. Placed(c)'
  BY <1>3, Nothing DEF Placed, StepOf, At
<1>8. Restores(c, j, Idle)
  <2>1. ASSUME Whole(j) PROVE job[j].status = "completed" /\ Unowned(j) /\ queue[j] = <<>>
    BY <1>1, <1>2, <2>1 DEF InHand, Reads, Halfway
  <2>2. ASSUME Whole(j) PROVE Agree(j)'
    BY <1>4, <2>1, <2>2 DEF Agree, Unowned, DeadIsOut
  <2>3. QED
    BY <2>2, Nothing DEF Restores
<1>9. QED
  BY <1>5, <1>6, <1>7, <1>8, StepKeeps

-----------------------------------------------------------------------------
(* replayJob. *)
LEMMA ReplayCheckKeeps ==
  ASSUME IInv, NEW c \in Calls, NEW j \in Jobs, ReplayCheck(c, j), Met(c)
  PROVE  IInv'
<1>1. PICK next : next = [Idle EXCEPT !.op = "replay", !.step = "dlq", !.job = j]
  OBVIOUS
<1>2. /\ next \in CallType /\ next.op = "replay" /\ next.step = "dlq" /\ next.job = j
      /\ next.todo = {}
  BY <1>1, Nothing DEF CallType, CallOps, CallSteps, Idle
<1>3. Moves(c, next) /\ call[c].op = "none" /\ call[c].todo = {}
  BY <1>1, <1>2, Started DEF ReplayCheck, IInv
<1>4. Ahead(c, j, next) /\ call'[c] = next
  BY <1>2, <1>3, Joined DEF Ahead, Moves, IInv
<1>5. Known(j)
  BY DEF ReplayCheck, Known, IInv, QueuedRight
<1>6. Placed(c)'
  BY <1>2, <1>4, <1>5 DEF ReplayCheck, Placed, StepOf, At, Known
<1>7. ASSUME Whole(j) PROVE Agree(j) /\ Unsettled(j)
  <2>1. Agree(j) /\ job[j].status \in Statuses
    BY <1>3, <1>4, <1>7, AllAgree, RowIs DEF IInv, Ahead
  <2>2. QED
    BY <1>5, <2>1 DEF ReplayCheck, Agree, Unsettled, Known, Statuses, WorkflowStatus, Settled
<1>8. ASSUME Whole(j) PROVE Reads(c, j)'
  BY <1>2, <1>4, <1>7, <1>8 DEF ReplayCheck, Reads, Unsettled
<1>9. QED
  BY <1>2, <1>4, <1>5, <1>6, <1>7, <1>8, OnlyReads DEF ReplayCheck

LEMMA ReplayDlqKeeps ==
  ASSUME IInv, NEW c \in Calls, ReplayDlq(c), Joins(c, call[c].job)
  PROVE  IInv'
<1>1. PICK j \in Jobs : j = call[c].job /\ Known(j) /\ QueuedRight(j) /\ Placed(c)
                         /\ (Whole(j) => InHand(c, j))
  BY Underway DEF ReplayDlq, At
<1>2. call[c].op = "replay" /\ call[c].step = "dlq" /\ call[c].todo = {}
  BY <1>1 DEF ReplayDlq, At, Placed
<1>3. PICK next \in CallType :
        /\ Moves(c, next) /\ next.step = "row" /\ next.op = "replay" /\ next.job = j
        /\ next.todo = {}
  BY <1>1, <1>2, WentTo DEF ReplayDlq, IInv, CallSteps
<1>4. Ahead(c, j, next) /\ call'[c] = next
  BY <1>1, <1>3 DEF Ahead, Moves
<1>5. dlq' = dlq \ {j} /\ UNCHANGED <<job, queue, holds>>
  BY <1>1 DEF ReplayDlq
<1>6. Acts(c, j, next)
  BY <1>4, <1>5, WritesDlq
<1>7. QueuedRight(j)' /\ Known(j)'
  BY <1>1, <1>5 DEF QueuedRight, Known, Joins
<1>8. Placed(c)'
  BY <1>1, <1>3, <1>4, <1>5 DEF Placed, StepOf, At, Known
<1>9. Restores(c, j, next)
  <2>1. ASSUME Whole(j) PROVE Agree(j) /\ Unsettled(j)
    BY <1>1, <1>2, <2>1 DEF InHand, Reads, Halfway
  <2>2. ASSUME Whole(j) PROVE Agree(j)'
    BY <1>5, <2>1, <2>2 DEF Agree, InUse, DeadIsOut, UsedUp
  <2>3. ASSUME Whole(j) PROVE Reads(c, j)'
    BY <1>3, <1>4, <1>5, <2>1, <2>3 DEF Reads, Unsettled
  <2>4. QED
    BY <1>3, <2>2, <2>3 DEF Restores, InHand
<1>10. QED
  BY <1>6, <1>7, <1>8, <1>9, StepKeeps

LEMMA ReplayRowKeeps ==
  ASSUME IInv, NEW c \in Calls, ReplayRow(c), Joins(c, call[c].job)
  PROVE  IInv'
<1>1. PICK j \in Jobs : j = call[c].job /\ Known(j) /\ QueuedRight(j) /\ Placed(c)
                         /\ (Whole(j) => InHand(c, j))
  BY Underway DEF ReplayRow, At
<1>2. call[c].op = "replay" /\ call[c].step = "row" /\ call[c].todo = {}
  BY <1>1 DEF ReplayRow, At, Placed
<1>3. PICK next \in CallType :
        /\ Moves(c, next) /\ next.step = "delete" /\ next.op = "replay" /\ next.job = j
        /\ next.todo = {}
  BY <1>1, <1>2, WentTo DEF ReplayRow, IInv, CallSteps
<1>4. Ahead(c, j, next) /\ call'[c] = next
  BY <1>1, <1>3 DEF Ahead, Moves
<1>5. PICK row \in JobRow : row = Row("pending", 0, None, 0) /\ row.status = "pending"
                             /\ row.leaseOwner = None /\ row.leaseLeft = 0
  <2>1. 0 \in 0 .. AttemptCap
    BY ConstantsAssumption
  <2>2. QED
    BY <2>1, PendingRow
<1>6. Acts(c, j, next) /\ job'[j] = row /\ UNCHANGED <<queue, dlq>>
  BY <1>1, <1>4, <1>5, WritesJob DEF ReplayRow
<1>7. QueuedRight(j)' /\ Known(j)'
  BY <1>1, <1>5, <1>6 DEF QueuedRight, Known, Joins
<1>8. Placed(c)'
  BY <1>1, <1>3, <1>4, <1>5, <1>6 DEF Placed, StepOf, At, Known
<1>9. Restores(c, j, next)
  <2>1. ASSUME Whole(j) PROVE j \notin dlq
    BY <1>1, <1>2, <2>1 DEF InHand, Reads, Halfway
  <2>2. QED
    BY <1>3, <1>4, <1>5, <1>6, <2>1 DEF Restores, InHand, Halfway, Waiting, Unowned
<1>10. QED
  BY <1>6, <1>7, <1>8, <1>9, StepKeeps

LEMMA ReplayDeleteKeeps ==
  ASSUME IInv, NEW c \in Calls, ReplayDelete(c), Joins(c, call[c].job)
  PROVE  IInv'
<1>1. PICK j \in Jobs : j = call[c].job /\ Known(j) /\ QueuedRight(j) /\ Placed(c)
                         /\ (Whole(j) => InHand(c, j))
  BY Underway DEF ReplayDelete, At
<1>2. call[c].op = "replay" /\ call[c].step = "delete" /\ call[c].todo = {}
  BY <1>1 DEF ReplayDelete, At, Placed
<1>3. PICK next \in CallType :
        /\ Moves(c, next) /\ next.step = "insert" /\ next.op = "replay" /\ next.job = j
        /\ next.todo = {}
  BY <1>1, <1>2, WentTo DEF ReplayDelete, IInv, CallSteps
<1>4. Ahead(c, j, next) /\ call'[c] = next
  BY <1>1, <1>3 DEF Ahead, Moves
<1>5. queue' \in [Jobs -> Seq(Entry)] /\ queue'[j] = <<>>
      /\ \A k \in Jobs \ {j} : queue'[k] = queue[k]
  BY <1>1, QueueDeleted DEF ReplayDelete, IInv
<1>6. Acts(c, j, next) /\ UNCHANGED <<job, dlq>>
  BY <1>4, <1>5, WritesQueue DEF ReplayDelete, IInv, Shape
<1>7. QueuedRight(j)' /\ Known(j)'
  BY <1>1, <1>5, <1>6, EmptySeq DEF QueuedRight, Known, Joins
<1>8. Placed(c)'
  BY <1>1, <1>3, <1>4, <1>5, <1>6 DEF Placed, StepOf, At, Known
<1>9. Restores(c, j, next)
  <2>1. ASSUME Whole(j) PROVE Waiting(j)
    BY <1>1, <1>2, <2>1 DEF InHand, Reads, Halfway
  <2>2. QED
    BY <1>3, <1>4, <1>5, <1>6, <2>1 DEF Restores, InHand, Halfway, Waiting, Unowned
<1>10. QED
  BY <1>6, <1>7, <1>8, <1>9, StepKeeps

LEMMA ReplayInsertKeeps ==
  ASSUME IInv, NEW c \in Calls, ReplayInsert(c), Joins(c, call[c].job)
  PROVE  IInv'
<1>1. PICK j \in Jobs : j = call[c].job /\ Known(j) /\ QueuedRight(j) /\ Placed(c)
                         /\ (Whole(j) => InHand(c, j))
  BY Underway DEF ReplayInsert, At
<1>2. call[c].op = "replay" /\ call[c].step = "insert" /\ call[c].seconds \in Int
  BY CallIs DEF ReplayInsert, At, IInv
<1>3. /\ queue' \in [Jobs -> Seq(Entry)] /\ \A k \in Jobs \ {j} : queue'[k] = queue[k]
      /\ j \notin crossed' =>
           Len(queue'[j]) <= 1 /\ queue'[j] # <<>> /\ ~queue'[j][1].leased
  <2>1. j \notin crossed' => queue[j] = <<>>
    BY <1>1, <1>2 DEF Placed, Joins
  <2>2. QED
    BY <1>1, <1>2, <2>1, QueueInserted DEF ReplayInsert, IInv
<1>4. Ahead(c, j, Idle) /\ call'[c] = Idle
  BY <1>1, Returned, Nothing DEF ReplayInsert, Ahead, IInv, Moves
<1>5. Acts(c, j, Idle) /\ UNCHANGED <<job, dlq>>
  BY <1>3, <1>4, WritesQueue DEF ReplayInsert, IInv, Shape
<1>6. QueuedRight(j)' /\ Known(j)'
  BY <1>1, <1>3, <1>5 DEF QueuedRight, Known, Joins
<1>7. Placed(c)'
  BY <1>4, Nothing DEF Placed, StepOf, At
<1>8. Restores(c, j, Idle)
  <2>1. ASSUME Whole(j) PROVE Waiting(j)
    BY <1>1, <1>2, <2>1 DEF InHand, Reads, Halfway
  <2>2. ASSUME Whole(j) PROVE Agree(j)'
    BY <1>3, <1>5, <2>1, <2>2
       DEF Whole, Waiting, Unowned, Agree, DeadIsOut, Settled, ReviewStatus
  <2>3. QED
    BY <2>2, Nothing DEF Restores
<1>9. QED
  BY <1>5, <1>6, <1>7, <1>8, StepKeeps

-----------------------------------------------------------------------------
(* Time passes for the rows, the queue and the calls alike, so what was      *)
(* equal stays equal.                                                        *)
Sooner(t) == Kept(t - 1)

LEMMA SoonerIs ==
  /\ \A t \in Int : Sooner(t) \in Int
  /\ \A t \in Int, now \in Clocks : t <= now => Sooner(t) <= now
  /\ \A t \in LeaseTimes : Sooner(t) \in LeaseTimes
<1>1. Horizon \in Nat /\ \A now \in Clocks : now \in Int /\ -Horizon <= now
  BY ConstantsAssumption
<1>2. \A t \in Int : Sooner(t) \in Int
  BY <1>1 DEF Sooner, Kept
<1>3. ASSUME NEW t \in Int, NEW now \in Clocks, t <= now PROVE Sooner(t) <= now
  BY <1>1, <1>3 DEF Sooner, Kept
<1>4. ASSUME NEW t \in LeaseTimes PROVE Sooner(t) \in LeaseTimes
  <2>1. PICK now \in Clocks : t \in (-Horizon) .. (now + LeaseLength)
    BY DEF LeaseTimes
  <2>2. LeaseLength \in Nat
    BY ConstantsAssumption
  <2>3. Sooner(t) \in (-Horizon) .. (now + LeaseLength)
    BY <1>1, <2>1, <2>2 DEF Sooner, Kept
  <2>4. QED
    BY <2>3 DEF LeaseTimes
<1>5. QED
  BY <1>2, <1>3, <1>4

LEMMA QueueTicks ==
  ASSUME Shape, Tick, NEW j \in Jobs
  PROVE  /\ queue'[j] \in Seq(Entry) /\ Len(queue'[j]) = Len(queue[j])
         /\ queue'[j] = <<>> <=> queue[j] = <<>>
         /\ queue[j] # <<>> =>
              /\ queue'[j][1].leased = queue[j][1].leased
              /\ queue[j][1].leased => /\ queue[j][1].left \in Int
                                       /\ queue'[j][1].left = Sooner(queue[j][1].left)
<1>1. queue[j] \in Seq(Entry)
  BY DEF Shape
<1>2. DOMAIN queue[j] = 1 .. Len(queue[j]) /\ Len(queue[j]) \in Nat
  BY <1>1
<1>3. PICK q : q = [i \in DOMAIN queue[j] |-> [queue[j][i] EXCEPT
                       !.wait = Kept(@ - 1),
                       !.left = IF queue[j][i].leased THEN Kept(@ - 1) ELSE 0]]
  OBVIOUS
<1>4. queue'[j] = q
  BY <1>3 DEF Tick
<1>5. ASSUME NEW i \in DOMAIN queue[j]
      PROVE  /\ q[i] \in Entry /\ q[i].leased = queue[j][i].leased
             /\ queue[j][i].leased => /\ queue[j][i].left \in Int
                                      /\ q[i].left = Sooner(queue[j][i].left)
  <2>1. PICK e \in Entry : e = queue[j][i]
    BY <1>1
  <2>2. PICK w, t : w = Sooner(e.wait) /\ t = IF e.leased THEN Sooner(e.left) ELSE 0
    OBVIOUS
  <2>3. w \in Int /\ t \in Int /\ e.leased \in BOOLEAN /\ e.left \in Int
    BY <2>2, SoonerIs DEF Entry
  <2>4. q[i] = [e EXCEPT !.wait = w, !.left = t]
    BY <1>3, <2>1, <2>2 DEF Sooner
  <2>5. q[i] \in Entry /\ q[i].leased = e.leased /\ q[i].left = t
    BY <2>3, <2>4 DEF Entry
  <2>6. QED
    BY <2>1, <2>2, <2>3, <2>5
<1>6. q \in Seq(Entry) /\ Len(q) = Len(queue[j])
  <2>1. q \in [1 .. Len(queue[j]) -> Entry]
    BY <1>2, <1>3, <1>5
  <2>2. QED
    BY <1>2, <2>1
<1>7. (q = <<>> <=> queue[j] = <<>>) /\ (queue[j] # <<>> => 1 \in DOMAIN queue[j])
  BY <1>1, <1>6, LongAs
<1>8. QED
  BY <1>4, <1>5, <1>6, <1>7

LEMMA CallTicks ==
  ASSUME Shape, Tick, NEW c \in Calls
  PROVE  /\ call'[c] \in CallType
         /\ call'[c].op = call[c].op /\ call'[c].step = call[c].step
         /\ call'[c].job = call[c].job /\ call'[c].worker = call[c].worker
         /\ call'[c].to = call[c].to /\ call'[c].seen = call[c].seen
         /\ call'[c].todo = call[c].todo
         /\ call[c] # Idle => call'[c].seconds = Sooner(call[c].seconds)
         /\ call[c] = Idle => call'[c] = Idle
<1>1. PICK r \in CallType : r = call[c]
  BY DEF Shape
<1>2. CASE r = Idle
  BY <1>1, <1>2 DEF Tick
<1>3. CASE r # Idle
  <2>1. PICK t : t = Sooner(r.seconds)
    OBVIOUS
  <2>2. t \in Int
    BY <2>1, SoonerIs DEF CallType
  <2>3. call'[c] = [r EXCEPT !.seconds = t]
    BY <1>1, <1>3, <2>1 DEF Tick, Sooner
  <2>4. QED
    BY <1>1, <1>3, <2>1, <2>2, <2>3 DEF CallType
<1>4. QED
  BY <1>2, <1>3

LEMMA JobTicks ==
  ASSUME Shape, Tick, NEW j \in Jobs
  PROVE  /\ job'[j] \in JobRow /\ job'[j].status = job[j].status
         /\ job'[j].attemptCount = job[j].attemptCount
         /\ job'[j].leaseOwner = job[j].leaseOwner
         /\ job'[j].leaseLeft =
              IF job[j].leaseOwner = None THEN 0 ELSE Sooner(job[j].leaseLeft)
<1>1. PICK r \in JobRow : r = job[j]
  BY DEF Shape
<1>2. PICK t : t = IF r.leaseOwner = None THEN 0 ELSE Sooner(r.leaseLeft)
  OBVIOUS
<1>3. t \in Int
  BY <1>2, SoonerIs DEF JobRow
<1>4. job'[j] = [r EXCEPT !.leaseLeft = t]
  BY <1>1, <1>2 DEF Tick, Sooner
<1>5. QED
  BY <1>1, <1>2, <1>3, <1>4 DEF JobRow

LEMMA TickKeeps ==
  ASSUME IInv, Tick, UNCHANGED <<failed, crossed>>
  PROVE  IInv'
<1>1. Shape
  BY DEF IInv
<1>2. dlq' = dlq /\ holds' = holds /\ failed' = failed /\ crossed' = crossed
  BY Zenon DEF Tick
<1>3. Shape'
  <2>1. job' \in [Jobs -> JobRow]
    BY <1>1, JobTicks DEF Tick
  <2>2. queue' \in [Jobs -> Seq(Entry)]
    BY <1>1, QueueTicks DEF Tick
  <2>3. call' \in [Calls -> CallType]
    BY <1>1, CallTicks DEF Tick
  <2>4. QED
    BY <1>1, <1>2, <2>1, <2>2, <2>3 DEF Shape
<1>4. ASSUME NEW j \in Jobs PROVE QueuedRight(j)'
  <2>1. QueuedRight(j)
    BY DEF IInv
  <2>2. QED
    BY <1>1, <1>2, <2>1, JobTicks, QueueTicks DEF QueuedRight, Known
<1>5. \A j \in Jobs : /\ Known(j)' <=> Known(j)
                      /\ Unsettled(j)' <=> Unsettled(j)
                      /\ Unowned(j) => Unowned(j)'
                      /\ DeadIsOut(j) => DeadIsOut(j)'
                      /\ UsedUp(j)' <=> UsedUp(j)
                      /\ InUse(j)' <=> InUse(j)
  BY <1>1, <1>2, JobTicks, QueueTicks
     DEF Known, Unsettled, Unowned, DeadIsOut, UsedUp, InUse
<1>6. ASSUME NEW c \in Calls PROVE Placed(c)'
  <2>1. Placed(c) /\ call[c].seconds \in Int /\ call[c].todo \subseteq Jobs
    BY <1>1, CallIs DEF IInv
  <2>2. call[c].op \in {"claim", "heartbeat"} => call'[c].seconds \in LeaseTimes
    BY <1>1, <2>1, SoonerIs, Nothing, CallTicks DEF Placed
  <2>3. call[c].op # "none" /\ ~At(c, "reap", "row") =>
          call[c].job \in Jobs /\ job'[call[c].job].status # "absent"
    <3>1. PICK k : k = call[c].job
      OBVIOUS
    <3>2. call[c].op # "none" /\ ~At(c, "reap", "row") => k \in Jobs /\ Known(k)
      BY <2>1, <3>1 DEF Placed
    <3>3. QED
      BY <1>1, <1>5, <3>1, <3>2 DEF Known
  <2>4. call[c].step = "insert" /\ call[c].job \notin crossed => queue'[call[c].job] = <<>>
    BY <1>1, <2>1, <2>3, QueueTicks DEF Placed, StepOf, At
  <2>5. \A k \in call[c].todo : job'[k].status # "absent"
    BY <1>5, <2>1 DEF Placed, Known
  <2>6. QED
    BY <1>1, <1>2, <2>1, <2>2, <2>3, <2>4, <2>5, CallTicks DEF Placed, At, Known
<1>7. Apart'
  <2>1. \A c \in Calls : Hand(c)' = Hand(c)
    BY <1>1, CallTicks DEF Hand
  <2>2. QED
    BY <1>2, <2>1 DEF IInv, Apart
<1>8. Consistent'
  <2>1. Sound' = Sound /\ Sound \subseteq Jobs
    BY <1>2 DEF Sound
  <2>2. ASSUME NEW j \in Jobs, Agree(j) PROVE Agree(j)'
    BY <1>1, <1>2, <1>5, <2>2, JobTicks, QueueTicks DEF Agree, InUse
  <2>3. ASSUME NEW c \in Calls, NEW j \in Jobs, Halfway(c, j) PROVE Halfway(c, j)'
    <3>1. call[c] # Idle
      BY <2>3, Nothing DEF Halfway
    <3>2. QED
      BY <1>1, <1>2, <1>5, <2>3, <3>1, JobTicks, QueueTicks, CallTicks
         DEF Halfway, Waiting, Given
  <2>4. ASSUME NEW c \in Calls, NEW j \in Jobs, Reads(c, j) PROVE Reads(c, j)'
    <3>1. call[c] # Idle
      BY <2>4, Nothing DEF Reads
    <3>2. QED
      BY <1>1, <1>2, <1>5, <2>4, <3>1, JobTicks, CallTicks DEF Reads
  <2>5. ASSUME NEW j \in Jobs, Dead(j) PROVE Dead(j)'
    BY <1>1, <1>5, <2>5, JobTicks, QueueTicks, SoonerIs DEF Dead, InUse
  <2>6. \A j \in Sound : Agree(j)' \/ \E c \in Calls : call'[c].job = j /\ Halfway(c, j)'
    BY <1>1, <2>1, <2>2, <2>3, CallTicks DEF IInv, Consistent
  <2>7. ASSUME NEW c \in Calls, call'[c].op # "none", ~At(c, "reap", "row")',
               NEW k \in Sound, k = call'[c].job
        PROVE  InHand(c, k)'
    <3>1. k = call[c].job /\ k \in Jobs /\ call[c].op # "none" /\ ~At(c, "reap", "row")
      BY <1>1, <2>1, <2>7, CallTicks DEF At
    <3>2. InHand(c, k)
      BY <3>1 DEF IInv, Consistent
    <3>3. QED
      BY <2>2, <2>3, <2>4, <3>1, <3>2 DEF InHand
  <2>8. \A c \in Calls : call'[c].op # "none" /\ ~At(c, "reap", "row")'
          /\ call'[c].job \in Sound' => InHand(c, call[c].job)'
    <3>1. TAKE c \in Calls
    <3>2. PICK k : k = call'[c].job
      OBVIOUS
    <3>3. call'[c].op # "none" /\ ~At(c, "reap", "row")' /\ k \in Sound' => InHand(c, k)'
      BY <2>1, <2>7, <3>2
    <3>4. QED
      BY <3>2, <3>3
  <2>9. \A c \in Calls : \A k \in call'[c].todo \cap Sound : Dead(k)' /\ Agree(k)'
    BY <1>1, <2>1, <2>2, <2>5, CallTicks DEF IInv, Consistent
  <2>10. QED
    BY <2>1, <2>6, <2>8, <2>9 DEF Consistent
<1>9. QED
  BY <1>3, <1>4, <1>6, <1>7, <1>8 DEF IInv

(* No table is concerned when a worker is done with its job, or gone. *)
LEMMA TablesUntouched ==
  ASSUME IInv, UNCHANGED <<job, queue, dlq, call, failed, crossed>>,
         holds' \in [Workers -> Jobs \cup {None}]
  PROVE  IInv'
<1>1. /\ job' = job /\ queue' = queue /\ dlq' = dlq /\ call' = call
      /\ failed' = failed /\ crossed' = crossed
  OBVIOUS
<1>2. Shape'
  BY <1>1 DEF IInv, Shape
<1>3. (\A j \in Jobs : QueuedRight(j)') /\ Apart'
  BY <1>1 DEF IInv, QueuedRight, Known, Apart, Hand
<1>4. \A c \in Calls : Placed(c)'
  BY <1>1 DEF IInv, Placed, StepOf, At, Known
<1>5. Consistent'
  <2>1. \A j \in Jobs : Agree(j)' = Agree(j) /\ Dead(j)' = Dead(j)
    BY <1>1 DEF Agree, Dead, DeadIsOut, UsedUp, InUse
  <2>2. \A c \in Calls, j \in Jobs : Reads(c, j)' = Reads(c, j)
    BY <1>1 DEF Reads, Unsettled
  <2>3. \A c \in Calls, j \in Jobs : Halfway(c, j)' = Halfway(c, j)
    BY <1>1 DEF Halfway, Waiting, Unowned, DeadIsOut, UsedUp, InUse, Given
  <2>4. Sound' = Sound /\ Sound \subseteq Jobs
    BY <1>1 DEF Sound
  <2>5. QED
    BY <1>1, <2>1, <2>2, <2>3, <2>4 DEF IInv, Consistent, InHand, At
<1>6. QED
  BY <1>2, <1>3, <1>4, <1>5 DEF IInv

(* A statement throws: the jobs the call had in hand are Sound no more. *)
LEMMA StatementFailsKeeps ==
  ASSUME IInv, NEW c \in Calls, StatementFails(c)
  PROVE  IInv'
<1>1. /\ job' = job /\ queue' = queue /\ dlq' = dlq /\ holds' = holds
      /\ crossed' = crossed /\ failed' = failed \cup Hand(c)
  BY DEF StatementFails
<1>2. Moves(c, Idle)
  BY Returned DEF StatementFails, IInv
<1>3. call'[c] = Idle /\ \A d \in Calls \ {c} : call'[d] = call[d]
  BY <1>2 DEF Moves
<1>4. Hand(c) \subseteq Jobs
  BY CallIs DEF Hand, IInv
<1>5. Shape'
  BY <1>1, <1>2, <1>4 DEF IInv, Shape, Moves
<1>6. \A j \in Jobs : QueuedRight(j)'
  BY <1>1 DEF IInv, QueuedRight, Known
<1>7. ASSUME NEW d \in Calls PROVE Placed(d)'
  <2>1. CASE d = c
    BY <1>3, <2>1, Nothing DEF Placed, StepOf, At
  <2>2. CASE d # c
    BY <1>1, <1>3, <2>2 DEF IInv, Placed, StepOf, At, Known
  <2>3. QED
    BY <2>1, <2>2
<1>8. Apart'
  <2>1. Hand(c)' = {} /\ \A d \in Calls \ {c} : Hand(d)' = Hand(d)
    BY <1>3, Nothing DEF Hand
  <2>2. QED
    BY <1>1, <2>1 DEF IInv, Apart
<1>9. Consistent'
  <2>1. \A j \in Sound' : j \in Sound /\ j \in Jobs /\ (j # None => call[c].job # j)
    BY <1>1 DEF Sound, Hand
  <2>2. \A j \in Jobs : Agree(j)' = Agree(j) /\ Dead(j)' = Dead(j)
    BY <1>1 DEF Agree, Dead, DeadIsOut, UsedUp, InUse
  <2>3. \A d \in Calls \ {c}, j \in Jobs : Reads(d, j)' = Reads(d, j)
    BY <1>1, <1>3 DEF Reads, Unsettled
  <2>4. \A d \in Calls \ {c}, j \in Jobs : Halfway(d, j)' = Halfway(d, j)
    BY <1>1, <1>3 DEF Halfway, Waiting, Unowned, DeadIsOut, UsedUp, InUse, Given
  <2>5. ASSUME NEW j \in Sound'
        PROVE  Agree(j)' \/ \E d \in Calls : call'[d].job = j /\ Halfway(d, j)'
    <3>1. Agree(j) \/ \E d \in Calls : call[d].job = j /\ Halfway(d, j)
      BY <2>1 DEF IInv, Consistent
    <3>2. call[c].job # j
      BY <2>1, Nothing
    <3>3. QED
      BY <1>3, <2>1, <2>2, <2>4, <3>1, <3>2
  <2>6. ASSUME NEW d \in Calls
        PROVE  /\ call'[d].op # "none" /\ ~At(d, "reap", "row")' /\ call'[d].job \in Sound' =>
                    InHand(d, call[d].job)'
               /\ \A k \in call'[d].todo \cap Sound' : Dead(k)' /\ Agree(k)'
    <3>1. CASE d = c
      BY <1>3, <3>1, Nothing
    <3>2. CASE d # c
      BY <1>3, <2>1, <2>2, <2>3, <2>4, <3>2 DEF IInv, Consistent, InHand, At
    <3>3. QED
      BY <3>1, <3>2
  <2>7. QED
    BY <2>5, <2>6 DEF Consistent
<1>10. QED
  BY <1>5, <1>6, <1>7, <1>8, <1>9 DEF IInv

-----------------------------------------------------------------------------
LEMMA InitInv == Init => IInv
<1> SUFFICES ASSUME Init PROVE IInv
  OBVIOUS
<1>1. /\ \A j \in Jobs : job[j] = NoRow /\ queue[j] = <<>>
      /\ \A c \in Calls : call[c] = Idle
      /\ dlq = {} /\ failed = {} /\ crossed = {}
  BY DEF Init
<1>2. Shape
  <2>1. queue \in [Jobs -> Seq(Entry)]
    BY EmptySeq DEF Init
  <2>2. QED
    BY <2>1, Nothing DEF Init, Shape
<1>3. \A j \in Jobs : QueuedRight(j)
  BY <1>1, Nothing, EmptySeq DEF QueuedRight, Known
<1>4. (\A c \in Calls : Placed(c)) /\ Apart
  BY <1>1, Nothing DEF Placed, StepOf, At, Apart, Hand
<1>5. Consistent
  <2>1. \A j \in Jobs : Agree(j)
    BY <1>1, Nothing DEF Agree, DeadIsOut
  <2>2. QED
    BY <1>1, <2>1, Nothing DEF Consistent, At, Sound
<1>6. QED
  BY <1>2, <1>3, <1>4, <1>5 DEF IInv

LEMMA BeginKeepsTables ==
  ASSUME IInv, NEW c \in Calls, Begin(c), Met(c)
  PROVE  IInv'
BY CreateRowKeeps, FailCheckKeeps, ReplayCheckKeeps, StatusReadKeeps, ClaimSelectKeeps,
   HeartbeatSelectKeeps, ReapSelectKeeps DEF Begin

(* A statement later than a call's first is about a job it has in hand.      *)
LEMMA InOneHand ==
  ASSUME IInv, NEW c \in Calls, UNCHANGED <<failed, crossed>>
  PROVE  /\ call[c].op # "none" /\ ~At(c, "reap", "row") => Joins(c, call[c].job)
         /\ \A k \in call[c].todo : Joins(c, k)
<1>1. ASSUME NEW j \in Hand(c) PROVE Joins(c, j)
  <2>1. j \in Jobs
    BY CallIs DEF Hand, IInv
  <2>2. QED
    BY <2>1, StaysApart
<1>2. call[c].op # "none" /\ ~At(c, "reap", "row") => call[c].job \in Hand(c)
  BY Nothing DEF IInv, Placed, Hand
<1>3. \A k \in call[c].todo : k \in Hand(c)
  BY DEF Hand
<1>4. QED
  BY <1>1, <1>2, <1>3

LEMMA ContinueKeepsTables ==
  ASSUME IInv, NEW c \in Calls, Continue(c), UNCHANGED <<failed, crossed>>
  PROVE  IInv'
<1>1. \A k \in call[c].todo : Joins(c, k)
  BY InOneHand
<1>2. CASE ReapRow(c)
  BY <1>1, <1>2, ReapRowKeeps
<1>3. CASE ~ReapRow(c)
  <2>1. call[c].op # "none" /\ ~At(c, "reap", "row")
    BY <1>3
       DEF Continue, At, CreateQueue, ClaimRecheck, ClaimRow, ClaimQueue, HeartbeatRow,
           HeartbeatQueue, ReapQueue, FailRead, FailRow, FailDelete, FailInsert, StatusRow,
           StatusDelete, StatusDlq, ReplayDlq, ReplayRow, ReplayDelete, ReplayInsert
  <2>2. Joins(c, call[c].job)
    BY <2>1, InOneHand
  <2>3. QED
    BY <1>3, <2>2, CreateQueueKeeps, ClaimRecheckKeeps, ClaimRowKeeps, ClaimQueueKeeps,
       HeartbeatRowKeeps, HeartbeatQueueKeeps, ReapQueueAgrees, FailReadKeeps, FailRowKeeps,
       FailDeleteKeeps, FailInsertKeeps, StatusRowKeeps, StatusDeleteKeeps, StatusDlqKeeps,
       ReplayDlqKeeps, ReplayRowKeeps, ReplayDeleteKeeps, ReplayInsertKeeps DEF Continue
<1>4. QED
  BY <1>2, <1>3

LEMMA NextInv == IInv /\ [Next]_vars => IInv'
<1> SUFFICES ASSUME IInv, [Next]_vars PROVE IInv'
  OBVIOUS
<1>1. ASSUME NEW c \in Calls, Begin(c), Met(c) PROVE IInv'
  BY <1>1, BeginKeepsTables
<1>2. ASSUME NEW c \in Calls, Continue(c), UNCHANGED <<failed, crossed>> PROVE IInv'
  BY <1>2, ContinueKeepsTables
<1>3. ASSUME NEW w \in Workers, Release(w), UNCHANGED <<failed, crossed>> PROVE IInv'
  BY <1>3, TablesUntouched DEF Release, IInv, Shape
<1>4. CASE Tick /\ UNCHANGED <<failed, crossed>>
  BY <1>4, TickKeeps
<1>5. ASSUME NEW c \in Calls, StatementFails(c) PROVE IInv'
  BY <1>5, StatementFailsKeeps
<1>6. CASE UNCHANGED vars
  BY <1>6, TablesUntouched DEF vars, IInv, Shape
<1>7. QED
  BY <1>1, <1>2, <1>3, <1>4, <1>5, <1>6 DEF Next, Met

(* For any number of calls that overlap as they like, over any number of     *)
(* jobs and workers: the tables agree on a job whenever no call has it in    *)
(* hand, unless two calls ever had it in hand at once or one broke off on    *)
(* it.  So the statement sequences of createIngestAsset, claimNextJob,       *)
(* heartbeatJob, reapStaleLeases, handleJobFailure, setJobStatus and         *)
(* replayJob each restore what the local adapter keeps, whatever calls on    *)
(* other jobs do and whatever time passes in between.  And wherever they     *)
(* break off, no job is queued twice but one on which calls overlapped.      *)
THEOREM CallsRestoreTables == Spec => []TablesAgree
<1>1. IInv => TablesAgree
  <2> SUFFICES ASSUME IInv PROVE TablesAgree
    OBVIOUS
  <2>1. QueuedOnce
    BY DEF IInv, QueuedOnce, QueuedRight
  <2>2. ASSUME NEW j \in Jobs \ (crossed \cup failed), Quiet(j) PROVE Agree(j)
    <3>1. \A c \in Calls : call[c].job # j
      BY <2>2, Nothing DEF Quiet, Hand
    <3>2. QED
      BY <3>1 DEF IInv, Consistent, Sound
  <2>3. RestoredByCalls
    BY <2>2 DEF RestoredByCalls, Agree, InUse, DeadIsOut
  <2>4. QED
    BY <2>1, <2>3 DEF TablesAgree
<1>2. QED
  BY InitInv, NextInv, <1>1, PTL DEF Spec

(* Whatever calls overlap, the rows are rows: in particular a job's attempts *)
(* never pass the cap, though the claim counts from a row it read before.    *)
THEOREM TypeCorrect == Spec => []TypeOK
<1>1. IInv => TypeOK
  <2> SUFFICES ASSUME IInv PROVE TypeOK
    OBVIOUS
  <2>1. queue \in [Jobs -> Seq([wait : Int, leased : BOOLEAN, left : Int])]
    BY DEF IInv, Shape, Entry
  <2>2. QED
    BY <2>1, CallIs DEF IInv, Shape, TypeOK
<1>2. QED
  BY InitInv, NextInv, <1>1, PTL DEF Spec

-----------------------------------------------------------------------------
(* The table jobs is a lease table: each statement is one action of JobLease *)
(* on the mapped variables, or leaves them alone.                            *)
LEMMA StatusFacts ==
  /\ {"failed", "needs_replay", "processing"} \cap (Settled \cup {"absent", "pending"}) = {}
  /\ ReviewStatus \subseteq Settled /\ "completed" \in Settled
  /\ "absent" \notin Settled /\ "pending" \notin Settled /\ "absent" # "pending"
BY DEF Settled, ReviewStatus

LEMMA PhaseOfRow ==
  ASSUME NEW row
  PROVE  /\ row.status = "absent" => LeasePhase(row) = "absent"
         /\ row.status = "pending" => LeasePhase(row) = "offered"
         /\ row.status \notin {"absent", "pending"} /\ row.leaseOwner # None
              => LeasePhase(row) = "held"
         /\ row.status \in Settled /\ row.leaseOwner = None
              => LeasePhase(row) = "settled"
         /\ row.status \notin Settled \cup {"absent", "pending"} /\ row.leaseOwner = None
              => LeasePhase(row) = "idle"
BY StatusFacts DEF LeasePhase

(* Statement by statement: only the row of j changes. *)
Rewrites(j, row) ==
  UpdateJob(j, row) /\ job'[j] = row /\ \A k \in Jobs \ {j} : job'[k] = job[k]

LEMMA Rewritten ==
  ASSUME Shape, NEW j \in Jobs, NEW row, UpdateJob(j, row)
  PROVE  Rewrites(j, row)
BY DEF Shape, UpdateJob, Rewrites

(* The job leaves its holder for one phase. *)
LEMMA RowMoves ==
  ASSUME NEW j \in Jobs, NEW row, Rewrites(j, row), NEW to, LeasePhase(row) = to,
         row.leaseOwner = None, row.leaseLeft = 0
  PROVE  Lease!Move({j}, to)
BY DEF Lease!Move, Rewrites

LEMMA RowStutters ==
  ASSUME NEW j \in Jobs, NEW row, Rewrites(j, row), LeasePhase(row) = LeasePhase(job[j]),
         row.leaseOwner = job[j].leaseOwner, row.leaseLeft = job[j].leaseLeft
  PROVE  UNCHANGED Lease!leaseVars
BY DEF Lease!leaseVars, Rewrites

LEMMA ReportStep ==
  ASSUME NEW j \in Jobs, NEW row, Rewrites(j, row), Unsettled(j),
         NEW to \in {"offered", "idle", "settled"},
         LeasePhase(row) = to, row.leaseOwner = None, row.leaseLeft = 0
  PROVE  Lease!Next
<1>1. LeasePhase(job[j]) \in {"offered", "held", "idle"}
  BY PhaseOfRow, StatusFacts DEF Unsettled
<1>2. Lease!Move({j}, to)
  BY RowMoves
<1>3. Lease!Report(j, to)
  BY <1>1, <1>2 DEF Lease!Report
<1>4. QED
  BY <1>3 DEF Lease!Next

LEMMA CreateStep ==
  ASSUME IInv, NEW c \in Calls, NEW j \in Jobs, CreateRow(c, j)
  PROVE  Lease!Next
<1>1. PICK row : row = Row("pending", 0, None, 0)
  OBVIOUS
<1>2. row.status = "pending" /\ row.leaseOwner = None /\ row.leaseLeft = 0
  BY <1>1 DEF Row
<1>3. Rewrites(j, row) /\ LeasePhase(row) = "offered" /\ LeasePhase(job[j]) = "absent"
  BY <1>1, <1>2, Rewritten, PhaseOfRow DEF CreateRow, IInv
<1>4. Lease!Move({j}, "offered")
  BY <1>2, <1>3, RowMoves
<1>5. Lease!Publish(j)
  BY <1>3, <1>4 DEF Lease!Publish
<1>6. QED
  BY <1>5 DEF Lease!Next

LEMMA ClaimStep ==
  ASSUME IInv, NEW c \in Calls, ClaimRow(c), Joins(c, call[c].job), Whole(call[c].job)
  PROVE  Lease!Next
<1>1. PICK j \in Jobs : j = call[c].job /\ Placed(c) /\ InHand(c, j)
  BY Underway DEF ClaimRow, At
<1>2. PICK w \in Workers : w = call[c].worker /\ w # None
  BY <1>1, CallIs DEF ClaimRow, At, Placed, IInv
<1>3. PICK n \in LeaseTimes : n = call[c].seconds
  BY <1>1 DEF ClaimRow, At, Placed
<1>4. job[j].status = "pending"
  BY <1>1 DEF ClaimRow, At, InHand, Reads, Halfway
<1>5. PICK k : UpdateJob(j, Row("processing", k, w, n))
  BY <1>1, <1>2, <1>3, <1>4 DEF ClaimRow
<1>6. PICK row : row = Row("processing", k, w, n)
  OBVIOUS
<1>7. row.status = "processing" /\ row.leaseOwner = w /\ row.leaseLeft = n
  BY <1>6 DEF Row
<1>8. Rewrites(j, row) /\ DOMAIN job = Jobs /\ DOMAIN job' = Jobs
  BY <1>5, <1>6, Rewritten DEF IInv, Shape, UpdateJob
<1>9. LeasePhase(job[j]) = "offered" /\ LeasePhase(row) = "held"
  BY <1>2, <1>4, <1>7, PhaseOfRow
<1>10. Lease!Grant(j, w, n)
  BY <1>7, <1>8, <1>9 DEF Lease!Grant, Rewrites
<1>11. QED
  BY <1>10 DEF Lease!Next, LeaseTimes

LEMMA HeartbeatStep ==
  ASSUME IInv, NEW c \in Calls, HeartbeatRow(c), Joins(c, call[c].job), Whole(call[c].job)
  PROVE  Lease!Next
<1>1. PICK j \in Jobs : j = call[c].job /\ Placed(c) /\ InHand(c, j)
  BY Underway DEF HeartbeatRow, At
<1>2. PICK n \in LeaseTimes : n = call[c].seconds
  BY <1>1 DEF HeartbeatRow, At, Placed
<1>3. job[j].leaseOwner = call[c].worker /\ call[c].worker # None /\ Agree(j)
  BY <1>1 DEF HeartbeatRow, At, Placed, InHand, Reads, Halfway
<1>4. job[j].status = "processing"
  BY <1>3 DEF Agree
<1>5. PICK row : row = [job[j] EXCEPT !.leaseLeft = n]
  OBVIOUS
<1>6. /\ row.status = job[j].status /\ row.leaseOwner = job[j].leaseOwner
      /\ row.leaseLeft = n
  <2>1. job[j] \in JobRow
    BY RowIs DEF IInv
  <2>2. QED
    BY <1>5, <2>1 DEF JobRow
<1>7. Rewrites(j, row)
  BY <1>1, <1>2, <1>3, <1>5, Rewritten DEF HeartbeatRow, IInv
<1>8. LeasePhase(job[j]) = "held" /\ LeasePhase(row) = "held"
  BY <1>3, <1>4, <1>6, PhaseOfRow
<1>9. Lease!Renew(j, n)
  BY <1>6, <1>7, <1>8 DEF Lease!Renew, Rewrites
<1>10. QED
  BY <1>9 DEF Lease!Next, LeaseTimes

(* What reapStaleLeases writes about one of its jobs. *)
ReapOne(c, j) == UpdateJob(j, Row("pending", job[j].attemptCount, None, 0))

LEMMA ReapStep ==
  ASSUME IInv, NEW c \in Calls, NEW j \in call[c].todo, ReapOne(c, j), Joins(c, j), Whole(j)
  PROVE  Lease!Next
<1>1. UpdateJob(j, Row("pending", job[j].attemptCount, None, 0))
  BY DEF ReapOne
<1>2. j \in Jobs /\ Dead(j) /\ Agree(j) /\ QueuedRight(j)
  BY CallIs DEF IInv, Consistent, Joins, Whole, Sound
<1>3. PICK row : row = Row("pending", job[j].attemptCount, None, 0)
  OBVIOUS
<1>4. row.status = "pending" /\ row.leaseOwner = None /\ row.leaseLeft = 0
  BY <1>3 DEF Row
<1>5. Rewrites(j, row) /\ LeasePhase(row) = "offered"
  BY <1>1, <1>2, <1>3, <1>4, Rewritten, PhaseOfRow DEF IInv
<1>6. PICK now \in Clocks : queue[j][1].left <= now
  BY <1>2 DEF Dead
<1>7. \/ LeasePhase(job[j]) = "idle"
      \/ LeasePhase(job[j]) = "held" /\ job[j].leaseLeft <= now
  <2>1. job[j].status = "processing"
    BY <1>2 DEF Dead
  <2>2. CASE job[j].leaseOwner = None
    BY <2>1, <2>2, PhaseOfRow, StatusFacts
  <2>3. CASE job[j].leaseOwner # None
    <3>1. LeasePhase(job[j]) = "held"
      BY <2>1, <2>3, PhaseOfRow
    <3>2. job[j].leaseLeft = queue[j][1].left
      BY <1>2, <2>3 DEF Agree
    <3>3. QED
      BY <1>6, <3>1, <3>2
  <2>4. QED
    BY <2>2, <2>3
<1>8. Lease!Move({j}, "offered")
  BY <1>2, <1>4, <1>5, RowMoves
<1>9. Lease!Reoffer({j}, now)
  BY <1>7, <1>8, <1>2 DEF Lease!Reoffer
<1>10. {j} \in SUBSET Jobs
  BY <1>2
<1>11. QED
  BY <1>9, <1>10 DEF Lease!Next

LEMMA FailStep ==
  ASSUME IInv, NEW c \in Calls, FailRow(c), Joins(c, call[c].job), Whole(call[c].job)
  PROVE  Lease!Next
<1>1. PICK j \in Jobs : j = call[c].job /\ InHand(c, j)
  BY Underway DEF FailRow, At
<1>2. Unsettled(j)
  BY <1>1 DEF FailRow, At, InHand, Reads, Halfway
<1>3. PICK s \in {"pending", "failed"} : UpdateJob(j, Row(s, job[j].attemptCount, None, 0))
  BY <1>1 DEF FailRow
<1>4. PICK row : row = Row(s, job[j].attemptCount, None, 0)
  OBVIOUS
<1>5. row.status = s /\ row.leaseOwner = None /\ row.leaseLeft = 0
  BY <1>4 DEF Row
<1>6. Rewrites(j, row) /\ LeasePhase(row) \in {"offered", "idle"}
  BY <1>3, <1>4, <1>5, Rewritten, PhaseOfRow, StatusFacts DEF IInv
<1>7. QED
  BY <1>2, <1>5, <1>6, ReportStep

LEMMA ReplayStep ==
  ASSUME IInv, NEW c \in Calls, ReplayRow(c), Joins(c, call[c].job), Whole(call[c].job)
  PROVE  Lease!Next
<1>1. PICK j \in Jobs : j = call[c].job /\ InHand(c, j)
  BY Underway DEF ReplayRow, At
<1>2. Unsettled(j)
  BY <1>1 DEF ReplayRow, At, InHand, Reads, Halfway
<1>3. PICK row : row = Row("pending", 0, None, 0)
  OBVIOUS
<1>4. row.status = "pending" /\ row.leaseOwner = None /\ row.leaseLeft = 0
  BY <1>3 DEF Row
<1>5. Rewrites(j, row) /\ LeasePhase(row) = "offered"
  BY <1>1, <1>3, <1>4, Rewritten, PhaseOfRow DEF ReplayRow, IInv
<1>6. QED
  BY <1>2, <1>4, <1>5, ReportStep

(* setJobStatus writes from what it read, which is still so. *)
LEMMA StatusStep ==
  ASSUME IInv, NEW c \in Calls, StatusRow(c), Joins(c, call[c].job), Whole(call[c].job)
  PROVE  [Lease!Next]_(Lease!leaseVars)
<1>1. PICK j \in Jobs : j = call[c].job /\ Placed(c) /\ InHand(c, j) /\ QueuedRight(j)
  BY Underway DEF StatusRow, At
<1>2. PICK f, s : f = job[j].status /\ s = call[c].to
  OBVIOUS
<1>3. /\ CanTransition(f, s) /\ Agree(j)
      /\ call[c].seen.leaseOwner = job[j].leaseOwner
      /\ job[j].leaseOwner # None => call[c].seconds = job[j].leaseLeft
  BY <1>1, <1>2 DEF StatusRow, At, InHand, Reads, Halfway
<1>4. f \in Statuses /\ s \in WorkflowStatus /\ s # "pending"
  BY <1>1, <1>2, RowIs, ConstantsAssumption DEF StatusRow, At, Placed, IInv
<1>5. PICK w, t : /\ w = IF s = "processing" THEN job[j].leaseOwner ELSE None
                  /\ t = IF w = None THEN 0 ELSE job[j].leaseLeft
  OBVIOUS
<1>5a. PICK row : row = Row(s, job[j].attemptCount, w, t)
  OBVIOUS
<1>6. /\ row.status = s
      /\ s = "processing" => row.leaseOwner = job[j].leaseOwner
                             /\ row.leaseLeft = job[j].leaseLeft
      /\ s # "processing" => row.leaseOwner = None /\ row.leaseLeft = 0
  BY <1>1, <1>5, <1>5a DEF Row, QueuedRight
<1>7. UpdateJob(j, row)
  BY <1>1, <1>2, <1>3, <1>5, <1>5a DEF StatusRow
<1>8. Rewrites(j, row)
  BY <1>7, Rewritten DEF IInv
<1>9. /\ job[j].leaseOwner # None => f = "processing"
      /\ job[j].leaseOwner = None => job[j].leaseLeft = 0
  BY <1>1, <1>2, <1>3 DEF Agree, QueuedRight
<1>10. CASE s = "processing" /\ f = "processing"
  <2>1. LeasePhase(row) = LeasePhase(job[j])
    BY <1>2, <1>6, <1>10, PhaseOfRow, StatusFacts
  <2>2. QED
    BY <1>6, <1>8, <1>10, <2>1, RowStutters
<1>11. CASE s = "processing" /\ f # "processing"
  <2>1. Unsettled(j)
    BY <1>2, <1>3, <1>4, <1>11, Sources DEF Unsettled
  <2>2. row.leaseOwner = None /\ row.leaseLeft = 0
    BY <1>6, <1>9, <1>11
  <2>3. LeasePhase(row) = "idle"
    BY <1>6, <1>11, <2>2, PhaseOfRow, StatusFacts
  <2>4. QED
    BY <1>8, <2>1, <2>2, <2>3, ReportStep
<1>12. CASE s \in Settled /\ f \in Settled
  <2>1. job[j].leaseOwner = None /\ job[j].leaseLeft = 0
    BY <1>9, <1>12, StatusFacts
  <2>2. row.leaseOwner = None /\ row.leaseLeft = 0
    BY <1>6, <1>12, StatusFacts
  <2>3. LeasePhase(row) = "settled" /\ LeasePhase(job[j]) = "settled"
    BY <1>2, <1>6, <1>12, <2>1, <2>2, PhaseOfRow
  <2>4. QED
    BY <1>8, <2>1, <2>2, <2>3, RowStutters
<1>13. CASE s \in Settled /\ f \notin Settled
  <2>1. Unsettled(j)
    BY <1>2, <1>3, <1>4, <1>13, Sources, StatusFacts DEF Unsettled, Settled
  <2>2. row.leaseOwner = None /\ row.leaseLeft = 0
    BY <1>6, <1>13, StatusFacts
  <2>3. LeasePhase(row) = "settled"
    BY <1>6, <1>13, <2>2, PhaseOfRow
  <2>4. QED
    BY <1>8, <2>1, <2>2, <2>3, ReportStep
<1>14. CASE s \in {"failed", "needs_replay"}
  <2>1. row.leaseOwner = None /\ row.leaseLeft = 0 /\ LeasePhase(row) = "idle"
    <3>1. row.leaseOwner = None /\ row.leaseLeft = 0
      BY <1>6, <1>14
    <3>2. QED
      BY <1>6, <1>14, <3>1, PhaseOfRow, StatusFacts
  <2>2. CASE f \notin Settled
    <3>1. Unsettled(j)
      BY <1>2, <1>3, <1>4, <2>2, Sources DEF Unsettled, Settled, Statuses, WorkflowStatus
    <3>2. QED
      BY <1>8, <2>1, <3>1, ReportStep
  <2>3. CASE f \in Settled
    <3>1. job[j].leaseOwner = None
      BY <1>9, <2>3, StatusFacts
    <3>2. LeasePhase(job[j]) = "settled"
      BY <1>2, <2>3, <3>1, PhaseOfRow
    <3>3. Lease!Move({j}, "idle")
      BY <1>8, <2>1, RowMoves
    <3>4. Lease!Reopen(j)
      BY <3>2, <3>3 DEF Lease!Reopen
    <3>5. QED
      BY <3>4 DEF Lease!Next
  <2>4. QED
    BY <2>2, <2>3
<1>15. QED
  BY <1>4, <1>10, <1>11, <1>12, <1>13, <1>14 DEF WorkflowStatus, Settled

LEMMA TimeStep ==
  ASSUME IInv, Tick
  PROVE  Lease!Next
<1>1. \A j \in Jobs :
        /\ job'[j].status = job[j].status
        /\ job'[j].leaseOwner = job[j].leaseOwner /\ job[j].leaseLeft \in Int
        /\ job'[j].leaseLeft = IF job[j].leaseOwner = None THEN 0
                               ELSE Sooner(job[j].leaseLeft)
  BY JobTicks, RowIs DEF IInv
<1>2. \A j \in Jobs : LeasePhase(job'[j]) = LeasePhase(job[j])
  BY <1>1 DEF LeasePhase
<1>3. \A j \in Jobs : LeasePhase(job[j]) = "held" <=> job[j].leaseOwner # None
  BY StatusFacts DEF IInv, QueuedRight, LeasePhase
<1>4. Lease!Pass(1)
  BY <1>1, <1>2, <1>3 DEF Lease!Pass, Sooner, Kept
<1>5. QED
  BY <1>4 DEF Lease!Next

(* The statements that write another table, or none. *)
LEMMA OtherStep ==
  ASSUME job' = job
  PROVE  UNCHANGED Lease!leaseVars
BY DEF Lease!leaseVars

(* A row that is rewritten to what it was leaves the table alone. *)
LEMMA Touched ==
  ASSUME Shape, NEW j \in Jobs, NEW row, UpdateJob(j, row)
  PROVE  job' = job \/ job'[j] # job[j]
BY DEF Shape, UpdateJob

LEMMA RowStep ==
  ASSUME IInv, NEW c \in Calls, NEW j \in Jobs, Joins(c, j), NEW row, UpdateJob(j, row),
         Whole(j) => [Lease!Next]_(Lease!leaseVars)
  PROVE  \/ [Lease!Next]_(Lease!leaseVars)
         \/ \E k \in crossed' \cup failed' : job'[k] # job[k]
<1>1. CASE job' = job
  BY <1>1, OtherStep
<1>2. CASE job' # job
  <2>1. job'[j] # job[j]
    BY <1>2, Touched DEF IInv
  <2>2. QED
    BY <2>1 DEF Whole
<1>3. QED
  BY <1>1, <1>2

LEMMA ContinueStep ==
  ASSUME IInv, NEW c \in Calls, Continue(c), UNCHANGED <<failed, crossed>>
  PROVE  \/ [Lease!Next]_(Lease!leaseVars)
         \/ \E k \in crossed' \cup failed' : job'[k] # job[k]
<1>1. CASE ReapRow(c)
  <2>1. PICK j \in call[c].todo : ReapOne(c, j)
    BY <1>1 DEF ReapRow, ReapOne
  <2>2. j \in Jobs /\ Joins(c, j)
    BY <2>1, CallIs, InOneHand DEF IInv
  <2>3. Whole(j) => Lease!Next
    BY <2>1, <2>2, ReapStep
  <2>4. QED
    BY <2>1, <2>2, <2>3, RowStep DEF ReapOne
<1>2. CASE \/ ClaimRow(c) \/ HeartbeatRow(c) \/ FailRow(c) \/ StatusRow(c) \/ ReplayRow(c)
  <2>1. call[c].op # "none" /\ ~At(c, "reap", "row")
    BY <1>2 DEF At, ClaimRow, HeartbeatRow, FailRow, StatusRow, ReplayRow
  <2>2. PICK j \in Jobs : j = call[c].job /\ Joins(c, j)
    BY <2>1, InOneHand, Underway
  <2>3. Whole(j) => [Lease!Next]_(Lease!leaseVars)
    BY <1>2, <2>2, ClaimStep, HeartbeatStep, FailStep, StatusStep, ReplayStep
  <2>4. job' = job \/ \E row : UpdateJob(j, row)
    BY <1>2, <2>2 DEF ClaimRow, HeartbeatRow, FailRow, StatusRow, ReplayRow
  <2>5. QED
    BY <2>2, <2>3, <2>4, RowStep, OtherStep
<1>3. CASE job' = job
  BY <1>3, OtherStep
<1>4. QED
  BY <1>1, <1>2, <1>3
     DEF Continue, CreateQueue, ClaimRecheck, ClaimQueue, HeartbeatQueue, ReapQueue,
         FailRead, FailDelete, FailInsert, StatusDelete, StatusDlq, ReplayDlq, ReplayDelete,
         ReplayInsert

LEMMA LeaseStep ==
  ASSUME IInv, [Next]_vars
  PROVE  \/ [Lease!Next]_(Lease!leaseVars)
         \/ \E j \in crossed' \cup failed' : job'[j] # job[j]
<1>1. ASSUME NEW c \in Calls, Begin(c) PROVE [Lease!Next]_(Lease!leaseVars)
  BY <1>1, CreateStep, OtherStep
     DEF Begin, FailCheck, ReplayCheck, StatusRead, ClaimSelect, HeartbeatSelect, ReapSelect
<1>2. ASSUME NEW w \in Workers, Release(w) PROVE [Lease!Next]_(Lease!leaseVars)
  BY <1>2, OtherStep DEF Release
<1>3. CASE Tick
  BY <1>3, TimeStep
<1>4. CASE UNCHANGED vars
  BY <1>4, OtherStep DEF vars
<1>5. ASSUME NEW c \in Calls, StatementFails(c) PROVE [Lease!Next]_(Lease!leaseVars)
  BY <1>5, OtherStep DEF StatementFails
<1>6. QED
  BY <1>1, <1>2, <1>3, <1>4, <1>5, ContinueStep DEF Next

(* To leave the leases alone is to re-offer no job. *)
LEMMA NoneReoffered ==
  ASSUME UNCHANGED Lease!leaseVars
  PROVE  Lease!Next
<1>1. Lease!Move({}, "offered")
  BY DEF Lease!Move, Lease!leaseVars
<1>2. Lease!Reoffer({}, 0) /\ {} \in SUBSET Jobs
  BY <1>1 DEF Lease!Reoffer
<1>3. QED
  BY <1>2, ConstantsAssumption DEF Lease!Next

LEMMA LeaseInit == Init => Lease!Init
BY DEF Init, NoRow, LeasePhase, Lease!Init

(* The table jobs keeps the lease discipline of JobLease for every number of *)
(* jobs, workers, clocks and calls that overlap, but on the jobs that two    *)
(* calls had in hand at once or one broke off on: what claimNextJob,         *)
(* heartbeatJob, the reaper and the reports write, from what they read       *)
(* statements earlier, is a grant of an offered job, a renewal by its        *)
(* holder, a re-offer of a lease that is over by the caller's clock, or a    *)
(* report.                                                                   *)
THEOREM StatementsKeepLease == Spec => KeepsLease
<1>1. IInv /\ [Next]_vars =>
        [\/ [Lease!Next]_<<job>>
         \/ \E j \in crossed' \cup failed' : job'[j] # job[j]]_vars
  BY LeaseStep, NoneReoffered
<1>2. QED
  BY InitInv, NextInv, LeaseInit, <1>1, PTL DEF Spec, KeepsLease

-----------------------------------------------------------------------------
(***************************************************************************)
(* insertVersion, for every number of callers and attempts, and however    *)
(* far the clock runs: the row a caller looks for when it verifies is its  *)
(* own and is there, only its own DELETE would take it away, and a new     *)
(* number lies above every row.                                            *)
(***************************************************************************)
InsertSteps == {"idle", "max", "insert", "verify", "delete", "done", "failed", "thrown"}
CallerShape == [step : InsertSteps, number : Nat, tries : 0 .. MaxInserts, at : 0 .. LastSecond]
RowShape == [by : Callers, number : Nat \ {0}, at : 0 .. LastSecond]

RowOf(c) == [by |-> c, number |-> caller[c].number, at |-> caller[c].at]

(* Rows are inserted one at a time, so that there is a highest number. *)
Bounded == \E b \in Nat : \A r \in rows : r.number <= b

RowsPlaced ==
  \A c \in Callers :
    /\ caller[c].step = "insert" => caller[c].number > 0
    /\ caller[c].step # "failed" => caller[c].tries > 0
    /\ caller[c].step \in {"verify", "done"} => RowOf(c) \in rows

VersionsInv == VersionsTypeOK /\ Bounded /\ RowsPlaced

-----------------------------------------------------------------------------
(* The highest number is the number of a row, or 0, and no row is above it. *)
LEMMA HighestIsHighest ==
  ASSUME VersionsTypeOK, Bounded
  PROVE  Highest \in Nat /\ \A r \in rows : r.number <= Highest
<1> DEFINE Numbers == {0} \cup {r.number : r \in rows}
           Upper == {n \in Nat : \A x \in Numbers : x <= n}
<1>1. Numbers \subseteq Nat /\ \A r \in rows : r.number \in Nat
  BY DEF VersionsTypeOK
<1>2. PICK b \in Nat : \A r \in rows : r.number <= b
  BY DEF Bounded
<1>3. b \in Upper
  BY <1>1, <1>2
<1>4. PICK m \in Upper : \A k \in Upper : <<k, m>> \notin OpToRel(<, Nat)
  BY <1>3, NatLessThanWellFounded, WFMin
<1>5. m \in Nat /\ \A k \in Upper : ~(k < m)
  BY <1>4 DEF OpToRel
<1>6. m \in Numbers
  <2>1. CASE m = 0
    BY <2>1
  <2>2. CASE m # 0
    <3>1. m - 1 \in Nat /\ m - 1 < m
      BY <1>5, <2>2
    <3>2. m - 1 \notin Upper
      BY <1>5, <3>1
    <3>3. PICK x \in Numbers : ~(x <= m - 1)
      BY <3>1, <3>2
    <3>4. x <= m /\ x \in Nat
      BY <1>1, <1>4, <3>3
    <3>5. x = m
      BY <1>5, <3>3, <3>4
    <3>6. QED
      BY <3>3, <3>5
  <2>3. QED
    BY <2>1, <2>2
<1>7. \A r \in rows : r.number <= m
  BY <1>4
<1>8. \E n \in Numbers : \A r \in rows : r.number <= n
  BY <1>6, <1>7
<1>9. Highest \in Numbers /\ \A r \in rows : r.number <= Highest
  BY <1>8 DEF Highest
<1>10. QED
  BY <1>1, <1>9

(* One caller takes a step, the rows grow by one of its own or lose its own. *)
LEMMA CallerMoves ==
  ASSUME VersionsInv, NEW c \in Callers, NEW next \in CallerShape,
         caller' = [caller EXCEPT ![c] = next], clock' = clock,
         rows' \subseteq RowShape, Bounded',
         \A r \in rows : r.by # c => r \in rows',
         next.step = "insert" => next.number > 0,
         next.step # "failed" => next.tries > 0,
         next.step \in {"verify", "done"} =>
           [by |-> c, number |-> next.number, at |-> next.at] \in rows'
  PROVE  VersionsInv'
<1>1. caller \in [Callers -> CallerShape]
  BY DEF VersionsInv, VersionsTypeOK, CallerShape, InsertSteps
<1>2. /\ caller' \in [Callers -> CallerShape] /\ caller'[c] = next
      /\ \A o \in Callers \ {c} : caller'[o] = caller[o]
  BY <1>1
<1>3. VersionsTypeOK'
  BY <1>2 DEF VersionsInv, VersionsTypeOK, CallerShape, InsertSteps, RowShape
<1>4. ASSUME NEW o \in Callers
      PROVE  /\ caller'[o].step = "insert" => caller'[o].number > 0
             /\ caller'[o].step # "failed" => caller'[o].tries > 0
             /\ caller'[o].step \in {"verify", "done"} => RowOf(o)' \in rows'
  <2>1. CASE o = c
    BY <1>2, <2>1 DEF RowOf
  <2>2. CASE o # c
    <3>1. caller'[o] = caller[o] /\ RowOf(o)' = RowOf(o) /\ RowOf(o).by # c
      BY <1>2, <2>2 DEF RowOf
    <3>2. QED
      BY <3>1 DEF VersionsInv, RowsPlaced
  <2>3. QED
    BY <2>1, <2>2
<1>5. QED
  BY <1>3, <1>4 DEF VersionsInv, RowsPlaced

LEMMA Looked ==
  ASSUME VersionsInv, NEW c \in Callers
  PROVE  /\ caller[c] \in CallerShape /\ rows \subseteq RowShape /\ clock \in 0 .. LastSecond
         /\ caller[c].step = "insert" => caller[c].number > 0
         /\ caller[c].step # "failed" => caller[c].tries > 0
         /\ caller[c].step \in {"verify", "done"} => RowOf(c) \in rows
BY DEF VersionsInv, VersionsTypeOK, RowsPlaced, CallerShape, InsertSteps, RowShape

LEMMA RowsStay == ASSUME Bounded, rows' = rows PROVE Bounded'
BY DEF Bounded

-----------------------------------------------------------------------------
LEMMA BeginKeeps ==
  ASSUME VersionsInv, NEW c \in Callers, BeginInsertVersion(c)
  PROVE  VersionsInv'
<1> DEFINE next == [caller[c] EXCEPT !.step = "max", !.at = clock]
<1>1. /\ caller[c].step = "idle" /\ caller' = [caller EXCEPT ![c] = next]
      /\ rows' = rows /\ clock' = clock
  BY DEF BeginInsertVersion
<1>2. /\ next \in CallerShape /\ next.step = "max" /\ next.tries = caller[c].tries
  BY Looked DEF CallerShape, InsertSteps
<1>3. Bounded'
  BY <1>1, RowsStay DEF VersionsInv
<1> HIDE DEF next
<1>4. QED
  BY <1>1, <1>2, <1>3, Looked, CallerMoves

LEMMA SelectMaxKeeps ==
  ASSUME VersionsInv, NEW c \in Callers, SelectMax(c)
  PROVE  VersionsInv'
<1>0. PICK n : n = Highest + 1
  OBVIOUS
<1> DEFINE next == [caller[c] EXCEPT !.step = "insert", !.number = n]
<1>1. /\ caller[c].step = "max" /\ caller' = [caller EXCEPT ![c] = next]
      /\ rows' = rows /\ clock' = clock
  BY <1>0 DEF SelectMax
<1>2. n \in Nat /\ n > 0
  BY <1>0, HighestIsHighest DEF VersionsInv
<1>3. /\ next \in CallerShape /\ next.step = "insert" /\ next.tries = caller[c].tries
      /\ next.number > 0
  BY <1>2, Looked DEF CallerShape, InsertSteps
<1>4. Bounded'
  BY <1>1, RowsStay DEF VersionsInv
<1> HIDE DEF next
<1>5. QED
  BY <1>1, <1>3, <1>4, Looked, CallerMoves

LEMMA InsertKeeps ==
  ASSUME VersionsInv, NEW c \in Callers, Insert(c)
  PROVE  VersionsInv'
<1> DEFINE next == [caller[c] EXCEPT !.step = "verify"]
<1>1. /\ caller[c].step = "insert" /\ caller' = [caller EXCEPT ![c] = next]
      /\ rows' = rows \cup {RowOf(c)} /\ clock' = clock
  BY DEF Insert, MoveOn, RowOf
<1>2. /\ next \in CallerShape /\ next.step = "verify" /\ next.tries = caller[c].tries
      /\ next.number = caller[c].number /\ next.at = caller[c].at
  BY Looked DEF CallerShape, InsertSteps
<1>3. rows' \subseteq RowShape
  <2>1. RowOf(c) \in RowShape
    <3>1. caller[c].number \in Nat \ {0} /\ caller[c].at \in 0 .. LastSecond
      BY <1>1, Looked DEF CallerShape
    <3>2. QED
      BY <3>1 DEF RowOf, RowShape
  <2>2. QED
    BY <1>1, <2>1, Looked
<1>4. Bounded'
  <2>1. PICK b \in Nat : \A r \in rows : r.number <= b
    BY DEF VersionsInv, Bounded
  <2>2. RowOf(c).number = caller[c].number /\ caller[c].number \in Nat
    BY Looked DEF RowOf, CallerShape
  <2>3. \A r \in rows : r.number \in Nat
    BY Looked DEF RowShape
  <2>4. /\ b + caller[c].number \in Nat
        /\ \A r \in rows' : r.number <= b + caller[c].number
    BY <1>1, <2>1, <2>2, <2>3
  <2>5. QED
    BY <2>4 DEF Bounded
<1>5. [by |-> c, number |-> next.number, at |-> next.at] \in rows'
  BY <1>1, <1>2 DEF RowOf
<1> HIDE DEF next
<1>6. QED
  BY <1>1, <1>2, <1>3, <1>4, <1>5, Looked, CallerMoves

LEMMA VerifyKeeps ==
  ASSUME VersionsInv, NEW c \in Callers, Verify(c)
  PROVE  VersionsInv'
<1>1. PICK step \in {"done", "delete"} :
        caller' = [caller EXCEPT ![c] = [caller[c] EXCEPT !.step = step]]
  BY DEF Verify, MoveOn
<1> DEFINE next == [caller[c] EXCEPT !.step = step]
<1>2. /\ caller[c].step = "verify" /\ caller' = [caller EXCEPT ![c] = next]
      /\ rows' = rows /\ clock' = clock
  BY <1>1 DEF Verify
<1>3. /\ next \in CallerShape /\ next.step = step /\ next.tries = caller[c].tries
      /\ next.number = caller[c].number /\ next.at = caller[c].at
  BY Looked DEF CallerShape, InsertSteps
<1>4. Bounded' /\ [by |-> c, number |-> next.number, at |-> next.at] \in rows'
  BY <1>2, <1>3, Looked, RowsStay DEF VersionsInv, RowOf
<1> HIDE DEF next
<1>5. QED
  BY <1>2, <1>3, <1>4, Looked, CallerMoves

LEMMA DeleteKeeps ==
  ASSUME VersionsInv, NEW c \in Callers, Delete(c)
  PROVE  VersionsInv'
<1> DEFINE left == caller[c].tries - 1
           next == [caller[c] EXCEPT !.step = IF left > 0 THEN "max" ELSE "failed", !.tries = left]
<1>1. /\ caller[c].step = "delete" /\ caller' = [caller EXCEPT ![c] = next]
      /\ rows' = {r \in rows : r.by # c} /\ clock' = clock
  BY DEF Delete, GiveWay
<1>2. left \in 0 .. MaxInserts
  BY <1>1, Looked, VersionsAssumption DEF CallerShape
<1>3. /\ next \in CallerShape
      /\ next.step \in {"max", "failed"} /\ (next.step # "failed" => next.tries > 0)
  BY <1>2, Looked DEF CallerShape, InsertSteps
<1>4. Bounded'
  BY <1>1 DEF VersionsInv, Bounded
<1> HIDE DEF next
<1>5. QED
  BY <1>1, <1>3, <1>4, Looked, CallerMoves

LEMMA ThrowKeeps ==
  ASSUME VersionsInv, NEW c \in Callers, Throw(c)
  PROVE  VersionsInv'
<1> DEFINE next == [caller[c] EXCEPT !.step = "thrown"]
<1>1. /\ caller[c].step \in {"max", "insert", "verify", "delete"}
      /\ caller' = [caller EXCEPT ![c] = next]
      /\ rows' = rows /\ clock' = clock
  BY DEF Throw, MoveOn
<1>2. /\ next \in CallerShape /\ next.step = "thrown" /\ next.tries = caller[c].tries
  BY Looked DEF CallerShape, InsertSteps
<1>3. Bounded'
  BY <1>1, RowsStay DEF VersionsInv
<1> HIDE DEF next
<1>4. QED
  BY <1>1, <1>2, <1>3, Looked, CallerMoves

LEMMA UntouchedKeeps ==
  ASSUME VersionsInv, UNCHANGED <<rows, caller>>, clock' \in 0 .. LastSecond
  PROVE  VersionsInv'
BY DEF VersionsInv, VersionsTypeOK, Bounded, RowsPlaced, RowOf

-----------------------------------------------------------------------------
LEMMA VersionsInitInv == VersionsInit => VersionsInv
<1> SUFFICES ASSUME VersionsInit PROVE VersionsInv
  OBVIOUS
<1>1. VersionsTypeOK
  BY VersionsAssumption DEF VersionsInit, VersionsTypeOK
<1>2. Bounded
  BY DEF VersionsInit, Bounded
<1>3. RowsPlaced
  BY VersionsAssumption DEF VersionsInit, RowsPlaced
<1>4. QED
  BY <1>1, <1>2, <1>3 DEF VersionsInv

LEMMA VersionsNextInv == VersionsInv /\ [VersionsNext]_versionVars => VersionsInv'
<1> SUFFICES ASSUME VersionsInv, [VersionsNext]_versionVars PROVE VersionsInv'
  OBVIOUS
<1>1. ASSUME NEW c \in Callers,
             \/ BeginInsertVersion(c) \/ SelectMax(c) \/ Insert(c)
             \/ Verify(c) \/ Delete(c) \/ Throw(c)
      PROVE  VersionsInv'
  BY <1>1, BeginKeeps, SelectMaxKeeps, InsertKeeps, VerifyKeeps, DeleteKeeps, ThrowKeeps
<1>2. CASE ClockTicks
  <2>1. clock' \in 0 .. LastSecond /\ UNCHANGED <<rows, caller>>
    BY <1>2, VersionsAssumption DEF ClockTicks, VersionsInv, VersionsTypeOK
  <2>2. QED
    BY <2>1, UntouchedKeeps
<1>3. CASE UNCHANGED versionVars
  BY <1>3, UntouchedKeeps DEF versionVars, VersionsInv, VersionsTypeOK
<1>4. QED
  BY <1>1, <1>2, <1>3 DEF VersionsNext

(* Only a caller that takes its place in line for an insert changes step from *)
(* max, and its number lies above every row.                                 *)
LEMMA NumbersRise ==
  ASSUME VersionsInv, [VersionsNext]_versionVars, NEW c \in Callers, NEW d \in Done,
         caller[c].step = "max", caller'[c].step = "insert"
  PROVE  caller'[c].number > caller[d].number
<1>1. caller \in [Callers -> CallerShape]
  BY DEF VersionsInv, VersionsTypeOK, CallerShape, InsertSteps
<1>2. SelectMax(c)
  <2>1. ASSUME NEW o \in Callers, \/ BeginInsertVersion(o) \/ Insert(o) \/ Verify(o)
                            \/ Delete(o) \/ Throw(o)
        PROVE  FALSE
    <3>1. caller[o].step # "max" \/ Throw(o)
      BY <2>1 DEF BeginInsertVersion, Insert, Verify, Delete
    <3>2. CASE o # c
      BY <1>1, <2>1, <3>2 DEF BeginInsertVersion, Insert, Verify, Delete, Throw, MoveOn, GiveWay
    <3>3. CASE o = c
      BY <1>1, <3>1, <3>3 DEF Throw, MoveOn, CallerShape
    <3>4. QED
      BY <3>2, <3>3
  <2>2. ASSUME NEW o \in Callers \ {c}, SelectMax(o) PROVE FALSE
    BY <1>1, <2>2 DEF SelectMax
  <2>3. ~(ClockTicks \/ UNCHANGED versionVars)
    BY DEF ClockTicks, versionVars
  <2>4. QED
    BY <2>1, <2>2, <2>3 DEF VersionsNext
<1>3. Highest \in Nat /\ \A r \in rows : r.number <= Highest
  BY HighestIsHighest DEF VersionsInv
<1>4. caller'[c].number = Highest + 1
  BY <1>1, <1>2 DEF SelectMax, CallerShape
<1>5. RowOf(d) \in rows /\ RowOf(d).number = caller[d].number /\ caller[d].number \in Nat
  BY <1>1 DEF Done, VersionsInv, RowsPlaced, RowOf, CallerShape
<1>6. QED
  BY <1>3, <1>4, <1>5

(* The callers and rows keep their shape. *)
THEOREM VersionsTypeCorrect == VersionsSpec => []VersionsTypeOK
<1>1. VersionsInv => VersionsTypeOK
  BY DEF VersionsInv
<1>2. QED
  BY VersionsInitInv, VersionsNextInv, <1>1, PTL DEF VersionsSpec

(* Whatever others insert and take back, the version a caller was given stays *)
(* in the table (insertVersion).                                             *)
THEOREM GivenStaysAlways == VersionsSpec => []GivenStays
<1>1. VersionsInv => GivenStays
  BY DEF VersionsInv, RowsPlaced, RowOf, GivenStays, Done
<1>2. QED
  BY VersionsInitInv, VersionsNextInv, <1>1, PTL DEF VersionsSpec

(* A number chosen after a version was handed out is higher (insertVersion).  *)
THEOREM NumbersFollowTime == VersionsSpec => LaterIsHigher
<1>1. ASSUME VersionsInv, [VersionsNext]_versionVars
      PROVE  [\A c \in Callers, d \in Done :
                caller[c].step = "max" /\ caller'[c].step = "insert" =>
                  caller'[c].number > caller[d].number]_versionVars
  BY <1>1, NumbersRise
<1>2. QED
  BY <1>1, VersionsInitInv, VersionsNextInv, PTL DEF VersionsSpec, LaterIsHigher

=============================================================================
