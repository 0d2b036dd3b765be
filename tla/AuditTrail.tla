----------------------------- MODULE AuditTrail -----------------------------
(***************************************************************************)
(* What every operation of the local store leaves behind: a row of the     *)
(* audit log, chained to the row before it, and for some an item of the    *)
(* outbox.  Publishing delivers the items to the outbound targets, one     *)
(* await each; retention purges old rows; verification checks the chain.   *)
(*                                                                         *)
(* A row is named after its place among all rows ever written, and stands  *)
(* for its hash.  All of it is in memory: a restart begins from Init.      *)
(*                                                                         *)
(* Left out: what rows and items say, the counters per target, dry runs    *)
(* (they change nothing), a store without targets (publishing only marks). *)
(***************************************************************************)
EXTENDS Naturals, Sequences, FiniteSetsExt

CONSTANTS
  Calls,     \* requests to publish under way at a time
  Targets,   \* how many outbound targets are configured
  Limits,    \* values of maxDeletePerRun to follow; None: there is no limit
  Age,       \* retentionDays, in ticks
  MaxTime,   \* bound of the clock
  MaxRows,   \* bound: rows ever written
  MaxItems,  \* bound: items ever enqueued
  None

ASSUME AuditTrailAssumption ==
  /\ Targets \in Nat \ {0}
  /\ Limits \subseteq (Nat \ {0}) \cup {None} /\ None \notin Nat
  /\ Age \in Nat /\ MaxTime \in Nat /\ MaxRows \in Nat /\ MaxItems \in Nat

VARIABLES
  clock,
  limit,      \* maxDeletePerRun
  rows,       \* every row written, oldest first: its time, and the row its prevHash names
  kept,       \* auditEvents: the rows still there
  retaining,  \* runInProgress: the time a retention run began
  items,      \* outbox: how many items were enqueued
  published,  \* items with a publishedAt
  call,       \* requests to publish, each with the delivery it waits for
  received,   \* history: how often (once, or more) a target got an item
  disturbed   \* history: items a delivery of which threw, or two requests were at

logVars == <<limit, rows, kept, retaining>>
outboxVars == <<items, published, call, received, disturbed>>
vars == <<clock, logVars, outboxVars>>

Genesis == 0
Idle == [item |-> 0, target |-> 0, at |-> 0, count |-> 0]

Init ==
  /\ clock = 0
  /\ limit \in Limits
  /\ rows = <<>> /\ kept = {}
  /\ retaining = None
  /\ items = 0 /\ published = {}
  /\ call = [c \in Calls |-> Idle]
  /\ received = [i \in 1 .. MaxItems |-> [t \in 1 .. Targets |-> 0]]
  /\ disturbed = {}

Tick ==
  /\ clock < MaxTime
  /\ clock' = clock + 1
  /\ UNCHANGED <<logVars, outboxVars>>

-----------------------------------------------------------------------------
(* recordAudit, n times over: the first row links to the newest one kept. *)
Newest == Max(kept \cup {Genesis})

RecordAudit(n, at) ==
  LET old == Len(rows)
  IN /\ old + n <= MaxRows
     /\ rows' = [k \in 1 .. old + n |->
                   IF k <= old THEN rows[k]
                   ELSE [at |-> at, prev |-> IF k = old + 1 THEN Newest ELSE k - 1]]
     /\ kept' = kept \cup (old + 1 .. old + n)

(* An operation: claim, heartbeat, change of metadata ... *)
Operate ==
  /\ RecordAudit(1, clock)
  /\ UNCHANGED <<clock, limit, retaining, outboxVars>>

(* ... or one with an event for the outside, as createIngestAsset. *)
OperateAndEnqueue ==
  /\ items < MaxItems
  /\ RecordAudit(1, clock)
  /\ items' = items + 1
  /\ UNCHANGED <<clock, limit, retaining, published, call, received, disturbed>>

-----------------------------------------------------------------------------
(* publishOutbox.  It goes through the live list and looks at publishedAt    *)
(* when it comes to an item, not again before it sets it.                    *)
Unpublished(after, done) == {i \in after + 1 .. items : i \notin done}
Comes(i, after, done) ==
  IF Unpublished(after, done) = {} THEN i = 0
  ELSE i \in Unpublished(after, done) /\ \A k \in Unpublished(after, done) : i <= k

Shared(c, i) == IF \E o \in Calls \ {c} : call[o].item = i THEN {i} ELSE {}

Publish(c) ==
  /\ call[c] = Idle
  /\ \E i \in 1 .. items :
       /\ Comes(i, 0, published)
       /\ call' = [call EXCEPT ![c] = [item |-> i, target |-> 1, at |-> clock, count |-> 0]]
       /\ disturbed' = disturbed \cup Shared(c, i)
  /\ UNCHANGED <<clock, logVars, items, published, received>>

(* On to the next item, or to the end, where a row tells how many were       *)
(* published; more rows come before it.                                      *)
MoveOn(c, done, count, more, bad) ==
  \E i \in 0 .. items :
    /\ Comes(i, call[c].item, done)
    /\ call' = [call EXCEPT ![c] =
         IF i = 0 THEN Idle ELSE [item |-> i, target |-> 1, at |-> call[c].at, count |-> count]]
    /\ disturbed' = disturbed \cup bad \cup (IF i = 0 THEN {} ELSE Shared(c, i))
    /\ RecordAudit(more + (IF i = 0 /\ count > 0 THEN 1 ELSE 0), call[c].at)

Receive(c) ==
  LET i == call[c].item
      t == call[c].target
  IN received' = [received EXCEPT ![i] =
       [@ EXCEPT ![t] = IF received[i][t] = 0 THEN 1 ELSE 2]]

Delivered(c) ==
  /\ call[c] # Idle /\ call[c].target < Targets
  /\ Receive(c)
  /\ call' = [call EXCEPT ![c] = [@ EXCEPT !.target = call[c].target + 1]]
  /\ UNCHANGED <<clock, logVars, items, published, disturbed>>

DeliveredToAll(c) ==
  /\ call[c] # Idle /\ call[c].target = Targets
  /\ Receive(c)
  /\ published' = published \cup {call[c].item}
  /\ MoveOn(c, published', call[c].count + 1, 0, {})
  /\ UNCHANGED <<clock, limit, retaining, items>>

(* Mutant: an item whose delivery threw is marked like the others. *)
MarkedAnyway(c) ==
  /\ call[c] # Idle
  /\ Receive(c) \/ UNCHANGED received
  /\ published' = published \cup {call[c].item}
  /\ MoveOn(c, published', call[c].count, 1, {call[c].item})
  /\ UNCHANGED <<clock, limit, retaining, items>>

(* The target refuses, or does not answer although it has got the item.  The *)
(* targets after it are not tried, the item stays unpublished.               *)
DeliveryFails(c) ==
  /\ call[c] # Idle
  /\ Receive(c) \/ UNCHANGED received
  /\ MoveOn(c, published, call[c].count, 1, {call[c].item})
  /\ UNCHANGED <<clock, limit, retaining, items, published>>

-----------------------------------------------------------------------------
(* The retention runner: a run is skipped while one is in progress. *)
BeginRetention ==
  /\ retaining = None
  /\ retaining' = clock
  /\ UNCHANGED <<clock, limit, rows, kept, outboxVars>>

(* Mutant: the newest of the expired rows go first. *)
NewestFirst(i, j) == rows[i].at > rows[j].at \/ (rows[i].at = rows[j].at /\ i > j)

(* applyAuditRetention: of the rows older than the cutoff the oldest go, the *)
(* later one first where two have the same time: the sort is stable and its  *)
(* input newest first.                                                       *)
Expired == {i \in kept : rows[i].at + Age < retaining}
GoesBefore(i, j) == rows[i].at < rows[j].at \/ (rows[i].at = rows[j].at /\ i > j)

Purge ==
  /\ retaining # None
  /\ \E gone \in SUBSET Expired :
       /\ limit = None => gone = Expired
       /\ limit # None => Cardinality(gone) = Min({limit, Cardinality(Expired)})
       /\ \A i \in gone, j \in Expired \ gone : GoesBefore(i, j)
       /\ kept' = kept \ gone
  /\ retaining' = None
  /\ UNCHANGED <<clock, limit, rows, outboxVars>>

Next ==
  \/ Tick \/ Operate \/ OperateAndEnqueue \/ BeginRetention \/ Purge
  \/ \E c \in Calls : Publish(c) \/ Delivered(c) \/ DeliveredToAll(c) \/ DeliveryFails(c)

Spec == Init /\ [][Next]_vars

-----------------------------------------------------------------------------
TypeOK ==
  /\ clock \in 0 .. MaxTime
  /\ limit \in Limits
  /\ rows \in Seq([at : 0 .. MaxTime, prev : 0 .. MaxRows]) /\ Len(rows) <= MaxRows
  /\ kept \subseteq DOMAIN rows
  /\ retaining \in 0 .. MaxTime \cup {None}
  /\ items \in 0 .. MaxItems /\ published \subseteq 1 .. items
  /\ call \in [Calls -> [item : 0 .. items, target : 0 .. Targets, at : 0 .. MaxTime,
                         count : 0 .. items]]
  /\ received \in [1 .. MaxItems -> [1 .. Targets -> 0 .. 2]]
  /\ disturbed \subseteq 1 .. items

(* verifyAuditChain: a row is reported when its prevHash is not the hash of  *)
(* the row before it in the list, or of the first one not the genesis hash.  *)
Before(i) == {j \in kept : j < i}
Reported == {i \in kept : rows[i].prev # Max(Before(i) \cup {Genesis})}

(* Rows came in the order of their times, and no two of the same time where  *)
(* a limit may part them.                                                    *)
InOrder ==
  \A i, j \in DOMAIN rows : i < j =>
    IF limit = None THEN rows[i].at <= rows[j].at ELSE rows[i].at < rows[j].at

(* "Recompute the audit log hash chain and report tampering": retention,     *)
(* which nobody means by tampering, breaks the chain at one place at most,   *)
(* and that is the oldest row kept, as long as the rows came in order.  (A   *)
(* publish that takes long writes rows that do not.)                         *)
ChainHolds ==
  InOrder => \A i \in Reported : Before(i) = {}

(* An item is marked published only when every target has got it, whatever   *)
(* threw in between and whoever else was publishing; and a target gets an    *)
(* item twice only if a delivery of that item threw, or two requests were    *)
(* publishing it at once.                                                    *)
DeliveredBeforeMarked ==
  \A i \in 1 .. items, t \in 1 .. Targets :
    /\ i \in published => received[i][t] >= 1
    /\ received[i][t] > 1 => i \in disturbed
=============================================================================
