-------------------------- MODULE AuditTrailProofs --------------------------
(***************************************************************************)
(* What AuditTrail keeps for every number of publishing requests, targets, *)
(* rows and items, every age and every limit per run of retention.         *)
(*                                                                         *)
(* Of the log: as long as its rows came in order, those kept are the last  *)
(* ones, and a kept row names the row before it if that is kept too.  Of   *)
(* the outbox: a request has delivered its item to the targets before the  *)
(* one it waits for, and an undisturbed item is at one request at most,    *)
(* which has delivered it to nobody else.                                  *)
(***************************************************************************)
EXTENDS AuditTrail, SequenceTheorems, WellFoundedInduction, TLAPS

CallRow == [item : 0 .. items, target : 0 .. Targets, at : 0 .. MaxTime, count : 0 .. items]
Row == [at : 0 .. MaxTime, prev : 0 .. MaxRows]

(* A request is idle, or at an item of the outbox and one of the targets. *)
Placed ==
  \A c \in Calls :
    \/ call[c] = Idle
    \/ /\ call[c].item \in 1 .. items /\ call[c].target \in 1 .. Targets
       /\ call[c].count < call[c].item

(* A kept row names the row before it if that is kept as well. *)
Linked == \A i \in kept : i - 1 \in kept => rows[i].prev = i - 1

(* What retention has left are the last rows. *)
LastKept == \A i \in kept, j \in DOMAIN rows : i <= j => j \in kept

(* Delivered so far: by a request at an item, and of a published item. *)
SoFar ==
  \A c \in Calls : call[c] # Idle =>
    \A t \in 1 .. Targets : t < call[c].target => received[call[c].item][t] >= 1

ToAll == \A i \in published, t \in 1 .. Targets : received[i][t] >= 1

At(c, i) == call[c].item = i

(* An item no delivery of which threw and that no two requests shared. *)
Undisturbed(i) ==
  /\ \A t \in 1 .. Targets : received[i][t] <= 1
  /\ \A c, o \in Calls : At(c, i) /\ At(o, i) => c = o
  /\ \A c \in Calls : At(c, i) =>
       /\ i \notin published
       /\ \A t \in 1 .. Targets : t >= call[c].target => received[i][t] = 0
  /\ (\A c \in Calls : ~At(c, i)) /\ i \notin published =>
       \A t \in 1 .. Targets : received[i][t] = 0

LogInv == Linked /\ (InOrder => LastKept)
OutboxInv == Placed /\ SoFar /\ ToAll /\ \A i \in (1 .. MaxItems) \ disturbed : Undisturbed(i)
IInv == TypeOK /\ LogInv /\ OutboxInv

-----------------------------------------------------------------------------
(* A set of natural numbers with an upper bound has a greatest element. *)
LEMMA Greatest ==
  ASSUME NEW S \in SUBSET Nat, S # {}, NEW b \in Nat, \A x \in S : x <= b
  PROVE  \E m \in S : \A x \in S : m >= x
<1> DEFINE Upper == {n \in Nat : \A x \in S : x <= n}
<1>1. Upper \in SUBSET Nat /\ b \in Upper
  OBVIOUS
<1>2. PICK m \in Upper : \A y \in Upper : <<y, m>> \notin OpToRel(<, Nat)
  BY <1>1, NatLessThanWellFounded, WFMin
<1>3. \A y \in Upper : ~(y < m)
  BY <1>1, <1>2 DEF OpToRel
<1>4. m \in S
  <2>1. SUFFICES ASSUME m \notin S PROVE FALSE
    OBVIOUS
  <2>2. \A x \in S : x < m
    BY <2>1, <1>1
  <2>3. PICK x \in S : TRUE
    OBVIOUS
  <2>4. x \in Nat /\ m \in Nat /\ x < m
    BY <2>2, <1>1
  <2>5. m - 1 \in Nat
    BY <2>4
  <2>6. \A y \in S : y <= m - 1
    BY <2>2, <2>4
  <2>7. m - 1 \in Upper
    BY <2>5, <2>6
  <2>8. QED
    BY <2>7, <2>4, <1>3
<1>5. QED
  BY <1>4, <1>1

LEMMA MaxOf ==
  ASSUME NEW S \in SUBSET Nat, S # {}, NEW b \in Nat, \A x \in S : x <= b
  PROVE  Max(S) \in S /\ \A x \in S : Max(S) >= x
BY Greatest, Zenon DEF Max

LEMMA NewestKept ==
  ASSUME TypeOK
  PROVE  Newest \in 0 .. Len(rows) /\ (Len(rows) \in kept => Newest = Len(rows))
<1>1. Len(rows) \in Nat /\ DOMAIN rows = 1 .. Len(rows)
  BY DEF TypeOK
<1>2. kept \subseteq 1 .. Len(rows)
  BY <1>1 DEF TypeOK
<1>3. kept \cup {Genesis} \in SUBSET Nat /\ \A x \in kept \cup {Genesis} : x <= Len(rows)
  BY <1>1, <1>2 DEF Genesis
<1>4. Newest \in kept \cup {Genesis} /\ \A x \in kept \cup {Genesis} : Newest >= x
  BY <1>1, <1>3, MaxOf, Zenon DEF Newest
<1>5. Newest \in Nat /\ Newest <= Len(rows)
  BY <1>3, <1>4
<1>6. Len(rows) \in kept => Newest >= Len(rows)
  BY <1>4
<1>7. ASSUME NEW m \in Nat, NEW len \in Nat, m <= len
      PROVE  m \in 0 .. len /\ (m >= len => m = len)
  BY <1>7
<1>8. QED
  BY <1>1, <1>5, <1>6, <1>7

(* What recordAudit does to the rows. *)
LEMMA Recorded ==
  ASSUME TypeOK, NEW n \in Nat, NEW at \in 0 .. MaxTime, RecordAudit(n, at)
  PROVE  /\ rows' \in Seq(Row) /\ Len(rows') <= MaxRows
         /\ Len(rows') = Len(rows) + n
         /\ kept' \subseteq DOMAIN rows'
         /\ \A k \in 1 .. Len(rows) : rows'[k] = rows[k]
         /\ \A k \in Len(rows) + 1 .. Len(rows) + n :
              rows'[k].prev = IF k = Len(rows) + 1 THEN Newest ELSE k - 1
<1> DEFINE old == Len(rows)
<1>1. /\ old \in Nat /\ DOMAIN rows = 1 .. old /\ old <= MaxRows /\ MaxRows \in Nat
      /\ kept \subseteq 1 .. old
  BY AuditTrailAssumption DEF TypeOK
<1>2. old + n \in Nat /\ old + n <= MaxRows
  BY <1>1 DEF RecordAudit
<1>3. rows' = [k \in 1 .. old + n |->
                 IF k <= old THEN rows[k]
                 ELSE [at |-> at, prev |-> IF k = old + 1 THEN Newest ELSE k - 1]]
  BY DEF RecordAudit
<1>4. \A k \in 1 .. old : rows[k] \in Row
  BY <1>1, ElementOfSeq DEF TypeOK, Row
<1>5. \A k \in 1 .. old + n : k > old =>
        (IF k = old + 1 THEN Newest ELSE k - 1) \in 0 .. MaxRows
  BY <1>1, <1>2, NewestKept
<1>6. rows' \in [1 .. old + n -> Row]
  BY <1>1, <1>2, <1>3, <1>4, <1>5 DEF Row
<1>7. rows' \in Seq(Row)
  BY <1>2, <1>6, SeqDef
<1>8. Len(rows') = old + n /\ DOMAIN rows' = 1 .. old + n
  BY <1>2, <1>6, <1>7, LenProperties
<1>9. kept' = kept \cup (old + 1 .. old + n)
  BY DEF RecordAudit
<1>10. kept' \subseteq DOMAIN rows'
  <2>1. 1 .. old \subseteq 1 .. old + n /\ old + 1 .. old + n \subseteq 1 .. old + n
    BY <1>1
  <2>2. QED
    BY <1>1, <1>8, <1>9, <2>1
<1>11. \A k \in 1 .. old : rows'[k] = rows[k]
  BY <1>1, <1>2, <1>3
<1>12. \A k \in old + 1 .. old + n :
         rows'[k].prev = IF k = old + 1 THEN Newest ELSE k - 1
  BY <1>1, <1>2, <1>3
<1>13. QED
  BY <1>2, <1>7, <1>8, <1>10, <1>11, <1>12

LEMMA RecordedInOrder ==
  ASSUME TypeOK, LogInv, NEW n \in Nat, NEW at \in 0 .. MaxTime, RecordAudit(n, at),
         limit' = limit
  PROVE  LogInv'
<1> DEFINE old == Len(rows)
<1>1. /\ old \in Nat /\ DOMAIN rows = 1 .. old /\ kept \subseteq 1 .. old
      /\ DOMAIN rows' = 1 .. old + n
      /\ kept' = kept \cup (old + 1 .. old + n)
  BY Recorded DEF TypeOK, RecordAudit
<1>2. \A k \in 1 .. old : rows'[k] = rows[k]
  BY Recorded
<1>3. Linked'
  <2>1. SUFFICES ASSUME NEW i \in kept', i - 1 \in kept' PROVE rows'[i].prev = i - 1
    BY DEF Linked
  <2>2. CASE i \in 1 .. old
    <3>1. i \in kept /\ i - 1 \in kept
      BY <1>1, <2>1, <2>2
    <3>2. QED
      BY <1>2, <2>2, <3>1 DEF LogInv, Linked
  <2>3. CASE i = old + 1
    <3>1. i \in old + 1 .. old + n /\ old \in kept /\ i - 1 = old
      BY <1>1, <2>1, <2>3
    <3>2. QED
      BY <2>3, <3>1, Recorded, NewestKept
  <2>4. CASE i \notin 1 .. old + 1
    <3>1. i \in old + 1 .. old + n /\ i # old + 1
      BY <1>1, <2>1, <2>4
    <3>2. QED
      BY <3>1, Recorded
  <2>5. QED
    BY <1>1, <2>2, <2>3, <2>4
<1>4. InOrder' => InOrder
  BY <1>1, <1>2 DEF InOrder
<1>5. LastKept => LastKept'
  BY <1>1 DEF LastKept
<1>6. QED
  BY <1>3, <1>4, <1>5 DEF LogInv

(* A purge takes the oldest of the rows, and a run of them if they are in    *)
(* order.                                                                    *)
LEMMA PurgeInOrder ==
  ASSUME TypeOK, LogInv, Purge
  PROVE  LogInv'
<1>1. PICK gone \in SUBSET Expired :
        /\ limit = None => gone = Expired
        /\ \A i \in gone, j \in Expired \ gone : GoesBefore(i, j)
        /\ kept' = kept \ gone
  BY DEF Purge
<1>2. rows' = rows /\ limit' = limit /\ retaining \in Nat /\ Age \in Nat
  BY AuditTrailAssumption DEF Purge, TypeOK
<1>3. DOMAIN rows \subseteq Nat /\ kept \subseteq DOMAIN rows
      /\ \A k \in DOMAIN rows : rows[k].at \in Nat
  <2>1. DOMAIN rows = 1 .. Len(rows) /\ Len(rows) \in Nat /\ kept \subseteq DOMAIN rows
    BY DEF TypeOK
  <2>2. \A k \in DOMAIN rows : rows[k] \in Row
    BY <2>1, ElementOfSeq DEF TypeOK, Row
  <2>3. QED
    BY <2>1, <2>2 DEF Row
<1>4. Linked'
  BY <1>1, <1>2 DEF LogInv, Linked
<1>5. ASSUME InOrder' PROVE LastKept'
  <2>1. SUFFICES ASSUME NEW i \in kept', NEW j \in DOMAIN rows, i < j, j \in gone
                 PROVE  FALSE
    <3>1. InOrder /\ LastKept
      BY <1>2, <1>5 DEF InOrder, LogInv
    <3>2. QED
      BY <3>1, <1>1, <1>2, <1>3 DEF LastKept
  <2>2. i \in kept /\ i \in DOMAIN rows /\ i \notin gone
    BY <1>1, <1>3
  <2>3. IF limit = None THEN rows[i].at <= rows[j].at ELSE rows[i].at < rows[j].at
    BY <1>2, <1>5, <2>1, <2>2 DEF InOrder
  <2>4. rows[j].at + Age < retaining
    BY <1>1, <2>1 DEF Expired
  <2>5. i \in Expired
    BY <1>2, <1>3, <2>2, <2>3, <2>4 DEF Expired
  <2>6. GoesBefore(j, i) /\ limit # None
    BY <1>1, <2>1, <2>2, <2>5
  <2>7. QED
    BY <1>3, <2>2, <2>3, <2>6 DEF GoesBefore
<1>6. QED
  BY <1>4, <1>5 DEF LogInv

(* The last rows of a log, each naming the one before it, verify but for the *)
(* first of them.                                                            *)
LEMMA LastRowsVerify ==
  ASSUME TypeOK, LogInv
  PROVE  ChainHolds
<1>1. SUFFICES ASSUME InOrder, NEW i \in kept, Before(i) # {}
               PROVE  rows[i].prev = Max(Before(i) \cup {Genesis})
  BY DEF ChainHolds, Reported
<1>2. kept \subseteq DOMAIN rows /\ DOMAIN rows = 1 .. Len(rows) /\ Len(rows) \in Nat
  BY DEF TypeOK
<1>3. PICK j \in kept : j < i
  BY <1>1 DEF Before
<1>4. i - 1 \in DOMAIN rows /\ j <= i - 1 /\ i - 1 \in Nat
  BY <1>2, <1>3
<1>5. i - 1 \in kept
  BY <1>1, <1>3, <1>4 DEF LogInv, LastKept
<1>6. rows[i].prev = i - 1
  BY <1>5 DEF LogInv, Linked
<1>7. i - 1 \in Before(i) \cup {Genesis} /\ \A x \in Before(i) \cup {Genesis} : x <= i - 1
  BY <1>2, <1>4, <1>5 DEF Before, Genesis
<1>8. Before(i) \cup {Genesis} \in SUBSET Nat
  BY <1>2 DEF Before, Genesis
<1>9. /\ Max(Before(i) \cup {Genesis}) \in Before(i) \cup {Genesis}
      /\ Max(Before(i) \cup {Genesis}) >= i - 1
  BY <1>4, <1>7, <1>8, MaxOf
<1>10. QED
  BY <1>4, <1>6, <1>7, <1>8, <1>9

-----------------------------------------------------------------------------
(* Steps of the outbox. *)
LEMMA Receiving ==
  ASSUME TypeOK, NEW c \in Calls, Receive(c),
         call[c].item \in 1 .. items, call[c].target \in 1 .. Targets
  PROVE  /\ received' \in [1 .. MaxItems -> [1 .. Targets -> 0 .. 2]]
         /\ \A i \in 1 .. MaxItems, t \in 1 .. Targets :
              received'[i][t] =
                IF i = call[c].item /\ t = call[c].target
                THEN IF received[i][t] = 0 THEN 1 ELSE 2
                ELSE received[i][t]
<1> DEFINE i == call[c].item
           t == call[c].target
<1>1. i \in 1 .. MaxItems /\ t \in 1 .. Targets
  BY AuditTrailAssumption DEF TypeOK
<1>2. received \in [1 .. MaxItems -> [1 .. Targets -> 0 .. 2]]
  BY DEF TypeOK
<1>3. received' = [received EXCEPT ![i] = [received[i] EXCEPT ![t] = IF received[i][t] = 0 THEN 1 ELSE 2]]
  BY <1>1, <1>2, Zenon DEF Receive
<1> HIDE DEF i, t
<1>4. received' \in [1 .. MaxItems -> [1 .. Targets -> 0 .. 2]]
  BY <1>1, <1>2, <1>3
<1>5. \A k \in 1 .. MaxItems, u \in 1 .. Targets :
        received'[k][u] = IF k = i /\ u = t
                          THEN IF received[k][u] = 0 THEN 1 ELSE 2
                          ELSE received[k][u]
  BY <1>1, <1>2, <1>3
<1>6. QED
  BY <1>4, <1>5 DEF i, t

(* The request c comes to the item i, or to its end; nobody else moves. *)
ComesTo(c, i, count, at) ==
  /\ call' = [call EXCEPT ![c] =
       IF i = 0 THEN Idle ELSE [item |-> i, target |-> 1, at |-> at, count |-> count]]
  /\ i # 0 => i \notin published /\ Shared(c, i) \subseteq disturbed'

LEMMA Came ==
  ASSUME TypeOK, NEW c \in Calls, NEW i \in 0 .. items, NEW count \in 0 .. items,
         NEW at \in 0 .. MaxTime, ComesTo(c, i, count, at)
  PROVE  /\ call' \in [Calls -> CallRow]
         /\ call'[c] = IF i = 0 THEN Idle
                       ELSE [item |-> i, target |-> 1, at |-> at, count |-> count]
         /\ \A o \in Calls \ {c} : call'[o] = call[o]
         /\ call'[c].item = i
<1> DEFINE new == IF i = 0 THEN Idle ELSE [item |-> i, target |-> 1, at |-> at, count |-> count]
<1>1. call \in [Calls -> CallRow] /\ items \in Nat
  BY AuditTrailAssumption DEF TypeOK, CallRow
<1>2. Targets \in Nat /\ 1 <= Targets /\ MaxTime \in Nat
  BY AuditTrailAssumption
<1>3. new \in CallRow /\ new.item = i
  BY <1>1, <1>2 DEF CallRow, Idle
<1>4. call' = [call EXCEPT ![c] = new]
  BY DEF ComesTo
<1> HIDE DEF new
<1>5. call'[c] = new /\ (\A o \in Calls \ {c} : call'[o] = call[o]) /\ call' \in [Calls -> CallRow]
  BY <1>1, <1>3, <1>4
<1>6. QED
  BY <1>3, <1>5 DEF new

LEMMA PlacedThere ==
  ASSUME TypeOK, Placed, NEW c \in Calls, NEW i \in 0 .. items, NEW count \in 0 .. items,
         NEW at \in 0 .. MaxTime, ComesTo(c, i, count, at), items' = items, count < i \/ i = 0
  PROVE  Placed'
<1>1. items \in Nat /\ Targets \in Nat /\ 1 <= Targets
  BY AuditTrailAssumption DEF TypeOK
<1>2. SUFFICES ASSUME NEW o \in Calls, call'[o] # Idle
               PROVE  /\ call'[o].item \in 1 .. items /\ call'[o].target \in 1 .. Targets
                      /\ call'[o].count < call'[o].item
  BY DEF Placed, Idle
<1>3. CASE o = c
  <2>1. i # 0 /\ call'[c] = [item |-> i, target |-> 1, at |-> at, count |-> count]
    BY <1>2, <1>3, Came
  <2>2. call'[c].item = i /\ call'[c].target = 1 /\ call'[c].count = count
    BY <2>1
  <2>3. QED
    BY <1>1, <1>3, <2>1, <2>2
<1>4. CASE o # c
  BY <1>2, <1>4, Came DEF Placed
<1>5. QED
  BY <1>3, <1>4

(* Items other than the one it leaves stay undisturbed. *)
LEMMA Elsewhere ==
  ASSUME TypeOK, NEW c \in Calls, NEW i \in 0 .. items, NEW count \in 0 .. items,
         NEW at \in 0 .. MaxTime, ComesTo(c, i, count, at),
         NEW j \in 1 .. MaxItems, ~At(c, j), j \notin disturbed', Undisturbed(j),
         \A t \in 1 .. Targets : received'[j][t] = received[j][t],
         j \in published' <=> j \in published
  PROVE  Undisturbed(j)'
<1>1. \A o \in Calls \ {c} : At(o, j)' <=> At(o, j)
  BY Came DEF At
<1>2. At(c, j)' <=> i = j
  BY Came DEF At
<1>3. CASE i = j
  <2>1. j \notin published /\ call'[c].target = 1
    <3>1. i # 0
      BY <1>3
    <3>2. call'[c] = [item |-> i, target |-> 1, at |-> at, count |-> count]
      BY <3>1, Came
    <3>3. QED
      BY <1>3, <3>1, <3>2 DEF ComesTo
  <2>2. \A o \in Calls : ~At(o, j)
    <3>1. SUFFICES ASSUME NEW o \in Calls \ {c}, At(o, j) PROVE FALSE
      OBVIOUS
    <3>2. j \in Shared(c, j)
      BY <3>1 DEF Shared, At
    <3>3. QED
      BY <1>3, <3>2 DEF ComesTo
  <2>3. \A t \in 1 .. Targets : received[j][t] = 0
    BY <2>1, <2>2 DEF Undisturbed
  <2>4. \A o \in Calls : At(o, j)' => o = c
    BY <1>1, <2>2
  <2>5. QED
    BY <1>2, <1>3, <2>1, <2>3, <2>4 DEF Undisturbed
<1>4. CASE i # j
  <2>1. \A o \in Calls : At(o, j)' <=> At(o, j)
    BY <1>1, <1>2, <1>4
  <2>2. \A o \in Calls : At(o, j)' => call'[o] = call[o]
    <3>1. \A o \in Calls \ {c} : call'[o] = call[o]
      BY Came
    <3>2. QED
      BY <1>2, <1>4, <3>1
  <2>3. QED
    BY <2>1, <2>2 DEF Undisturbed
<1>5. QED
  BY <1>3, <1>4

LEMMA MovedOn ==
  ASSUME TypeOK, Placed, NEW c \in Calls, call[c] # Idle,
         NEW done, published \subseteq done, NEW count \in 0 .. call[c].item,
         NEW more \in Nat, NEW bad \in SUBSET (1 .. items), MoveOn(c, done, count, more, bad)
  PROVE  /\ \E i \in 0 .. items :
              /\ ComesTo(c, i, count, call[c].at)
              /\ count < i \/ i = 0
              /\ i # call[c].item /\ (i # 0 => i \notin done)
         /\ disturbed \cup bad \subseteq disturbed' /\ disturbed' \subseteq 1 .. items
         /\ \E n \in Nat : RecordAudit(n, call[c].at)
<1>1. PICK i \in 0 .. items :
        /\ Comes(i, call[c].item, done)
        /\ call' = [call EXCEPT ![c] =
             IF i = 0 THEN Idle ELSE [item |-> i, target |-> 1, at |-> call[c].at, count |-> count]]
        /\ disturbed' = disturbed \cup bad \cup (IF i = 0 THEN {} ELSE Shared(c, i))
        /\ RecordAudit(more + (IF i = 0 /\ count > 0 THEN 1 ELSE 0), call[c].at)
  BY DEF MoveOn
<1>2. call[c].item \in 1 .. items /\ items \in Nat
  BY AuditTrailAssumption DEF Placed, TypeOK
<1>3. i # 0 => i \in call[c].item + 1 .. items /\ i \notin done
  BY <1>1, <1>2 DEF Comes, Unpublished
<1>4. Shared(c, i) \subseteq {i} /\ disturbed \subseteq 1 .. items
  BY DEF Shared, TypeOK
<1>5. ComesTo(c, i, count, call[c].at)
  BY <1>1, <1>3 DEF ComesTo
<1>6. disturbed \cup bad \subseteq disturbed' /\ disturbed' \subseteq 1 .. items
  <2>1. CASE i = 0
    BY <1>1, <1>4, <2>1
  <2>2. CASE i # 0
    <3>1. Shared(c, i) \subseteq 1 .. items
      BY <1>4, <2>2
    <3>2. QED
      BY <1>1, <1>4, <2>2, <3>1
  <2>3. QED
    BY <2>1, <2>2
<1>7. \E n \in Nat : RecordAudit(n, call[c].at)
  <2>1. more + (IF i = 0 /\ count > 0 THEN 1 ELSE 0) \in Nat
    OBVIOUS
  <2>2. QED
    BY <1>1, <2>1
<1>8. i # call[c].item /\ (count < i \/ i = 0)
  BY <1>2, <1>3
<1>9. QED
  BY <1>3, <1>5, <1>6, <1>7, <1>8

LEMMA PublishKeeps ==
  ASSUME IInv, NEW c \in Calls, Publish(c)
  PROVE  TypeOK' /\ OutboxInv'
<1>1. TypeOK /\ OutboxInv
  BY DEF IInv
<1>2. PICK i \in 1 .. items :
        /\ Comes(i, 0, published)
        /\ call' = [call EXCEPT ![c] = [item |-> i, target |-> 1, at |-> clock, count |-> 0]]
        /\ disturbed' = disturbed \cup Shared(c, i)
  BY DEF Publish
<1>3. items \in Nat /\ i \in 0 .. items /\ i # 0 /\ clock \in 0 .. MaxTime /\ 0 \in 0 .. items
  BY <1>1, AuditTrailAssumption DEF TypeOK
<1>4. ComesTo(c, i, 0, clock)
  BY <1>2, <1>3 DEF ComesTo, Comes, Unpublished
<1>5. call[c] = Idle
      /\ UNCHANGED <<clock, limit, rows, kept, retaining, items, published, received>>
  BY DEF Publish, logVars
<1>6. disturbed \subseteq disturbed' /\ disturbed' \subseteq 1 .. items
  BY <1>1, <1>2 DEF Shared, TypeOK
<1>7. call' \in [Calls -> CallRow]
  BY <1>1, <1>3, <1>4, Came
<1>8. TypeOK'
  BY <1>1, <1>5, <1>6, <1>7 DEF TypeOK, CallRow
<1>9. Placed'
  BY <1>1, <1>3, <1>4, <1>5, PlacedThere DEF OutboxInv
<1>10. SoFar'
  <2>1. call'[c].target = 1 /\ \A o \in Calls \ {c} : call'[o] = call[o]
    <3>1. call'[c] = [item |-> i, target |-> 1, at |-> clock, count |-> 0]
      BY <1>1, <1>3, <1>4, Came
    <3>2. QED
      BY <1>1, <1>3, <1>4, <3>1, Came
  <2>2. \A t \in 1 .. Targets : ~(t < 1)
    BY AuditTrailAssumption
  <2>3. QED
    BY <1>1, <1>5, <2>1, <2>2 DEF SoFar, OutboxInv
<1>11. ToAll'
  BY <1>1, <1>5 DEF ToAll, OutboxInv
<1>12. ASSUME NEW j \in (1 .. MaxItems) \ disturbed' PROVE Undisturbed(j)'
  <2>1. j \notin disturbed /\ Undisturbed(j)
    BY <1>1, <1>6 DEF OutboxInv
  <2>2. ~At(c, j)
    BY <1>5 DEF At, Idle
  <2>3. QED
    BY <1>1, <1>3, <1>4, <1>5, <2>1, <2>2, Elsewhere
<1>13. QED
  BY <1>8, <1>9, <1>10, <1>11, <1>12 DEF OutboxInv

LEMMA AtAnItem ==
  ASSUME TypeOK, Placed, NEW c \in Calls, call[c] # Idle
  PROVE  /\ call[c].item \in 1 .. items /\ call[c].item \in 1 .. MaxItems
         /\ call[c].target \in 1 .. Targets /\ call[c].at \in 0 .. MaxTime
         /\ call[c].count \in Nat /\ call[c].count < call[c].item
         /\ items \in Nat /\ items <= MaxItems /\ call[c] \in CallRow
<1>1. call[c] \in CallRow /\ items \in 0 .. MaxItems
  BY DEF TypeOK, CallRow
<1>2. /\ call[c].item \in 1 .. items /\ call[c].target \in 1 .. Targets
      /\ call[c].count < call[c].item
  BY DEF Placed
<1>3. call[c].at \in 0 .. MaxTime /\ call[c].count \in 0 .. items
  BY <1>1 DEF CallRow
<1>4. QED
  BY <1>1, <1>2, <1>3, AuditTrailAssumption

LEMMA DeliveredKeeps ==
  ASSUME IInv, NEW c \in Calls, Delivered(c)
  PROVE  TypeOK' /\ OutboxInv'
<1> DEFINE item == call[c].item
           target == call[c].target
<1>1. TypeOK /\ OutboxInv /\ Placed
  BY DEF IInv, OutboxInv
<1>2. /\ call[c] # Idle /\ target < Targets /\ Receive(c)
      /\ call' = [call EXCEPT ![c] = [call[c] EXCEPT !.target = target + 1]]
      /\ UNCHANGED <<clock, limit, rows, kept, retaining, items, published, disturbed>>
  <2>1. call \in [Calls -> CallRow]
    BY <1>1 DEF TypeOK, CallRow
  <2>2. call' = [call EXCEPT ![c] = [call[c] EXCEPT !.target = target + 1]]
    BY <2>1 DEF Delivered
  <2>3. QED
    BY <2>2 DEF Delivered, logVars
<1>3. /\ item \in 1 .. items /\ item \in 1 .. MaxItems /\ target \in 1 .. Targets
      /\ target + 1 \in 1 .. Targets /\ call[c] \in CallRow /\ call \in [Calls -> CallRow]
      /\ call[c].count < item
  <2>1. call \in [Calls -> CallRow]
    BY <1>1 DEF TypeOK, CallRow
  <2>2. /\ item \in 1 .. items /\ item \in 1 .. MaxItems /\ target \in 1 .. Targets
        /\ call[c] \in CallRow /\ call[c].count < item
    BY <1>1, <1>2, AtAnItem
  <2>3. target + 1 \in 1 .. Targets
    BY <1>2, <2>2, AuditTrailAssumption
  <2>4. QED
    BY <2>1, <2>2, <2>3
<1>4. /\ call'[c] \in CallRow /\ call'[c].item = item /\ call'[c].target = target + 1
      /\ call'[c].count = call[c].count
  BY <1>2, <1>3 DEF CallRow
<1>5. \A o \in Calls \ {c} : call'[o] = call[o]
  BY <1>2, <1>3
<1>6. call' \in [Calls -> CallRow]
  BY <1>2, <1>3, <1>4, <1>5
<1>7. received' \in [1 .. MaxItems -> [1 .. Targets -> 0 .. 2]]
  BY <1>1, <1>2, <1>3, Receiving
<1>8. \A i \in 1 .. MaxItems, t \in 1 .. Targets :
        received'[i][t] = IF i = item /\ t = target
                          THEN IF received[i][t] = 0 THEN 1 ELSE 2
                          ELSE received[i][t]
  BY <1>1, <1>2, <1>3, Receiving
<1>9. \A i \in 1 .. MaxItems, t \in 1 .. Targets : received[i][t] \in 0 .. 2
  BY <1>1 DEF TypeOK
<1>10. published \subseteq 1 .. MaxItems
  BY <1>1, AuditTrailAssumption DEF TypeOK
<1> HIDE DEF item, target
<1>11. TypeOK'
  BY <1>1, <1>2, <1>6, <1>7 DEF TypeOK, CallRow
<1>12. \A o \in Calls : call'[o].item = call[o].item /\ call'[o].count = call[o].count
  BY <1>4, <1>5 DEF item
<1>13. Placed'
  <2>1. SUFFICES ASSUME NEW o \in Calls, call'[o] # Idle
                 PROVE  /\ call'[o].item \in 1 .. items /\ call'[o].target \in 1 .. Targets
                        /\ call'[o].count < call'[o].item
    BY <1>2 DEF Placed, Idle
  <2>2. CASE o = c
    BY <1>3, <1>4, <2>2
  <2>3. CASE o # c
    BY <1>1, <1>5, <2>1, <2>3 DEF Placed
  <2>4. QED
    BY <2>2, <2>3
<1>14. SoFar'
  <2>1. SUFFICES ASSUME NEW o \in Calls, call'[o] # Idle,
                        NEW t \in 1 .. Targets, t < call'[o].target
                 PROVE  received'[call'[o].item][t] >= 1
    BY DEF SoFar
  <2>2. CASE o = c /\ t = target
    BY <1>3, <1>4, <1>8, <2>2
  <2>3. CASE o = c /\ t # target
    <3>1. received[item][t] >= 1
      BY <1>1, <1>2, <1>3, <1>4, <2>1, <2>3 DEF OutboxInv, SoFar, item, target
    <3>2. QED
      BY <1>3, <1>4, <1>8, <2>3, <3>1
  <2>4. CASE o # c
    <3>1. call[o] # Idle /\ call'[o] = call[o]
      BY <1>5, <2>1, <2>4
    <3>2. received[call[o].item][t] >= 1
      BY <1>1, <2>1, <3>1 DEF OutboxInv, SoFar
    <3>3. call[o].item \in 1 .. MaxItems
      BY <1>1, <3>1, AtAnItem
    <3>4. QED
      BY <1>8, <3>1, <3>2, <3>3
  <2>5. QED
    BY <2>2, <2>3, <2>4
<1>15. ToAll'
  <2>1. \A i \in published, t \in 1 .. Targets : received[i][t] >= 1
    BY <1>1 DEF OutboxInv, ToAll
  <2>2. \A i \in published, t \in 1 .. Targets : received'[i][t] >= 1
    BY <1>8, <1>10, <2>1
  <2>3. QED
    BY <1>2, <2>2 DEF ToAll
<1>16. ASSUME NEW j \in (1 .. MaxItems) \ disturbed' PROVE Undisturbed(j)'
  <2>1. Undisturbed(j) /\ j \in 1 .. MaxItems
    BY <1>1, <1>2 DEF OutboxInv
  <2>2. \A o \in Calls : At(o, j)' <=> At(o, j)
    BY <1>12 DEF At
  <2>3. CASE j = item
    <3>1. \A o \in Calls : At(o, j)' => o = c
      BY <2>1, <2>2, <2>3 DEF Undisturbed, At, item
    <3>2. j \notin published /\ \A t \in 1 .. Targets : t >= target => received[j][t] = 0
      BY <2>1, <2>3 DEF Undisturbed, At, item, target
    <3>3. \A t \in 1 .. Targets : received'[j][t] <= 1
      BY <1>3, <1>8, <2>1, <2>3, <3>2 DEF Undisturbed
    <3>4. \A t \in 1 .. Targets : t >= target + 1 => received'[j][t] = 0
      BY <1>3, <1>8, <2>1, <3>2
    <3>5. At(c, j)'
      BY <1>4, <2>3 DEF At
    <3>6. QED
      BY <1>2, <1>4, <3>1, <3>2, <3>3, <3>4, <3>5 DEF Undisturbed
  <2>4. CASE j # item
    <3>1. \A o \in Calls : At(o, j) => call'[o] = call[o]
      BY <1>5, <2>4 DEF At, item
    <3>2. \A t \in 1 .. Targets : received'[j][t] = received[j][t]
      BY <1>8, <2>1, <2>4
    <3>3. QED
      BY <1>2, <2>1, <2>2, <3>1, <3>2 DEF Undisturbed
  <2>5. QED
    BY <2>3, <2>4
<1>17. QED
  BY <1>11, <1>13, <1>14, <1>15, <1>16 DEF OutboxInv

(* A request leaves its item for another one or for good. *)
LEMMA LeavingKeeps ==
  ASSUME TypeOK, OutboxInv, NEW c \in Calls, call[c] # Idle,
         NEW item \in 1 .. MaxItems, item = call[c].item,
         NEW i \in 0 .. items, NEW count \in 0 .. items, ComesTo(c, i, count, call[c].at),
         count < i \/ i = 0, i # item,
         disturbed \subseteq disturbed', items' = items,
         \A j \in 1 .. MaxItems, t \in 1 .. Targets :
           /\ received'[j][t] >= received[j][t]
           /\ j # item => received'[j][t] = received[j][t],
         published \subseteq published', published' \subseteq published \cup {item},
         item \in published' => \A t \in 1 .. Targets : received'[item][t] >= 1,
         item \notin disturbed' => Undisturbed(item)',
         received' \in [1 .. MaxItems -> [1 .. Targets -> 0 .. 2]]
  PROVE  OutboxInv'
<1>1. Placed /\ call[c].at \in 0 .. MaxTime
  BY AtAnItem DEF OutboxInv
<1>2. Placed'
  BY <1>1, PlacedThere
<1>3. \A j \in 1 .. MaxItems, t \in 1 .. Targets :
        /\ received[j][t] \in 0 .. 2 /\ received'[j][t] \in 0 .. 2
        /\ received'[j][t] >= received[j][t]
  <2>1. received \in [1 .. MaxItems -> [1 .. Targets -> 0 .. 2]]
    BY DEF TypeOK
  <2>2. QED
    BY <2>1
<1>4. published \subseteq 1 .. MaxItems
  BY AuditTrailAssumption DEF TypeOK
<1>5. SoFar'
  <2>1. SUFFICES ASSUME NEW o \in Calls, call'[o] # Idle,
                        NEW t \in 1 .. Targets, t < call'[o].target
                 PROVE  received'[call'[o].item][t] >= 1
    BY DEF SoFar
  <2>2. CASE o = c
    <3>1. i # 0 => call'[c] = [item |-> i, target |-> 1, at |-> call[c].at, count |-> count]
      BY <1>1, Came
    <3>2. i = 0 => call'[c] = Idle
      BY <1>1, Came
    <3>3. call'[c].target = 1
      BY <2>1, <2>2, <3>1, <3>2
    <3>4. QED
      BY <2>1, <2>2, <3>3, AuditTrailAssumption
  <2>3. CASE o # c
    <3>1. call'[o] = call[o] /\ call[o] # Idle
      BY <1>1, <2>1, <2>3, Came
    <3>2. received[call[o].item][t] >= 1
      BY <2>1, <3>1 DEF OutboxInv, SoFar
    <3>3. call[o].item \in 1 .. MaxItems
      BY <1>1, <3>1, AtAnItem
    <3>4. QED
      BY <1>3, <3>1, <3>2, <3>3
  <2>4. QED
    BY <2>2, <2>3
<1>6. ToAll'
  <2>1. SUFFICES ASSUME NEW j \in published', NEW t \in 1 .. Targets PROVE received'[j][t] >= 1
    BY DEF ToAll
  <2>2. CASE j \in published
    <3>1. received[j][t] >= 1 /\ j \in 1 .. MaxItems
      BY <1>4, <2>2 DEF OutboxInv, ToAll
    <3>2. QED
      BY <1>3, <3>1
  <2>3. CASE j \notin published
    BY <2>1, <2>3
  <2>4. QED
    BY <2>2, <2>3
<1>7. ASSUME NEW j \in (1 .. MaxItems) \ disturbed' PROVE Undisturbed(j)'
  <2>1. CASE j # item
    <3>1. Undisturbed(j) /\ ~At(c, j) /\ j \in 1 .. MaxItems /\ j \notin disturbed'
      BY <2>1 DEF OutboxInv, At
    <3>2. j \in published' <=> j \in published
      BY <2>1
    <3>3. \A t \in 1 .. Targets : received'[j][t] = received[j][t]
      BY <2>1
    <3>4. QED
      BY <1>1, <3>1, <3>2, <3>3, Elsewhere
  <2>2. CASE j = item
    BY <2>2 DEF Undisturbed, At
  <2>3. QED
    BY <2>1, <2>2
<1>8. QED
  BY <1>2, <1>5, <1>6, <1>7 DEF OutboxInv

LEMMA LeavingTyped ==
  ASSUME TypeOK, Placed, NEW c \in Calls, call[c] # Idle,
         NEW i \in 0 .. items, NEW count \in 0 .. items, ComesTo(c, i, count, call[c].at),
         NEW n \in Nat, RecordAudit(n, call[c].at),
         UNCHANGED <<clock, limit, retaining, items>>,
         disturbed' \subseteq 1 .. items, published' \subseteq 1 .. items,
         received' \in [1 .. MaxItems -> [1 .. Targets -> 0 .. 2]]
  PROVE  TypeOK'
<1>1. call[c].at \in 0 .. MaxTime
  BY AtAnItem
<1>2. call' \in [Calls -> CallRow]
  BY <1>1, Came
<1>3. rows' \in Seq(Row) /\ Len(rows') <= MaxRows /\ kept' \subseteq DOMAIN rows'
  BY <1>1, Recorded
<1>4. QED
  BY <1>2, <1>3 DEF TypeOK, CallRow, Row

LEMMA DeliveredToAllKeeps ==
  ASSUME IInv, NEW c \in Calls, DeliveredToAll(c)
  PROVE  TypeOK' /\ LogInv' /\ OutboxInv'
<1>0. PICK item : item = call[c].item
  OBVIOUS
<1>1. TypeOK /\ LogInv /\ OutboxInv /\ Placed
  BY DEF IInv, OutboxInv
<1>2. /\ call[c] # Idle /\ call[c].target = Targets /\ Receive(c)
      /\ published' = published \cup {item}
      /\ MoveOn(c, published', call[c].count + 1, 0, {})
      /\ UNCHANGED <<clock, limit, retaining, items>>
  BY <1>0 DEF DeliveredToAll
<1>3. /\ item \in 1 .. items /\ item \in 1 .. MaxItems /\ call[c].target \in 1 .. Targets
      /\ call[c].count + 1 \in 0 .. item /\ call[c].count + 1 \in 0 .. items
      /\ call[c].at \in 0 .. MaxTime /\ items \in Nat
  BY <1>0, <1>1, <1>2, AtAnItem
<1>4. /\ \E i \in 0 .. items :
           /\ ComesTo(c, i, call[c].count + 1, call[c].at)
           /\ call[c].count + 1 < i \/ i = 0
           /\ i # item /\ (i # 0 => i \notin published')
      /\ disturbed \subseteq disturbed' /\ disturbed' \subseteq 1 .. items
      /\ \E n \in Nat : RecordAudit(n, call[c].at)
  <2>1. PICK done : done = published'
    OBVIOUS
  <2>2. MoveOn(c, done, call[c].count + 1, 0, {})
    BY <1>2, <2>1 DEF MoveOn
  <2>3. published \subseteq done /\ {} \in SUBSET (1 .. items)
    BY <1>2, <2>1
  <2>4. /\ \E i \in 0 .. items :
             /\ ComesTo(c, i, call[c].count + 1, call[c].at)
             /\ call[c].count + 1 < i \/ i = 0
             /\ i # call[c].item /\ (i # 0 => i \notin done)
        /\ disturbed \cup {} \subseteq disturbed' /\ disturbed' \subseteq 1 .. items
        /\ \E n \in Nat : RecordAudit(n, call[c].at)
    BY <1>0, <1>1, <1>2, <1>3, <2>2, <2>3, MovedOn
  <2>5. QED
    BY <1>0, <2>1, <2>4
<1>5. PICK i \in 0 .. items :
        /\ ComesTo(c, i, call[c].count + 1, call[c].at)
        /\ call[c].count + 1 < i \/ i = 0
        /\ i # item /\ (i # 0 => i \notin published')
  BY <1>4
<1>6. PICK n \in Nat : RecordAudit(n, call[c].at)
  BY <1>4
<1>7. received' \in [1 .. MaxItems -> [1 .. Targets -> 0 .. 2]]
  BY <1>0, <1>1, <1>2, <1>3, Receiving
<1>8. \A j \in 1 .. MaxItems, t \in 1 .. Targets :
        received'[j][t] = IF j = item /\ t = Targets
                          THEN IF received[j][t] = 0 THEN 1 ELSE 2
                          ELSE received[j][t]
  BY <1>0, <1>1, <1>2, <1>3, Receiving
<1>9. \A j \in 1 .. MaxItems, t \in 1 .. Targets : received[j][t] \in 0 .. 2
  BY <1>1 DEF TypeOK
<1>10. published' \subseteq 1 .. items
  BY <1>1, <1>2, <1>3 DEF TypeOK
<1>11. TypeOK'
  BY <1>1, <1>2, <1>3, <1>4, <1>5, <1>6, <1>7, <1>10, LeavingTyped
<1>12. LogInv'
  BY <1>1, <1>2, <1>3, <1>6, RecordedInOrder
<1>13. \A j \in 1 .. MaxItems, t \in 1 .. Targets :
         /\ received'[j][t] >= received[j][t]
         /\ j # item => received'[j][t] = received[j][t]
  BY <1>8, <1>9
<1>14. \A t \in 1 .. Targets : received'[item][t] >= 1
  <2>1. \A t \in 1 .. Targets : t < Targets => received[item][t] >= 1
    BY <1>0, <1>1, <1>2 DEF OutboxInv, SoFar
  <2>2. QED
    BY <1>3, <1>8, <2>1, AuditTrailAssumption
<1>15. ASSUME item \notin disturbed' PROVE Undisturbed(item)'
  <2>1. Undisturbed(item)
    BY <1>1, <1>3, <1>4, <1>15 DEF OutboxInv
  <2>2. received[item][Targets] = 0
    BY <1>0, <1>2, <1>3, <2>1 DEF Undisturbed, At
  <2>3. \A t \in 1 .. Targets : received'[item][t] <= 1
    BY <1>3, <1>8, <2>1, <2>2 DEF Undisturbed
  <2>4. \A o \in Calls : ~At(o, item)'
    <3>1. \A o \in Calls : At(o, item) => o = c
      BY <1>0, <2>1 DEF Undisturbed, At
    <3>2. call'[c].item = i /\ \A o \in Calls \ {c} : call'[o] = call[o]
      BY <1>1, <1>3, <1>5, Came
    <3>3. QED
      BY <1>5, <3>1, <3>2 DEF At
  <2>5. item \in published'
    BY <1>2
  <2>6. QED
    BY <2>3, <2>4, <2>5 DEF Undisturbed
<1>16. OutboxInv'
  <2>1. published \subseteq published' /\ published' \subseteq published \cup {item}
    BY <1>2
  <2>2. item \in published' => \A t \in 1 .. Targets : received'[item][t] >= 1
    BY <1>14
  <2>3. item \notin disturbed' => Undisturbed(item)'
    BY <1>15
  <2>4. /\ disturbed \subseteq disturbed' /\ items' = items /\ item \in 1 .. MaxItems
        /\ call[c].count + 1 \in 0 .. items
    BY <1>2, <1>3, <1>4
  <2>5. QED
    BY <1>0, <1>1, <1>2, <1>5, <1>7, <1>13, <2>1, <2>2, <2>3, <2>4, LeavingKeeps
<1>17. QED
  BY <1>11, <1>12, <1>16

LEMMA DeliveryFailsKeeps ==
  ASSUME IInv, NEW c \in Calls, DeliveryFails(c)
  PROVE  TypeOK' /\ LogInv' /\ OutboxInv'
<1>0. PICK item : item = call[c].item
  OBVIOUS
<1>1. TypeOK /\ LogInv /\ OutboxInv /\ Placed
  BY DEF IInv, OutboxInv
<1>2. /\ call[c] # Idle /\ (Receive(c) \/ UNCHANGED received)
      /\ MoveOn(c, published, call[c].count, 1, {item})
      /\ UNCHANGED <<clock, limit, retaining, items, published>>
  BY <1>0 DEF DeliveryFails
<1>3. /\ item \in 1 .. items /\ item \in 1 .. MaxItems /\ call[c].target \in 1 .. Targets
      /\ call[c].count \in 0 .. item /\ call[c].count \in 0 .. items
      /\ call[c].at \in 0 .. MaxTime /\ {item} \in SUBSET (1 .. items)
  BY <1>0, <1>1, <1>2, AtAnItem
<1>4. /\ \E i \in 0 .. items :
           /\ ComesTo(c, i, call[c].count, call[c].at)
           /\ call[c].count < i \/ i = 0
           /\ i # item
      /\ disturbed \cup {item} \subseteq disturbed' /\ disturbed' \subseteq 1 .. items
      /\ \E n \in Nat : RecordAudit(n, call[c].at)
  <2>1. /\ \E i \in 0 .. items :
             /\ ComesTo(c, i, call[c].count, call[c].at)
             /\ call[c].count < i \/ i = 0
             /\ i # call[c].item /\ (i # 0 => i \notin published)
        /\ disturbed \cup {item} \subseteq disturbed' /\ disturbed' \subseteq 1 .. items
        /\ \E n \in Nat : RecordAudit(n, call[c].at)
    BY <1>0, <1>1, <1>2, <1>3, MovedOn
  <2>2. QED
    BY <1>0, <2>1
<1>5. PICK i \in 0 .. items :
        /\ ComesTo(c, i, call[c].count, call[c].at)
        /\ call[c].count < i \/ i = 0
        /\ i # item
  BY <1>4
<1>6. PICK n \in Nat : RecordAudit(n, call[c].at)
  BY <1>4
<1>7. received' \in [1 .. MaxItems -> [1 .. Targets -> 0 .. 2]]
  BY <1>0, <1>1, <1>2, <1>3, Receiving DEF TypeOK
<1>8. \A j \in 1 .. MaxItems, t \in 1 .. Targets : received[j][t] \in 0 .. 2
  BY <1>1 DEF TypeOK
<1>9. \A j \in 1 .. MaxItems, t \in 1 .. Targets :
        /\ received'[j][t] >= received[j][t]
        /\ j # item => received'[j][t] = received[j][t]
  <2>1. CASE Receive(c)
    <3>1. \A j \in 1 .. MaxItems, t \in 1 .. Targets :
            received'[j][t] = IF j = item /\ t = call[c].target
                              THEN IF received[j][t] = 0 THEN 1 ELSE 2
                              ELSE received[j][t]
      BY <1>0, <1>1, <1>3, <2>1, Receiving
    <3>2. QED
      BY <1>8, <3>1
  <2>2. CASE UNCHANGED received
    BY <1>8, <2>2
  <2>3. QED
    BY <1>2, <2>1, <2>2
<1>10. TypeOK'
  <2>1. published' \subseteq 1 .. items
    BY <1>1, <1>2 DEF TypeOK
  <2>2. QED
    BY <1>1, <1>2, <1>3, <1>4, <1>5, <1>6, <1>7, <2>1, LeavingTyped
<1>11. LogInv'
  BY <1>1, <1>2, <1>3, <1>6, RecordedInOrder
<1>12. ASSUME item \in published' PROVE \A t \in 1 .. Targets : received'[item][t] >= 1
  <2>1. \A t \in 1 .. Targets : received[item][t] >= 1
    BY <1>1, <1>2, <1>12 DEF OutboxInv, ToAll
  <2>2. \A t \in 1 .. Targets : received[item][t] \in 0 .. 2 /\ received'[item][t] \in 0 .. 2
    BY <1>3, <1>7, <1>8
  <2>3. QED
    BY <2>2, <1>2, <1>3, <1>7, <1>9, <2>1
<1>13. item \in disturbed'
  BY <1>4
<1>14. OutboxInv'
  <2>1. published \subseteq published' /\ published' \subseteq published \cup {item}
    BY <1>2
  <2>2. item \in published' => \A t \in 1 .. Targets : received'[item][t] >= 1
    BY <1>12
  <2>3. item \notin disturbed' => Undisturbed(item)'
    BY <1>13
  <2>4. /\ disturbed \subseteq disturbed' /\ items' = items /\ item \in 1 .. MaxItems
        /\ call[c].count \in 0 .. items
    BY <1>2, <1>3, <1>4
  <2>5. QED
    BY <1>0, <1>1, <1>2, <1>5, <1>7, <1>9, <2>1, <2>2, <2>3, <2>4, LeavingKeeps
<1>15. QED
  BY <1>10, <1>11, <1>14

(* Steps that concern the log alone, or add an item. *)
LEMMA OutboxUntouched ==
  ASSUME TypeOK, OutboxInv, items' \in {items, items + 1},
         UNCHANGED <<published, call, received, disturbed>>
  PROVE  OutboxInv'
<1>1. items \in Nat
  BY AuditTrailAssumption DEF TypeOK
<1>2. Placed'
  BY <1>1 DEF OutboxInv, Placed, Idle
<1>3. SoFar' /\ ToAll'
  BY DEF OutboxInv, SoFar, ToAll
<1>4. \A j \in (1 .. MaxItems) \ disturbed' : Undisturbed(j)'
  BY DEF OutboxInv, Undisturbed, At
<1>5. QED
  BY <1>2, <1>3, <1>4 DEF OutboxInv

LEMMA OneMoreRow ==
  ASSUME IInv, RecordAudit(1, clock), items' \in {items, items + 1}, items' \in 0 .. MaxItems,
         UNCHANGED <<clock, limit, retaining, published, call, received, disturbed>>
  PROVE  IInv'
<1>1. TypeOK /\ LogInv /\ OutboxInv /\ clock \in 0 .. MaxTime /\ 1 \in Nat
  BY DEF IInv, TypeOK
<1>2. rows' \in Seq(Row) /\ Len(rows') <= MaxRows /\ kept' \subseteq DOMAIN rows'
  BY <1>1, Recorded
<1>3. items \in Nat /\ 1 .. items \subseteq 1 .. items' /\ 0 .. items \subseteq 0 .. items'
  BY <1>1, AuditTrailAssumption DEF TypeOK
<1>4. call' \in [Calls -> CallRow']
  BY <1>1, <1>3 DEF TypeOK, CallRow
<1>5. published \subseteq 1 .. items' /\ disturbed \subseteq 1 .. items'
  BY <1>1, <1>3 DEF TypeOK
<1>6. TypeOK'
  BY <1>1, <1>2, <1>4, <1>5 DEF TypeOK, CallRow, Row
<1>7. LogInv'
  BY <1>1, RecordedInOrder
<1>8. OutboxInv'
  BY <1>1, OutboxUntouched
<1>9. QED
  BY <1>6, <1>7, <1>8 DEF IInv

-----------------------------------------------------------------------------
LEMMA InitInv == Init => IInv
<1> SUFFICES ASSUME Init PROVE IInv
  OBVIOUS
<1>1. /\ MaxTime \in Nat /\ MaxRows \in Nat /\ MaxItems \in Nat /\ Targets \in Nat
      /\ 0 \in 0 .. MaxTime /\ 0 \in 0 .. MaxItems /\ 0 \in 0 .. Targets
  BY AuditTrailAssumption
<1>2. rows \in Seq(Row) /\ Len(rows) = 0 /\ DOMAIN rows = {}
  BY DEF Init
<1>3. call \in [Calls -> CallRow]
  BY <1>1 DEF Init, Idle, CallRow
<1>4. received \in [1 .. MaxItems -> [1 .. Targets -> 0 .. 2]]
  BY <1>1 DEF Init
<1>5. TypeOK
  BY <1>1, <1>2, <1>3, <1>4 DEF Init, TypeOK, CallRow, Row
<1>6. LogInv
  BY <1>2 DEF Init, LogInv, Linked, LastKept
<1>7. \A c \in Calls : call[c] = Idle /\ \A i \in 1 .. MaxItems : ~At(c, i)
  BY DEF Init, Idle, At
<1>8. Placed /\ SoFar /\ ToAll
  BY <1>7 DEF Init, Placed, SoFar, ToAll
<1>9. ASSUME NEW j \in 1 .. MaxItems PROVE Undisturbed(j)
  <2>1. \A t \in 1 .. Targets : received[j][t] = 0
    BY DEF Init
  <2>2. QED
    BY <1>7, <2>1 DEF Undisturbed
<1>10. QED
  BY <1>5, <1>6, <1>8, <1>9 DEF IInv, OutboxInv

LEMMA NextInv == IInv /\ [Next]_vars => IInv'
<1> SUFFICES ASSUME IInv, [Next]_vars PROVE IInv'
  OBVIOUS
<1>1. TypeOK /\ LogInv /\ OutboxInv
  BY DEF IInv
<1>2. ASSUME UNCHANGED <<limit, rows, kept>> PROVE LogInv'
  BY <1>1, <1>2 DEF LogInv, Linked, LastKept, InOrder
<1>3. CASE Tick
  <2>1. clock' \in 0 .. MaxTime /\ UNCHANGED logVars /\ UNCHANGED outboxVars
    BY <1>1, <1>3, AuditTrailAssumption DEF Tick, TypeOK
  <2>2. TypeOK'
    BY <1>1, <2>1 DEF TypeOK, logVars, outboxVars
  <2>3. LogInv' /\ OutboxInv'
    BY <1>1, <1>2, <2>1, OutboxUntouched DEF logVars, outboxVars
  <2>4. QED
    BY <2>2, <2>3 DEF IInv
<1>4. CASE Operate
  <2>1. items' \in 0 .. MaxItems
    BY <1>1, <1>4 DEF Operate, outboxVars, TypeOK
  <2>2. QED
    BY <1>4, <2>1, OneMoreRow DEF Operate, outboxVars
<1>5. CASE OperateAndEnqueue
  <2>1. items' \in 0 .. MaxItems
    BY <1>1, <1>5, AuditTrailAssumption DEF OperateAndEnqueue, TypeOK
  <2>2. QED
    BY <1>5, <2>1, OneMoreRow DEF OperateAndEnqueue
<1>6. CASE BeginRetention
  <2>1. TypeOK'
    BY <1>1, <1>6 DEF BeginRetention, TypeOK, outboxVars
  <2>2. LogInv' /\ OutboxInv'
    BY <1>1, <1>2, <1>6, OutboxUntouched DEF BeginRetention, outboxVars
  <2>3. QED
    BY <2>1, <2>2 DEF IInv
<1>7. CASE Purge
  <2>1. kept' \subseteq kept /\ retaining' = None
    BY <1>7 DEF Purge
  <2>2. TypeOK'
    BY <1>1, <1>7, <2>1 DEF Purge, TypeOK, outboxVars
  <2>3. LogInv' /\ OutboxInv'
    BY <1>1, <1>7, PurgeInOrder, OutboxUntouched DEF Purge, outboxVars
  <2>4. QED
    BY <2>2, <2>3 DEF IInv
<1>8. ASSUME NEW c \in Calls, Publish(c) PROVE IInv'
  <2>1. LogInv'
    BY <1>2, <1>8 DEF Publish, logVars
  <2>2. QED
    BY <1>8, <2>1, PublishKeeps DEF IInv
<1>9. ASSUME NEW c \in Calls, Delivered(c) PROVE IInv'
  <2>1. LogInv'
    BY <1>2, <1>9 DEF Delivered, logVars
  <2>2. QED
    BY <1>9, <2>1, DeliveredKeeps DEF IInv
<1>10. ASSUME NEW c \in Calls, DeliveredToAll(c) PROVE IInv'
  BY <1>10, DeliveredToAllKeeps DEF IInv
<1>11. ASSUME NEW c \in Calls, DeliveryFails(c) PROVE IInv'
  BY <1>11, DeliveryFailsKeeps DEF IInv
<1>12. CASE UNCHANGED vars
  <2>1. TypeOK' /\ LogInv' /\ OutboxInv'
    BY <1>1, <1>2, <1>12, OutboxUntouched DEF vars, logVars, outboxVars, TypeOK
  <2>2. QED
    BY <2>1 DEF IInv
<1>13. QED
  BY <1>3, <1>4, <1>5, <1>6, <1>7, <1>8, <1>9, <1>10, <1>11, <1>12 DEF Next

LEMMA MarkedWasDelivered == IInv => DeliveredBeforeMarked
<1> SUFFICES ASSUME IInv, NEW i \in 1 .. items, NEW t \in 1 .. Targets
             PROVE  /\ i \in published => received[i][t] >= 1
                    /\ received[i][t] > 1 => i \in disturbed
  BY DEF DeliveredBeforeMarked
<1>1. i \in 1 .. MaxItems
  BY AuditTrailAssumption DEF IInv, TypeOK
<1>2. i \in published => received[i][t] >= 1
  BY DEF IInv, OutboxInv, ToAll
<1>3. ASSUME i \notin disturbed PROVE received[i][t] <= 1
  BY <1>1, <1>3 DEF IInv, OutboxInv, Undisturbed
<1>4. received[i][t] \in 0 .. 2
  <2>1. received \in [1 .. MaxItems -> [1 .. Targets -> 0 .. 2]]
    BY DEF IInv, TypeOK
  <2>2. QED
    BY <1>1, <2>1
<1>5. QED
  BY <1>2, <1>3, <1>4

(* The rows, items and requests keep their shape. *)
THEOREM TypeCorrect == Spec => []TypeOK
<1>1. IInv => TypeOK
  BY DEF IInv
<1>2. QED
  BY InitInv, NextInv, <1>1, PTL DEF Spec

(* Whatever retention has purged, with or without a limit per run, a log     *)
(* whose rows came in order breaks at its oldest row at most                 *)
(* (verifyAuditChain after applyAuditRetention).                             *)
THEOREM ChainHoldsAlways == Spec => []ChainHolds
<1>1. IInv => ChainHolds
  BY LastRowsVerify DEF IInv
<1>2. QED
  BY InitInv, NextInv, <1>1, PTL DEF Spec

(* However many requests publish at once and whatever throws, publishOutbox  *)
(* marks what every target has got, and repeats only what was disturbed.     *)
THEOREM DeliveredBeforeMarkedAlways == Spec => []DeliveredBeforeMarked
  BY InitInv, NextInv, MarkedWasDelivered, PTL DEF Spec
=============================================================================
