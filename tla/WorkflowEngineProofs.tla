------------------------ MODULE WorkflowEngineProofs ------------------------
(***************************************************************************)
(* What WorkflowEngine keeps for every definition, every number of         *)
(* instances and requests and every limit to the steps.  The invariant     *)
(* follows one request of an instance from await to await: what it read is *)
(* still there when it writes, as long as nobody else is on the instance,  *)
(* and the row of the log it has written is ahead of the instance by the   *)
(* move it is about to write.                                              *)
(***************************************************************************)
EXTENDS WorkflowEngine, TLAPS

Names == Nodes \cup Overrides \cup {None}
Row == [state : Terminal \cup {"absent", "pending", "running"}, node : Names]
LogRow == [last : Names, path : BOOLEAN]
RequestRow ==
  [step : {"none", "look", "read", "handle", "write", "override", "cancel"},
   of : Instances \cup {None}, node : Names, to : Names,
   before : Names, prev : Names, left : 0 .. MaxSteps]

(* A request at an await is on an instance that exists. *)
Placed ==
  \A r \in Requests :
    \/ request[r].step = "none" /\ request[r].of = None
    \/ /\ request[r].step # "none"
       /\ request[r].of \in Instances /\ inst[request[r].of].state # "absent"

(* A loop that looks again has a step left. *)
Counted ==
  \A r \in Requests : request[r].step \in {"look", "override"} => request[r].left > 0

AtEnd(n) ==
  n \in Nodes /\ (Kind[n] = "end" \/ (Kind[n] = "http" /\ Succ(n) = {}))

Rested(i) == log[i].path /\ log[i].last = inst[i].node

(* How far the only request of an instance has got with it. *)
InStep(r, i) ==
  /\ log[i].path
  /\ log[i].last =
       IF request[r].step \in {"override", "write"} THEN request[r].to ELSE inst[i].node
  /\ request[r].step \in {"override", "cancel", "handle", "write"} =>
       inst[i].state \notin Terminal
  /\ request[r].step \in {"cancel", "handle", "write"} => request[r].node = inst[i].node

Followed(i) ==
  /\ \A q, r \in Requests : request[q].of = i /\ request[r].of = i => q = r
  /\ \A r \in Requests : request[r].of = i => InStep(r, i)
  /\ Quiet(i) => Rested(i)

IInv ==
  /\ TypeOK
  /\ Placed
  /\ Counted
  /\ CompletedAtEnd
  /\ \A i \in Instances : alone[i] => Followed(i)

-----------------------------------------------------------------------------
(* The limit to the steps as arithmetic. *)
LEMMA Limits ==
  /\ MaxSteps \in Nat /\ MaxSteps > 0 /\ MaxSteps \in 0 .. MaxSteps /\ 0 \in 0 .. MaxSteps
  /\ None \notin Instances /\ None \in Names /\ Nodes \subseteq Names /\ Overrides \subseteq Names
BY ConstantsAssumption DEF Names

LEMMA IdleRow == Idle \in RequestRow /\ Idle.step = "none" /\ Idle.of = None
BY Limits DEF Idle, RequestRow, Names

LEMMA Types ==
  TypeOK <=> /\ inst \in [Instances -> Row]
             /\ log \in [Instances -> LogRow]
             /\ calls \in [Instances -> 0 .. 2]
             /\ request \in [Requests -> RequestRow]
             /\ alone \in [Instances -> BOOLEAN]
BY DEF TypeOK, Row, LogRow, RequestRow, Names

(* What Begin makes of a request. *)
LEMMA Begins ==
  ASSUME TypeOK, NEW r \in Requests, NEW i \in Instances,
         NEW s \in {"look", "override", "cancel"}, NEW n \in Names, NEW t \in Names,
         Begin(r, s, i, n, t)
  PROVE  /\ request[r].of = None
         /\ request' \in [Requests -> RequestRow]
         /\ \A q \in Requests \ {r} : request'[q] = request[q]
         /\ request'[r].step = s /\ request'[r].of = i
         /\ request'[r].node = n /\ request'[r].to = t /\ request'[r].left > 0
<1> DEFINE new == [step |-> s, of |-> i, node |-> n, to |-> t,
                   before |-> None, prev |-> None, left |-> MaxSteps]
<1>1. /\ new \in RequestRow /\ new.step = s /\ new.of = i
      /\ new.node = n /\ new.to = t /\ new.left > 0
  BY Limits DEF RequestRow
<1>2. request[r] = Idle /\ request' = [request EXCEPT ![r] = new]
  BY DEF Begin
<1> HIDE DEF new
<1> QED
  BY <1>1, <1>2, IdleRow, Types

LEMMA InitIInv == Init => IInv
<1> SUFFICES ASSUME Init PROVE IInv
  OBVIOUS
<1> USE DEF Init
<1>1. TypeOK
  <2>1. inst \in [Instances -> Row] /\ log \in [Instances -> LogRow]
    BY DEF Row, LogRow, Names
  <2>2. request \in [Requests -> RequestRow]
    BY IdleRow
  <2>3. calls \in [Instances -> 0 .. 2] /\ alone \in [Instances -> BOOLEAN]
    OBVIOUS
  <2> QED
    BY <2>1, <2>2, <2>3, Types
<1>2. Placed /\ Counted
  BY IdleRow DEF Placed, Counted
<1>3. CompletedAtEnd
  BY DEF CompletedAtEnd
<1>4. \A i \in Instances : Followed(i)
  BY IdleRow, Limits DEF Followed, Rested
<1> QED
  BY <1>1, <1>2, <1>3, <1>4 DEF IInv

-----------------------------------------------------------------------------
(* What a step of one request on one instance must do to keep the invariant. *)
LEMMA Moves ==
  ASSUME IInv, NEW r \in Requests, NEW i \in Instances,
         request[r].of \in {i, None},
         TypeOK',
         \A q \in Requests \ {r} : request'[q] = request[q],
         \A j \in Instances \ {i} :
           inst'[j] = inst[j] /\ log'[j] = log[j] /\ alone'[j] = alone[j],
         inst'[i].state # "absent",
         \/ request'[r].step = "none" /\ request'[r].of = None
         \/ request'[r].step # "none" /\ request'[r].of = i,
         request'[r].step \in {"look", "override"} => request'[r].left > 0,
         inst'[i].state = "completed" => AtEnd(inst'[i].node),
         alone'[i] => \A q \in Requests \ {r} : request[q].of # i,
         alone'[i] => IF request'[r].of = i THEN InStep(r, i)' ELSE Rested(i)'
  PROVE  IInv'
<1>1. Placed'
  BY DEF IInv, Placed
<1>2. Counted'
  BY DEF IInv, Counted
<1>3. CompletedAtEnd'
  BY DEF IInv, CompletedAtEnd, AtEnd
<1>4. ASSUME NEW j \in Instances, alone'[j] PROVE Followed(j)'
  <2>1. CASE j = i
    <3>1. \A q \in Requests : request'[q].of = i => q = r
      BY <1>4, <2>1
    <3> QED
      BY <1>4, <2>1, <3>1, Limits DEF Followed, Quiet
  <2>2. CASE j # i
    <3>1. Followed(j)
      BY <1>4, <2>2 DEF IInv
    <3>2. request[r].of # j /\ request'[r].of # j
      BY <2>2, Limits
    <3>3. \A q, p \in Requests : request'[q].of = j /\ request'[p].of = j => q = p
      BY <3>1, <3>2 DEF Followed
    <3>4. \A q \in Requests : request'[q].of = j => InStep(q, j)'
      BY <2>2, <3>1, <3>2 DEF Followed, InStep
    <3>5. Quiet(j)' => Rested(j)'
      BY <2>2, <3>1, <3>2 DEF Followed, Quiet, Rested
    <3> QED
      BY <3>3, <3>4, <3>5 DEF Followed
  <2> QED
    BY <2>1, <2>2
<1> QED
  BY <1>1, <1>2, <1>3, <1>4 DEF IInv

(* updateWorkflowInstance writes one instance. *)
LEMMA Updates ==
  ASSUME TypeOK, NEW i \in Instances, NEW n \in Names,
         NEW s \in Terminal \cup {"absent", "pending", "running"}, Update(i, s, n)
  PROVE  /\ inst' \in [Instances -> Row] /\ calls' \in [Instances -> 0 .. 2]
         /\ inst'[i].state = s /\ inst'[i].node = n
         /\ \A j \in Instances \ {i} : inst'[j] = inst[j]
<1> USE Types DEF Update
<1>1. inst' \in [Instances -> Row]
  BY DEF Row
<1>2. calls' \in [Instances -> 0 .. 2]
  OBVIOUS
<1> QED
  BY <1>1, <1>2

(* recordWorkflowTransition appends a row to one instance's log. *)
LEMMA Records ==
  ASSUME TypeOK, NEW i \in Instances, NEW from \in Names, NEW to \in Names,
         RecordTransition(i, from, to)
  PROVE  /\ log' \in [Instances -> LogRow]
         /\ log'[i].last = to
         /\ log'[i].path = (log[i].path /\ log[i].last = from)
         /\ \A j \in Instances \ {i} : log'[j] = log[j]
<1> USE Types DEF RecordTransition
<1>1. log[i].path \in BOOLEAN
  BY DEF LogRow
<1>2. log' \in [Instances -> LogRow]
  BY <1>1 DEF LogRow
<1> QED
  BY <1>2

-----------------------------------------------------------------------------
(* A request that comes in finds the instance at rest, if it is alone. *)
LEMMA Enters ==
  ASSUME IInv, NEW r \in Requests, NEW i \in Instances, Enter(r, i)
  PROVE  /\ alone' \in [Instances -> BOOLEAN]
         /\ \A j \in Instances \ {i} : alone'[j] = alone[j]
         /\ alone'[i] => Rested(i) /\ \A q \in Requests : request[q].of # i
         /\ request[r].of \in {i, None}
<1>1. alone \in [Instances -> BOOLEAN]
  BY Types DEF IInv
<1>2. /\ alone' \in [Instances -> BOOLEAN]
      /\ \A j \in Instances \ {i} : alone'[j] = alone[j]
      /\ alone'[i] => alone[i] /\ \A q \in Requests : request[q].of # i
  BY <1>1 DEF Enter
<1>3. alone'[i] => Rested(i)
  BY <1>2 DEF IInv, Followed, Quiet
<1>4. request[r].of = None
  BY IdleRow DEF Enter, StartWorkflow, Transition, Drive, Cancel, Begin
<1> QED
  BY <1>2, <1>3, <1>4

LEMMA StartIInv ==
  ASSUME IInv, NEW r \in Requests, NEW i \in Instances, Enter(r, i), StartWorkflow(r, i)
  PROVE  IInv'
<1>1. PICK n \in Nodes :
        /\ inst[i].state = "absent"
        /\ inst' = [inst EXCEPT ![i] = [state |-> "pending", node |-> n]]
        /\ log' = [log EXCEPT ![i] = [last |-> n, path |-> TRUE]]
  BY DEF StartWorkflow, Create
<1>2. TypeOK
  BY DEF IInv
<1>3. inst' \in [Instances -> Row] /\ log' \in [Instances -> LogRow]
  BY <1>1, <1>2, Types DEF Row, LogRow, Names
<1>4. /\ request' \in [Requests -> RequestRow]
      /\ \A q \in Requests \ {r} : request'[q] = request[q]
      /\ request'[r].step = "look" /\ request'[r].of = i /\ request'[r].left > 0
  BY <1>2, Begins, Limits DEF StartWorkflow
<1>5. calls' \in [Instances -> 0 .. 2] /\ alone' \in [Instances -> BOOLEAN]
  BY <1>2, Types, Enters DEF StartWorkflow
<1>6. TypeOK'
  BY <1>3, <1>4, <1>5 DEF TypeOK, Row, LogRow, RequestRow, Names
<1>7. /\ inst'[i].state = "pending" /\ inst'[i].node = n
      /\ log'[i].path /\ log'[i].last = n
      /\ \A j \in Instances \ {i} : inst'[j] = inst[j] /\ log'[j] = log[j]
  BY <1>1, <1>2, Types
<1>8. InStep(r, i)'
  BY <1>4, <1>7 DEF InStep
<1> QED
  BY <1>4, <1>6, <1>7, <1>8, Enters, Moves

(* Transition, Drive and Cancel read the instance, and write a row of the    *)
(* log at most.                                                              *)
LEMMA ReadsIInv ==
  ASSUME IInv, NEW r \in Requests, NEW i \in Instances, Enter(r, i),
         NEW s \in {"look", "override", "cancel"}, NEW n \in Names, NEW t \in Names,
         Begin(r, s, i, n, t),
         s = "cancel" => n = inst[i].node,
         inst[i].state \notin Terminal \cup {"absent"},
         inst' = inst, calls' = calls,
         IF s = "override" THEN RecordTransition(i, inst[i].node, t) ELSE log' = log
  PROVE  IInv'
<1>1. TypeOK /\ inst[i].node \in Names
  BY Types DEF IInv, Row
<1>2. /\ log' \in [Instances -> LogRow]
      /\ \A j \in Instances \ {i} : log'[j] = log[j]
      /\ s = "override" =>
           log'[i].last = t /\ log'[i].path = (log[i].path /\ log[i].last = inst[i].node)
      /\ s # "override" => log'[i] = log[i]
  BY <1>1, Records, Types
<1>3. /\ request' \in [Requests -> RequestRow]
      /\ \A q \in Requests \ {r} : request'[q] = request[q]
      /\ request'[r].step = s /\ request'[r].of = i
      /\ request'[r].node = n /\ request'[r].to = t /\ request'[r].left > 0
  BY <1>1, Begins
<1>4. TypeOK'
  <2>1. inst' \in [Instances -> Row] /\ calls' \in [Instances -> 0 .. 2]
        /\ alone' \in [Instances -> BOOLEAN]
    BY <1>1, Types, Enters
  <2> QED
    BY <2>1, <1>2, <1>3 DEF TypeOK, Row, LogRow, RequestRow, Names
<1>5. alone'[i] => InStep(r, i)'
  <2> SUFFICES ASSUME alone'[i] PROVE InStep(r, i)'
    OBVIOUS
  <2>1. Rested(i)
    BY Enters
  <2> QED
    BY <2>1, <1>2, <1>3 DEF InStep, Rested
<1>6. inst'[i].state # "completed" /\ inst'[i].state # "absent"
  BY DEF Terminal
<1> QED
  BY <1>2, <1>3, <1>4, <1>5, <1>6, Enters, Moves

LEMMA EnterIInv ==
  ASSUME IInv, NEW r \in Requests, NEW i \in Instances, Enter(r, i)
  PROVE  IInv'
<1>1. TypeOK /\ inst[i].node \in Names
  BY Types DEF IInv, Row
<1>2. CASE StartWorkflow(r, i)
  BY <1>2, StartIInv
<1>3. CASE Transition(r, i)
  <2>1. PICK t \in Overrides :
          RecordTransition(i, inst[i].node, t) /\ Begin(r, "override", i, None, t)
    BY <1>3 DEF Transition
  <2>2. /\ inst[i].state \notin Terminal \cup {"absent"}
        /\ inst' = inst /\ calls' = calls
    BY <1>3 DEF Transition
  <2> QED
    BY <2>1, <2>2, ReadsIInv, Limits
<1>4. CASE Drive(r, i)
  BY <1>4, ReadsIInv, Limits DEF Drive
<1>5. CASE Cancel(r, i)
  BY <1>1, <1>5, ReadsIInv, Limits DEF Cancel
<1> QED
  BY <1>2, <1>3, <1>4, <1>5 DEF Enter

-----------------------------------------------------------------------------
(* A request under way knows its instance, and what it read still holds if   *)
(* it is alone.                                                              *)
LEMMA Works ==
  ASSUME IInv, NEW r \in Requests, request[r].step # "none", alone' = alone
  PROVE  /\ TypeOK /\ alone' \in [Instances -> BOOLEAN]
         /\ request[r] \in RequestRow
         /\ request[r].of \in Instances /\ inst[request[r].of].state # "absent"
         /\ alone[request[r].of] =>
              /\ InStep(r, request[r].of)
              /\ \A q \in Requests \ {r} : request[q].of # request[r].of
<1>1. TypeOK /\ alone' \in [Instances -> BOOLEAN] /\ request[r] \in RequestRow
  BY Types DEF IInv
<1>2. request[r].of \in Instances /\ inst[request[r].of].state # "absent"
  BY DEF IInv, Placed
<1>3. alone[request[r].of] => Followed(request[r].of)
  BY <1>2 DEF IInv
<1> QED
  BY <1>1, <1>2, <1>3 DEF Followed

LEMMA Returns ==
  ASSUME TypeOK, NEW r \in Requests, Return(r)
  PROVE  /\ request' \in [Requests -> RequestRow]
         /\ \A q \in Requests \ {r} : request'[q] = request[q]
         /\ request'[r].step = "none" /\ request'[r].of = None
BY IdleRow, Types DEF Return

LEMMA Loops ==
  ASSUME TypeOK, NEW r \in Requests, NEW n, Loop(r, n)
  PROVE  /\ request' \in [Requests -> RequestRow]
         /\ \A q \in Requests \ {r} : request'[q] = request[q]
         /\ \/ request'[r].step = "none" /\ request'[r].of = None
            \/ /\ request'[r].step = "look" /\ request'[r].of = request[r].of
               /\ request'[r].left > 0
<1>1. CASE Return(r)
  BY <1>1, Returns
<1>2. CASE ~Return(r)
  <2>1. request[r].left # 0
        /\ request' = [request EXCEPT ![r] = [@ EXCEPT !.step = "look", !.prev = request[r].before]]
    BY <1>2 DEF Loop
  <2>2. request[r] \in RequestRow /\ request[r].left > 0
    BY <2>1, Types, Limits DEF RequestRow
  <2> QED
    BY <2>1, <2>2, Types DEF RequestRow
<1> QED
  BY <1>1, <1>2

(* A step that writes the instance, and returns or looks again. *)
LEMMA WritesIInv ==
  ASSUME IInv, NEW r \in Requests, NEW i \in Instances, request[r].of = i,
         request[r].step # "none", alone' = alone, log' = log,
         NEW s \in {"running", "completed", "failed", "cancelled"}, NEW n \in Names,
         Update(i, s, n),
         s = "completed" => AtEnd(n),
         alone[i] => log[i].last = n,
         request' \in [Requests -> RequestRow],
         \A q \in Requests \ {r} : request'[q] = request[q],
         \/ request'[r].step = "none" /\ request'[r].of = None
         \/ request'[r].step = "look" /\ request'[r].of = i /\ request'[r].left > 0
  PROVE  IInv'
<1>1. /\ TypeOK /\ alone' \in [Instances -> BOOLEAN]
      /\ alone[i] => InStep(r, i) /\ \A q \in Requests \ {r} : request[q].of # i
  BY Works
<1>2. /\ inst' \in [Instances -> Row] /\ calls' \in [Instances -> 0 .. 2]
      /\ inst'[i].state = s /\ inst'[i].node = n
      /\ \A j \in Instances \ {i} : inst'[j] = inst[j]
  BY <1>1, Updates DEF Terminal
<1>3. TypeOK'
  <2>1. log' \in [Instances -> LogRow]
    BY <1>1, Types
  <2> QED
    BY <1>1, <1>2, <2>1 DEF TypeOK, Row, LogRow, RequestRow, Names
<1>4. alone'[i] => IF request'[r].of = i THEN InStep(r, i)' ELSE Rested(i)'
  BY <1>1, <1>2, Limits DEF InStep, Rested
<1> QED
  BY <1>1, <1>2, <1>3, <1>4, Moves

(* A step that leaves the instance alone. *)
LEMMA ThinksIInv ==
  ASSUME IInv, NEW r \in Requests, NEW i \in Instances, request[r].of = i,
         request[r].step # "none", alone' = alone, inst' = inst,
         log' \in [Instances -> LogRow], calls' \in [Instances -> 0 .. 2],
         \A j \in Instances \ {i} : log'[j] = log[j],
         request' \in [Requests -> RequestRow],
         \A q \in Requests \ {r} : request'[q] = request[q],
         \/ request'[r].step = "none" /\ request'[r].of = None
         \/ request'[r].step \notin {"none", "look", "override"} /\ request'[r].of = i,
         alone[i] => IF request'[r].of = i THEN InStep(r, i)' ELSE Rested(i)'
  PROVE  IInv'
<1>1. /\ TypeOK /\ alone' \in [Instances -> BOOLEAN] /\ inst[i].state # "absent"
      /\ alone[i] => \A q \in Requests \ {r} : request[q].of # i
  BY Works
<1>2. TypeOK'
  <2>1. inst' \in [Instances -> Row]
    BY <1>1, Types
  <2> QED
    BY <1>1, <2>1 DEF TypeOK, Row, LogRow, RequestRow, Names
<1>3. inst[i].state = "completed" => AtEnd(inst[i].node)
  BY DEF IInv, CompletedAtEnd, AtEnd
<1> QED
  BY <1>1, <1>2, <1>3, Moves

LEMMA LookIInv ==
  ASSUME IInv, NEW r \in Requests, NEW i \in Instances, request[r].of = i,
         Look(r), alone' = alone
  PROVE  IInv'
<1>1. request[r].step = "look" /\ inst' = inst /\ log' = log /\ calls' = calls
  BY DEF Look
<1>2. /\ TypeOK /\ request[r] \in RequestRow
      /\ alone[i] => InStep(r, i)
  BY <1>1, Works
<1>3. request[r].left \in Nat /\ request[r].left <= MaxSteps /\ request[r].left > 0
  BY <1>1, <1>2, Limits DEF RequestRow, IInv, Counted
<1>4. inst[i].node \in Names
  BY <1>2, Types DEF Row
<1>5. /\ request' \in [Requests -> RequestRow]
      /\ \A q \in Requests \ {r} : request'[q] = request[q]
      /\ request'[r].step = "read" /\ request'[r].of = i
  <2>1. request[r].left - 1 \in 0 .. MaxSteps
    BY <1>3, Limits
  <2>2. PICK k \in 0 .. MaxSteps, n \in Names :
          request' = [request EXCEPT ![r] =
            [@ EXCEPT !.step = "read", !.before = n, !.left = k]]
    BY <2>1, <1>4 DEF Look
  <2> QED
    BY <2>2, <1>2, Types DEF RequestRow
<1>6. alone[i] => InStep(r, i)'
  BY <1>1, <1>2, <1>5 DEF InStep
<1>7. log' \in [Instances -> LogRow] /\ calls' \in [Instances -> 0 .. 2]
  BY <1>1, <1>2, Types
<1> QED
  BY <1>1, <1>5, <1>6, <1>7, ThinksIInv

LEMMA ReadIInv ==
  ASSUME IInv, NEW r \in Requests, NEW i \in Instances, request[r].of = i,
         Read(r), alone' = alone
  PROVE  IInv'
<1>1. request[r].step = "read" /\ inst' = inst /\ log' = log
  BY DEF Read
<1>2. TypeOK /\ request[r] \in RequestRow /\ (alone[i] => InStep(r, i))
  BY <1>1, Works
<1>3. log' \in [Instances -> LogRow]
  BY <1>1, <1>2, Types
<1>4. CASE inst[i].state \in Terminal
  <2>1. Return(r) /\ calls' = calls
    BY <1>4 DEF Read
  <2>2. /\ request' \in [Requests -> RequestRow]
        /\ \A q \in Requests \ {r} : request'[q] = request[q]
        /\ request'[r].step = "none" /\ request'[r].of = None
    BY <1>2, <2>1, Returns
  <2>3. alone[i] => Rested(i)'
    BY <1>1, <1>2 DEF InStep, Rested
  <2>4. calls' \in [Instances -> 0 .. 2]
    BY <1>2, <2>1, Types
  <2> QED
    BY <1>1, <1>3, <2>2, <2>3, <2>4, Limits, ThinksIInv
<1>5. CASE inst[i].state \notin Terminal
  <2>1. request' = [request EXCEPT ![r] = [@ EXCEPT !.step = "handle", !.node = inst[i].node]]
    BY <1>5 DEF Read
  <2>2. inst[i].node \in Names
    BY <1>2, Types DEF Row
  <2>3. /\ request' \in [Requests -> RequestRow]
        /\ \A q \in Requests \ {r} : request'[q] = request[q]
        /\ request'[r].step = "handle" /\ request'[r].of = i
        /\ request'[r].node = inst[i].node
    BY <1>2, <2>1, <2>2, Types DEF RequestRow
  <2>4. calls' \in [Instances -> 0 .. 2]
    BY <1>2, <1>5, Types DEF Read
  <2>5. alone[i] => InStep(r, i)'
    BY <1>1, <1>2, <1>5, <2>3 DEF InStep
  <2> QED
    BY <1>1, <1>3, <2>3, <2>4, <2>5, ThinksIInv
<1> QED
  BY <1>4, <1>5

LEMMA AdvanceIInv ==
  ASSUME IInv, NEW r \in Requests, NEW i \in Instances, request[r].of = i,
         Advance(r), alone' = alone
  PROVE  IInv'
<1>1. request[r].step = "handle" /\ request[r].node \in Nodes
      /\ inst' = inst /\ calls' = calls
  BY DEF Advance, Handling
<1>2. PICK to \in Nodes :
        /\ RecordTransition(i, request[r].node, to)
        /\ request' = [request EXCEPT ![r] = [@ EXCEPT !.step = "write", !.to = to]]
  BY DEF Advance, Succ
<1>3. TypeOK /\ request[r] \in RequestRow /\ (alone[i] => InStep(r, i))
  BY <1>1, Works
<1>4. /\ request' \in [Requests -> RequestRow]
      /\ \A q \in Requests \ {r} : request'[q] = request[q]
      /\ request'[r].step = "write" /\ request'[r].of = i
      /\ request'[r].node = request[r].node /\ request'[r].to = to
  BY <1>2, <1>3, Types, Limits DEF RequestRow
<1>5. /\ log' \in [Instances -> LogRow]
      /\ log'[i].last = to
      /\ log'[i].path = (log[i].path /\ log[i].last = request[r].node)
      /\ \A j \in Instances \ {i} : log'[j] = log[j]
  BY <1>1, <1>2, <1>3, Records, Limits
<1>6. alone[i] => InStep(r, i)'
  BY <1>1, <1>3, <1>4, <1>5 DEF InStep
<1>7. calls' \in [Instances -> 0 .. 2]
  BY <1>1, <1>3, Types
<1> QED
  BY <1>1, <1>4, <1>5, <1>6, <1>7, ThinksIInv

LEMMA ContinueIInv ==
  ASSUME IInv, NEW r \in Requests, Continue(r)
  PROVE  IInv'
<1>1. alone' = alone
  BY DEF Continue
<1>2. request[r].step # "none"
  BY DEF Continue, Override, CancelWrite, Look, Read, Advance, WriteAdvance, Wait,
         Complete, Fail, Handling
<1>3. PICK i \in Instances : request[r].of = i
  BY <1>2 DEF IInv, Placed
<1>4. /\ TypeOK /\ request[r] \in RequestRow
      /\ alone[i] => InStep(r, i)
  BY <1>1, <1>2, <1>3, Works
<1>5. request[r].node \in Names /\ request[r].to \in Names
  BY <1>4 DEF RequestRow
<1>6. CASE Override(r)
  <2>1. /\ request[r].step = "override" /\ log' = log
        /\ Update(i, "running", request[r].to)
        /\ request' = [request EXCEPT ![r] = [@ EXCEPT !.step = "look"]]
    BY <1>3, <1>6 DEF Override
  <2>2. /\ request' \in [Requests -> RequestRow]
        /\ \A q \in Requests \ {r} : request'[q] = request[q]
        /\ request'[r].step = "look" /\ request'[r].of = i
        /\ request'[r].left = request[r].left
    BY <1>3, <1>4, <2>1, Types DEF RequestRow
  <2>3. request[r].left > 0
    BY <2>1 DEF IInv, Counted
  <2>4. alone[i] => log[i].last = request[r].to
    BY <1>4, <2>1 DEF InStep
  <2> QED
    BY <1>1, <1>2, <1>3, <1>5, <2>1, <2>2, <2>3, <2>4, WritesIInv
<1>7. CASE CancelWrite(r)
  <2>1. /\ request[r].step = "cancel" /\ log' = log
        /\ Update(i, "cancelled", request[r].node) /\ Return(r)
    BY <1>3, <1>7 DEF CancelWrite
  <2>2. alone[i] => log[i].last = request[r].node
    BY <1>4, <2>1 DEF InStep
  <2> QED
    BY <1>1, <1>2, <1>3, <1>4, <1>5, <2>1, <2>2, Returns, WritesIInv
<1>8. CASE Look(r)
  BY <1>1, <1>3, <1>8, LookIInv
<1>9. CASE Read(r)
  BY <1>1, <1>3, <1>9, ReadIInv
<1>10. CASE Advance(r)
  BY <1>1, <1>3, <1>10, AdvanceIInv
<1>11. CASE WriteAdvance(r)
  <2>1. /\ request[r].step = "write" /\ log' = log
        /\ Update(i, "running", request[r].to) /\ Loop(r, request[r].to)
    BY <1>3, <1>11 DEF WriteAdvance
  <2>2. alone[i] => log[i].last = request[r].to
    BY <1>4, <2>1 DEF InStep
  <2> QED
    BY <1>1, <1>2, <1>3, <1>4, <1>5, <2>1, <2>2, Loops, WritesIInv
<1>12. ASSUME request[r].step = "handle" PROVE alone[i] => log[i].last = request[r].node
  BY <1>4, <1>12 DEF InStep
<1>13. CASE Wait(r)
  <2>1. /\ request[r].step = "handle" /\ log' = log
        /\ Update(i, "running", request[r].node) /\ Loop(r, request[r].node)
    BY <1>3, <1>13 DEF Wait, Handling
  <2> QED
    BY <1>1, <1>2, <1>3, <1>4, <1>5, <1>12, <2>1, Loops, WritesIInv
<1>14. CASE Complete(r)
  <2>1. /\ request[r].step = "handle" /\ log' = log
        /\ Update(i, "completed", request[r].node) /\ Return(r)
    BY <1>3, <1>14 DEF Complete, Handling
  <2>2. AtEnd(request[r].node)
    BY <1>14 DEF Complete, Handling, AtEnd
  <2> QED
    BY <1>1, <1>2, <1>3, <1>4, <1>5, <1>12, <2>1, <2>2, Returns, WritesIInv
<1>15. CASE Fail(r)
  <2>1. /\ request[r].step = "handle" /\ log' = log
        /\ Update(i, "failed", request[r].node) /\ Return(r)
    BY <1>3, <1>15 DEF Fail, Handling
  <2> QED
    BY <1>1, <1>2, <1>3, <1>4, <1>5, <1>12, <2>1, Returns, WritesIInv
<1> QED
  BY <1>6, <1>7, <1>8, <1>9, <1>10, <1>11, <1>13, <1>14, <1>15 DEF Continue

LEMMA RunWorkflowIInv ==
  ASSUME IInv, NEW i \in Instances, RunWorkflow(i)
  PROVE  IInv'
<1>1. PICK n \in Nodes :
        /\ inst[i].state = "absent"
        /\ inst' = [inst EXCEPT ![i] = [state |-> "pending", node |-> n]]
        /\ log' = [log EXCEPT ![i] = [last |-> n, path |-> TRUE]]
        /\ calls' = calls /\ request' = request /\ alone' = alone
  BY DEF RunWorkflow, Create
<1>2. TypeOK
  BY DEF IInv
<1>3. inst' \in [Instances -> Row] /\ log' \in [Instances -> LogRow]
  BY <1>1, <1>2, Types DEF Row, LogRow, Names
<1>4. TypeOK'
  BY <1>1, <1>2, <1>3 DEF TypeOK, Row, LogRow, Names
<1>5. /\ inst'[i].state = "pending" /\ inst'[i].node = n
      /\ log'[i].path /\ log'[i].last = n
      /\ \A j \in Instances \ {i} : inst'[j] = inst[j] /\ log'[j] = log[j]
  BY <1>1, <1>2, Types
<1>6. \A q \in Requests : request[q].of # i
  BY <1>1, Limits DEF IInv, Placed
<1>7. Placed' /\ Counted' /\ CompletedAtEnd'
  <2>1. Placed'
    <3>1. \A j \in Instances : inst[j].state # "absent" => inst'[j].state # "absent"
      BY <1>1, <1>5
    <3> QED
      BY <1>1, <3>1 DEF IInv, Placed
  <2>2. Counted'
    BY <1>1 DEF IInv, Counted
  <2>3. ASSUME NEW j \in Instances, inst'[j].state = "completed"
        PROVE  j # i /\ inst'[j] = inst[j]
    BY <1>5, <2>3
  <2>4. CompletedAtEnd'
    BY <2>3 DEF IInv, CompletedAtEnd
  <2> QED
    BY <2>1, <2>2, <2>4
<1>8. ASSUME NEW j \in Instances, alone'[j] PROVE Followed(j)'
  <2>1. CASE j = i
    BY <1>1, <1>5, <1>6, <2>1 DEF Followed, Rested
  <2>2. CASE j # i
    BY <1>1, <1>5, <1>8, <2>2 DEF IInv, Followed, InStep, Rested, Quiet
  <2> QED
    BY <2>1, <2>2
<1> QED
  BY <1>4, <1>7, <1>8 DEF IInv

LEMMA StepIInv == IInv /\ [Next]_vars => IInv'
<1> SUFFICES ASSUME IInv, [Next]_vars PROVE IInv'
  OBVIOUS
<1>1. ASSUME NEW r \in Requests, NEW i \in Instances, Enter(r, i) PROVE IInv'
  BY <1>1, EnterIInv
<1>2. ASSUME NEW r \in Requests, Continue(r) PROVE IInv'
  BY <1>2, ContinueIInv
<1>3. ASSUME NEW i \in Instances, RunWorkflow(i) PROVE IInv'
  BY <1>3, RunWorkflowIInv
<1>4. CASE UNCHANGED vars
  <2>1. inst' = inst /\ log' = log /\ calls' = calls /\ request' = request /\ alone' = alone
    BY <1>4 DEF vars
  <2>2. TypeOK'
    BY <2>1 DEF IInv, TypeOK
  <2>3. Placed' /\ Counted'
    BY <2>1 DEF IInv, Placed, Counted
  <2>4. CompletedAtEnd'
    BY <2>1 DEF IInv, CompletedAtEnd
  <2>5. ASSUME NEW j \in Instances, alone'[j] PROVE Followed(j)'
    BY <2>1, <2>5 DEF IInv, Followed, InStep, Rested, Quiet
  <2> QED
    BY <2>2, <2>3, <2>4, <2>5 DEF IInv
<1> QED
  BY <1>1, <1>2, <1>3, <1>4 DEF Next

LEMMA Invariance == Spec => []IInv
BY InitIInv, StepIInv, PTL DEF Spec

-----------------------------------------------------------------------------
(* The tables and the requests keep their shape; in particular no loop runs  *)
(* past its limit (runWorkflowToBoundary).                                   *)
THEOREM TypeCorrect == Spec => []TypeOK
<1>1. IInv => TypeOK
  BY DEF IInv
<1> QED
  BY <1>1, Invariance, PTL

(* Whatever the definition and however requests overlap, an instance counts  *)
(* as completed only where the definition ends (runWorkflowStep).            *)
THEOREM CompletedOnlyAtEnd == Spec => []CompletedAtEnd
<1>1. IInv => CompletedAtEnd
  BY DEF IInv
<1> QED
  BY <1>1, Invariance, PTL

(* Requests one at a time write a log that is the path of the instance       *)
(* (recordWorkflowTransition beside updateWorkflowInstance).                 *)
THEOREM LogIsThePath == Spec => []LogIsPath
<1>1. IInv => LogIsPath
  BY DEF IInv, LogIsPath, Followed, Rested
<1> QED
  BY <1>1, Invariance, PTL

(* Requests one at a time do not revive an instance that has ended           *)
(* ("TERMINAL_STATE", routes/workflows.ts).                                  *)
THEOREM EndedIsKept == Spec => EndedStaysEnded
<1>1. ASSUME IInv, [Next]_vars, NEW i \in Instances,
             alone'[i], inst[i].state \in Terminal
      PROVE  inst'[i] = inst[i]
  <2>1. ASSUME NEW r \in Requests, NEW j \in Instances, Enter(r, j) PROVE inst'[i] = inst[i]
    <3>1. CASE StartWorkflow(r, j)
      <4>1. inst[j].state = "absent" /\ \E x : inst' = [inst EXCEPT ![j] = x]
        BY <3>1 DEF StartWorkflow, Create
      <4> QED
        BY <4>1, <1>1 DEF Terminal
    <3> QED
      BY <2>1, <3>1 DEF Enter, Transition, Drive, Cancel
  <2>2. ASSUME NEW r \in Requests, Continue(r) PROVE inst'[i] = inst[i]
    <3>1. alone' = alone
      BY <2>2 DEF Continue
    <3>2. CASE Look(r) \/ Read(r) \/ Advance(r)
      BY <3>2 DEF Look, Read, Advance
    <3>3. CASE ~(Look(r) \/ Read(r) \/ Advance(r))
      <4>1. request[r].step \in {"override", "cancel", "handle", "write"}
        BY <2>2, <3>3 DEF Continue, Override, CancelWrite, WriteAdvance, Wait, Complete,
                          Fail, Handling
      <4>2. PICK s, n : Update(request[r].of, s, n)
        BY <2>2, <3>3 DEF Continue, Override, CancelWrite, WriteAdvance, Wait, Complete, Fail
      <4>3. request[r].of # i
        BY <1>1, <3>1, <4>1, Works DEF InStep
      <4> QED
        BY <4>2, <4>3 DEF Update
    <3> QED
      BY <3>2, <3>3
  <2>3. ASSUME NEW j \in Instances, RunWorkflow(j) PROVE inst'[i] = inst[i]
    <3>1. inst[j].state = "absent" /\ \E x : inst' = [inst EXCEPT ![j] = x]
      BY <2>3 DEF RunWorkflow, Create
    <3> QED
      BY <3>1, <1>1 DEF Terminal
  <2>4. CASE UNCHANGED vars
    BY <2>4 DEF vars
  <2> QED
    BY <1>1, <2>1, <2>2, <2>3, <2>4 DEF Next
<1>2. IInv /\ [Next]_vars =>
        [\A i \in Instances : alone'[i] /\ inst[i].state \in Terminal => inst'[i] = inst[i]]_vars
  BY <1>1
<1> QED
  BY <1>2, Invariance, PTL DEF Spec, EndedStaysEnded

-----------------------------------------------------------------------------
(* Where a request can be with its instance when the definition has short    *)
(* stretches: every move goes down the rank, so the loop meets neither its   *)
(* limit nor a node it knows before it comes to one that waits or ends.      *)
Ranks == [Nodes -> 0 .. MaxSteps - 1]

(* A step looks at, or has read, the node the instance stands at. *)
Below(rank, r, i) ==
  /\ inst[i].node \in Nodes =>
       IF request[r].step = "look" THEN rank[inst[i].node] < request[r].left
                                   ELSE rank[inst[i].node] <= request[r].left
  /\ request[r].prev \in Nodes =>
       inst[i].node \in Nodes /\ rank[inst[i].node] < rank[request[r].prev]

OnItsWay(rank, r, i) ==
  /\ calls[i] <= 1
  /\ request[r].step \in {"look", "read", "override", "cancel"} =>
       inst[i].state \in Terminal \/ calls[i] = 0
  /\ request[r].step = "handle" /\ calls[i] # 0 =>
       request[r].node \in Nodes /\ Kind[request[r].node] = "http"
  /\ request[r].step = "override" =>
       request[r].left = MaxSteps /\ request[r].prev \notin Nodes
  /\ request[r].step \in {"look", "read", "handle", "write"} => Below(rank, r, i)
  /\ request[r].step \in {"read", "handle", "write"} => request[r].before = inst[i].node
  /\ request[r].step = "write" =>
       /\ request[r].node \in Nodes /\ request[r].to \in Nodes
       /\ rank[request[r].to] < rank[request[r].node]

AtRest(i) ==
  /\ calls[i] <= 1
  /\ \/ inst[i].state \in Terminal
     \/ inst[i].state = "absent" /\ calls[i] = 0
     \/ inst[i].state = "pending" /\ calls[i] = 0
     \/ /\ inst[i].state = "running" /\ calls[i] = 0
        /\ inst[i].node \in Nodes /\ Kind[inst[i].node] \in Waiting

Driven(rank, i) ==
  /\ Quiet(i) => AtRest(i)
  /\ \A r \in Requests : request[r].of = i => OnItsWay(rank, r, i)

DInv(rank) == IInv /\ \A i \in Instances : alone[i] => Driven(rank, i)

LEMMA RankBound ==
  ASSUME NEW rank \in Ranks, NEW n \in Nodes
  PROVE  rank[n] \in Nat /\ rank[n] < MaxSteps
BY Limits DEF Ranks

LEMMA InitDInv == ASSUME NEW rank \in Ranks, Init PROVE DInv(rank)
<1>1. IInv
  BY InitIInv
<1>2. ASSUME NEW i \in Instances PROVE Driven(rank, i)
  <2>1. AtRest(i)
    BY DEF Init, AtRest
  <2>2. \A r \in Requests : request[r].of # i
    BY IdleRow, Limits DEF Init
  <2> QED
    BY <2>1, <2>2 DEF Driven
<1> QED
  BY <1>1, <1>2 DEF DInv

(* What a step of one request on one instance must do to stay on its way. *)
LEMMA Passes ==
  ASSUME NEW rank \in Ranks, DInv(rank), IInv', NEW r \in Requests, NEW i \in Instances,
         request[r].of \in {i, None}, request'[r].of \in {i, None},
         \A q \in Requests \ {r} : request'[q] = request[q],
         \A j \in Instances \ {i} :
           inst'[j] = inst[j] /\ calls'[j] = calls[j] /\ alone'[j] = alone[j],
         alone'[i] => \A q \in Requests \ {r} : request[q].of # i,
         alone'[i] => IF request'[r].of = i THEN OnItsWay(rank, r, i)' ELSE AtRest(i)'
  PROVE  DInv(rank)'
<1>1. ASSUME NEW j \in Instances, alone'[j] PROVE Driven(rank, j)'
  <2>1. CASE j = i
    <3>1. \A q \in Requests : request'[q].of = i => q = r
      BY <1>1, <2>1
    <3>2. CASE request'[r].of = i
      <4>1. OnItsWay(rank, r, i)' /\ ~Quiet(i)'
        BY <1>1, <2>1, <3>2 DEF Quiet
      <4>2. \A q \in Requests : request'[q].of = i => OnItsWay(rank, q, i)'
        BY <3>1, <4>1
      <4> QED
        BY <2>1, <4>1, <4>2 DEF Driven
    <3>3. CASE request'[r].of # i
      <4>1. AtRest(i)' /\ \A q \in Requests : request'[q].of # i
        BY <1>1, <2>1, <3>1, <3>3
      <4> QED
        BY <2>1, <4>1 DEF Driven
    <3> QED
      BY <3>2, <3>3
  <2>2. CASE j # i
    <3>1. Driven(rank, j) /\ inst'[j] = inst[j] /\ calls'[j] = calls[j]
      BY <1>1, <2>2 DEF DInv
    <3>2. request[r].of # j /\ request'[r].of # j
      BY <2>2, Limits
    <3>3. \A q \in Requests : request'[q].of = j => request[q].of = j /\ request'[q] = request[q]
      BY <3>2
    <3>4. \A q \in Requests : request'[q].of = j => OnItsWay(rank, q, j)'
      BY <3>1, <3>3 DEF Driven, OnItsWay, Below
    <3>5. Quiet(j)' => AtRest(j)'
      BY <3>1, <3>2 DEF Driven, Quiet, AtRest
    <3> QED
      BY <3>4, <3>5 DEF Driven
  <2> QED
    BY <2>1, <2>2
<1> QED
  BY <1>1 DEF DInv

(* Update on the counter of calls. *)
LEMMA Recounts ==
  ASSUME TypeOK, NEW i \in Instances, NEW s, NEW n, Update(i, s, n)
  PROVE  /\ calls'[i] = IF inst[i].node = n THEN calls[i] ELSE 0
         /\ \A j \in Instances \ {i} : calls'[j] = calls[j]
         /\ inst'[i] = [state |-> s, node |-> n]
         /\ \A j \in Instances \ {i} : inst'[j] = inst[j]
BY Types DEF Update

(* A request that comes in has all its steps before it. *)
LEMMA Begun ==
  ASSUME TypeOK, NEW r \in Requests, NEW i \in Instances,
         NEW s, NEW n, NEW t, Begin(r, s, i, n, t)
  PROVE  /\ request[r].of = None
         /\ \A q \in Requests \ {r} : request'[q] = request[q]
         /\ request'[r].step = s /\ request'[r].of = i
         /\ request'[r].left = MaxSteps /\ request'[r].prev = None
BY Types, IdleRow DEF Begin

(* Start, Transition, Drive and Cancel. *)
LEMMA EnterDInv ==
  ASSUME NEW rank \in Ranks, DInv(rank), NEW r \in Requests, NEW i \in Instances, Enter(r, i)
  PROVE  DInv(rank)'
<1>1. IInv /\ TypeOK /\ IInv'
  BY EnterIInv DEF DInv, IInv
<1>2. PICK s \in {"look", "override", "cancel"} : \E n, t : Begin(r, s, i, n, t)
  BY DEF Enter, StartWorkflow, Transition, Drive, Cancel
<1>3. /\ request[r].of = None
      /\ \A q \in Requests \ {r} : request'[q] = request[q]
      /\ request'[r].step = s /\ request'[r].of = i
      /\ request'[r].left = MaxSteps /\ request'[r].prev = None
  BY <1>1, <1>2, Begun
<1>4. calls' = calls
  BY DEF Enter, StartWorkflow, Transition, Drive, Cancel
<1>5. \A j \in Instances \ {i} : inst'[j] = inst[j]
  <2>1. CASE StartWorkflow(r, i)
    <3>1. \E x : inst' = [inst EXCEPT ![i] = x]
      BY <2>1 DEF StartWorkflow, Create
    <3> QED
      BY <3>1, <1>1, Types
  <2>2. CASE ~StartWorkflow(r, i)
    BY <2>2 DEF Enter, Transition, Drive, Cancel
  <2> QED
    BY <2>1, <2>2
<1>6. /\ \A j \in Instances \ {i} : alone'[j] = alone[j]
      /\ alone'[i] => \A q \in Requests : request[q].of # i
  BY <1>1, Enters
<1>7. ASSUME alone'[i] PROVE OnItsWay(rank, r, i)'
  <2>1. alone[i] /\ Quiet(i)
    BY <1>1, <1>6, <1>7, Types DEF Enter, Quiet
  <2>2. AtRest(i)
    BY <2>1 DEF DInv, Driven
  <2>3. inst[i].state \notin Terminal
    BY DEF Enter, StartWorkflow, Create, Transition, Drive, Cancel, Terminal
  <2>4. calls'[i] = 0
    BY <1>4, <2>2, <2>3 DEF AtRest
  <2>5. Below(rank, r, i)'
    BY <1>3, RankBound, Limits, ConstantsAssumption DEF Below
  <2> QED
    BY <1>2, <1>3, <2>4, <2>5, Limits, ConstantsAssumption DEF OnItsWay
<1> QED
  BY <1>1, <1>3, <1>4, <1>5, <1>6, <1>7, Passes

-----------------------------------------------------------------------------
(* What every step of a request under way leaves alone. *)
LEMMA Goes ==
  ASSUME NEW rank \in Ranks, DInv(rank), NEW r \in Requests, Continue(r),
         NEW i \in Instances, request[r].of = i,
         request'[r].of \in {i, None},
         \A q \in Requests \ {r} : request'[q] = request[q],
         \A j \in Instances \ {i} : inst'[j] = inst[j] /\ calls'[j] = calls[j],
         alone[i] => IF request'[r].of = i THEN OnItsWay(rank, r, i)' ELSE AtRest(i)'
  PROVE  DInv(rank)'
<1>1. IInv /\ IInv' /\ alone' = alone
  BY ContinueIInv DEF DInv, Continue
<1>2. request[r].step # "none"
  BY <1>1, Limits DEF IInv, Placed
<1>3. alone[i] => \A q \in Requests \ {r} : request[q].of # i
  BY <1>1, <1>2, Works
<1> QED
  BY <1>1, <1>3, Passes

(* What a request under way may count on. *)
LEMMA Counts ==
  ASSUME NEW rank \in Ranks, DInv(rank), NEW r \in Requests, NEW i \in Instances,
         request[r].of = i
  PROVE  /\ TypeOK /\ request[r] \in RequestRow /\ request[r].step # "none"
         /\ calls[i] \in 0 .. 2 /\ inst[i].node \in Names
         /\ alone[i] => OnItsWay(rank, r, i) /\ InStep(r, i)
<1>1. IInv /\ TypeOK
  BY DEF DInv, IInv
<1>2. request[r].step # "none"
  BY <1>1, Limits DEF IInv, Placed
<1>3. alone[i] => OnItsWay(rank, r, i) /\ InStep(r, i)
  BY <1>1 DEF DInv, Driven, IInv, Followed
<1>4. request[r] \in RequestRow /\ calls[i] \in 0 .. 2 /\ inst[i].node \in Names
  BY <1>1, Types DEF Row
<1> QED
  BY <1>1, <1>2, <1>3, <1>4

(* The steps that leave the instance in a terminal state. *)
LEMMA EndsDInv ==
  ASSUME NEW rank \in Ranks, DInv(rank), NEW r \in Requests, Continue(r),
         NEW i \in Instances, request[r].of = i,
         NEW s \in Terminal, Update(i, s, request[r].node), Return(r)
  PROVE  DInv(rank)'
<1>1. TypeOK /\ (alone[i] => calls[i] <= 1)
  BY Counts DEF OnItsWay
<1>2. /\ calls'[i] = IF inst[i].node = request[r].node THEN calls[i] ELSE 0
      /\ inst'[i] = [state |-> s, node |-> request[r].node]
      /\ \A j \in Instances \ {i} : inst'[j] = inst[j] /\ calls'[j] = calls[j]
  BY <1>1, Recounts
<1>3. request'[r].of = None /\ \A q \in Requests \ {r} : request'[q] = request[q]
  BY <1>1, Returns
<1>4. alone[i] => AtRest(i)'
  BY <1>1, <1>2 DEF AtRest
<1> QED
  BY <1>2, <1>3, <1>4, Goes, Limits

LEMMA OverrideDInv ==
  ASSUME NEW rank \in Ranks, DInv(rank), NEW r \in Requests, Continue(r),
         NEW i \in Instances, request[r].of = i, Override(r)
  PROVE  DInv(rank)'
<1>1. /\ request[r].step = "override"
      /\ Update(i, "running", request[r].to)
      /\ request' = [request EXCEPT ![r] = [@ EXCEPT !.step = "look"]]
  BY DEF Override
<1>2. /\ TypeOK /\ request[r] \in RequestRow
      /\ alone[i] => OnItsWay(rank, r, i) /\ InStep(r, i)
  BY Counts
<1>3. /\ calls'[i] = IF inst[i].node = request[r].to THEN calls[i] ELSE 0
      /\ inst'[i] = [state |-> "running", node |-> request[r].to]
      /\ \A j \in Instances \ {i} : inst'[j] = inst[j] /\ calls'[j] = calls[j]
  BY <1>1, <1>2, Recounts
<1>4. /\ \A q \in Requests \ {r} : request'[q] = request[q]
      /\ request'[r].step = "look" /\ request'[r].of = i
      /\ request'[r].left = request[r].left /\ request'[r].prev = request[r].prev
  BY <1>1, <1>2, Types DEF RequestRow
<1>5. ASSUME alone[i] PROVE OnItsWay(rank, r, i)'
  <2>1. /\ calls[i] = 0 /\ request[r].left = MaxSteps /\ request[r].prev \notin Nodes
    BY <1>1, <1>2, <1>5 DEF OnItsWay, InStep
  <2>2. Below(rank, r, i)'
    BY <1>3, <1>4, <2>1, RankBound DEF Below
  <2>3. calls'[i] = 0
    BY <1>3, <2>1
  <2> QED
    BY <1>4, <2>2, <2>3 DEF OnItsWay
<1> QED
  BY <1>3, <1>4, <1>5, Goes

LEMMA LookDInv ==
  ASSUME NEW rank \in Ranks, DInv(rank), NEW r \in Requests, Continue(r),
         NEW i \in Instances, request[r].of = i, Look(r)
  PROVE  DInv(rank)'
<1>1. /\ request[r].step = "look" /\ inst' = inst /\ calls' = calls
      /\ request' = [request EXCEPT ![r] =
           [@ EXCEPT !.step = "read", !.before = inst[i].node, !.left = request[r].left - 1]]
  BY DEF Look
<1>2. TypeOK /\ request[r] \in RequestRow /\ (alone[i] => OnItsWay(rank, r, i))
  BY Counts
<1>3. /\ \A q \in Requests \ {r} : request'[q] = request[q]
      /\ request'[r].step = "read" /\ request'[r].of = i
      /\ request'[r].before = inst[i].node
      /\ request'[r].left = request[r].left - 1 /\ request'[r].prev = request[r].prev
  BY <1>1, <1>2, Types DEF RequestRow
<1>4. ASSUME alone[i] PROVE OnItsWay(rank, r, i)'
  <2>1. /\ calls[i] <= 1 /\ (inst[i].state \in Terminal \/ calls[i] = 0)
        /\ Below(rank, r, i)
    BY <1>1, <1>2, <1>4 DEF OnItsWay
  <2>2. request[r].left \in Nat
    BY <1>2, Limits DEF RequestRow
  <2>3. Below(rank, r, i)'
    BY <1>1, <1>3, <2>1, <2>2, RankBound, Limits DEF Below
  <2> QED
    BY <1>1, <1>3, <2>1, <2>3 DEF OnItsWay
<1> QED
  BY <1>1, <1>3, <1>4, Goes

LEMMA ReadDInv ==
  ASSUME NEW rank \in Ranks, DInv(rank), NEW r \in Requests, Continue(r),
         NEW i \in Instances, request[r].of = i, Read(r)
  PROVE  DInv(rank)'
<1>1. request[r].step = "read" /\ inst' = inst
  BY DEF Read
<1>2. /\ TypeOK /\ request[r] \in RequestRow /\ calls[i] \in 0 .. 2
      /\ alone[i] => OnItsWay(rank, r, i)
  BY Counts
<1>3. CASE inst[i].state \in Terminal
  <2>1. Return(r) /\ calls' = calls
    BY <1>3 DEF Read
  <2>2. request'[r].of = None /\ \A q \in Requests \ {r} : request'[q] = request[q]
    BY <1>2, <2>1, Returns
  <2>3. alone[i] => AtRest(i)'
    BY <1>1, <1>2, <1>3, <2>1 DEF OnItsWay, AtRest
  <2> QED
    BY <1>1, <2>1, <2>2, <2>3, Goes, Limits
<1>4. CASE inst[i].state \notin Terminal
  <2>1. /\ request' = [request EXCEPT ![r] = [@ EXCEPT !.step = "handle", !.node = inst[i].node]]
        /\ calls' = [calls EXCEPT ![i] =
             IF inst[i].node \in Nodes /\ Kind[inst[i].node] = "http" /\ @ < 2 THEN @ + 1 ELSE @]
    BY <1>4 DEF Read
  <2>2. /\ \A q \in Requests \ {r} : request'[q] = request[q]
        /\ request'[r].step = "handle" /\ request'[r].of = i
        /\ request'[r].node = inst[i].node /\ request'[r].before = request[r].before
        /\ request'[r].left = request[r].left /\ request'[r].prev = request[r].prev
    BY <1>2, <2>1, Types DEF RequestRow
  <2>3. /\ \A j \in Instances \ {i} : calls'[j] = calls[j]
        /\ calls'[i] = IF inst[i].node \in Nodes /\ Kind[inst[i].node] = "http" /\ calls[i] < 2
                       THEN calls[i] + 1 ELSE calls[i]
    BY <1>2, <2>1, Types
  <2>4. ASSUME alone[i] PROVE OnItsWay(rank, r, i)'
    <3>1. calls[i] = 0 /\ Below(rank, r, i) /\ request[r].before = inst[i].node
      BY <1>1, <1>2, <1>4, <2>4 DEF OnItsWay
    <3>2. /\ calls'[i] <= 1
          /\ calls'[i] # 0 => inst[i].node \in Nodes /\ Kind[inst[i].node] = "http"
      BY <2>3, <3>1
    <3>3. Below(rank, r, i)'
      BY <1>1, <2>2, <3>1 DEF Below
    <3> QED
      BY <1>1, <2>2, <3>1, <3>2, <3>3 DEF OnItsWay
  <2> QED
    BY <1>1, <2>2, <2>3, <2>4, Goes
<1> QED
  BY <1>3, <1>4

LEMMA AdvanceDInv ==
  ASSUME NEW rank \in Ranks, Descends(rank), DInv(rank), NEW r \in Requests, Continue(r),
         NEW i \in Instances, request[r].of = i, Advance(r)
  PROVE  DInv(rank)'
<1>1. /\ request[r].step = "handle" /\ inst' = inst /\ calls' = calls
      /\ request[r].node \in Nodes /\ Kind[request[r].node] \in {"start", "http", "branch"}
  BY DEF Advance, Handling
<1>2. PICK to \in Succ(request[r].node) :
        request' = [request EXCEPT ![r] = [@ EXCEPT !.step = "write", !.to = to]]
  BY DEF Advance
<1>3. /\ TypeOK /\ request[r] \in RequestRow
      /\ alone[i] => OnItsWay(rank, r, i)
  BY Counts
<1>4. /\ \A q \in Requests \ {r} : request'[q] = request[q]
      /\ request'[r].step = "write" /\ request'[r].of = i /\ request'[r].to = to
      /\ request'[r].node = request[r].node /\ request'[r].before = request[r].before
      /\ request'[r].left = request[r].left /\ request'[r].prev = request[r].prev
  BY <1>2, <1>3, Types DEF RequestRow
<1>5. to \in Nodes /\ rank[to] < rank[request[r].node]
  BY <1>1, <1>2 DEF Succ, Descends
<1>6. ASSUME alone[i] PROVE OnItsWay(rank, r, i)'
  <2>1. calls[i] <= 1 /\ Below(rank, r, i) /\ request[r].before = inst[i].node
    BY <1>1, <1>3, <1>6 DEF OnItsWay
  <2>2. Below(rank, r, i)'
    BY <1>1, <1>4, <2>1 DEF Below
  <2> QED
    BY <1>1, <1>4, <1>5, <2>1, <2>2 DEF OnItsWay
<1> QED
  BY <1>1, <1>4, <1>6, Goes

(* The loop goes on after every move. *)
LEMMA WriteAdvanceDInv ==
  ASSUME NEW rank \in Ranks, DInv(rank), NEW r \in Requests, Continue(r),
         NEW i \in Instances, request[r].of = i, WriteAdvance(r)
  PROVE  DInv(rank)'
<1>1. /\ request[r].step = "write"
      /\ Update(i, "running", request[r].to) /\ Loop(r, request[r].to)
  BY DEF WriteAdvance
<1>2. /\ TypeOK /\ request[r] \in RequestRow
      /\ alone[i] => OnItsWay(rank, r, i) /\ InStep(r, i)
  BY Counts
<1>3. /\ calls'[i] = IF inst[i].node = request[r].to THEN calls[i] ELSE 0
      /\ inst'[i] = [state |-> "running", node |-> request[r].to]
      /\ \A j \in Instances \ {i} : inst'[j] = inst[j] /\ calls'[j] = calls[j]
  BY <1>1, <1>2, Recounts
<1>4. /\ \A q \in Requests \ {r} : request'[q] = request[q]
      /\ request'[r].of \in {i, None}
  BY <1>1, <1>2, Loops
<1>5. ASSUME alone[i] PROVE request'[r].of = i /\ OnItsWay(rank, r, i)'
  <2> DEFINE n == request[r].node
             t == request[r].to
  <2>1. /\ n \in Nodes /\ t \in Nodes /\ rank[t] < rank[n]
        /\ Below(rank, r, i) /\ request[r].before = inst[i].node /\ inst[i].node = n
    BY <1>1, <1>2, <1>5 DEF OnItsWay, InStep
  <2>2. rank[n] \in Nat /\ rank[t] \in Nat /\ request[r].left \in Nat
    BY <1>2, <2>1, RankBound, Limits DEF RequestRow
  <2>3. /\ rank[n] <= request[r].left
        /\ request[r].prev \in Nodes => rank[n] < rank[request[r].prev]
    BY <1>1, <2>1 DEF Below
  <2>4. t # n /\ request[r].left # 0 /\ rank[t] < request[r].left
    BY <2>1, <2>2, <2>3
  <2>5. t # request[r].prev
    <3> SUFFICES ASSUME t = request[r].prev PROVE FALSE
      OBVIOUS
    <3>1. rank[n] < rank[t]
      BY <2>1, <2>3
    <3> QED
      BY <2>1, <2>2, <3>1
  <2>6. request' = [request EXCEPT ![r] = [@ EXCEPT !.step = "look", !.prev = request[r].before]]
    BY <1>1, <2>1, <2>4, <2>5 DEF Loop
  <2>7. /\ request'[r].step = "look" /\ request'[r].of = i
        /\ request'[r].left = request[r].left /\ request'[r].prev = n
    BY <1>2, <2>1, <2>6, Types DEF RequestRow
  <2>8. Below(rank, r, i)'
    BY <1>3, <2>1, <2>4, <2>7 DEF Below
  <2>9. calls'[i] = 0
    BY <1>3, <2>1, <2>4
  <2> QED
    BY <2>7, <2>8, <2>9 DEF OnItsWay
<1> QED
  BY <1>3, <1>4, <1>5, Goes

(* At a node that waits the loop stops. *)
LEMMA WaitDInv ==
  ASSUME NEW rank \in Ranks, DInv(rank), NEW r \in Requests, Continue(r),
         NEW i \in Instances, request[r].of = i, Wait(r)
  PROVE  DInv(rank)'
<1>1. /\ request[r].step = "handle"
      /\ request[r].node \in Nodes /\ Kind[request[r].node] \in Waiting
      /\ Update(i, "running", request[r].node) /\ Loop(r, request[r].node)
  BY DEF Wait, Handling
<1>2. TypeOK /\ (alone[i] => OnItsWay(rank, r, i) /\ InStep(r, i))
  BY Counts
<1>3. /\ calls'[i] = IF inst[i].node = request[r].node THEN calls[i] ELSE 0
      /\ inst'[i] = [state |-> "running", node |-> request[r].node]
      /\ \A j \in Instances \ {i} : inst'[j] = inst[j] /\ calls'[j] = calls[j]
  BY <1>1, <1>2, Recounts
<1>4. /\ \A q \in Requests \ {r} : request'[q] = request[q]
      /\ request'[r].of \in {i, None}
  BY <1>1, <1>2, Loops
<1>5. ASSUME alone[i] PROVE request'[r].of = None /\ AtRest(i)'
  <2>1. /\ request[r].before = request[r].node
        /\ calls[i] # 0 => Kind[request[r].node] = "http"
    BY <1>1, <1>2, <1>5 DEF OnItsWay, InStep
  <2>2. calls[i] = 0
    BY <1>1, <2>1 DEF Waiting
  <2>3. Return(r)
    BY <1>1, <2>1 DEF Loop
  <2>4. request'[r].of = None
    BY <1>2, <2>3, Returns
  <2>5. calls'[i] = 0
    BY <1>3, <2>2
  <2> QED
    BY <1>1, <1>3, <2>4, <2>5 DEF AtRest
<1> QED
  BY <1>3, <1>4, <1>5, Goes, Limits

LEMMA ContinueDInv ==
  ASSUME NEW rank \in Ranks, Descends(rank), DInv(rank), NEW r \in Requests, Continue(r)
  PROVE  DInv(rank)'
<1>1. request[r].step # "none"
  BY DEF Continue, Override, CancelWrite, Look, Read, Advance, WriteAdvance, Wait,
         Complete, Fail, Handling
<1>2. PICK i \in Instances : request[r].of = i
  BY <1>1 DEF DInv, IInv, Placed
<1>3. CASE Override(r)
  BY <1>2, <1>3, OverrideDInv
<1>4. CASE CancelWrite(r) \/ Complete(r) \/ Fail(r)
  <2>1. PICK s \in Terminal : Update(i, s, request[r].node) /\ Return(r)
    BY <1>2, <1>4 DEF CancelWrite, Complete, Fail, Terminal
  <2> QED
    BY <1>2, <2>1, EndsDInv
<1>5. CASE Look(r)
  BY <1>2, <1>5, LookDInv
<1>6. CASE Read(r)
  BY <1>2, <1>6, ReadDInv
<1>7. CASE Advance(r)
  BY <1>2, <1>7, AdvanceDInv
<1>8. CASE WriteAdvance(r)
  BY <1>2, <1>8, WriteAdvanceDInv
<1>9. CASE Wait(r)
  BY <1>2, <1>9, WaitDInv
<1> QED
  BY <1>3, <1>4, <1>5, <1>6, <1>7, <1>8, <1>9 DEF Continue

LEMMA RunWorkflowDInv ==
  ASSUME NEW rank \in Ranks, DInv(rank), NEW i \in Instances, RunWorkflow(i)
  PROVE  DInv(rank)'
<1>1. IInv /\ IInv' /\ TypeOK
  BY RunWorkflowIInv DEF DInv, IInv
<1>2. PICK n \in Nodes :
        /\ inst[i].state = "absent"
        /\ inst' = [inst EXCEPT ![i] = [state |-> "pending", node |-> n]]
        /\ calls' = calls /\ request' = request /\ alone' = alone
  BY DEF RunWorkflow, Create
<1>3. /\ inst'[i].state = "pending"
      /\ \A j \in Instances \ {i} : inst'[j] = inst[j]
  BY <1>1, <1>2, Types
<1>4. Quiet(i)
  BY <1>1, <1>2, Limits DEF IInv, Placed, Quiet
<1>5. ASSUME NEW j \in Instances, alone'[j] PROVE Driven(rank, j)'
  <2>1. Driven(rank, j)
    BY <1>2, <1>5 DEF DInv
  <2>2. CASE j = i
    <3>1. AtRest(i)
      BY <1>4, <2>1, <2>2 DEF Driven
    <3>2. AtRest(i)'
      BY <1>2, <1>3, <3>1 DEF AtRest, Terminal
    <3>3. \A q \in Requests : request'[q].of # i
      BY <1>2, <1>4 DEF Quiet
    <3> QED
      BY <2>2, <3>2, <3>3 DEF Driven
  <2>3. CASE j # i
    BY <1>2, <1>3, <2>1, <2>3 DEF Driven, Quiet, AtRest, OnItsWay, Below
  <2> QED
    BY <2>2, <2>3
<1> QED
  BY <1>1, <1>5 DEF DInv

LEMMA StepDInv ==
  ASSUME NEW rank \in Ranks, Descends(rank), DInv(rank), [Next]_vars
  PROVE  DInv(rank)'
<1>1. ASSUME NEW r \in Requests, NEW i \in Instances, Enter(r, i) PROVE DInv(rank)'
  BY <1>1, EnterDInv
<1>2. ASSUME NEW r \in Requests, Continue(r) PROVE DInv(rank)'
  BY <1>2, ContinueDInv
<1>3. ASSUME NEW i \in Instances, RunWorkflow(i) PROVE DInv(rank)'
  BY <1>3, RunWorkflowDInv
<1>4. CASE UNCHANGED vars
  <2>1. inst' = inst /\ log' = log /\ calls' = calls /\ request' = request /\ alone' = alone
    BY <1>4 DEF vars
  <2>2. IInv'
    BY <1>4, StepIInv DEF DInv
  <2>3. ASSUME NEW j \in Instances, alone'[j] PROVE Driven(rank, j)'
    <3>1. Driven(rank, j)
      BY <2>1, <2>3 DEF DInv
    <3> QED
      BY <2>1, <3>1 DEF Driven, Quiet, AtRest, OnItsWay, Below
  <2> QED
    BY <2>2, <2>3 DEF DInv
<1> QED
  BY <1>1, <1>2, <1>3, <1>4 DEF Next

LEMMA DrivenStops ==
  ASSUME NEW rank \in Ranks, DInv(rank)
  PROVE  StopsAndCalls
<1>1. ASSUME NEW i \in Instances, alone[i] PROVE Driven(rank, i)
  BY <1>1 DEF DInv
<1>2. RestsAtWait
  BY <1>1 DEF RestsAtWait, Driven, AtRest, Terminal
<1>3. CalledOnce
  BY <1>1 DEF CalledOnce, Driven, AtRest, OnItsWay, Quiet
<1> QED
  BY <1>2, <1>3 DEF StopsAndCalls

(* Of a definition with short stretches, requests one at a time leave a      *)
(* running instance only at a node that waits, and call the service of an    *)
(* http node once each time the instance comes to it                         *)
(* (runWorkflowToBoundary: neither the step limit nor the check for a node   *)
(* it knows stops a stretch half way).                                       *)
THEOREM RequestsStopAtWait == ShortStretches /\ Spec => []StopsAndCalls
<1>1. ASSUME NEW rank \in Ranks, Descends(rank) PROVE Spec => []StopsAndCalls
  <2>1. Init => DInv(rank)
    BY InitDInv
  <2>2. DInv(rank) /\ [Next]_vars => DInv(rank)'
    BY <1>1, StepDInv
  <2>3. DInv(rank) => StopsAndCalls
    BY DrivenStops
  <2> QED
    BY <2>1, <2>2, <2>3, PTL DEF Spec
<1>2. ShortStretches => \E rank \in Ranks : Descends(rank)
  BY DEF ShortStretches, Ranks
<1>3. CASE ~ShortStretches
  BY <1>3
<1>4. CASE ShortStretches
  <2>1. PICK rank \in Ranks : Descends(rank)
    BY <1>2, <1>4
  <2> QED
    BY <1>1, <2>1
<1> QED
  BY <1>3, <1>4

=============================================================================
