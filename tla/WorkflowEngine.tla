--------------------------- MODULE WorkflowEngine ---------------------------
(***************************************************************************)
(* The engine that drives instances of a workflow definition from node to  *)
(* node until one waits, ends or fails (workflow/engine.ts), and the       *)
(* requests that start, transition and cancel them (routes/workflows.ts).  *)
(*                                                                         *)
(* A request is a handler at one of its awaits.  It reads the instance,    *)
(* runs the handler of its node, which for an http node is a call that may *)
(* take seconds, and writes the outcome without a second look.  Conditions *)
(* on edges depend on a context the model leaves out: any edge of a node   *)
(* may be taken.  Of the table of transitions the model keeps whether it   *)
(* is a path and where it ends.                                            *)
(***************************************************************************)
EXTENDS Naturals

CONSTANTS
  Instances, Requests, None,
  Nodes, Kind, Edges,  \* the definition
  Overrides,           \* nodes a client may name in a transition, known or not
  MaxSteps             \* steps one request drives at most (32)

Waiting == {"approval", "wait_for_event", "enqueue_job", "script"}
Terminal == {"completed", "failed", "cancelled"}
Succ(n) == {t \in Nodes : <<n, t>> \in Edges}

ASSUME ConstantsAssumption ==
  /\ None \notin Nodes \cup Overrides \cup Instances
  /\ Kind \in [Nodes -> Waiting \cup {"start", "end", "http", "branch", "unknown"}]
  /\ Edges \subseteq Nodes \X Nodes
  /\ \E n \in Nodes : Kind[n] = "start"
  /\ MaxSteps \in Nat \ {0}

VARIABLES
  inst,     \* table workflow_instances: state and current node
  log,      \* table workflow_transitions: where it ends, whether it is a path
  calls,    \* times the http node an instance stands at was called since it got there
  request,  \* what each request is doing
  alone     \* history: no two requests at once on an instance so far

vars == <<inst, log, calls, request, alone>>

Idle == [step |-> "none", of |-> None, node |-> None, to |-> None,
         before |-> None, prev |-> None, left |-> 0]

Init ==
  /\ inst = [i \in Instances |-> [state |-> "absent", node |-> None]]
  /\ log = [i \in Instances |-> [last |-> None, path |-> TRUE]]
  /\ calls = [i \in Instances |-> 0]
  /\ request = [r \in Requests |-> Idle]
  /\ alone = [i \in Instances |-> TRUE]

-----------------------------------------------------------------------------
(* A request comes in and has found instance i: it goes on at a step. *)
Begin(r, step, i, node, to) ==
  /\ request[r] = Idle
  /\ request' = [request EXCEPT ![r] =
       [step |-> step, of |-> i, node |-> node, to |-> to,
        before |-> None, prev |-> None, left |-> MaxSteps]]

Return(r) == request' = [request EXCEPT ![r] = Idle]

(* updateWorkflowInstance, for the fields the engine writes. *)
Update(i, s, n) ==
  /\ inst' = [inst EXCEPT ![i] = [state |-> s, node |-> n]]
  /\ calls' = [calls EXCEPT ![i] = IF inst[i].node = n THEN @ ELSE 0]

RecordTransition(i, from, to) ==
  log' = [log EXCEPT ![i] = [last |-> to, path |-> @.path /\ @.last = from]]

Create(i) ==
  \E n \in Nodes :
    /\ inst[i].state = "absent" /\ Kind[n] = "start"
    /\ inst' = [inst EXCEPT ![i] = [state |-> "pending", node |-> n]]
    /\ log' = [log EXCEPT ![i] = [last |-> n, path |-> TRUE]]

(* POST /workflows/:name/start creates an instance and drives it. *)
StartWorkflow(r, i) ==
  /\ Begin(r, "look", i, None, None)
  /\ Create(i)
  /\ UNCHANGED calls

(* The trigger action run_workflow creates one; the event it publishes,      *)
(* workflow.started, has no subscriber.                                      *)
RunWorkflow(i) == Create(i) /\ UNCHANGED <<calls, request, alone>>

(* Mutant: an instance that has ended is driven again. *)
TransitionAnyState(r, i) ==
  /\ inst[i].state # "absent"
  /\ \E n \in Overrides :
       RecordTransition(i, inst[i].node, n) /\ Begin(r, "override", i, None, n)
  /\ UNCHANGED <<inst, calls>>

(* POST /workflow-instances/:id/transition, to a node the client names, ... *)
Transition(r, i) ==
  /\ inst[i].state \notin Terminal \cup {"absent"}
  /\ \E n \in Overrides :
       RecordTransition(i, inst[i].node, n) /\ Begin(r, "override", i, None, n)
  /\ UNCHANGED <<inst, calls>>

(* Mutant: the state is left as it is. *)
OverrideKeepsState(r) ==
  /\ request[r].step = "override"
  /\ Update(request[r].of, inst[request[r].of].state, request[r].to)
  /\ request' = [request EXCEPT ![r] = [@ EXCEPT !.step = "look"]]
  /\ UNCHANGED log

Override(r) ==
  /\ request[r].step = "override"
  /\ Update(request[r].of, "running", request[r].to)
  /\ request' = [request EXCEPT ![r] = [@ EXCEPT !.step = "look"]]
  /\ UNCHANGED log

(* ... or to wherever its handlers lead. *)
Drive(r, i) ==
  /\ inst[i].state \notin Terminal \cup {"absent"}
  /\ Begin(r, "look", i, None, None)
  /\ UNCHANGED <<inst, log, calls>>

(* POST /workflow-instances/:id/cancel *)
Cancel(r, i) ==
  /\ inst[i].state \notin Terminal \cup {"absent"}
  /\ Begin(r, "cancel", i, inst[i].node, None)
  /\ UNCHANGED <<inst, log, calls>>

CancelWrite(r) ==
  /\ request[r].step = "cancel"
  /\ Update(request[r].of, "cancelled", request[r].node)
  /\ Return(r)
  /\ UNCHANGED log

-----------------------------------------------------------------------------
(* runWorkflowToBoundary and runWorkflowStep. *)

Look(r) ==
  /\ request[r].step = "look"
  /\ request' = [request EXCEPT ![r] =
       [@ EXCEPT !.step = "read", !.before = inst[request[r].of].node, !.left = request[r].left - 1]]
  /\ UNCHANGED <<inst, log, calls>>

(* The step reads the instance again; an http node's call goes out. *)
Read(r) ==
  /\ request[r].step = "read"
  /\ LET i == request[r].of
         n == inst[i].node
     IN IF inst[i].state \in Terminal
        THEN Return(r) /\ UNCHANGED calls
        ELSE /\ request' = [request EXCEPT ![r] = [@ EXCEPT !.step = "handle", !.node = n]]
             /\ calls' = [calls EXCEPT ![i] =
                  IF n \in Nodes /\ Kind[n] = "http" /\ @ < 2 THEN @ + 1 ELSE @]
  /\ UNCHANGED <<inst, log>>

Handling(r, kinds) ==
  request[r].step = "handle" /\ request[r].node \in Nodes /\ Kind[request[r].node] \in kinds

(* Mutant: one step a request. *)
LoopOnce(r, n) == Return(r)

(* Mutant: no limit to the steps. *)
LoopUnlimited(r, n) ==
  IF n \in {request[r].before, request[r].prev}
  THEN Return(r)
  ELSE request' = [request EXCEPT ![r] = [@ EXCEPT !.step = "look", !.prev = request[r].before]]

(* After a step the loop goes on, unless the node did not change (a wait),   *)
(* or it is the one of two steps ago, or the steps are used up.              *)
Loop(r, n) ==
  IF n \in {request[r].before, request[r].prev} \/ request[r].left = 0
  THEN Return(r)
  ELSE request' = [request EXCEPT ![r] = [@ EXCEPT !.step = "look", !.prev = request[r].before]]

Advance(r) ==
  /\ Handling(r, {"start", "http", "branch"})
  /\ \E to \in Succ(request[r].node) :
       /\ RecordTransition(request[r].of, request[r].node, to)
       /\ request' = [request EXCEPT ![r] = [@ EXCEPT !.step = "write", !.to = to]]
  /\ UNCHANGED <<inst, calls>>

(* Mutant: the transition is recorded, the instance stays where it is. *)
WriteStays(r) ==
  /\ request[r].step = "write"
  /\ Update(request[r].of, "running", request[r].node)
  /\ Loop(r, request[r].node)
  /\ UNCHANGED log

WriteAdvance(r) ==
  /\ request[r].step = "write"
  /\ Update(request[r].of, "running", request[r].to)
  /\ Loop(r, request[r].to)
  /\ UNCHANGED log

Wait(r) ==
  /\ Handling(r, Waiting)
  /\ Update(request[r].of, "running", request[r].node)
  /\ Loop(r, request[r].node)
  /\ UNCHANGED log

Complete(r) ==
  /\ Handling(r, {"end", "http"})
  /\ Kind[request[r].node] = "http" => Succ(request[r].node) = {}
  /\ Update(request[r].of, "completed", request[r].node)
  /\ Return(r)
  /\ UNCHANGED log

(* An unknown node or kind, a start without an edge, an http call that was   *)
(* not answered well, a branch of which no edge applies.                     *)
Fail(r) ==
  /\ \/ request[r].step = "handle" /\ request[r].node \notin Nodes
     \/ Handling(r, {"unknown", "http", "branch"})
     \/ Handling(r, {"start"}) /\ Succ(request[r].node) = {}
  /\ Update(request[r].of, "failed", request[r].node)
  /\ Return(r)
  /\ UNCHANGED log

-----------------------------------------------------------------------------
Enter(r, i) ==
  /\ StartWorkflow(r, i) \/ Transition(r, i) \/ Drive(r, i) \/ Cancel(r, i)
  /\ alone' = [alone EXCEPT ![i] = @ /\ \A q \in Requests : request[q].of # i]

Continue(r) ==
  /\ \/ Override(r) \/ CancelWrite(r) \/ Look(r) \/ Read(r)
     \/ Advance(r) \/ WriteAdvance(r) \/ Wait(r) \/ Complete(r) \/ Fail(r)
  /\ UNCHANGED alone

Next ==
  \/ \E r \in Requests, i \in Instances : Enter(r, i)
  \/ \E r \in Requests : Continue(r)
  \/ \E i \in Instances : RunWorkflow(i)

Spec == Init /\ [][Next]_vars

(* Handlers that are under way go on (a fetch times out after 15 seconds);   *)
(* clients promise nothing.                                                  *)
FairSpec == Spec /\ \A r \in Requests : WF_vars(Continue(r))

-----------------------------------------------------------------------------
(* Properties. *)

(* Type invariant. *)
TypeOK ==
  /\ inst \in [Instances -> [state : Terminal \cup {"absent", "pending", "running"},
                             node : Nodes \cup Overrides \cup {None}]]
  /\ log \in [Instances -> [last : Nodes \cup Overrides \cup {None}, path : BOOLEAN]]
  /\ calls \in [Instances -> 0 .. 2]
  /\ request \in [Requests ->
       [step : {"none", "look", "read", "handle", "write", "override", "cancel"},
        of : Instances \cup {None}, node : Nodes \cup Overrides \cup {None},
        to : Nodes \cup Overrides \cup {None}, before : Nodes \cup Overrides \cup {None},
        prev : Nodes \cup Overrides \cup {None}, left : 0 .. MaxSteps]]
  /\ alone \in [Instances -> BOOLEAN]

(* However requests overlap and overwrite each other, an instance counts as  *)
(* completed only at a node where the definition ends: state and node are    *)
(* always written together (updateWorkflowInstance in every branch).         *)
CompletedAtEnd ==
  \A i \in Instances :
    inst[i].state = "completed" =>
      /\ inst[i].node \in Nodes
      /\ \/ Kind[inst[i].node] = "end"
         \/ Kind[inst[i].node] = "http" /\ Succ(inst[i].node) = {}

Quiet(i) == \A r \in Requests : request[r].of # i

(* The definitions runWorkflowToBoundary is made for: from every node, fewer *)
(* moves than its step limit lead to one that waits or ends.                 *)
Descends(rank) ==
  \A n, t \in Nodes :
    Kind[n] \in {"start", "http", "branch"} /\ t \in Succ(n) => rank[t] < rank[n]

ShortStretches == \E rank \in [Nodes -> 0 .. MaxSteps - 1] : Descends(rank)

(* Requests one at a time leave a running instance only where somebody is    *)
(* asked: at a waiting node (runWorkflowToBoundary, with a definition that   *)
(* has short stretches).                                                     *)
RestsAtWait ==
  \A i \in Instances :
    alone[i] /\ Quiet(i) /\ inst[i].state = "running" =>
      inst[i].node \in Nodes /\ Kind[inst[i].node] \in Waiting

(* With requests one at a time, the table of transitions is the path the     *)
(* instance took: every row starts where the last one ended, and the last    *)
(* one ends where the instance stands (recordWorkflowTransition beside       *)
(* updateWorkflowInstance).                                                  *)
LogIsPath ==
  \A i \in Instances :
    alone[i] /\ Quiet(i) => log[i].path /\ log[i].last = inst[i].node

(* With requests one at a time, an http node is called once each time an     *)
(* instance comes to it (the http handler, re-entered by every transition).  *)
CalledOnce == \A i \in Instances : alone[i] => calls[i] <= 1

StopsAndCalls == RestsAtWait /\ CalledOnce

(* With requests one at a time, what has ended stays so ("TERMINAL_STATE",   *)
(* routes/workflows.ts, and the check in runWorkflowStep).                   *)
EndedStaysEnded ==
  [][\A i \in Instances : alone'[i] /\ inst[i].state \in Terminal => inst'[i] = inst[i]]_vars
=============================================================================
