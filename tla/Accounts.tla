------------------------------ MODULE Accounts ------------------------------
(***************************************************************************)
(* Users and their roles in the database: bootstrap, creation of users,    *)
(* role changes, transfer of the super_admin role, groups pushed by the    *)
(* identity provider.                                                      *)
(*                                                                         *)
(* There are no transactions and no unique keys, and a role is changed by  *)
(* DELETE and INSERT.  A request reads, then has a list of statements to   *)
(* send, one after the other; those of two requests interleave, and any of *)
(* them may throw and end its request.                                     *)
(*                                                                         *)
(* The transfer asks for the super_admin role in the caller's access       *)
(* token, which says what the tables said when it was issued.              *)
(*                                                                         *)
(* Left out: authorization of the other routes, passwords, ids that name   *)
(* nobody, tokens an identity provider signs (their subject is no id of    *)
(* this table), and what of a user is neither address nor role.            *)
(***************************************************************************)
EXTENDS Naturals, SequencesExt

CONSTANTS
  Users,         \* ids that users get when they are created
  Projects,
  ProjectRoles,
  Group,         \* the global role the identity provider keeps the members of
  Calls,         \* requests under way at a time
  MaxOverlapped, \* bound: no request begins when more changes than that have overlapped
  None

Global == "*"
Scopes == Projects \cup {Global}
GlobalRoles == {"super_admin", "administrator"}

ASSUME AccountsAssumption ==
  /\ Global \notin Projects
  /\ Group \in GlobalRoles
  /\ MaxOverlapped \in Nat
  /\ None \notin Users \cup GlobalRoles

VARIABLES
  users,       \* iam_users, the ids in it
  rows,        \* iam_global_roles, iam_project_memberships: the rows of a user in a scope
  complete,    \* bootstrapComplete
  call,
  claims,      \* users with an unexpired access token whose roles name super_admin
  installed,   \* history: a bootstrap has given somebody the super_admin role
  overlapped,  \* history: user and scope that two requests were to change at once
  seized       \* history: a super admin's role was changed by other means than a transfer
               \* to somebody else

history == <<installed, overlapped, seized>>
vars == <<users, rows, complete, call, claims, history>>

(* Statements a request has still to send. *)
Statement(do, u, s, r) == [do |-> do, user |-> u, scope |-> s, role |-> r]
Create(u) == Statement("create", u, None, None)
Read(u) == Statement("read", u, Global, None)
Delete(u, s) == Statement("delete", u, s, None)
Insert(u, s, r) == Statement("insert", u, s, r)

(* Mutant: the role is deleted in the other table. *)
DeleteElsewhere(u, s, r) == <<Delete(u, Global), Insert(u, s, r)>>

(* grantGlobalRole, grantProjectRole *)
Grant(u, s, r) == <<Delete(u, s), Insert(u, s, r)>>

(* For each of a sequence of users in turn: its role is read, revoked, or    *)
(* made the one of the group.                                                *)
ReadEach(order) == [i \in DOMAIN order |-> Read(order[i])]
RevokeEach(order) == [i \in DOMAIN order |-> Delete(order[i], Global)]
GrantEach(order) ==
  [i \in 1 .. 2 * Len(order) |-> Grant(order[(i + 1) \div 2], Global, Group)[2 - (i % 2)]]

Idle == [op |-> "idle", todo |-> <<>>, members |-> {}, seen |-> {}, alone |-> TRUE]

Holds(u, s, r) == r \in Range(rows[u][s])
Holders(r) == {u \in Users : Holds(u, Global, r)}

Init ==
  /\ users = {}
  /\ rows = [u \in Users |-> [s \in Scopes |-> <<>>]]
  /\ complete = FALSE
  /\ call = [c \in Calls |-> Idle]
  /\ claims = {}
  /\ installed = FALSE /\ overlapped = {} /\ seized = FALSE

-----------------------------------------------------------------------------
(* The requests: what they read first, and what they are going to send. *)

Doing(todo, do) == {todo[i] : i \in {j \in DOMAIN todo : todo[j].do = do}}
Changed(todo) == {<<st.user, st.scope>> : st \in Doing(todo, "delete") \cup Doing(todo, "insert")}
Creating == UNION {{st.user : st \in Doing(call[c].todo, "create")} : c \in Calls}

Begin(c, op, todo, members) ==
  /\ call[c] = Idle /\ Cardinality(overlapped) <= MaxOverlapped
  /\ call' = [o \in Calls |->
       IF o = c
       THEN [op |-> op, todo |-> todo, members |-> members, seen |-> {},
             alone |-> \A k \in Calls : call[k] = Idle]
       ELSE [call[o] EXCEPT !.alone = call[o] = Idle]]

(* Notes which of the changes are already on their way in another request,   *)
(* and whether a super admin is among those changed.                         *)
Note(todo) ==
  /\ overlapped' = overlapped \cup
       (Changed(todo) \cap UNION {Changed(call[o].todo) : o \in Calls})
  /\ seized' = (seized \/ \E u \in Users : Holds(u, Global, "super_admin")
                                          /\ <<u, Global>> \in Changed(todo))

Send(c, op, todo) == Begin(c, op, todo, {}) /\ Note(todo)

NewUser(u) == u \notin users \cup Creating

(* POST /auth/bootstrap: there are no users yet. *)
BeginBootstrap(c, u) ==
  /\ ~complete /\ users = {} /\ NewUser(u)
  /\ Send(c, "bootstrap", <<Create(u)>> \o Grant(u, Global, "super_admin"))
  /\ UNCHANGED <<users, rows, complete, installed>>

(* ... or there are, and the route closes for good. *)
CloseBootstrap ==
  /\ ~complete /\ users # {}
  /\ complete' = TRUE
  /\ UNCHANGED <<users, rows, call, history>>

(* POST /users, /auth/register, /scim/v2/Users, with an address nobody has.  *)
(* The first two may go on to grant a project role.                          *)
BeginCreate(c, u) ==
  /\ NewUser(u)
  /\ \E member \in {<<>>} \cup {Grant(u, p, r) : p \in Projects, r \in ProjectRoles} :
       Send(c, "create", <<Create(u)>> \o member)
  /\ UNCHANGED <<users, rows, complete, installed>>

(* POST /projects/:projectId/members, PUT .../role, PUT /users/:id/roles; and *)
(* for each member in turn POST of a group and PATCH with add.               *)
RolesIn(s) == IF s = Global THEN GlobalRoles ELSE ProjectRoles

BeginGrant(c, u, s) ==
  /\ u \in users
  /\ \E r \in RolesIn(s) : Send(c, "grant", Grant(u, s, r))
  /\ UNCHANGED <<users, rows, complete, installed>>

(* DELETE of a membership, PUT /users/:id/roles with no role, PATCH of a      *)
(* group with remove (whatever the role is): there is a row.                 *)
BeginRevoke(c, u, s) ==
  /\ rows[u][s] # <<>>
  /\ Send(c, "revoke", <<Delete(u, s)>>)
  /\ UNCHANGED <<users, rows, complete, installed>>

(* Mutant: the caller is demoted first. *)
DemoteFirst(from, to) ==
  Grant(from, Global, "administrator") \o Grant(to, Global, "super_admin")

(* POST /iam/transfer-super-admin, by a caller whose token says super admin:  *)
(* the tables are not asked again.                                           *)
TransferPlan(from, to) ==
  Grant(to, Global, "super_admin") \o Grant(from, Global, "administrator")

(* The caller has handed the role on since its token was issued, and the      *)
(* target has it.                                                            *)
Outdated(from, to) ==
  Holds(to, Global, "super_admin") /\ ~Holds(from, Global, "super_admin")

BeginTransfer(c, from, to) ==
  /\ from \in claims /\ to \in users
  /\ LET plan == TransferPlan(from, to)
     IN /\ Begin(c, "transfer", plan, {})
        /\ overlapped' = overlapped \cup
             (Changed(plan) \cap UNION {Changed(call[o].todo) : o \in Calls})
  /\ seized' = (seized \/ from = to \/ Outdated(from, to))
  /\ UNCHANGED <<users, rows, complete, installed>>

(* PUT /scim/v2/Groups/:id, PATCH with replace: the users are listed, and    *)
(* the role of each is read; of two rows the answer has any one first.       *)
BeginReplaceGroup(c) ==
  /\ \E members \in SUBSET users :
       Begin(c, "group", ReadEach(SetToSeq(users)), members)
  /\ UNCHANGED <<users, rows, complete, history>>

(* Mutant: who left the group keeps the role. *)
OnlyAdd(members, seen) == GrantEach(SetToSeq(members \ seen))

(* Who left the group loses any global role, who is new gets the group's. *)
ReplacePlan(members, seen) ==
  RevokeEach(SetToSeq(seen \ members)) \o GrantEach(SetToSeq(members \ seen))

-----------------------------------------------------------------------------
(* The statements. *)

Stmt(c) == Head(call[c].todo)
Sends(c, do) == call[c].todo # <<>> /\ Stmt(c).do = do
Advance(c) == call' = [call EXCEPT ![c].todo = Tail(@)]

ReadRole(c) ==
  /\ Sends(c, "read")
  /\ LET u == Stmt(c).user
         rest == Tail(call[c].todo)
         mine == rows[u][Global]
     IN \E r \in IF mine = <<>> THEN {None} ELSE Range(mine) :
          LET seen == call[c].seen \cup (IF r = Group THEN {u} ELSE {})
              plan == IF rest = <<>> THEN ReplacePlan(call[c].members, seen) ELSE rest
          IN /\ call' = [call EXCEPT ![c] = [call[c] EXCEPT !.todo = plan, !.seen = seen]]
             /\ Note(plan)
  /\ UNCHANGED <<users, rows, complete, installed>>

InsertUser(c) ==
  /\ Sends(c, "create")
  /\ users' = users \cup {Stmt(c).user}
  /\ Advance(c)
  /\ UNCHANGED <<rows, complete, history>>

DeleteRows(c) ==
  /\ Sends(c, "delete")
  /\ rows' = [rows EXCEPT ![Stmt(c).user][Stmt(c).scope] = <<>>]
  /\ Advance(c)
  /\ UNCHANGED <<users, complete, history>>

InsertRow(c) ==
  /\ Sends(c, "insert")
  /\ rows' = [rows EXCEPT ![Stmt(c).user][Stmt(c).scope] = Append(@, Stmt(c).role)]
  /\ installed' = (installed \/ call[c].op = "bootstrap")
  /\ Advance(c)
  /\ UNCHANGED <<users, complete, overlapped, seized>>

(* All has been sent; a bootstrap closes its route. *)
Answer(c) ==
  /\ call[c] # Idle /\ call[c].todo = <<>>
  /\ complete' = (complete \/ call[c].op = "bootstrap")
  /\ call' = [call EXCEPT ![c] = Idle]
  /\ UNCHANGED <<users, rows, history>>

StatementFails(c) ==
  /\ call[c].todo # <<>>
  /\ call' = [call EXCEPT ![c] = Idle]
  /\ UNCHANGED <<users, rows, complete, history>>

(* The process is restarted: requests are lost, and what it remembers. *)
Restart ==
  /\ call' = [c \in Calls |-> Idle]
  /\ complete' = FALSE
  /\ UNCHANGED <<users, rows, history>>

(* POST /auth/login, /auth/refresh and the device's poll sign what the tables *)
(* say now; a grant or a transfer afterwards does not revoke the token.      *)
TokenIssued(u) ==
  /\ u \in users /\ Holds(u, Global, "super_admin")
  /\ claims' = claims \cup {u}
  /\ UNCHANGED <<users, rows, complete, call, history>>

TokenExpires(u) ==
  /\ claims' = claims \ {u}
  /\ UNCHANGED <<users, rows, complete, call, history>>

CallStep(c) ==
  \/ \E u \in Users : BeginBootstrap(c, u) \/ BeginCreate(c, u)
  \/ \E u \in Users, s \in Scopes : BeginGrant(c, u, s) \/ BeginRevoke(c, u, s)
  \/ \E from, to \in Users : BeginTransfer(c, from, to)
  \/ BeginReplaceGroup(c)
  \/ ReadRole(c) \/ InsertUser(c) \/ DeleteRows(c) \/ InsertRow(c)
  \/ Answer(c) \/ StatementFails(c)

Next ==
  \/ (CloseBootstrap \/ Restart \/ \E c \in Calls : CallStep(c)) /\ UNCHANGED claims
  \/ \E u \in Users : TokenIssued(u) \/ TokenExpires(u)

Spec == Init /\ [][Next]_vars

-----------------------------------------------------------------------------
Statements ==
  [do : {"create", "read", "delete", "insert"}, user : Users, scope : Scopes \cup {None},
   role : GlobalRoles \cup ProjectRoles \cup {None}]

TypeOK ==
  /\ users \subseteq Users /\ claims \subseteq users
  /\ rows \in [Users -> [Scopes -> Seq(GlobalRoles \cup ProjectRoles)]]
  /\ complete \in BOOLEAN /\ installed \in BOOLEAN /\ seized \in BOOLEAN
  /\ overlapped \subseteq Users \X Scopes
  /\ \A c \in Calls :
       /\ call[c].op \in {"idle", "bootstrap", "create", "grant", "revoke", "transfer", "group"}
       /\ call[c].todo \in Seq(Statements)
       /\ call[c].members \subseteq Users /\ call[c].seen \subseteq Users
       /\ call[c].alone \in BOOLEAN

(* The tables have no keys; the order of the statements stands in for them:  *)
(* a user has one row in a scope, unless two requests were to change it at   *)
(* once.                                                                     *)
OneRow ==
  \A u \in Users, s \in Scopes : <<u, s>> \notin overlapped => Len(rows[u][s]) <= 1

(* "Transfer: grant super_admin to target, demote caller to administrator":  *)
(* once a bootstrap has installed a super admin there always is one, with    *)
(* transfers that throw anywhere and restarts, by callers whose token is out *)
(* of date too, unless changes of one user cross, the role is taken by hand, *)
(* a super admin transfers to itself, or an earlier one, its token still     *)
(* valid, transfers again to who has the role (which is deleted first).      *)
SuperAdminRemains ==
  installed /\ ~seized /\ (\A u \in Users : <<u, Global>> \notin overlapped)
    => \E u \in users : Holds(u, Global, "super_admin")

(* "Full replacement of group membership": a request nothing else ran along  *)
(* with leaves exactly the members it was given with the group's role, where *)
(* no earlier requests have left a user two rows.                            *)
GroupIsReplaced ==
  \A c \in Calls :
    call[c].op = "group" /\ call[c].todo = <<>> /\ call[c].alone /\ overlapped = {}
      => Holders(Group) = call[c].members
=============================================================================
