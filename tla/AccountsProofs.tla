---------------------------- MODULE AccountsProofs ----------------------------
(***************************************************************************)
(* What Accounts keeps for every number of users, projects and requests.   *)
(* The tables have no keys and no transactions, so everything rests on     *)
(* what the requests under way have still to send.  The invariant is in    *)
(* five parts:                                                             *)
(*                                                                         *)
(*   proper: a row is inserted right after the rows of its user and scope  *)
(*     were deleted, and is deleted and inserted once by a request;        *)
(*   apart: what two requests are both to change has been noted;           *)
(*   rows: where nothing was noted there is one row at most, and none      *)
(*     when one is about to be inserted;                                   *)
(*   super: a transfer begins with the caller as super admin, or with a    *)
(*     target that is not (the caller's token may be out of date); other   *)
(*     requests touch no super admin; and there is a super admin no        *)
(*     transfer is about to demote;                                        *)
(*   group: how far a replacement nothing else runs along with has come.   *)
(***************************************************************************)
EXTENDS Accounts, SequenceTheorems, FiniteSetTheorems, TLAPS

Super == "super_admin"
Ops == {"idle", "bootstrap", "create", "grant", "revoke", "transfer", "group"}
CallShape == [op : Ops, todo : Seq(Statements), members : SUBSET Users, seen : SUBSET Users,
              alone : BOOLEAN]

Shape ==
  /\ users \subseteq Users /\ IsFiniteSet(users)
  /\ rows \in [Users -> [Scopes -> Seq(GlobalRoles \cup ProjectRoles)]]
  /\ complete \in BOOLEAN /\ installed \in BOOLEAN /\ seized \in BOOLEAN
  /\ overlapped \subseteq Users \X Scopes
  /\ call \in [Calls -> CallShape]

-----------------------------------------------------------------------------
(* Lists of statements. *)
Changes(st) == st.do \in {"delete", "insert"}
OfPair(st, u, s) == st.user = u /\ st.scope = s
Touches(todo, u, s) == \E k \in DOMAIN todo : Changes(todo[k]) /\ OfPair(todo[k], u, s)
InsertsNext(todo, u, s) == todo # <<>> /\ todo[1].do = "insert" /\ OfPair(todo[1], u, s)

Typed(st) ==
  /\ Changes(st) => st.scope \in Scopes
  /\ st.do = "insert" => st.role \in GlobalRoles \cup ProjectRoles

Orderly(todo) ==
  \A k \in DOMAIN todo :
    /\ Typed(todo[k])
    /\ k > 1 /\ todo[k].do = "insert" => todo[k - 1] = Delete(todo[k].user, todo[k].scope)
    /\ k > 1 => todo[k].do # "create"

Once(todo) ==
  \A j, k \in DOMAIN todo :
    j < k /\ Changes(todo[j]) /\ Changes(todo[k]) /\ OfPair(todo[k], todo[j].user, todo[j].scope)
      => todo[j].do = "delete" /\ todo[k].do = "insert"

(* Statements name users in the table, or the one that is created first. *)
Known(todo, us) ==
  \A k \in DOMAIN todo :
    todo[k].user \in us \/ (todo[1].do = "create" /\ todo[k].user = todo[1].user)

AllReads(todo) == \A k \in DOMAIN todo : todo[k].do = "read"
InstallsSuper(todo) ==
  \A k \in DOMAIN todo : todo[k].do = "insert" => todo[k].scope = Global /\ todo[k].role = Super

Proper(q, us) ==
  /\ q.op = "idle" => q = Idle
  /\ q.members \subseteq us /\ q.seen \subseteq us
  /\ Orderly(q.todo) /\ Known(q.todo, us)
  /\ q.op # "transfer" => Once(q.todo)
  /\ (\E k \in DOMAIN q.todo : q.todo[k].do = "read") => q.op = "group" /\ AllReads(q.todo)
  /\ q.op = "bootstrap" => InstallsSuper(q.todo)

-----------------------------------------------------------------------------
(* The parts of the invariant. *)
ProperInv == \A c \in Calls : Proper(call[c], users)

ApartInv ==
  \A c, o \in Calls : c # o =>
    \A u \in Users, s \in Scopes :
      Touches(call[c].todo, u, s) /\ Touches(call[o].todo, u, s) => <<u, s>> \in overlapped

RowsInv ==
  \A u \in Users, s \in Scopes :
    /\ rows[u][s] # <<>> => u \in users
    /\ <<u, s>> \notin overlapped =>
         /\ Len(rows[u][s]) <= 1
         /\ \A c \in Calls : InsertsNext(call[c].todo, u, s) => rows[u][s] = <<>>

Admin(u) == Holds(u, Global, Super)

(* How far a transfer has come, by the statements it has left. *)
Transferring(todo) ==
  \E from, to \in Users :
    /\ from # to
    /\ \/ todo = TransferPlan(from, to) /\ (Admin(to) => Admin(from))
       \/ todo = Tail(TransferPlan(from, to))
       \/ todo = Grant(from, Global, "administrator")
       \/ todo = <<Insert(from, Global, "administrator")>>
       \/ todo = <<>>

(* A transfer's next statement takes the role from u. *)
AboutToDemote(c, u) == call[c].op = "transfer" /\ Len(call[c].todo) = 2 /\ call[c].todo[1].user = u

Crossed == \E u \in Users : <<u, Global>> \in overlapped

SuperInv ==
  ~seized /\ ~Crossed =>
    /\ \A c \in Calls :
         IF call[c].op = "transfer" THEN Transferring(call[c].todo)
         ELSE \A u \in Users : Admin(u) => ~Touches(call[c].todo, u, Global)
    /\ installed => \E u \in users : Admin(u) /\ \A c \in Calls : ~AboutToDemote(c, u)

(* A replacement that reads: whom it has seen, and whom it still will. *)
Reading(q) ==
  /\ q.seen \subseteq Holders(Group)
  /\ \A u \in Holders(Group) : u \in q.seen \/ \E k \in DOMAIN q.todo : q.todo[k].user = u

(* A replacement that writes: whoever it will not touch is as was asked for. *)
Writing(q) ==
  /\ \A k \in DOMAIN q.todo :
       /\ Changes(q.todo[k]) /\ q.todo[k].scope = Global
       /\ q.todo[k].do = "insert" => q.todo[k].role = Group /\ q.todo[k].user \in q.members
       /\ q.todo[k].do = "delete" /\ q.todo[k].user \in q.members =>
            k + 1 \in DOMAIN q.todo /\ q.todo[k + 1] = Insert(q.todo[k].user, Global, Group)
  /\ \A u \in Users :
       ~Touches(q.todo, u, Global) => (Holds(u, Global, Group) <=> u \in q.members)

GroupInv ==
  \A c \in Calls :
    /\ call[c] # Idle /\ call[c].alone => \A o \in Calls : o = c \/ call[o] = Idle
    /\ call[c].op = "group" /\ call[c].alone /\ overlapped = {} =>
         IF call[c].todo # <<>> /\ AllReads(call[c].todo)
         THEN Reading(call[c]) ELSE Writing(call[c])

IInv == Shape /\ ProperInv /\ ApartInv /\ RowsInv /\ SuperInv /\ GroupInv

(* A token names who was in the table when it was issued, and nobody leaves  *)
(* the table.                                                                *)
Inv == IInv /\ claims \subseteq users

-----------------------------------------------------------------------------
(* The constants, and sets in some order. *)
LEMMA Constant ==
  /\ Group \in GlobalRoles /\ None \notin Users /\ None \notin GlobalRoles
  /\ Super \in GlobalRoles /\ "administrator" \in GlobalRoles /\ Global \in Scopes
  /\ Idle \in CallShape /\ Idle.op = "idle" /\ Idle.todo = <<>> /\ Idle.alone = TRUE
  /\ Idle.members = {} /\ Idle.seen = {}
<1>1. <<>> \in Seq(Statements)
  OBVIOUS
<1>2. QED
  BY <1>1, AccountsAssumption DEF GlobalRoles, Super, Scopes, Idle, CallShape, Ops

LEMMA Ordered ==
  ASSUME NEW S, IsFiniteSet(S)
  PROVE  /\ SetToSeq(S) \in Seq(S)
         /\ \A x \in S : \E i \in DOMAIN SetToSeq(S) : SetToSeq(S)[i] = x
         /\ \A i, j \in DOMAIN SetToSeq(S) : SetToSeq(S)[i] = SetToSeq(S)[j] => i = j
<1> DEFINE n == Cardinality(S)
<1>1. n \in Nat /\ ExistsBijection(1 .. n, S)
  BY FS_CardinalityType
<1>2. PICK g : g \in Bijection(1 .. n, S)
  BY <1>1 DEF ExistsBijection
<1>3. g \in [1 .. n -> S] /\ IsInjective(g)
  BY <1>2 DEF Bijection, Injection
<1>4. SetToSeq(S) \in [1 .. n -> S] /\ IsInjective(SetToSeq(S))
  BY <1>3 DEF SetToSeq
<1>5. PICK f : f = SetToSeq(S)
  OBVIOUS
<1>6. f \in Injection(1 .. n, S)
  BY <1>4, <1>5 DEF Injection
<1>7. f \in Surjection(1 .. n, S)
  <2>1. IsFiniteSet(1 .. n) /\ Cardinality(1 .. n) = n
    BY <1>1, FS_Interval
  <2>2. QED
    BY <1>6, <2>1, FS_Injection
<1>8. f \in [1 .. n -> S] /\ \A x \in S : \E i \in 1 .. n : f[i] = x
  BY <1>7 DEF Surjection
<1>9. \A i, j \in 1 .. n : f[i] = f[j] => i = j
  BY <1>4, <1>5, <1>8 DEF IsInjective
<1>10. f \in Seq(S) /\ DOMAIN f = 1 .. n
  BY <1>1, <1>8
<1>11. QED
  BY <1>5, <1>8, <1>9, <1>10

LEMMA StatementKinds ==
  ASSUME NEW u \in Users, NEW s \in Scopes, NEW r \in GlobalRoles \cup ProjectRoles
  PROVE  /\ Create(u) \in Statements /\ Read(u) \in Statements
         /\ Delete(u, s) \in Statements /\ Insert(u, s, r) \in Statements
         /\ Create(u).do = "create" /\ Create(u).user = u
         /\ Read(u).do = "read" /\ Read(u).user = u
         /\ Delete(u, s).do = "delete" /\ Delete(u, s).user = u /\ Delete(u, s).scope = s
         /\ Insert(u, s, r).do = "insert" /\ Insert(u, s, r).user = u
         /\ Insert(u, s, r).scope = s /\ Insert(u, s, r).role = r
BY Constant DEF Create, Read, Delete, Insert, Statement, Statements

(* A list of users each of which has one entry. *)
Lists(order, S) ==
  /\ order \in Seq(S)
  /\ \A x \in S : \E i \in DOMAIN order : order[i] = x
  /\ \A i, j \in DOMAIN order : order[i] = order[j] => i = j

LEMMA ReadsOf ==
  ASSUME NEW S \in SUBSET Users, IsFiniteSet(S), NEW todo, todo = ReadEach(SetToSeq(S))
  PROVE  /\ todo \in Seq(Statements) /\ AllReads(todo)
         /\ Orderly(todo) /\ Once(todo) /\ Known(todo, S)
         /\ \A u \in S : \E k \in DOMAIN todo : todo[k].user = u
<1>1. PICK order : order = SetToSeq(S) /\ Lists(order, S)
  BY Ordered DEF Lists
<1>2. /\ todo \in Seq(Statements) /\ DOMAIN todo = DOMAIN order
      /\ \A k \in DOMAIN todo : todo[k] = Read(order[k]) /\ order[k] \in S
  <2>1. todo = [i \in DOMAIN order |-> Read(order[i])]
    BY <1>1 DEF ReadEach
  <2>2. order \in Seq(S) /\ DOMAIN order = 1 .. Len(order) /\ Len(order) \in Nat
    BY <1>1 DEF Lists
  <2>3. \A k \in DOMAIN order : order[k] \in S /\ Read(order[k]) \in Statements
    BY <2>2, StatementKinds, Constant
  <2>4. QED
    BY <2>1, <2>2, <2>3
<1>3. \A k \in DOMAIN todo : todo[k].do = "read" /\ todo[k].user = order[k]
  BY <1>2, StatementKinds, Constant
<1>4. AllReads(todo) /\ Orderly(todo) /\ Once(todo) /\ Known(todo, S)
  BY <1>2, <1>3 DEF AllReads, Orderly, Once, Known, Typed, Changes
<1>5. \A u \in S : \E k \in DOMAIN todo : todo[k].user = u
  BY <1>1, <1>2, <1>3 DEF Lists
<1>6. QED
  BY <1>2, <1>4, <1>5

(* The statements of a replacement, place by place. *)
Places(todo, a, b) ==
  /\ todo \in Seq(Statements) /\ Len(todo) = Len(a) + 2 * Len(b)
  /\ \A k \in 1 .. Len(a) : todo[k] = Delete(a[k], Global)
  /\ \A i \in 1 .. Len(b) : /\ todo[Len(a) + 2 * i - 1] = Delete(b[i], Global)
                             /\ todo[Len(a) + 2 * i] = Insert(b[i], Global, Group)

LEMMA ReplacePlaces ==
  ASSUME NEW S \in SUBSET Users, NEW T \in SUBSET Users,
         NEW a, Lists(a, S), NEW b, Lists(b, T)
  PROVE  Places(RevokeEach(a) \o GrantEach(b), a, b)
<1>0. PICK todo : todo = RevokeEach(a) \o GrantEach(b)
  OBVIOUS
<1>1. /\ a \in Seq(Users) /\ b \in Seq(Users) /\ Len(a) \in Nat /\ Len(b) \in Nat
      /\ DOMAIN a = 1 .. Len(a) /\ DOMAIN b = 1 .. Len(b)
  BY DEF Lists
<1>2. PICK x : x = RevokeEach(a)
  OBVIOUS
<1>3. PICK y : y = GrantEach(b)
  OBVIOUS
<1>4. /\ x \in Seq(Statements) /\ Len(x) = Len(a)
      /\ \A k \in 1 .. Len(a) : x[k] = Delete(a[k], Global)
  <2>1. x = [i \in 1 .. Len(a) |-> Delete(a[i], Global)]
    BY <1>1, <1>2 DEF RevokeEach
  <2>2. \A i \in 1 .. Len(a) : Delete(a[i], Global) \in Statements
    BY <1>1, StatementKinds, Constant
  <2>3. QED
    BY <1>1, <2>1, <2>2
<1>5. /\ y \in Seq(Statements) /\ Len(y) = 2 * Len(b)
      /\ \A i \in 1 .. Len(b) : /\ y[2 * i - 1] = Delete(b[i], Global)
                                /\ y[2 * i] = Insert(b[i], Global, Group)
  <2>1. y = [i \in 1 .. 2 * Len(b) |-> Grant(b[(i + 1) \div 2], Global, Group)[2 - (i % 2)]]
    BY <1>3 DEF GrantEach
  <2>2. \A u \in Users : /\ Grant(u, Global, Group)[1] = Delete(u, Global)
                         /\ Grant(u, Global, Group)[2] = Insert(u, Global, Group)
                         /\ Delete(u, Global) \in Statements
                         /\ Insert(u, Global, Group) \in Statements
    BY StatementKinds, Constant DEF Grant
  <2>3. \A i \in 1 .. 2 * Len(b) : (i + 1) \div 2 \in 1 .. Len(b) /\ 2 - (i % 2) \in {1, 2}
    BY <1>1
  <2>4. \A i \in 1 .. Len(b) : /\ (2 * i - 1 + 1) \div 2 = i /\ 2 - ((2 * i - 1) % 2) = 1
                               /\ (2 * i + 1) \div 2 = i /\ 2 - ((2 * i) % 2) = 2
                               /\ 2 * i - 1 \in 1 .. 2 * Len(b) /\ 2 * i \in 1 .. 2 * Len(b)
    BY <1>1
  <2>5. \A i \in 1 .. Len(b) : b[i] \in Users
    BY <1>1
  <2>6. \A i \in 1 .. 2 * Len(b) : y[i] \in Statements
    <3>1. TAKE i \in 1 .. 2 * Len(b)
    <3>2. y[i] = Grant(b[(i + 1) \div 2], Global, Group)[2 - (i % 2)]
      BY <2>1
    <3>3. b[(i + 1) \div 2] \in Users /\ 2 - (i % 2) \in {1, 2}
      BY <2>3, <2>5
    <3>4. QED
      BY <2>2, <3>2, <3>3
  <2>7. y \in Seq(Statements) /\ Len(y) = 2 * Len(b)
    <3>1. 2 * Len(b) \in Nat
      BY <1>1
    <3>2. QED
      BY <2>1, <2>6, <3>1
  <2>8. ASSUME NEW i \in 1 .. Len(b)
        PROVE  y[2 * i - 1] = Delete(b[i], Global) /\ y[2 * i] = Insert(b[i], Global, Group)
    BY <2>1, <2>2, <2>4, <2>5
  <2>9. QED
    BY <2>7, <2>8
<1>6. todo = x \o y
  BY <1>0, <1>2, <1>3
<1>7. /\ todo \in Seq(Statements) /\ Len(todo) = Len(x) + Len(y)
      /\ \A k \in 1 .. Len(x) : todo[k] = x[k]
      /\ \A k \in 1 .. Len(y) : todo[Len(x) + k] = y[k]
  <2>0. x \in Seq(Statements) /\ y \in Seq(Statements)
    BY <1>4, <1>5
  <2>1. x \o y \in Seq(Statements) /\ Len(x \o y) = Len(x) + Len(y)
    BY <2>0, ConcatProperties
  <2>2. \A k \in 1 .. Len(x) : (x \o y)[k] = x[k]
    BY <2>0
  <2>3. \A k \in 1 .. Len(y) : (x \o y)[Len(x) + k] = y[k]
    BY <2>0
  <2>4. QED
    BY <1>6, <2>1, <2>2, <2>3
<1>8. ASSUME NEW i \in 1 .. Len(b)
      PROVE  /\ todo[Len(a) + 2 * i - 1] = Delete(b[i], Global)
             /\ todo[Len(a) + 2 * i] = Insert(b[i], Global, Group)
  <2>1. /\ 2 * i - 1 \in 1 .. Len(y) /\ 2 * i \in 1 .. Len(y)
        /\ Len(a) + 2 * i - 1 = Len(x) + (2 * i - 1)
    BY <1>1, <1>4, <1>5
  <2>2. QED
    BY <1>4, <1>5, <1>7, <2>1
<1>9. QED
  BY <1>0, <1>4, <1>5, <1>7, <1>8 DEF Places

(* A replacement's statements when its reads are done. *)
ListOfReplacement(todo, members) ==
  \A k \in DOMAIN todo :
    /\ Changes(todo[k]) /\ todo[k].scope = Global
    /\ todo[k].do = "insert" => todo[k].role = Group /\ todo[k].user \in members
    /\ todo[k].do = "delete" /\ todo[k].user \in members =>
         k + 1 \in DOMAIN todo /\ todo[k + 1] = Insert(todo[k].user, Global, Group)

LEMMA ReplaceOf ==
  ASSUME NEW members \in SUBSET Users, NEW seen \in SUBSET Users,
         IsFiniteSet(members), IsFiniteSet(seen), NEW todo, todo = ReplacePlan(members, seen)
  PROVE  /\ todo \in Seq(Statements)
         /\ Orderly(todo) /\ Once(todo) /\ Known(todo, members \cup seen)
         /\ ListOfReplacement(todo, members)
         /\ \A k \in DOMAIN todo : Changes(todo[k]) /\ (k = 1 => todo[k].do = "delete")
         /\ \A u \in Users : (u \in members <=> u \notin seen) => Touches(todo, u, Global)
<1>0. PICK S, T : S = seen \ members /\ T = members \ seen
  OBVIOUS
<1>1. /\ IsFiniteSet(S) /\ IsFiniteSet(T) /\ S \in SUBSET Users /\ T \in SUBSET Users
      /\ S \cap T = {}
  BY <1>0, FS_Difference
<1>2. PICK a : a = SetToSeq(S) /\ Lists(a, S)
  BY <1>1, Ordered DEF Lists
<1>3. PICK b : b = SetToSeq(T) /\ Lists(b, T)
  BY <1>1, Ordered DEF Lists
<1> PICK n, m : n = Len(a) /\ m = Len(b)
  OBVIOUS
<1>4. /\ todo \in Seq(Statements) /\ Len(todo) = n + 2 * m
      /\ \A k \in 1 .. n : todo[k] = Delete(a[k], Global)
      /\ \A i \in 1 .. m : /\ todo[n + 2 * i - 1] = Delete(b[i], Global)
                           /\ todo[n + 2 * i] = Insert(b[i], Global, Group)
  <2>1. todo = RevokeEach(a) \o GrantEach(b)
    BY <1>0, <1>2, <1>3 DEF ReplacePlan
  <2>2. Places(todo, a, b)
    BY <1>1, <1>2, <1>3, <2>1, ReplacePlaces
  <2>3. QED
    BY <2>2 DEF Places
<1>5. /\ n \in Nat /\ m \in Nat /\ DOMAIN todo = 1 .. n + 2 * m
      /\ \A i \in 1 .. n : a[i] \in S
      /\ \A i \in 1 .. m : b[i] \in T
      /\ \A i, j \in 1 .. n : a[i] = a[j] => i = j
      /\ \A i, j \in 1 .. m : b[i] = b[j] => i = j
      /\ \A x \in S : \E i \in 1 .. n : a[i] = x
      /\ \A x \in T : \E i \in 1 .. m : b[i] = x
  <2>1. DOMAIN a = 1 .. n /\ DOMAIN b = 1 .. m /\ n \in Nat /\ m \in Nat
    BY <1>2, <1>3 DEF Lists
  <2>2. DOMAIN todo = 1 .. n + 2 * m
    BY <1>4
  <2>3. (\A i \in 1 .. n : a[i] \in S) /\ (\A i \in 1 .. m : b[i] \in T)
    BY <1>2, <1>3, <2>1 DEF Lists
  <2>4. /\ \A i, j \in 1 .. n : a[i] = a[j] => i = j
        /\ \A x \in S : \E i \in 1 .. n : a[i] = x
    BY <1>2, <2>1 DEF Lists
  <2>5. /\ \A i, j \in 1 .. m : b[i] = b[j] => i = j
        /\ \A x \in T : \E i \in 1 .. m : b[i] = x
    BY <1>3, <2>1 DEF Lists
  <2>6. QED
    BY <2>1, <2>2, <2>3, <2>4, <2>5
(* A place is of a user who left, or one of two of a user who is new. *)
<1>6. ASSUME NEW k \in DOMAIN todo
      PROVE  \/ k \in 1 .. n /\ todo[k] = Delete(a[k], Global)
             \/ \E i \in 1 .. m : k = n + 2 * i - 1 /\ todo[k] = Delete(b[i], Global)
             \/ \E i \in 1 .. m : k = n + 2 * i /\ todo[k] = Insert(b[i], Global, Group)
  <2>1. CASE k <= n
    BY <1>4, <1>5, <2>1
  <2>2. CASE k > n
    <3>0. k - n \in 1 .. 2 * m /\ k = n + (k - n)
      BY <1>5, <2>2
    <3>1. PICK q \in 1 .. 2 * m : k = n + q
      BY <3>0
    <3>2. PICK i \in Nat : i = (q + 1) \div 2
      BY <1>5
    <3>3. i \in 1 .. m /\ (q = 2 * i - 1 \/ q = 2 * i)
      BY <1>5, <3>2
    <3>4. k = n + 2 * i - 1 \/ k = n + 2 * i
      BY <1>5, <3>1, <3>3
    <3>5. QED
      BY <1>4, <3>3, <3>4
  <2>3. QED
    BY <1>5, <2>1, <2>2
<1>7. \A u \in Users :
        /\ Delete(u, Global).do = "delete" /\ Delete(u, Global).user = u
        /\ Delete(u, Global).scope = Global
        /\ Insert(u, Global, Group).do = "insert" /\ Insert(u, Global, Group).user = u
        /\ Insert(u, Global, Group).scope = Global /\ Insert(u, Global, Group).role = Group
  BY StatementKinds, Constant
<1>8. /\ \A k \in 1 .. n : todo[k].do = "delete" /\ todo[k].user = a[k] /\ todo[k].scope = Global
      /\ \A i \in 1 .. m :
           /\ todo[n + 2 * i - 1].do = "delete" /\ todo[n + 2 * i - 1].user = b[i]
           /\ todo[n + 2 * i - 1].scope = Global
           /\ todo[n + 2 * i].do = "insert" /\ todo[n + 2 * i].user = b[i]
           /\ todo[n + 2 * i].scope = Global /\ todo[n + 2 * i].role = Group
  <2>1. (\A k \in 1 .. n : a[k] \in Users) /\ (\A i \in 1 .. m : b[i] \in Users)
    BY <1>1, <1>5
  <2>2. QED
    BY <1>4, <1>7, <2>1
<1>9. ASSUME NEW k \in DOMAIN todo
      PROVE  \/ k \in 1 .. n /\ todo[k].do = "delete" /\ todo[k].user = a[k]
             \/ \E i \in 1 .. m : k = n + 2 * i - 1 /\ todo[k].do = "delete" /\ todo[k].user = b[i]
             \/ \E i \in 1 .. m : k = n + 2 * i /\ todo[k].do = "insert" /\ todo[k].user = b[i]
  BY <1>6, <1>8
<1>10. ASSUME NEW k \in DOMAIN todo
       PROVE  /\ Changes(todo[k]) /\ todo[k].scope = Global
              /\ k = 1 => todo[k].do = "delete"
              /\ todo[k].do = "insert" => todo[k].role = Group /\ todo[k].user \in members
              /\ todo[k].do = "delete" /\ todo[k].user \in members =>
                   k + 1 \in DOMAIN todo /\ todo[k + 1] = Insert(todo[k].user, Global, Group)
  <2>1. CASE k \in 1 .. n
    BY <1>0, <1>5, <1>8, <2>1 DEF Changes
  <2>2. ASSUME NEW i \in 1 .. m, k = n + 2 * i - 1
        PROVE  /\ Changes(todo[k]) /\ todo[k].scope = Global /\ todo[k].do = "delete"
               /\ k + 1 \in DOMAIN todo /\ todo[k + 1] = Insert(todo[k].user, Global, Group)
    <3>1. k + 1 = n + 2 * i /\ k + 1 \in DOMAIN todo
      BY <1>5, <2>2
    <3>2. QED
      BY <1>4, <1>8, <2>2, <3>1 DEF Changes
  <2>3. ASSUME NEW i \in 1 .. m, k = n + 2 * i
        PROVE  /\ Changes(todo[k]) /\ todo[k].scope = Global /\ todo[k].do = "insert" /\ k # 1
               /\ todo[k].role = Group /\ todo[k].user \in members
    <3>1. k # 1 /\ b[i] \in members
      BY <1>0, <1>5, <2>3
    <3>2. QED
      BY <1>8, <2>3, <3>1 DEF Changes
  <2>4. QED
    BY <1>9, <2>1, <2>2, <2>3
<1>11. Orderly(todo)
  <2>1. SUFFICES ASSUME NEW k \in DOMAIN todo
                 PROVE  /\ Typed(todo[k])
                        /\ k > 1 /\ todo[k].do = "insert" =>
                             todo[k - 1] = Delete(todo[k].user, todo[k].scope)
                        /\ k > 1 => todo[k].do # "create"
    BY DEF Orderly
  <2>2. Typed(todo[k]) /\ todo[k].do # "create"
    BY <1>10, Constant DEF Typed, Changes
  <2>3. ASSUME NEW i \in 1 .. m, k = n + 2 * i
        PROVE  todo[k - 1] = Delete(todo[k].user, todo[k].scope)
    <3>1. k - 1 = n + 2 * i - 1
      BY <1>5, <2>3
    <3>2. QED
      BY <1>4, <1>8, <2>3, <3>1
  <2>4. QED
    BY <1>9, <2>2, <2>3
<1>12. Once(todo)
  <2>1. SUFFICES ASSUME NEW j \in DOMAIN todo, NEW k \in DOMAIN todo, j < k,
                        todo[j].user = todo[k].user
                 PROVE  todo[j].do = "delete" /\ todo[k].do = "insert"
    BY DEF Once, OfPair
  <2>2. CASE j \in 1 .. n /\ k \in 1 .. n
    BY <1>5, <1>8, <2>1, <2>2
  <2>3. ASSUME NEW i \in 1 .. m, NEW h \in 1 .. m, todo[j].user = b[i], todo[k].user = b[h]
        PROVE  i = h
    <3>1. b[i] = b[h]
      BY <2>1, <2>3
    <3>2. QED
      BY <1>5, <3>1
  <2>4. ASSUME NEW h \in 1 .. m, todo[k].user = b[h], j \in 1 .. n PROVE FALSE
    BY <1>1, <1>5, <1>8, <2>1, <2>4
  <2>5. k \notin 1 .. n \/ j \in 1 .. n
    BY <1>5, <2>1
  <2>6. QED
    BY <1>5, <1>9, <2>1, <2>2, <2>3, <2>4, <2>5
<1>13. Known(todo, members \cup seen)
  BY <1>0, <1>5, <1>9 DEF Known
<1>14. ASSUME NEW u \in Users, u \in members <=> u \notin seen PROVE Touches(todo, u, Global)
  <2>1. CASE u \in S
    <3>1. PICK i \in 1 .. n : a[i] = u
      BY <1>5, <2>1
    <3>2. i \in DOMAIN todo /\ todo[i].user = u
      BY <1>5, <1>8, <3>1
    <3>3. QED
      BY <1>10, <3>2 DEF Touches, OfPair
  <2>2. CASE u \in T
    <3>1. PICK i \in 1 .. m : b[i] = u
      BY <1>5, <2>2
    <3>2. n + 2 * i \in DOMAIN todo /\ todo[n + 2 * i].user = u
      BY <1>5, <1>8, <3>1
    <3>3. QED
      BY <1>10, <3>2 DEF Touches, OfPair
  <2>3. QED
    BY <1>0, <1>14, <2>1, <2>2
<1>15. QED
  BY <1>4, <1>10, <1>11, <1>12, <1>13, <1>14 DEF ListOfReplacement

(* What requests other than those for groups begin with. *)
Plan(todo, us) ==
  /\ todo \in Seq(Statements) /\ Orderly(todo) /\ Known(todo, us)
  /\ \A k \in DOMAIN todo : todo[k].do # "read"
  /\ todo # <<>> => todo[1].do # "insert"

LEMMA GrantOf ==
  ASSUME NEW u \in Users, NEW s \in Scopes, NEW r \in GlobalRoles \cup ProjectRoles
  PROVE  /\ Plan(Grant(u, s, r), {u}) /\ Once(Grant(u, s, r))
         /\ Plan(<<Delete(u, s)>>, {u}) /\ Once(<<Delete(u, s)>>)
         /\ \A v \in Users, t \in Scopes : Touches(Grant(u, s, r), v, t) => v = u /\ t = s
         /\ \A v \in Users, t \in Scopes : Touches(<<Delete(u, s)>>, v, t) => v = u /\ t = s
<1>1. /\ Delete(u, s).do = "delete" /\ Delete(u, s).user = u /\ Delete(u, s).scope = s
      /\ Insert(u, s, r).do = "insert" /\ Insert(u, s, r).user = u
      /\ Insert(u, s, r).scope = s /\ Insert(u, s, r).role = r
      /\ Delete(u, s) \in Statements /\ Insert(u, s, r) \in Statements
  BY StatementKinds
<1>2. PICK d, e : d = Delete(u, s) /\ e = Insert(u, s, r)
  OBVIOUS
<1>3. PICK todo : todo = Grant(u, s, r)
  OBVIOUS
<1>4. /\ todo \in Seq(Statements) /\ DOMAIN todo = {1, 2} /\ todo[1] = d /\ todo[2] = e
      /\ todo # <<>>
  BY <1>1, <1>2, <1>3 DEF Grant
<1>5. Typed(d) /\ Typed(e)
  BY <1>1, <1>2 DEF Typed, Changes
<1>6. Orderly(todo) /\ Once(todo) /\ Known(todo, {u})
  <2>1. Orderly(todo)
    BY <1>1, <1>2, <1>4, <1>5 DEF Orderly
  <2>2. Once(todo)
    BY <1>1, <1>2, <1>4 DEF Once
  <2>3. Known(todo, {u})
    BY <1>1, <1>2, <1>4 DEF Known
  <2>4. QED
    BY <2>1, <2>2, <2>3
<1>7. \A v \in Users, t \in Scopes : Touches(todo, v, t) => v = u /\ t = s
  BY <1>1, <1>2, <1>4 DEF Touches, OfPair
<1>8. PICK one : one = <<Delete(u, s)>>
  OBVIOUS
<1>9. one \in Seq(Statements) /\ DOMAIN one = {1} /\ one[1] = d /\ one # <<>>
  BY <1>1, <1>2, <1>8
<1>10. Orderly(one) /\ Once(one) /\ Known(one, {u})
  BY <1>1, <1>2, <1>5, <1>9 DEF Orderly, Once, Known
<1>11. \A v \in Users, t \in Scopes : Touches(one, v, t) => v = u /\ t = s
  BY <1>1, <1>2, <1>9 DEF Touches, OfPair
<1>12. Plan(todo, {u}) /\ Plan(one, {u})
  BY <1>1, <1>2, <1>4, <1>6, <1>9, <1>10 DEF Plan
<1>13. QED
  BY <1>3, <1>6, <1>7, <1>8, <1>10, <1>11, <1>12

(* A user is created, and given a role or none. *)
LEMMA CreateOf ==
  ASSUME NEW u \in Users, NEW member,
         \/ member = <<>>
         \/ \E s \in Scopes, r \in GlobalRoles \cup ProjectRoles : member = Grant(u, s, r)
  PROVE  /\ Plan(<<Create(u)>> \o member, {}) /\ Once(<<Create(u)>> \o member)
         /\ \A v \in Users, t \in Scopes : Touches(<<Create(u)>> \o member, v, t) => v = u
<1>0. PICK todo : todo = <<Create(u)>> \o member
  OBVIOUS
<1>1. PICK a : a = Create(u)
  OBVIOUS
<1>2. a \in Statements /\ a.do = "create" /\ a.user = u /\ Typed(a) /\ ~Changes(a)
  <2>1. a \in Statements /\ a.do = "create" /\ a.user = u
    BY <1>1, StatementKinds, Constant
  <2>2. QED
    BY <2>1 DEF Typed, Changes
<1>3. CASE member = <<>>
  <2>1. /\ todo \in Seq(Statements) /\ DOMAIN todo = {1} /\ todo[1] = a /\ todo # <<>>
    BY <1>0, <1>1, <1>2, <1>3
  <2>2. Orderly(todo) /\ Once(todo) /\ Known(todo, {})
    BY <1>2, <2>1 DEF Orderly, Once, Known
  <2>3. Plan(todo, {}) /\ ~\E v, t : Touches(todo, v, t)
    BY <1>2, <2>1, <2>2 DEF Plan, Touches
  <2>4. QED
    BY <1>0, <2>2, <2>3
<1>4. ASSUME NEW s \in Scopes, NEW r \in GlobalRoles \cup ProjectRoles, member = Grant(u, s, r)
      PROVE  Plan(todo, {}) /\ Once(todo) /\ \A v, t : Touches(todo, v, t) => v = u
  <2>1. PICK d, e : d = Delete(u, s) /\ e = Insert(u, s, r)
    OBVIOUS
  <2>2. /\ d.do = "delete" /\ d.user = u /\ d.scope = s /\ d \in Statements
        /\ e.do = "insert" /\ e.user = u /\ e.scope = s /\ e.role = r /\ e \in Statements
    BY <2>1, StatementKinds
  <2>3. Typed(d) /\ Typed(e)
    BY <2>2 DEF Typed, Changes
  <2>4. member = <<d, e>>
    BY <1>4, <2>1 DEF Grant
  <2>5. /\ todo \in Seq(Statements) /\ DOMAIN todo = {1, 2, 3} /\ todo # <<>>
        /\ todo[1] = a /\ todo[2] = d /\ todo[3] = e
    BY <1>0, <1>1, <1>2, <2>2, <2>4
  <2>6. Orderly(todo)
    BY <1>2, <2>1, <2>2, <2>3, <2>5 DEF Orderly
  <2>7. Once(todo)
    BY <1>2, <2>2, <2>5 DEF Once
  <2>8. Known(todo, {})
    BY <1>2, <2>2, <2>5 DEF Known
  <2>9. Plan(todo, {})
    BY <1>2, <2>2, <2>5, <2>6, <2>8 DEF Plan
  <2>10. \A v, t : Touches(todo, v, t) => v = u
    BY <1>2, <2>2, <2>5 DEF Touches, OfPair
  <2>11. QED
    BY <2>7, <2>9, <2>10
<1>5. QED
  BY <1>0, <1>3, <1>4

LEMMA TransferOf ==
  ASSUME NEW from \in Users, NEW to \in Users
  PROVE  /\ Plan(TransferPlan(from, to), {from, to})
         /\ TransferPlan(from, to) =
              <<Delete(to, Global), Insert(to, Global, Super),
                Delete(from, Global), Insert(from, Global, "administrator")>>
<1>1. PICK a, b, c, d : /\ a = Delete(to, Global) /\ b = Insert(to, Global, Super)
                        /\ c = Delete(from, Global) /\ d = Insert(from, Global, "administrator")
  OBVIOUS
<1>2. /\ a.do = "delete" /\ a.user = to /\ a.scope = Global /\ a \in Statements
      /\ b.do = "insert" /\ b.user = to /\ b.scope = Global /\ b.role = Super /\ b \in Statements
      /\ c.do = "delete" /\ c.user = from /\ c.scope = Global /\ c \in Statements
      /\ d.do = "insert" /\ d.user = from /\ d.scope = Global /\ d.role = "administrator"
      /\ d \in Statements
  BY <1>1, StatementKinds, Constant
<1>3. Typed(a) /\ Typed(b) /\ Typed(c) /\ Typed(d)
  BY <1>2, Constant DEF Typed, Changes
<1>4. PICK todo : todo = <<a, b, c, d>>
  OBVIOUS
<1>5. TransferPlan(from, to) = todo
  <2>1. TransferPlan(from, to) = <<a, b>> \o <<c, d>>
    BY <1>1 DEF TransferPlan, Grant, Super
  <2>2. <<a, b>> \o <<c, d>> = <<a, b, c, d>>
    <3>1. PICK x, y : x = <<a, b>> /\ y = <<c, d>>
      OBVIOUS
    <3>2. /\ x \in Seq(Statements) /\ Len(x) = 2 /\ x[1] = a /\ x[2] = b
          /\ y \in Seq(Statements) /\ Len(y) = 2 /\ y[1] = c /\ y[2] = d
      BY <1>2, <3>1
    <3>3. /\ x \o y \in Seq(Statements) /\ Len(x \o y) = 4
          /\ \A i \in 1 .. 4 : (x \o y)[i] = IF i <= 2 THEN x[i] ELSE y[i - 2]
      <4>1. x \in Seq(Statements) /\ y \in Seq(Statements)
        BY <3>2
      <4>2. /\ x \o y \in Seq(Statements) /\ Len(x \o y) = Len(x) + Len(y)
            /\ \A i \in 1 .. Len(x) + Len(y) :
                 (x \o y)[i] = IF i <= Len(x) THEN x[i] ELSE y[i - Len(x)]
        BY <4>1, ConcatProperties
      <4>3. QED
        BY <3>2, <4>2
    <3>4. /\ todo \in Seq(Statements) /\ Len(todo) = 4
          /\ todo[1] = a /\ todo[2] = b /\ todo[3] = c /\ todo[4] = d
      BY <1>2, <1>4
    <3>5. \A i \in 1 .. 4 : (x \o y)[i] = todo[i]
      BY <3>2, <3>3, <3>4
    <3>6. x \o y = todo
      BY <3>3, <3>4, <3>5, SeqEqual
    <3>7. QED
      BY <1>4, <3>1, <3>6
  <2>3. QED
    BY <1>4, <2>1, <2>2
<1>6. /\ todo \in Seq(Statements) /\ DOMAIN todo = {1, 2, 3, 4} /\ todo # <<>>
      /\ todo[1] = a /\ todo[2] = b /\ todo[3] = c /\ todo[4] = d
  BY <1>2, <1>4
<1>7. Orderly(todo)
  BY <1>1, <1>2, <1>3, <1>6 DEF Orderly
<1>8. Known(todo, {from, to})
  BY <1>2, <1>6 DEF Known
<1>9. Plan(todo, {from, to})
  BY <1>2, <1>6, <1>7, <1>8 DEF Plan
<1>10. QED
  BY <1>1, <1>4, <1>5, <1>9

(* A statement has been sent. *)
LEMMA Sent ==
  ASSUME NEW todo \in Seq(Statements), todo # <<>>, NEW rest, rest = Tail(todo)
  PROVE  /\ rest \in Seq(Statements)
         /\ \A k \in DOMAIN rest : k + 1 \in DOMAIN todo /\ rest[k] = todo[k + 1]
         /\ \A k \in DOMAIN todo : k = 1 \/ (k - 1 \in DOMAIN rest /\ rest[k - 1] = todo[k])
         /\ 1 \in DOMAIN todo /\ Head(todo) = todo[1] /\ Len(rest) = Len(todo) - 1
         /\ todo[1] \in Statements
         /\ DOMAIN todo = 1 .. Len(todo) /\ DOMAIN rest = 1 .. Len(rest) /\ Len(todo) \in Nat
OBVIOUS

RestKeeps(todo, rest) ==
  /\ rest \in Seq(Statements) /\ Orderly(rest)
  /\ Once(todo) => Once(rest)
  /\ AllReads(todo) => AllReads(rest)
  /\ InstallsSuper(todo) => InstallsSuper(rest)
  /\ (\E k \in DOMAIN rest : rest[k].do = "read") => \E k \in DOMAIN todo : todo[k].do = "read"
  /\ \A u, s : Touches(rest, u, s) => Touches(todo, u, s)
  /\ \A u, s : InsertsNext(rest, u, s) => todo[1] = Delete(u, s)
  /\ \A us, more : us \subseteq more /\ Known(todo, us)
                   /\ (todo[1].do = "create" => todo[1].user \in more) => Known(rest, more)

LEMMA RestOf ==
  ASSUME NEW todo \in Seq(Statements), todo # <<>>, Orderly(todo), NEW rest, rest = Tail(todo)
  PROVE  RestKeeps(todo, rest)
<1>1. /\ rest \in Seq(Statements)
      /\ \A k \in DOMAIN rest : k + 1 \in DOMAIN todo /\ rest[k] = todo[k + 1] /\ k \in Nat /\ k >= 1
      /\ 1 \in DOMAIN todo /\ DOMAIN todo = 1 .. Len(todo) /\ Len(todo) \in Nat
      /\ DOMAIN rest = 1 .. Len(rest)
  BY Sent
<1>2. Orderly(rest)
  <2>1. SUFFICES ASSUME NEW k \in DOMAIN rest
                 PROVE  /\ Typed(rest[k])
                        /\ k > 1 /\ rest[k].do = "insert" =>
                             rest[k - 1] = Delete(rest[k].user, rest[k].scope)
                        /\ k > 1 => rest[k].do # "create"
    BY DEF Orderly
  <2>2. k + 1 \in DOMAIN todo /\ rest[k] = todo[k + 1] /\ k \in Nat /\ k + 1 > 1 /\ (k + 1) - 1 = k
    BY <1>1
  <2>3. /\ Typed(todo[k + 1]) /\ todo[k + 1].do # "create"
        /\ todo[k + 1].do = "insert" => todo[k] = Delete(todo[k + 1].user, todo[k + 1].scope)
    BY <2>2 DEF Orderly
  <2>4. k > 1 => k - 1 \in DOMAIN rest /\ (k - 1) + 1 = k
    BY <1>1, <2>2
  <2>5. k > 1 => rest[k - 1] = todo[k]
    BY <1>1, <2>4
  <2>6. QED
    BY <2>2, <2>3, <2>5
<1>3. Once(todo) => Once(rest)
  BY <1>1 DEF Once
<1>4. /\ AllReads(todo) => AllReads(rest)
      /\ InstallsSuper(todo) => InstallsSuper(rest)
      /\ (\E k \in DOMAIN rest : rest[k].do = "read") => \E k \in DOMAIN todo : todo[k].do = "read"
  BY <1>1 DEF AllReads, InstallsSuper
<1>5. \A u, s : Touches(rest, u, s) => Touches(todo, u, s)
  BY <1>1 DEF Touches
<1>6. ASSUME NEW u, NEW s, InsertsNext(rest, u, s) PROVE todo[1] = Delete(u, s)
  <2>1. 1 \in DOMAIN rest /\ rest[1].do = "insert" /\ rest[1].user = u /\ rest[1].scope = s
    BY <1>1, <1>6 DEF InsertsNext, OfPair
  <2>2. 2 \in DOMAIN todo /\ rest[1] = todo[2]
    BY <1>1, <2>1
  <2>3. QED
    BY <2>1, <2>2 DEF Orderly
<1>7. ASSUME NEW us, NEW more, us \subseteq more, Known(todo, us),
             todo[1].do = "create" => todo[1].user \in more
      PROVE  Known(rest, more)
  BY <1>1, <1>7 DEF Known
<1>8. QED
  BY <1>1, <1>2, <1>3, <1>4, <1>5, <1>6, <1>7 DEF RestKeeps

(* Note, in terms of users and scopes. *)
LEMMA ChangedPairs ==
  ASSUME NEW todo \in Seq(Statements), NEW u, NEW s
  PROVE  <<u, s>> \in Changed(todo) <=> Touches(todo, u, s)
<1>1. ASSUME <<u, s>> \in Changed(todo) PROVE Touches(todo, u, s)
  <2>1. PICK st \in Doing(todo, "delete") \cup Doing(todo, "insert") : <<u, s>> = <<st.user, st.scope>>
    BY <1>1 DEF Changed
  <2>2. \E k \in DOMAIN todo : st = todo[k] /\ Changes(todo[k])
    BY <2>1 DEF Doing, Changes
  <2>3. QED
    BY <2>1, <2>2 DEF Touches, OfPair
<1>2. ASSUME Touches(todo, u, s) PROVE <<u, s>> \in Changed(todo)
  <2>1. PICK k \in DOMAIN todo : Changes(todo[k]) /\ todo[k].user = u /\ todo[k].scope = s
    BY <1>2 DEF Touches, OfPair
  <2>2. todo[k] \in Doing(todo, "delete") \cup Doing(todo, "insert")
    BY <2>1 DEF Doing, Changes
  <2>3. QED
    BY <2>1, <2>2 DEF Changed
<1>3. QED
  BY <1>1, <1>2

LEMMA TouchedAreKnown ==
  ASSUME NEW todo \in Seq(Statements), Orderly(todo), NEW u, NEW s, Touches(todo, u, s)
  PROVE  u \in Users /\ s \in Scopes
<1>1. PICK k \in DOMAIN todo : Changes(todo[k]) /\ todo[k].user = u /\ todo[k].scope = s
  BY DEF Touches, OfPair
<1>2. todo[k] \in Statements /\ Typed(todo[k])
  BY DEF Orderly
<1>3. QED
  BY <1>1, <1>2 DEF Statements, Typed

(* What overlapped becomes. *)
LEMMA Noted ==
  ASSUME Shape, NEW todo \in Seq(Statements), Orderly(todo),
         overlapped' = overlapped \cup
           (Changed(todo) \cap UNION {Changed(call[o].todo) : o \in Calls})
  PROVE  /\ overlapped \subseteq overlapped' /\ overlapped' \subseteq Users \X Scopes
         /\ \A o \in Calls : \A u, s :
              Touches(todo, u, s) /\ Touches(call[o].todo, u, s) => <<u, s>> \in overlapped'
<1>1. \A o \in Calls : call[o].todo \in Seq(Statements)
  BY DEF Shape, CallShape
<1>2. Changed(todo) \subseteq Users \X Scopes
  <2>1. SUFFICES ASSUME NEW p \in Changed(todo) PROVE p \in Users \X Scopes
    OBVIOUS
  <2>2. PICK st : p = <<st.user, st.scope>>
    BY <2>1 DEF Changed
  <2>3. Touches(todo, st.user, st.scope)
    BY <2>1, <2>2, ChangedPairs
  <2>4. QED
    BY <2>2, <2>3, TouchedAreKnown
<1>3. overlapped \subseteq overlapped' /\ overlapped' \subseteq Users \X Scopes
  BY <1>2 DEF Shape
<1>4. ASSUME NEW o \in Calls, NEW u, NEW s, Touches(todo, u, s), Touches(call[o].todo, u, s)
      PROVE  <<u, s>> \in overlapped'
  <2>1. <<u, s>> \in Changed(todo) /\ <<u, s>> \in Changed(call[o].todo)
    BY <1>1, <1>4, ChangedPairs
  <2>2. QED
    BY <2>1
<1>5. QED
  BY <1>3, <1>4

-----------------------------------------------------------------------------
(* A request begins, or goes on from reading to writing: what it then has    *)
(* still to do fits in with what the others have.                            *)
Fits(c, next) ==
  /\ next \in CallShape /\ next.op # "idle" /\ Proper(next, users)
  /\ call' \in [Calls -> CallShape] /\ call'[c] = next
  /\ \A o \in Calls \ {c} :
       /\ call'[o].op = call[o].op /\ call'[o].todo = call[o].todo
       /\ call'[o].members = call[o].members /\ call'[o].seen = call[o].seen
       /\ call[o] = Idle => call'[o] = Idle
  /\ users' = users /\ rows' = rows /\ installed' = installed /\ complete' = complete
  /\ overlapped \subseteq overlapped' /\ overlapped' \subseteq Users \X Scopes
  /\ seized' \in BOOLEAN /\ (seized => seized')
  /\ \A o \in Calls : \A u, s :
       Touches(next.todo, u, s) /\ Touches(call[o].todo, u, s) => <<u, s>> \in overlapped'
  /\ next.todo # <<>> => next.todo[1].do # "insert"

Started(c, next) ==
  /\ Fits(c, next)
  /\ next.alone => \A o \in Calls : call[o] = Idle
  /\ \A o \in Calls \ {c} : call'[o].alone => call[o] = Idle

Harmless(next) ==
  ~seized' /\ ~Crossed' =>
    IF next.op = "transfer" THEN Transferring(next.todo) /\ Len(next.todo) # 2
    ELSE \A u \in Users : Admin(u) => ~Touches(next.todo, u, Global)

Replaces(next) ==
  next.op = "group" /\ next.alone /\ overlapped' = {} =>
    IF next.todo # <<>> /\ AllReads(next.todo) THEN Reading(next) ELSE Writing(next)

LEMMA NothingCrossed ==
  ASSUME overlapped \subseteq overlapped', ~Crossed'
  PROVE  ~Crossed
BY DEF Crossed

LEMMA FitsShape ==
  ASSUME Shape, ProperInv, NEW c \in Calls, NEW next, Fits(c, next)
  PROVE  Shape' /\ ProperInv'
<1>1. Shape'
  BY DEF Shape, Fits
<1>2. ASSUME NEW o \in Calls PROVE Proper(call'[o], users')
  <2>1. CASE o = c
    BY <2>1 DEF Fits
  <2>2. CASE o # c
    <3>1. PICK p, q : p = call[o] /\ q = call'[o]
      OBVIOUS
    <3>2. /\ Proper(p, users) /\ q.op = p.op /\ q.todo = p.todo /\ q.members = p.members
          /\ q.seen = p.seen /\ (p = Idle => q = Idle) /\ users' = users
      BY <2>2, <3>1 DEF Fits, ProperInv
    <3>3. Proper(q, users)
      BY <3>2 DEF Proper
    <3>4. QED
      BY <3>1, <3>2, <3>3
  <2>3. QED
    BY <2>1, <2>2
<1>3. QED
  BY <1>1, <1>2 DEF ProperInv

LEMMA FitsRows ==
  ASSUME Shape, ApartInv, RowsInv, NEW c \in Calls, NEW next, Fits(c, next)
  PROVE  ApartInv' /\ RowsInv'
<1>1. /\ \A o \in Calls \ {c} : call'[o].todo = call[o].todo
      /\ call'[c].todo = next.todo /\ overlapped \subseteq overlapped'
      /\ \A o \in Calls : \A u, s :
           Touches(next.todo, u, s) /\ Touches(call[o].todo, u, s) => <<u, s>> \in overlapped'
      /\ \A u, s : ~InsertsNext(next.todo, u, s)
      /\ users' = users /\ rows' = rows
  BY DEF Fits, InsertsNext
<1>2. ASSUME NEW a \in Calls, NEW b \in Calls, a # b, NEW u \in Users, NEW s \in Scopes,
             Touches(call'[a].todo, u, s), Touches(call'[b].todo, u, s)
      PROVE  <<u, s>> \in overlapped'
  <2>1. CASE a = c
    BY <1>1, <1>2, <2>1
  <2>2. CASE b = c
    BY <1>1, <1>2, <2>2
  <2>3. CASE a # c /\ b # c
    BY <1>1, <1>2, <2>3 DEF ApartInv
  <2>4. QED
    BY <2>1, <2>2, <2>3
<1>3. ASSUME NEW u \in Users, NEW s \in Scopes
      PROVE  /\ rows'[u][s] # <<>> => u \in users'
             /\ <<u, s>> \notin overlapped' =>
                  /\ Len(rows'[u][s]) <= 1
                  /\ \A o \in Calls : InsertsNext(call'[o].todo, u, s) => rows'[u][s] = <<>>
  <2>1. \A o \in Calls : InsertsNext(call'[o].todo, u, s) => InsertsNext(call[o].todo, u, s)
    BY <1>1
  <2>2. QED
    BY <1>1, <2>1 DEF RowsInv
<1>4. ApartInv'
  BY <1>2 DEF ApartInv
<1>5. QED
  BY <1>3, <1>4 DEF RowsInv

LEMMA FitsSuper ==
  ASSUME Shape, SuperInv, NEW c \in Calls, NEW next, Fits(c, next), Harmless(next)
  PROVE  SuperInv'
<1>1. SUFFICES ASSUME ~seized', ~Crossed'
               PROVE  /\ \A o \in Calls :
                           IF call'[o].op = "transfer" THEN Transferring(call[o].todo)'
                           ELSE \A u \in Users : Admin(u)' => ~Touches(call'[o].todo, u, Global)
                      /\ installed' => \E u \in users' : Admin(u)' /\ \A o \in Calls : ~AboutToDemote(o, u)'
  BY DEF SuperInv
<1>2. /\ ~seized /\ ~Crossed /\ users' = users /\ rows' = rows /\ installed' = installed
      /\ call'[c] = next
      /\ \A o \in Calls \ {c} : call'[o].op = call[o].op /\ call'[o].todo = call[o].todo
  BY <1>1, NothingCrossed DEF Fits
<1>3. \A u \in Users : Admin(u)' <=> Admin(u)
  BY <1>2 DEF Admin, Holds
<1>4. \A todo : Transferring(todo) => \E from, to \in Users :
        /\ from # to
        /\ \/ todo = TransferPlan(from, to) /\ (Admin(to)' => Admin(from)')
           \/ todo = Tail(TransferPlan(from, to))
           \/ todo = Grant(from, Global, "administrator")
           \/ todo = <<Insert(from, Global, "administrator")>>
           \/ todo = <<>>
  BY <1>3 DEF Transferring
<1>5. ASSUME NEW o \in Calls
      PROVE  IF call'[o].op = "transfer" THEN Transferring(call[o].todo)'
             ELSE \A u \in Users : Admin(u)' => ~Touches(call'[o].todo, u, Global)
  <2>1. IF call'[o].op = "transfer" THEN Transferring(call'[o].todo)
        ELSE \A u \in Users : Admin(u) => ~Touches(call'[o].todo, u, Global)
    BY <1>1, <1>2 DEF SuperInv, Harmless
  <2>2. QED
    BY <1>3, <1>4, <2>1 DEF Transferring
<1>6. ASSUME installed'
      PROVE  \E u \in users' : Admin(u)' /\ \A o \in Calls : ~AboutToDemote(o, u)'
  <2>1. PICK u \in users : Admin(u) /\ \A o \in Calls : ~AboutToDemote(o, u)
    BY <1>2, <1>6 DEF SuperInv
  <2>2. u \in Users /\ Admin(u)'
    BY <1>3, <2>1 DEF Shape
  <2>3. \A o \in Calls : ~AboutToDemote(o, u)'
    BY <1>1, <1>2, <2>1 DEF AboutToDemote, Harmless
  <2>4. QED
    BY <1>2, <2>2, <2>3
<1>7. QED
  BY <1>5, <1>6

LEMMA StartedGroup ==
  ASSUME Shape, GroupInv, NEW c \in Calls, NEW next, Started(c, next), Replaces(next)
  PROVE  GroupInv'
<1>1. /\ call'[c] = next /\ rows' = rows /\ (next.alone => \A o \in Calls : call[o] = Idle)
      /\ \A o \in Calls \ {c} : /\ call'[o].alone => call[o] = Idle
                                /\ call[o] = Idle => call'[o] = Idle
  BY DEF Started, Fits
<1>2. ASSUME NEW o \in Calls, call'[o] # Idle, call'[o].alone
      PROVE  o = c /\ \A k \in Calls : k = o \/ call'[k] = Idle
  BY <1>1, <1>2
<1>3. ASSUME NEW o \in Calls, call'[o].op = "group", call'[o].alone, overlapped' = {}
      PROVE  IF call'[o].todo # <<>> /\ AllReads(call'[o].todo)
             THEN Reading(call[o])' ELSE Writing(call[o])'
  <2>1. o = c
    BY <1>2, <1>3, Constant
  <2>2. /\ \A u \in Users : \A s, r : Holds(u, s, r)' <=> Holds(u, s, r)
        /\ Holders(Group)' = Holders(Group)
    BY <1>1 DEF Holds, Holders
  <2>3. PICK q : q = call'[o]
    OBVIOUS
  <2>4. IF q.todo # <<>> /\ AllReads(q.todo) THEN Reading(q) ELSE Writing(q)
    BY <1>1, <1>3, <2>1, <2>3 DEF Replaces
  <2>5. Reading(q) => Reading(call[o])'
    BY <2>2, <2>3 DEF Reading
  <2>6. Writing(q) => Writing(call[o])'
    BY <2>2, <2>3 DEF Writing
  <2>7. QED
    BY <2>3, <2>4, <2>5, <2>6
<1>4. QED
  BY <1>2, <1>3 DEF GroupInv

Admitted(c, op, todo, members, next) ==
  /\ next.op = op /\ next.todo = todo /\ next.members = members /\ next.seen = {}
  /\ call[c] = Idle
  /\ call' \in [Calls -> CallShape] /\ call'[c] = next
  /\ \A o \in Calls \ {c} :
       /\ call'[o].op = call[o].op /\ call'[o].todo = call[o].todo
       /\ call'[o].members = call[o].members /\ call'[o].seen = call[o].seen
       /\ call'[o].alone => call[o] = Idle
       /\ call[o] = Idle => call'[o] = Idle
  /\ next.alone => \A o \in Calls : call[o] = Idle

LEMMA Begins ==
  ASSUME Shape, NEW c \in Calls, NEW op \in Ops \ {"idle"}, NEW todo \in Seq(Statements),
         NEW members \in SUBSET Users, Begin(c, op, todo, members)
  PROVE  \E next \in CallShape : Admitted(c, op, todo, members, next)
<1>1. PICK alone \in BOOLEAN : alone <=> \A k \in Calls : call[k] = Idle
  OBVIOUS
<1>2. PICK next : next = [op |-> op, todo |-> todo, members |-> members, seen |-> {}, alone |-> alone]
  OBVIOUS
<1>3. /\ next \in CallShape /\ next.op = op /\ next.todo = todo /\ next.members = members
      /\ next.seen = {} /\ next.alone = alone
  BY <1>2 DEF CallShape
<1>4. call' = [o \in Calls |-> IF o = c THEN next ELSE [call[o] EXCEPT !.alone = call[o] = Idle]]
  <2>1. alone = \A k \in Calls : call[k] = Idle
    BY <1>1
  <2>2. QED
    BY <1>2, <2>1 DEF Begin
<1>5. ASSUME NEW o \in Calls \ {c}
      PROVE  /\ call'[o] \in CallShape
             /\ call'[o].op = call[o].op /\ call'[o].todo = call[o].todo
             /\ call'[o].members = call[o].members /\ call'[o].seen = call[o].seen
             /\ call'[o].alone => call[o] = Idle
             /\ call[o] = Idle => call'[o] = Idle
  <2>1. PICK p : p = call[o]
    OBVIOUS
  <2>2. p \in CallShape
    BY <2>1 DEF Shape
  <2>3. PICK b \in BOOLEAN : b <=> p = Idle
    OBVIOUS
  <2>4. PICK q : q = [p EXCEPT !.alone = b]
    OBVIOUS
  <2>5. call'[o] = q
    <3>1. b = (p = Idle)
      BY <2>3
    <3>2. QED
      BY <1>4, <2>1, <2>4, <3>1
  <2>6. /\ q \in CallShape /\ q.op = p.op /\ q.todo = p.todo /\ q.members = p.members
        /\ q.seen = p.seen /\ q.alone = b
    BY <2>2, <2>4 DEF CallShape
  <2>7. p = Idle => q = Idle
    <3>1. SUFFICES ASSUME p = Idle PROVE q = Idle
      OBVIOUS
    <3>2. b = TRUE /\ Idle \in CallShape
      BY <2>3, <3>1, Constant
    <3>3. q = [Idle EXCEPT !.alone = TRUE]
      BY <2>4, <3>1, <3>2
    <3>4. QED
      BY <3>2, <3>3 DEF Idle
  <2>8. QED
    BY <2>1, <2>3, <2>5, <2>6, <2>7
<1>6. call' \in [Calls -> CallShape] /\ call'[c] = next
  BY <1>3, <1>4, <1>5
<1>7. call[c] = Idle
  BY DEF Begin
<1>8. Admitted(c, op, todo, members, next)
  BY <1>1, <1>3, <1>5, <1>6, <1>7 DEF Admitted
<1>9. QED
  BY <1>3, <1>8

(* What begins keeps the invariant: it is orderly, notes what it crosses,    *)
(* and spares the super admins or says so.                                   *)
Begun(c) == \E next : Started(c, next) /\ Harmless(next) /\ Replaces(next)

LEMMA SendStarts ==
  ASSUME Shape, NEW c \in Calls, NEW op \in {"bootstrap", "create", "grant", "revoke"},
         NEW todo, Plan(todo, users), Once(todo), op = "bootstrap" => InstallsSuper(todo),
         Send(c, op, todo), UNCHANGED <<users, rows, complete, installed>>
  PROVE  Begun(c)
<1>1. todo \in Seq(Statements) /\ Orderly(todo) /\ Known(todo, users)
  BY DEF Plan
<1>2. op \in Ops \ {"idle"} /\ {} \in SUBSET Users
  BY DEF Ops
<1>3. PICK next \in CallShape : Admitted(c, op, todo, {}, next)
  <2>1. Begin(c, op, todo, {})
    BY DEF Send
  <2>2. QED
    BY <1>1, <1>2, <2>1, Begins
<1>4. /\ overlapped \subseteq overlapped' /\ overlapped' \subseteq Users \X Scopes
      /\ \A o \in Calls : \A u, s :
           Touches(todo, u, s) /\ Touches(call[o].todo, u, s) => <<u, s>> \in overlapped'
  BY <1>1, Noted DEF Send, Note
<1>5. /\ seized' \in BOOLEAN /\ (seized => seized')
      /\ \A u \in Users : Admin(u) /\ Touches(todo, u, Global) => seized'
  BY <1>1, ChangedPairs DEF Send, Note, Admin, Super, Shape
<1>6. Proper(next, users)
  BY <1>1, <1>2, <1>3 DEF Admitted, Proper, Plan
<1>7. Started(c, next)
  BY <1>2, <1>3, <1>4, <1>5, <1>6 DEF Admitted, Started, Fits, Plan
<1>8. Harmless(next)
  BY <1>3, <1>5 DEF Admitted, Harmless
<1>9. Replaces(next)
  BY <1>3 DEF Admitted, Replaces
<1>10. QED
  BY <1>7, <1>8, <1>9 DEF Begun

LEMMA PlanFor ==
  ASSUME NEW todo, NEW us, Plan(todo, us), NEW more, us \subseteq more
  PROVE  Plan(todo, more)
BY DEF Plan, Known

LEMMA BootstrapBegins ==
  ASSUME Shape, NEW c \in Calls, NEW u \in Users, BeginBootstrap(c, u)
  PROVE  Begun(c)
<1>1. PICK member : member = Grant(u, Global, Super)
  OBVIOUS
<1>2. PICK todo : todo = <<Create(u)>> \o member
  OBVIOUS
<1>3. Plan(todo, {}) /\ Once(todo)
  BY <1>1, <1>2, CreateOf, Constant
<1>4. InstallsSuper(todo)
  <2>1. PICK a, d, e : a = Create(u) /\ d = Delete(u, Global) /\ e = Insert(u, Global, Super)
    OBVIOUS
  <2>2. /\ a.do = "create" /\ d.do = "delete" /\ e.scope = Global /\ e.role = Super
        /\ a \in Statements /\ d \in Statements /\ e \in Statements
    BY <2>1, StatementKinds, Constant
  <2>3. todo = <<a>> \o <<d, e>>
    BY <1>1, <1>2, <2>1 DEF Grant
  <2>4. DOMAIN todo = {1, 2, 3} /\ todo[1] = a /\ todo[2] = d /\ todo[3] = e
    BY <2>2, <2>3
  <2>5. QED
    BY <2>2, <2>4 DEF InstallsSuper
<1>5. Plan(todo, users)
  BY <1>3, PlanFor
<1>6. Send(c, "bootstrap", todo) /\ UNCHANGED <<users, rows, complete, installed>>
  BY <1>1, <1>2 DEF BeginBootstrap, Super
<1>7. QED
  BY <1>3, <1>4, <1>5, <1>6, SendStarts

LEMMA CreateBegins ==
  ASSUME Shape, NEW c \in Calls, NEW u \in Users, BeginCreate(c, u)
  PROVE  Begun(c)
<1>1. PICK member :
        /\ member \in {<<>>} \cup {Grant(u, p, r) : p \in Projects, r \in ProjectRoles}
        /\ Send(c, "create", <<Create(u)>> \o member)
  BY DEF BeginCreate
<1>2. PICK todo : todo = <<Create(u)>> \o member
  OBVIOUS
<1>3. \/ member = <<>>
      \/ \E s \in Scopes, r \in GlobalRoles \cup ProjectRoles : member = Grant(u, s, r)
  BY <1>1 DEF Scopes
<1>4. Plan(todo, {}) /\ Once(todo)
  BY <1>2, <1>3, CreateOf
<1>5. Plan(todo, users)
  BY <1>4, PlanFor
<1>6. Send(c, "create", todo) /\ UNCHANGED <<users, rows, complete, installed>>
  BY <1>1, <1>2 DEF BeginCreate
<1>7. QED
  BY <1>4, <1>5, <1>6, SendStarts

LEMMA GrantBegins ==
  ASSUME Shape, NEW c \in Calls, NEW u \in Users, NEW s \in Scopes, BeginGrant(c, u, s)
  PROVE  Begun(c)
<1>1. PICK r \in RolesIn(s) : Send(c, "grant", Grant(u, s, r))
  BY DEF BeginGrant
<1>2. r \in GlobalRoles \cup ProjectRoles
  BY <1>1 DEF RolesIn
<1>3. PICK todo : todo = Grant(u, s, r)
  OBVIOUS
<1>4. Plan(todo, {u}) /\ Once(todo)
  BY <1>2, <1>3, GrantOf
<1>5. Plan(todo, users)
  <2>1. {u} \subseteq users
    BY DEF BeginGrant
  <2>2. QED
    BY <1>4, <2>1, PlanFor
<1>6. Send(c, "grant", todo) /\ UNCHANGED <<users, rows, complete, installed>>
  BY <1>1, <1>3 DEF BeginGrant
<1>7. QED
  BY <1>4, <1>5, <1>6, SendStarts

LEMMA RevokeBegins ==
  ASSUME Shape, RowsInv, NEW c \in Calls, NEW u \in Users, NEW s \in Scopes, BeginRevoke(c, u, s)
  PROVE  Begun(c)
<1>1. PICK todo : todo = <<Delete(u, s)>>
  OBVIOUS
<1>2. Plan(todo, {u}) /\ Once(todo)
  BY <1>1, GrantOf, Constant
<1>3. {u} \subseteq users
  BY DEF BeginRevoke, RowsInv
<1>4. Plan(todo, users)
  BY <1>2, <1>3, PlanFor
<1>5. Send(c, "revoke", todo) /\ UNCHANGED <<users, rows, complete, installed>>
  BY <1>1 DEF BeginRevoke
<1>6. QED
  BY <1>2, <1>4, <1>5, SendStarts

LEMMA TransferBegins ==
  ASSUME Shape, claims \subseteq users, NEW c \in Calls, NEW from \in Users, NEW to \in Users,
         BeginTransfer(c, from, to)
  PROVE  Begun(c)
<1>1. PICK todo : todo = TransferPlan(from, to)
  OBVIOUS
<1>2. /\ Plan(todo, {from, to})
      /\ todo = <<Delete(to, Global), Insert(to, Global, Super),
                  Delete(from, Global), Insert(from, Global, "administrator")>>
  BY <1>1, TransferOf
<1>3. ~seized' => (Admin(to) => Admin(from))
  BY DEF BeginTransfer, Outdated, Admin, Super
<1>4. from \in users /\ to \in users
  BY DEF BeginTransfer
<1>5. todo \in Seq(Statements) /\ Orderly(todo) /\ Plan(todo, users)
  BY <1>2, <1>4, PlanFor DEF Plan
<1>6. "transfer" \in Ops \ {"idle"} /\ {} \in SUBSET Users
  BY DEF Ops
<1>7. PICK next \in CallShape : Admitted(c, "transfer", todo, {}, next)
  <2>1. Begin(c, "transfer", todo, {})
    BY <1>1 DEF BeginTransfer
  <2>2. QED
    BY <1>5, <1>6, <2>1, Begins
<1>8. /\ overlapped \subseteq overlapped' /\ overlapped' \subseteq Users \X Scopes
      /\ \A o \in Calls : \A u, s :
           Touches(todo, u, s) /\ Touches(call[o].todo, u, s) => <<u, s>> \in overlapped'
  <2>1. overlapped' = overlapped \cup
          (Changed(todo) \cap UNION {Changed(call[o].todo) : o \in Calls})
    BY <1>1 DEF BeginTransfer
  <2>2. QED
    BY <1>5, <2>1, Noted
<1>9. /\ seized' \in BOOLEAN /\ (seized => seized') /\ (~seized' => from # to)
      /\ users' = users /\ rows' = rows /\ installed' = installed /\ complete' = complete
  BY DEF BeginTransfer, Shape
<1>10. Proper(next, users)
  BY <1>5, <1>6, <1>7 DEF Admitted, Proper, Plan
<1>11. Started(c, next)
  BY <1>5, <1>6, <1>7, <1>8, <1>9, <1>10 DEF Admitted, Started, Fits, Plan
<1>12. Harmless(next)
  <2>1. ~seized' => Transferring(todo)
    BY <1>1, <1>3, <1>9 DEF Transferring
  <2>2. Len(todo) # 2
    BY <1>2
  <2>3. QED
    BY <1>7, <2>1, <2>2 DEF Admitted, Harmless
<1>13. Replaces(next)
  BY <1>7 DEF Admitted, Replaces
<1>14. QED
  BY <1>11, <1>12, <1>13 DEF Begun

LEMMA ReplaceBegins ==
  ASSUME Shape, RowsInv, NEW c \in Calls, BeginReplaceGroup(c)
  PROVE  Begun(c)
<1>1. PICK todo : todo = ReadEach(SetToSeq(users))
  OBVIOUS
<1>2. /\ todo \in Seq(Statements) /\ AllReads(todo)
      /\ Orderly(todo) /\ Once(todo) /\ Known(todo, users)
      /\ \A u \in users : \E k \in DOMAIN todo : todo[k].user = u
  <2>1. PICK S : S = users
    OBVIOUS
  <2>2. S \in SUBSET Users /\ IsFiniteSet(S) /\ todo = ReadEach(SetToSeq(S))
    BY <1>1, <2>1 DEF Shape
  <2>3. QED
    BY <2>1, <2>2, ReadsOf
<1>3. PICK members \in SUBSET users : Begin(c, "group", todo, members)
  BY <1>1 DEF BeginReplaceGroup
<1>4. "group" \in Ops \ {"idle"} /\ members \in SUBSET Users
  BY <1>3 DEF Ops, Shape
<1>5. PICK next \in CallShape : Admitted(c, "group", todo, members, next)
  BY <1>2, <1>3, <1>4, Begins
<1>6. /\ users' = users /\ rows' = rows /\ complete' = complete
      /\ installed' = installed /\ overlapped' = overlapped /\ seized' = seized
  BY DEF BeginReplaceGroup, history
<1>7. \A u, s : ~Touches(todo, u, s)
  BY <1>2 DEF AllReads, Touches, Changes
<1>8. todo # <<>> => todo[1].do # "insert"
  BY <1>2 DEF AllReads
<1>9. Proper(next, users)
  BY <1>2, <1>3, <1>5 DEF Admitted, Proper
<1>10. Started(c, next)
  BY <1>4, <1>5, <1>6, <1>7, <1>8, <1>9 DEF Admitted, Started, Fits, Shape
<1>11. Harmless(next)
  BY <1>5, <1>7 DEF Admitted, Harmless
<1>12. Holders(Group) \subseteq users
  <2>1. SUFFICES ASSUME NEW u \in Users, Holds(u, Global, Group) PROVE u \in users
    BY DEF Holders
  <2>2. rows[u][Global] # <<>>
    BY <2>1 DEF Holds, Range
  <2>3. QED
    BY <2>2, Constant DEF RowsInv
<1>13. Reading(next)
  BY <1>2, <1>5, <1>12 DEF Admitted, Reading
<1>14. ASSUME todo = <<>> PROVE Writing(next)
  <2>1. users = {} /\ members = {}
    BY <1>2, <1>3, <1>14
  <2>2. \A u \in Users : ~Holds(u, Global, Group)
    BY <1>12, <2>1 DEF Holders
  <2>3. QED
    BY <1>5, <1>14, <2>1, <2>2 DEF Admitted, Writing
<1>15. Replaces(next)
  BY <1>2, <1>5, <1>13, <1>14 DEF Admitted, Replaces
<1>16. QED
  BY <1>10, <1>11, <1>15 DEF Begun

-----------------------------------------------------------------------------
(* A statement is sent. *)
Stepped(c) ==
  /\ call[c].todo # <<>> /\ call' \in [Calls -> CallShape]
  /\ call'[c].op = call[c].op /\ call'[c].todo = Tail(call[c].todo)
  /\ call'[c].members = call[c].members /\ call'[c].seen = call[c].seen
  /\ call'[c].alone = call[c].alone
  /\ \A o \in Calls \ {c} : call'[o] = call[o]
  /\ overlapped' = overlapped /\ seized' = seized

LEMMA AdvanceSteps ==
  ASSUME Shape, NEW c \in Calls, call[c].todo # <<>>, Advance(c),
         overlapped' = overlapped, seized' = seized
  PROVE  Stepped(c)
<1>1. PICK p : p = call[c]
  OBVIOUS
<1>2. p \in CallShape /\ p.todo # <<>> /\ p.todo \in Seq(Statements)
  BY <1>1 DEF Shape, CallShape
<1>3. PICK rest : rest = Tail(p.todo)
  OBVIOUS
<1>4. rest \in Seq(Statements)
  BY <1>2, <1>3
<1>5. PICK q : q = [p EXCEPT !.todo = rest]
  OBVIOUS
<1>6. /\ q \in CallShape /\ q.op = p.op /\ q.todo = rest /\ q.members = p.members
      /\ q.seen = p.seen /\ q.alone = p.alone
  BY <1>2, <1>4, <1>5 DEF CallShape
<1>7. call' = [call EXCEPT ![c] = q]
  BY <1>1, <1>3, <1>5 DEF Advance
<1>8. call' \in [Calls -> CallShape] /\ call'[c] = q /\ \A o \in Calls \ {c} : call'[o] = call[o]
  BY <1>6, <1>7 DEF Shape
<1>9. QED
  BY <1>1, <1>2, <1>3, <1>6, <1>8 DEF Stepped

(* The statement that is sent next. *)
NextIs(c, todo, st) ==
  /\ todo = call[c].todo /\ todo \in Seq(Statements) /\ todo # <<>> /\ Orderly(todo)
  /\ 1 \in DOMAIN todo /\ st = todo[1] /\ st = Stmt(c) /\ st \in Statements
  /\ st.user \in Users /\ Typed(st) /\ call[c].op # "idle"
  /\ st.do # "create" => st.user \in users
  /\ Changes(st) => Touches(todo, st.user, st.scope)
  /\ st.do = "insert" => InsertsNext(todo, st.user, st.scope)

LEMMA SendsNext ==
  ASSUME Shape, ProperInv, NEW c \in Calls, call[c].todo # <<>>
  PROVE  \E todo, st : NextIs(c, todo, st)
<1>1. PICK todo : todo = call[c].todo
  OBVIOUS
<1>2. todo \in Seq(Statements) /\ todo # <<>> /\ Orderly(todo) /\ Known(todo, users)
  BY <1>1 DEF Shape, CallShape, ProperInv, Proper
<1>3. PICK st : st = todo[1]
  OBVIOUS
<1>4. 1 \in DOMAIN todo /\ st = Head(todo) /\ st \in Statements
  BY <1>2, <1>3
<1>5. st = Stmt(c)
  BY <1>1, <1>4 DEF Stmt
<1>6. st.user \in Users
  BY <1>4 DEF Statements
<1>7. Typed(st)
  BY <1>2, <1>3, <1>4 DEF Orderly
<1>8. call[c].op # "idle"
  BY <1>1, <1>2, Constant DEF ProperInv, Proper
<1>9. st.do # "create" => st.user \in users
  BY <1>2, <1>3, <1>4 DEF Known
<1>10. /\ Changes(st) => Touches(todo, st.user, st.scope)
       /\ st.do = "insert" => InsertsNext(todo, st.user, st.scope)
  BY <1>2, <1>3, <1>4 DEF Touches, OfPair, InsertsNext
<1>11. QED
  BY <1>1, <1>2, <1>3, <1>4, <1>5, <1>6, <1>7, <1>8, <1>9, <1>10 DEF NextIs

LEMMA SteppedProper ==
  ASSUME Shape, ProperInv, ApartInv, NEW c \in Calls, Stepped(c), users \subseteq users',
         NEW todo, NEW st, NextIs(c, todo, st), st.do = "create" => st.user \in users'
  PROVE  ProperInv' /\ ApartInv'
<1>1. PICK rest : rest = Tail(todo)
  OBVIOUS
<1>2. todo \in Seq(Statements) /\ todo # <<>> /\ Orderly(todo) /\ st = todo[1] /\ todo = call[c].todo
  BY DEF NextIs
<1>3. RestKeeps(todo, rest)
  BY <1>1, <1>2, RestOf
<1>4. ASSUME NEW o \in Calls PROVE Proper(call'[o], users')
  <2>1. PICK p, q : p = call[o] /\ q = call'[o]
    OBVIOUS
  <2>2. Proper(p, users)
    BY <2>1 DEF ProperInv
  <2>3. CASE o # c
    <3>1. q = p
      BY <2>1, <2>3 DEF Stepped
    <3>2. Proper(q, users')
      BY <2>2, <3>1 DEF Proper, Known
    <3>3. QED
      BY <2>1, <3>2
  <2>4. CASE o = c
    <3>1. /\ q.op = p.op /\ q.members = p.members /\ q.seen = p.seen
          /\ p.todo = todo /\ q.todo = rest /\ q.op # "idle"
      BY <1>1, <1>2, <2>1, <2>4 DEF Stepped, NextIs
    <3>2. Known(rest, users')
      BY <1>2, <1>3, <2>2, <3>1 DEF Proper, RestKeeps
    <3>3. Proper(q, users')
      BY <1>3, <2>2, <3>1, <3>2 DEF Proper, RestKeeps
    <3>4. QED
      BY <2>1, <3>3
  <2>5. QED
    BY <2>3, <2>4
<1>5. ASSUME NEW o \in Calls, NEW u, NEW s, Touches(call'[o].todo, u, s)
      PROVE  Touches(call[o].todo, u, s)
  BY <1>1, <1>2, <1>3, <1>5 DEF Stepped, RestKeeps
<1>6. ApartInv'
  BY <1>5 DEF ApartInv, Stepped
<1>7. QED
  BY <1>4, <1>6 DEF ProperInv

(* The rest of a list inserts next only what it has just deleted. *)
LEMMA SteppedInserts ==
  ASSUME NEW c \in Calls, Stepped(c), NEW todo, NEW st, NextIs(c, todo, st),
         NEW o \in Calls, NEW u, NEW s, InsertsNext(call'[o].todo, u, s)
  PROVE  IF o = c THEN st = Delete(u, s) ELSE InsertsNext(call[o].todo, u, s)
<1>1. PICK rest : rest = Tail(todo)
  OBVIOUS
<1>2. o = c => InsertsNext(rest, u, s)
  BY <1>1 DEF Stepped, NextIs
<1>3. InsertsNext(rest, u, s) => st = Delete(u, s)
  <2>1. RestKeeps(todo, rest)
    BY <1>1, RestOf DEF NextIs
  <2>2. QED
    BY <2>1 DEF NextIs, RestKeeps
<1>4. o # c => InsertsNext(call[o].todo, u, s)
  BY DEF Stepped
<1>5. QED
  BY <1>2, <1>3, <1>4

(* What the three statements do to the tables. *)
Creates(c, st) ==
  /\ st.do = "create" /\ Stepped(c) /\ Shape'
  /\ users' = users \cup {st.user} /\ rows' = rows /\ installed' = installed

Deletes(c, st) ==
  /\ st.do = "delete" /\ Stepped(c) /\ Shape'
  /\ users' = users /\ installed' = installed
  /\ \A u \in Users, s \in Scopes :
       rows'[u][s] = IF u = st.user /\ s = st.scope THEN <<>> ELSE rows[u][s]

Inserts(c, st) ==
  /\ st.do = "insert" /\ Stepped(c) /\ Shape'
  /\ users' = users /\ (installed' <=> (installed \/ call[c].op = "bootstrap"))
  /\ \A u \in Users, s \in Scopes :
       rows'[u][s] = IF u = st.user /\ s = st.scope THEN Append(rows[u][s], st.role) ELSE rows[u][s]

LEMMA CreateEffect ==
  ASSUME Shape, ProperInv, NEW c \in Calls, InsertUser(c), NEW todo, NEW st, NextIs(c, todo, st)
  PROVE  Creates(c, st)
<1>1. /\ call[c].todo # <<>> /\ Advance(c) /\ st = Stmt(c) /\ st.do = "create" /\ st.user \in Users
      /\ users' = users \cup {st.user} /\ rows' = rows /\ complete' = complete
      /\ installed' = installed /\ overlapped' = overlapped /\ seized' = seized
  BY DEF InsertUser, Sends, NextIs, history
<1>2. Stepped(c)
  BY <1>1, AdvanceSteps
<1>3. IsFiniteSet(users') /\ users' \subseteq Users
  BY <1>1, FS_AddElement DEF Shape
<1>4. Shape'
  BY <1>1, <1>2, <1>3 DEF Shape, Stepped
<1>5. QED
  BY <1>1, <1>2, <1>4 DEF Creates

LEMMA DeleteEffect ==
  ASSUME Shape, ProperInv, NEW c \in Calls, DeleteRows(c), NEW todo, NEW st, NextIs(c, todo, st)
  PROVE  Deletes(c, st)
<1>1. /\ call[c].todo # <<>> /\ Advance(c) /\ st = Stmt(c) /\ st.do = "delete"
      /\ rows' = [rows EXCEPT ![st.user][st.scope] = <<>>]
      /\ users' = users /\ complete' = complete
      /\ installed' = installed /\ overlapped' = overlapped /\ seized' = seized
  BY DEF DeleteRows, Sends, NextIs, history
<1>2. st.user \in Users /\ st.scope \in Scopes
  BY <1>1 DEF NextIs, Typed, Changes
<1>3. Stepped(c)
  BY <1>1, AdvanceSteps
<1>4. PICK R : R = Seq(GlobalRoles \cup ProjectRoles)
  OBVIOUS
<1>5. rows \in [Users -> [Scopes -> R]] /\ <<>> \in R
  BY <1>4 DEF Shape
<1>6. /\ rows' \in [Users -> [Scopes -> R]]
      /\ \A u \in Users, s \in Scopes :
           rows'[u][s] = IF u = st.user /\ s = st.scope THEN <<>> ELSE rows[u][s]
  BY <1>1, <1>2, <1>5
<1>7. Shape'
  BY <1>1, <1>3, <1>4, <1>6 DEF Shape, Stepped
<1>8. QED
  BY <1>1, <1>3, <1>6, <1>7 DEF Deletes

LEMMA InsertEffect ==
  ASSUME Shape, ProperInv, NEW c \in Calls, InsertRow(c), NEW todo, NEW st, NextIs(c, todo, st)
  PROVE  Inserts(c, st)
<1>1. /\ call[c].todo # <<>> /\ Advance(c) /\ st = Stmt(c) /\ st.do = "insert"
      /\ rows' = [rows EXCEPT ![st.user][st.scope] = Append(rows[st.user][st.scope], st.role)]
      /\ users' = users /\ complete' = complete
      /\ installed' = (installed \/ call[c].op = "bootstrap")
      /\ overlapped' = overlapped /\ seized' = seized
  BY DEF InsertRow, Sends, NextIs, Shape
<1>2. st.user \in Users /\ st.scope \in Scopes /\ st.role \in GlobalRoles \cup ProjectRoles
  BY <1>1 DEF NextIs, Typed, Changes
<1>3. Stepped(c)
  BY <1>1, AdvanceSteps
<1>4. PICK R : R = Seq(GlobalRoles \cup ProjectRoles)
  OBVIOUS
<1>5. PICK more : more = Append(rows[st.user][st.scope], st.role)
  OBVIOUS
<1>6. rows \in [Users -> [Scopes -> R]]
  BY <1>4 DEF Shape
<1>7. more \in R
  BY <1>2, <1>4, <1>5, <1>6
<1>8. /\ rows' \in [Users -> [Scopes -> R]]
      /\ \A u \in Users, s \in Scopes :
           rows'[u][s] = IF u = st.user /\ s = st.scope THEN more ELSE rows[u][s]
  BY <1>1, <1>2, <1>5, <1>6, <1>7
<1>9. Shape'
  BY <1>1, <1>3, <1>4, <1>8 DEF Shape, Stepped
<1>10. QED
  BY <1>1, <1>3, <1>5, <1>8, <1>9 DEF Inserts

-----------------------------------------------------------------------------
(* The rows. *)
LEMMA CreateRows ==
  ASSUME Shape, ProperInv, RowsInv, NEW c \in Calls, NEW todo, NEW st,
         NextIs(c, todo, st), Creates(c, st)
  PROVE  RowsInv'
<1>1. SUFFICES ASSUME NEW u \in Users, NEW s \in Scopes
               PROVE  /\ rows'[u][s] # <<>> => u \in users'
                      /\ <<u, s>> \notin overlapped' =>
                           /\ Len(rows'[u][s]) <= 1
                           /\ \A o \in Calls : InsertsNext(call'[o].todo, u, s) => rows'[u][s] = <<>>
  BY DEF RowsInv
<1>2. Delete(u, s).do = "delete"
  BY StatementKinds, Constant
<1>3. \A o \in Calls : InsertsNext(call'[o].todo, u, s) => InsertsNext(call[o].todo, u, s)
  BY <1>2, SteppedInserts DEF Creates
<1>4. QED
  BY <1>3 DEF Creates, RowsInv, Stepped

LEMMA DeleteRowsKeep ==
  ASSUME Shape, ProperInv, RowsInv, NEW c \in Calls, NEW todo, NEW st,
         NextIs(c, todo, st), Deletes(c, st)
  PROVE  RowsInv'
<1>1. SUFFICES ASSUME NEW u \in Users, NEW s \in Scopes
               PROVE  /\ rows'[u][s] # <<>> => u \in users'
                      /\ <<u, s>> \notin overlapped' =>
                           /\ Len(rows'[u][s]) <= 1
                           /\ \A o \in Calls : InsertsNext(call'[o].todo, u, s) => rows'[u][s] = <<>>
  BY DEF RowsInv
<1>2. CASE u = st.user /\ s = st.scope
  <2>1. rows'[u][s] = <<>>
    BY <1>2 DEF Deletes
  <2>2. QED
    BY <2>1
<1>3. CASE ~(u = st.user /\ s = st.scope)
  <2>1. st # Delete(u, s)
    BY <1>3, StatementKinds, Constant
  <2>2. \A o \in Calls : InsertsNext(call'[o].todo, u, s) => InsertsNext(call[o].todo, u, s)
    BY <2>1, SteppedInserts DEF Deletes
  <2>3. rows'[u][s] = rows[u][s]
    BY <1>3 DEF Deletes
  <2>4. QED
    BY <2>2, <2>3 DEF Deletes, RowsInv, Stepped
<1>4. QED
  BY <1>2, <1>3

LEMMA InsertRowsKeep ==
  ASSUME Shape, ProperInv, ApartInv, RowsInv, NEW c \in Calls, NEW todo, NEW st,
         NextIs(c, todo, st), Inserts(c, st)
  PROVE  RowsInv'
<1>1. SUFFICES ASSUME NEW u \in Users, NEW s \in Scopes
               PROVE  /\ rows'[u][s] # <<>> => u \in users'
                      /\ <<u, s>> \notin overlapped' =>
                           /\ Len(rows'[u][s]) <= 1
                           /\ \A o \in Calls : InsertsNext(call'[o].todo, u, s) => rows'[u][s] = <<>>
  BY DEF RowsInv
<1>2. st # Delete(u, s)
  BY StatementKinds, Constant DEF Inserts
<1>3. \A o \in Calls : InsertsNext(call'[o].todo, u, s) => o # c /\ InsertsNext(call[o].todo, u, s)
  BY <1>2, SteppedInserts DEF Inserts
<1>4. st.user \in users /\ Changes(st) /\ Touches(todo, st.user, st.scope)
      /\ InsertsNext(todo, st.user, st.scope) /\ todo = call[c].todo
  BY DEF Inserts, NextIs, Changes
<1>5. CASE u = st.user /\ s = st.scope
  <2>1. ASSUME <<u, s>> \notin overlapped'
        PROVE  Len(rows'[u][s]) <= 1 /\ \A o \in Calls : ~InsertsNext(call'[o].todo, u, s)
    <3>1. <<u, s>> \notin overlapped
      BY <2>1 DEF Inserts, Stepped
    <3>2. rows[u][s] = <<>>
      BY <1>4, <1>5, <3>1 DEF RowsInv
    <3>3. rows'[u][s] = Append(<<>>, st.role)
      BY <1>5, <3>2 DEF Inserts
    <3>4. ASSUME NEW o \in Calls, InsertsNext(call'[o].todo, u, s) PROVE FALSE
      <4>1. o # c /\ InsertsNext(call[o].todo, u, s)
        BY <1>3, <3>4
      <4>2. call[o].todo \in Seq(Statements)
        BY DEF Shape, CallShape
      <4>3. Touches(call[o].todo, u, s)
        BY <4>1, <4>2 DEF InsertsNext, Touches, Changes
      <4>4. QED
        BY <1>4, <1>5, <3>1, <4>1, <4>3 DEF ApartInv
    <3>5. QED
      BY <3>3, <3>4
  <2>2. QED
    BY <1>4, <1>5, <2>1 DEF Inserts
<1>6. CASE ~(u = st.user /\ s = st.scope)
  <2>1. rows'[u][s] = rows[u][s]
    BY <1>6 DEF Inserts
  <2>2. QED
    BY <1>3, <2>1 DEF Inserts, RowsInv, Stepped
<1>7. QED
  BY <1>5, <1>6

-----------------------------------------------------------------------------
(* The super admins. *)
StageOf(todo, from, to, st, rest) ==
  \/ /\ st = Delete(to, Global) /\ rest = Tail(TransferPlan(from, to)) /\ (Admin(to) => Admin(from))
     /\ Len(todo) = 4 /\ Touches(todo, from, Global) /\ Touches(todo, to, Global)
  \/ /\ st = Insert(to, Global, Super) /\ rest = Grant(from, Global, "administrator")
     /\ Len(todo) = 3 /\ Touches(todo, from, Global) /\ Touches(todo, to, Global)
  \/ /\ st = Delete(from, Global) /\ rest = <<Insert(from, Global, "administrator")>>
     /\ Len(todo) = 2 /\ Touches(todo, from, Global)
  \/ st = Insert(from, Global, "administrator") /\ rest = <<>> /\ Len(todo) = 1

(* The four lists a transfer goes through. *)
TransferLists(from, to, four, three, two, one) ==
  /\ TransferPlan(from, to) = four /\ Grant(from, Global, "administrator") = two
  /\ one = <<Insert(from, Global, "administrator")>>
  /\ Tail(four) = three /\ Tail(three) = two /\ Tail(two) = one /\ Tail(one) = <<>>
  /\ Len(four) = 4 /\ Len(three) = 3 /\ Len(two) = 2 /\ Len(one) = 1
  /\ four[1] = Delete(to, Global) /\ three[1] = Insert(to, Global, Super)
  /\ two[1] = Delete(from, Global) /\ one[1] = Insert(from, Global, "administrator")
  /\ Touches(four, from, Global) /\ Touches(four, to, Global)
  /\ Touches(three, from, Global) /\ Touches(three, to, Global) /\ Touches(two, from, Global)

LEMMA TailIs ==
  ASSUME NEW S, NEW s \in Seq(S), NEW t \in Seq(S), Len(s) = Len(t) + 1,
         \A i \in 1 .. Len(t) : t[i] = s[i + 1]
  PROVE  Tail(s) = t
<1>1. s # <<>> /\ Len(t) \in Nat
  OBVIOUS
<1>2. Tail(s) \in Seq(S) /\ Len(Tail(s)) = Len(t)
  BY <1>1
<1>3. \A i \in 1 .. Len(t) : Tail(s)[i] = s[i + 1]
  BY <1>1
<1>4. \A i \in 1 .. Len(Tail(s)) : Tail(s)[i] = t[i]
  BY <1>2, <1>3
<1>5. QED
  BY <1>2, <1>4, SeqEqual

LEMMA ListsOfTransfer ==
  ASSUME NEW from \in Users, NEW to \in Users
  PROVE  \E four, three, two, one : TransferLists(from, to, four, three, two, one)
<1>2. PICK a, b, c, d : /\ a = Delete(to, Global) /\ b = Insert(to, Global, Super)
                        /\ c = Delete(from, Global) /\ d = Insert(from, Global, "administrator")
  OBVIOUS
<1>3. /\ a \in Statements /\ b \in Statements /\ c \in Statements /\ d \in Statements
      /\ Changes(a) /\ OfPair(a, to, Global) /\ Changes(b) /\ OfPair(b, to, Global)
      /\ Changes(c) /\ OfPair(c, from, Global) /\ Changes(d) /\ OfPair(d, from, Global)
  BY <1>2, StatementKinds, Constant DEF Changes, OfPair
<1>4. TransferPlan(from, to) = <<a, b, c, d>> /\ Grant(from, Global, "administrator") = <<c, d>>
  BY <1>2, TransferOf DEF Grant
<1>5. PICK four, three, two, one :
        four = <<a, b, c, d>> /\ three = <<b, c, d>> /\ two = <<c, d>> /\ one = <<d>>
  OBVIOUS
<1>6. /\ four \in Seq(Statements) /\ Len(four) = 4 /\ DOMAIN four = {1, 2, 3, 4}
      /\ four[1] = a /\ four[2] = b /\ four[3] = c /\ four[4] = d
      /\ three \in Seq(Statements) /\ Len(three) = 3 /\ DOMAIN three = {1, 2, 3}
      /\ three[1] = b /\ three[2] = c /\ three[3] = d
      /\ two \in Seq(Statements) /\ Len(two) = 2 /\ DOMAIN two = {1, 2}
      /\ two[1] = c /\ two[2] = d
      /\ one \in Seq(Statements) /\ Len(one) = 1 /\ DOMAIN one = {1} /\ one[1] = d
  BY <1>3, <1>5
<1>7. Tail(four) = three /\ Tail(three) = two /\ Tail(two) = one /\ Tail(one) = <<>>
  <2>1. Tail(four) = three
    <3>1. \A i \in 1 .. Len(three) : three[i] = four[i + 1]
      BY <1>6
    <3>2. four \in Seq(Statements) /\ three \in Seq(Statements) /\ Len(four) = Len(three) + 1
      BY <1>6
    <3>3. QED
      BY <3>1, <3>2, TailIs
  <2>2. Tail(three) = two
    <3>1. \A i \in 1 .. Len(two) : two[i] = three[i + 1]
      BY <1>6
    <3>2. three \in Seq(Statements) /\ two \in Seq(Statements) /\ Len(three) = Len(two) + 1
      BY <1>6
    <3>3. QED
      BY <3>1, <3>2, TailIs
  <2>3. Tail(two) = one
    <3>1. \A i \in 1 .. Len(one) : one[i] = two[i + 1]
      BY <1>6
    <3>2. two \in Seq(Statements) /\ one \in Seq(Statements) /\ Len(two) = Len(one) + 1
      BY <1>6
    <3>3. QED
      BY <3>1, <3>2, TailIs
  <2>4. Tail(one) = <<>>
    <3>1. PICK none : none = <<>>
      OBVIOUS
    <3>2. none \in Seq(Statements) /\ Len(none) = 0
      BY <3>1
    <3>3. one \in Seq(Statements) /\ Len(one) = Len(none) + 1
      BY <1>6, <3>2
    <3>4. \A i \in 1 .. Len(none) : none[i] = one[i + 1]
      BY <3>2
    <3>5. Tail(one) = none
      BY <3>2, <3>3, <3>4, TailIs
    <3>6. QED
      BY <3>1, <3>5
  <2>5. QED
    BY <2>1, <2>2, <2>3, <2>4
<1>8. /\ Touches(four, from, Global) /\ Touches(four, to, Global)
      /\ Touches(three, from, Global) /\ Touches(three, to, Global) /\ Touches(two, from, Global)
  BY <1>3, <1>6 DEF Touches
<1>9. TransferLists(from, to, four, three, two, one)
  BY <1>2, <1>4, <1>5, <1>6, <1>7, <1>8 DEF TransferLists
<1>10. QED
  BY <1>9

LEMMA Stages ==
  ASSUME NEW todo, Transferring(todo), todo # <<>>
  PROVE  \E from, to \in Users : from # to /\ StageOf(todo, from, to, todo[1], Tail(todo))
<1>1. PICK from \in Users, to \in Users :
        /\ from # to
        /\ \/ todo = TransferPlan(from, to) /\ (Admin(to) => Admin(from))
           \/ todo = Tail(TransferPlan(from, to))
           \/ todo = Grant(from, Global, "administrator")
           \/ todo = <<Insert(from, Global, "administrator")>>
  BY DEF Transferring
<1>2. PICK four, three, two, one : TransferLists(from, to, four, three, two, one)
  BY ListsOfTransfer
<1>3. /\ todo = four \/ todo = three \/ todo = two \/ todo = one
      /\ todo = four => (Admin(to) => Admin(from))
  <2>1. /\ Len(four) = 4 /\ Len(three) = 3 /\ Len(two) = 2 /\ Len(one) = 1
        /\ TransferPlan(from, to) = four /\ Tail(four) = three
        /\ Grant(from, Global, "administrator") = two
        /\ <<Insert(from, Global, "administrator")>> = one
    BY <1>2 DEF TransferLists
  <2>2. 4 # 3 /\ 4 # 2 /\ 4 # 1
    OBVIOUS
  <2>3. four # three /\ four # two /\ four # one
    BY <2>1, <2>2, Zenon
  <2>4. QED
    BY <1>1, <2>1, <2>3, Zenon
<1>4. StageOf(todo, from, to, todo[1], Tail(todo))
  BY <1>2, <1>3 DEF TransferLists, StageOf
<1>5. QED
  BY <1>1, <1>4

LEMMA PlansTouch ==
  ASSUME NEW from \in Users, NEW to \in Users
  PROVE  Touches(TransferPlan(from, to), from, Global) /\ Touches(TransferPlan(from, to), to, Global)
<1>1. PICK four, three, two, one : TransferLists(from, to, four, three, two, one)
  BY ListsOfTransfer
<1>2. QED
  BY <1>1 DEF TransferLists

LEMMA DemoterTouches ==
  ASSUME NEW todo, Transferring(todo), Len(todo) = 2, NEW u, todo[1].user = u
  PROVE  Touches(todo, u, Global)
<1>1. todo # <<>>
  OBVIOUS
<1>2. PICK from, to \in Users : StageOf(todo, from, to, todo[1], Tail(todo))
  BY <1>1, Stages
<1>3. todo[1] = Delete(from, Global) /\ Touches(todo, from, Global)
  BY <1>2 DEF StageOf
<1>4. QED
  BY <1>2, <1>3, StatementKinds, Constant

(* Any of the three statements. *)
Writes(c, st) == Creates(c, st) \/ Deletes(c, st) \/ Inserts(c, st)

(* What another request has still to change is not changed meanwhile. *)
LEMMA OthersUnchanged ==
  ASSUME Shape, ApartInv, NEW c \in Calls, NEW todo, NEW st, NextIs(c, todo, st), Writes(c, st),
         ~Crossed, NEW o \in Calls, o # c, NEW u \in Users, Touches(call[o].todo, u, Global)
  PROVE  rows'[u][Global] = rows[u][Global] /\ ~Touches(todo, u, Global)
<1>1. ~Touches(todo, u, Global)
  BY Constant DEF NextIs, ApartInv, Crossed
<1>2. ~(Changes(st) /\ st.user = u /\ st.scope = Global)
  BY <1>1 DEF NextIs
<1>3. QED
  BY <1>1, <1>2, Constant DEF Writes, Creates, Deletes, Inserts, Changes

SafeCall(o) ==
  IF call[o].op = "transfer" THEN Transferring(call[o].todo)
  ELSE \A u \in Users : Admin(u) => ~Touches(call[o].todo, u, Global)

LEMMA OthersSafe ==
  ASSUME Shape, ApartInv, NEW c \in Calls, NEW todo, NEW st, NextIs(c, todo, st), Writes(c, st),
         ~Crossed, NEW o \in Calls, o # c, SafeCall(o)
  PROVE  SafeCall(o)'
<1>1. call'[o] = call[o]
  BY DEF Writes, Creates, Deletes, Inserts, Stepped
<1>2. \A u \in Users : Touches(call[o].todo, u, Global) => (Admin(u)' <=> Admin(u))
  BY OthersUnchanged DEF Admin, Holds
<1>3. CASE call[o].op = "transfer"
  <2>1. PICK mine : mine = call[o].todo
    OBVIOUS
  <2>2. Transferring(mine)
    BY <1>3, <2>1 DEF SafeCall
  <2>3. PICK from, to \in Users :
          /\ from # to
          /\ \/ mine = TransferPlan(from, to) /\ (Admin(to) => Admin(from))
             \/ mine = Tail(TransferPlan(from, to))
             \/ mine = Grant(from, Global, "administrator")
             \/ mine = <<Insert(from, Global, "administrator")>>
             \/ mine = <<>>
    BY <2>2 DEF Transferring
  <2>4. ASSUME mine = TransferPlan(from, to), Admin(to) => Admin(from)
        PROVE  Admin(to)' => Admin(from)'
    <3>1. Touches(mine, from, Global) /\ Touches(mine, to, Global)
      BY <2>3, <2>4, PlansTouch
    <3>2. QED
      BY <1>2, <2>1, <2>4, <3>1
  <2>5. Transferring(mine)'
    BY <2>3, <2>4 DEF Transferring
  <2>6. QED
    BY <1>1, <1>3, <2>1, <2>5 DEF SafeCall
<1>4. CASE call[o].op # "transfer"
  BY <1>1, <1>2, <1>4 DEF SafeCall
<1>5. QED
  BY <1>3, <1>4

(* A role is gained by an insertion only, and lost by a deletion only. *)
LEMMA AdminsAfter ==
  ASSUME Shape, NEW c \in Calls, NEW todo, NEW st, NextIs(c, todo, st), Writes(c, st),
         NEW u \in Users
  PROVE  /\ Admin(u)' => Admin(u) \/ (st.do = "insert" /\ st.user = u /\ st.scope = Global)
         /\ Admin(u) => Admin(u)' \/ (st.do = "delete" /\ st.user = u /\ st.scope = Global)
         /\ st.do = "insert" /\ st.user = u /\ st.scope = Global /\ st.role = Super => Admin(u)'
<1>1. CASE Creates(c, st) \/ ~(st.user = u /\ st.scope = Global)
  <2>1. rows'[u][Global] = rows[u][Global]
    BY <1>1, Constant DEF Writes, Creates, Deletes, Inserts
  <2>2. Admin(u)' <=> Admin(u)
    BY <2>1 DEF Admin, Holds
  <2>3. ~(st.do = "insert" /\ st.user = u /\ st.scope = Global)
    BY <1>1 DEF Creates
  <2>4. QED
    BY <2>2, <2>3
<1>2. CASE Deletes(c, st) /\ st.user = u /\ st.scope = Global
  <2>1. rows'[u][Global] = <<>>
    BY <1>2, Constant DEF Deletes
  <2>2. ~Admin(u)'
    BY <2>1 DEF Admin, Holds, Range
  <2>3. QED
    BY <1>2, <2>2 DEF Deletes
<1>3. CASE Inserts(c, st) /\ st.user = u /\ st.scope = Global
  <2>1. rows'[u][Global] = Append(rows[u][Global], st.role)
    BY <1>3, Constant DEF Inserts
  <2>2. PICK s, t : s = rows[u][Global] /\ t = rows'[u][Global]
    OBVIOUS
  <2>3. /\ s \in Seq(GlobalRoles \cup ProjectRoles)
        /\ st.role \in GlobalRoles \cup ProjectRoles /\ t = Append(s, st.role)
    BY <1>3, <2>1, <2>2, Constant DEF Shape, NextIs, Typed, Inserts
  <2>4. /\ DOMAIN s \subseteq DOMAIN t /\ \A i \in DOMAIN s : t[i] = s[i]
        /\ Len(s) + 1 \in DOMAIN t /\ t[Len(s) + 1] = st.role
    BY <2>3
  <2>5. Admin(u) => Admin(u)'
    BY <2>2, <2>4 DEF Admin, Holds, Range
  <2>6. st.role = Super => Admin(u)'
    BY <2>2, <2>4 DEF Admin, Holds, Range
  <2>7. QED
    BY <1>3, <2>5, <2>6 DEF Inserts
<1>4. QED
  BY <1>1, <1>2, <1>3 DEF Writes

LEMMA OwnSafe ==
  ASSUME Shape, ProperInv, NEW c \in Calls, NEW todo, NEW st, NextIs(c, todo, st), Writes(c, st),
         SafeCall(c), call[c].op # "transfer"
  PROVE  SafeCall(c)'
<1>1. PICK rest : rest = Tail(todo)
  OBVIOUS
<1>2. RestKeeps(todo, rest) /\ call'[c].op # "transfer" /\ call'[c].todo = rest
  BY <1>1, RestOf DEF NextIs, Writes, Creates, Deletes, Inserts, Stepped
<1>3. \A u \in Users : Admin(u) => ~Touches(todo, u, Global)
  BY DEF SafeCall, NextIs
<1>4. ASSUME NEW u \in Users, Admin(u)', Touches(rest, u, Global) PROVE FALSE
  <2>1. Touches(todo, u, Global)
    BY <1>2, <1>4 DEF RestKeeps
  <2>2. st.do = "insert" /\ st.user = u /\ st.scope = Global
    BY <1>3, <1>4, <2>1, AdminsAfter
  <2>3. Once(todo) /\ todo \in Seq(Statements) /\ todo # <<>> /\ st = todo[1]
    BY DEF NextIs, ProperInv, Proper
  <2>4. PICK k \in DOMAIN rest : Changes(rest[k]) /\ OfPair(rest[k], u, Global)
    BY <1>4 DEF Touches
  <2>5. k + 1 \in DOMAIN todo /\ rest[k] = todo[k + 1] /\ 1 \in DOMAIN todo /\ 1 < k + 1
    BY <1>1, <1>2, <2>3, <2>4, Sent DEF RestKeeps
  <2>6. todo[1].do = "delete"
    BY <2>2, <2>3, <2>4, <2>5 DEF Once, Changes
  <2>7. QED
    BY <2>2, <2>3, <2>6
<1>5. QED
  BY <1>2, <1>4 DEF SafeCall

(* A transfer goes on to its next list.                                      *)
LEMMA TransferGoesOn ==
  ASSUME Shape, NEW c \in Calls, NEW todo, NEW st, NextIs(c, todo, st), Writes(c, st),
         NEW from \in Users, NEW to \in Users, from # to, StageOf(todo, from, to, st, Tail(todo))
  PROVE  Transferring(call[c].todo)'
<1>1. /\ Delete(to, Global).user = to /\ Insert(to, Global, Super).user = to
      /\ call'[c].todo = Tail(todo)
  BY StatementKinds, Constant DEF NextIs, Writes, Creates, Deletes, Inserts, Stepped
<1>3. PICK rest : rest = call'[c].todo
  OBVIOUS
<1>4. /\ rest = Tail(todo)
      /\ \/ rest = Tail(TransferPlan(from, to))
         \/ rest = Grant(from, Global, "administrator")
         \/ rest = <<Insert(from, Global, "administrator")>>
         \/ rest = <<>>
  BY <1>1, <1>3 DEF StageOf
<1>5. QED
  BY <1>3, <1>4 DEF Transferring

LEMMA OwnTransferSafe ==
  ASSUME Shape, NEW c \in Calls, NEW todo, NEW st, NextIs(c, todo, st), Writes(c, st),
         SafeCall(c), call[c].op = "transfer"
  PROVE  SafeCall(c)'
<1>1. Transferring(todo) /\ todo # <<>> /\ st = todo[1]
  BY DEF SafeCall, NextIs
<1>2. PICK from, to \in Users : from # to /\ StageOf(todo, from, to, st, Tail(todo))
  BY <1>1, Stages
<1>3. Transferring(call[c].todo)'
  BY <1>2, TransferGoesOn
<1>4. call'[c].op = "transfer"
  BY DEF Writes, Creates, Deletes, Inserts, Stepped
<1>5. QED
  BY <1>3, <1>4 DEF SafeCall

Remains == installed => \E u \in users : Admin(u) /\ \A o \in Calls : ~AboutToDemote(o, u)

(* Whoever keeps or gets the role, and whom no transfer is about to demote. *)
LEMMA StillThere ==
  ASSUME Shape, NEW c \in Calls, NEW todo, NEW st, NextIs(c, todo, st), Writes(c, st),
         NEW u \in users, Admin(u)', ~AboutToDemote(c, u)',
         \A o \in Calls \ {c} : ~AboutToDemote(o, u)
  PROVE  Remains'
<1>1. u \in users'
  BY DEF Writes, Creates, Deletes, Inserts
<1>2. \A o \in Calls : ~AboutToDemote(o, u)'
  BY DEF Writes, Creates, Deletes, Inserts, Stepped, AboutToDemote
<1>3. QED
  BY <1>1, <1>2 DEF Remains

(* A user that the request still changes is not about to be demoted by       *)
(* another one.                                                              *)
LEMMA NotDemoted ==
  ASSUME Shape, ApartInv, NEW c \in Calls, NEW todo, NEW st, NextIs(c, todo, st), Writes(c, st),
         ~Crossed, \A o \in Calls : SafeCall(o), NEW u \in Users, Touches(todo, u, Global)
  PROVE  \A o \in Calls \ {c} : ~AboutToDemote(o, u)
<1>1. SUFFICES ASSUME NEW o \in Calls \ {c}, AboutToDemote(o, u) PROVE FALSE
  OBVIOUS
<1>2. Touches(call[o].todo, u, Global)
  BY <1>1, DemoterTouches DEF AboutToDemote, SafeCall
<1>3. QED
  BY <1>1, <1>2, OthersUnchanged

LEMMA OneRemains ==
  ASSUME Shape, ProperInv, ApartInv, RowsInv, NEW c \in Calls, NEW todo, NEW st,
         NextIs(c, todo, st), Writes(c, st), ~Crossed, \A o \in Calls : SafeCall(o), Remains,
         call[c].op # "transfer"
  PROVE  Remains'
<1>1. call'[c].op # "transfer"
  BY DEF Writes, Creates, Deletes, Inserts, Stepped
<1>2. \A u : ~AboutToDemote(c, u)'
  BY <1>1 DEF AboutToDemote
<1>3. CASE installed
  <2>1. PICK u \in users : Admin(u) /\ \A o \in Calls : ~AboutToDemote(o, u)
    BY <1>3 DEF Remains
  <2>2. u \in Users
    BY DEF Shape
  <2>3. ~(st.do = "delete" /\ st.user = u /\ st.scope = Global)
    <3>1. SUFFICES ASSUME st.do = "delete", st.user = u, st.scope = Global PROVE FALSE
      OBVIOUS
    <3>2. Touches(call[c].todo, u, Global)
      BY <3>1 DEF NextIs, Changes
    <3>3. QED
      BY <2>1, <2>2, <3>2 DEF SafeCall
  <2>4. Admin(u)'
    BY <2>1, <2>2, <2>3, AdminsAfter
  <2>5. QED
    BY <1>2, <2>1, <2>4, StillThere
<1>4. CASE ~installed
  <2>1. SUFFICES ASSUME installed' PROVE Remains'
    BY DEF Remains
  <2>2. st.do = "insert" /\ call[c].op = "bootstrap" /\ Inserts(c, st)
    BY <1>4, <2>1 DEF Writes, Creates, Deletes, Inserts
  <2>3. st.scope = Global /\ st.role = Super
    BY <2>2 DEF ProperInv, Proper, InstallsSuper, NextIs
  <2>4. st.user \in users /\ st.user \in Users /\ Touches(todo, st.user, Global)
    BY <2>2, <2>3 DEF NextIs, Changes
  <2>5. Admin(st.user)'
    BY <2>2, <2>3, <2>4, AdminsAfter
  <2>6. \A o \in Calls \ {c} : ~AboutToDemote(o, st.user)
    BY <2>4, NotDemoted
  <2>7. QED
    BY <1>2, <2>4, <2>5, <2>6, StillThere
<1>5. QED
  BY <1>3, <1>4

(* A transfer: the caller, while it has the role for good, or, if the target *)
(* has no role to lose, who had it before; then the target; and whoever is   *)
(* left when the caller is demoted.                                          *)
LEMMA TransferRemains ==
  ASSUME Shape, ProperInv, ApartInv, RowsInv, NEW c \in Calls, NEW todo, NEW st,
         NextIs(c, todo, st), Writes(c, st), ~Crossed, \A o \in Calls : SafeCall(o), Remains,
         call[c].op = "transfer", installed'
  PROVE  Remains'
<1>1. /\ todo \in Seq(Statements) /\ todo # <<>> /\ st = todo[1] /\ Transferring(todo)
  BY DEF NextIs, SafeCall
<1>2. PICK from, to \in Users : from # to /\ StageOf(todo, from, to, st, Tail(todo))
  BY <1>1, Stages
<1>3. PICK rest : rest = Tail(todo)
  OBVIOUS
<1>4. call'[c].todo = rest /\ Len(rest) = Len(todo) - 1
  BY <1>1, <1>3, Sent DEF NextIs, Writes, Creates, Deletes, Inserts, Stepped
<1>5. /\ Delete(to, Global).user = to /\ Delete(to, Global).do = "delete"
      /\ Insert(to, Global, Super).do = "insert" /\ Insert(to, Global, Super).user = to
      /\ Insert(to, Global, Super).scope = Global /\ Insert(to, Global, Super).role = Super
      /\ Delete(from, Global).do = "delete" /\ Delete(from, Global).user = from
      /\ Insert(from, Global, "administrator").do = "insert"
      /\ Insert(from, Global, "administrator").user = from
      /\ Delete(from, Global).scope = Global
  BY StatementKinds, Constant
<1>6. installed
  BY DEF Writes, Creates, Deletes, Inserts
<1>7. PICK u \in users : Admin(u) /\ \A o \in Calls : ~AboutToDemote(o, u)
  BY <1>6 DEF Remains
<1>8. u \in Users
  BY DEF Shape
<1>9. CASE st = Delete(to, Global) /\ Len(todo) = 4 /\ ~Admin(to)
  <2>1. u # to
    BY <1>7, <1>9
  <2>2. Admin(u)'
    BY <1>5, <1>7, <1>8, <1>9, <2>1, AdminsAfter
  <2>3. ~AboutToDemote(c, u)'
    BY <1>4, <1>9 DEF AboutToDemote
  <2>4. QED
    BY <1>7, <2>2, <2>3, StillThere
<1>10. CASE st = Delete(to, Global) /\ Admin(from) /\ Len(todo) = 4 /\ Touches(todo, from, Global)
  <2>1. Admin(from)'
    BY <1>2, <1>5, <1>10, AdminsAfter
  <2>2. from \in users
    <3>1. rows[from][Global] # <<>>
      BY <1>10 DEF Admin, Holds, Range
    <3>2. QED
      BY <3>1, Constant DEF RowsInv
  <2>3. ~AboutToDemote(c, from)'
    BY <1>4, <1>10 DEF AboutToDemote
  <2>4. \A o \in Calls \ {c} : ~AboutToDemote(o, from)
    BY <1>10, NotDemoted
  <2>5. QED
    BY <2>1, <2>2, <2>3, <2>4, StillThere
<1>11. CASE /\ st = Insert(to, Global, Super) /\ rest = Grant(from, Global, "administrator")
            /\ Touches(todo, to, Global)
  <2>1. Admin(to)'
    BY <1>5, <1>11, AdminsAfter
  <2>2. to \in users
    BY <1>5, <1>11 DEF NextIs
  <2>3. ~AboutToDemote(c, to)'
    <3>1. rest[1] = Delete(from, Global)
      BY <1>11 DEF Grant
    <3>2. QED
      BY <1>2, <1>4, <1>5, <3>1 DEF AboutToDemote
  <2>4. \A o \in Calls \ {c} : ~AboutToDemote(o, to)
    BY <1>11, NotDemoted
  <2>5. QED
    BY <2>1, <2>2, <2>3, <2>4, StillThere
<1>12. CASE st = Delete(from, Global) /\ Len(todo) = 2
  <2>1. u # from
    BY <1>1, <1>5, <1>7, <1>12 DEF AboutToDemote, NextIs
  <2>2. Admin(u)'
    BY <1>5, <1>7, <1>8, <1>12, <2>1, AdminsAfter
  <2>3. ~AboutToDemote(c, u)'
    BY <1>4, <1>12 DEF AboutToDemote
  <2>4. QED
    BY <1>7, <2>2, <2>3, StillThere
<1>13. CASE st = Insert(from, Global, "administrator") /\ rest = <<>>
  <2>1. Admin(u)'
    BY <1>5, <1>7, <1>8, <1>13, AdminsAfter
  <2>2. ~AboutToDemote(c, u)'
    BY <1>4, <1>13 DEF AboutToDemote
  <2>3. QED
    BY <1>7, <2>1, <2>2, StillThere
<1>14. QED
  BY <1>2, <1>3, <1>9, <1>10, <1>11, <1>12, <1>13 DEF StageOf

LEMMA SuperInvIs == SuperInv <=> (~seized /\ ~Crossed => Remains /\ \A o \in Calls : SafeCall(o))
BY DEF SuperInv, Remains, SafeCall

LEMMA SuperStep ==
  ASSUME Shape, ProperInv, ApartInv, RowsInv, SuperInv, NEW c \in Calls, NEW todo, NEW st,
         NextIs(c, todo, st), Writes(c, st)
  PROVE  SuperInv'
<1>1. SUFFICES ASSUME ~seized', ~Crossed' PROVE Remains' /\ \A o \in Calls : SafeCall(o)'
  BY DEF SuperInv, Remains, SafeCall
<1>2. ~seized /\ ~Crossed
  <2>1. seized' = seized /\ overlapped' = overlapped
    BY DEF Writes, Creates, Deletes, Inserts, Stepped
  <2>2. QED
    BY <1>1, <2>1 DEF Crossed
<1>3. Remains /\ \A o \in Calls : SafeCall(o)
  BY <1>2, SuperInvIs
<1>4. \A o \in Calls \ {c} : SafeCall(o)'
  BY <1>2, <1>3, OthersSafe
<1>5. SafeCall(c)'
  BY <1>3, OwnSafe, OwnTransferSafe
<1>6. Remains'
  <2>1. CASE call[c].op # "transfer"
    BY <1>2, <1>3, <2>1, OneRemains
  <2>2. CASE call[c].op = "transfer" /\ installed'
    BY <1>2, <1>3, <2>2, TransferRemains
  <2>3. CASE ~installed'
    BY <2>3 DEF Remains
  <2>4. QED
    BY <2>1, <2>2, <2>3
<1>7. QED
  BY <1>4, <1>5, <1>6

-----------------------------------------------------------------------------
(* The replacements. *)
LEMMA RestOfReplacement ==
  ASSUME NEW todo \in Seq(Statements), todo # <<>>, NEW members, ListOfReplacement(todo, members)
  PROVE  ListOfReplacement(Tail(todo), members)
<1>1. PICK rest : rest = Tail(todo)
  OBVIOUS
<1>2. /\ \A k \in DOMAIN rest : k + 1 \in DOMAIN todo /\ rest[k] = todo[k + 1]
      /\ \A k \in DOMAIN todo : k = 1 \/ (k - 1 \in DOMAIN rest /\ rest[k - 1] = todo[k])
      /\ DOMAIN todo = 1 .. Len(todo) /\ DOMAIN rest = 1 .. Len(rest) /\ Len(todo) \in Nat
  BY <1>1, Sent
<1>3. ASSUME NEW k \in DOMAIN rest
      PROVE  /\ Changes(rest[k]) /\ rest[k].scope = Global
             /\ rest[k].do = "insert" => rest[k].role = Group /\ rest[k].user \in members
             /\ rest[k].do = "delete" /\ rest[k].user \in members =>
                  k + 1 \in DOMAIN rest /\ rest[k + 1] = Insert(rest[k].user, Global, Group)
  <2>1. k + 1 \in DOMAIN todo /\ rest[k] = todo[k + 1] /\ k \in Nat /\ k >= 1
    BY <1>2
  <2>2. k + 2 \in DOMAIN todo => k + 1 \in DOMAIN rest /\ rest[k + 1] = todo[k + 2]
    <3>1. ASSUME k + 2 \in DOMAIN todo
          PROVE  (k + 2) - 1 \in DOMAIN rest /\ rest[(k + 2) - 1] = todo[k + 2]
      BY <1>2, <2>1, <3>1
    <3>2. (k + 2) - 1 = k + 1
      BY <2>1
    <3>3. QED
      BY <3>1, <3>2
  <2>3. (k + 1) + 1 = k + 2
    BY <2>1
  <2>4. QED
    BY <2>1, <2>2, <2>3 DEF ListOfReplacement
<1>4. QED
  BY <1>1, <1>3 DEF ListOfReplacement

LEMMA WritesOn ==
  ASSUME Shape, ProperInv, NEW c \in Calls, NEW todo, NEW st, NextIs(c, todo, st), Writes(c, st),
         Writing(call[c])
  PROVE  Writing(call[c])'
<1>1. PICK rest : rest = Tail(todo)
  OBVIOUS
<1>2. PICK members : members = call[c].members
  OBVIOUS
<1>3. /\ todo \in Seq(Statements) /\ todo # <<>> /\ st = todo[1] /\ todo = call[c].todo
      /\ 1 \in DOMAIN todo
      /\ call'[c].todo = rest /\ call'[c].members = members
      /\ st.user \in Users /\ (st.do = "create" => ~Changes(st))
  BY <1>1, <1>2 DEF NextIs, Writes, Creates, Deletes, Inserts, Stepped, Changes
<1>4. ListOfReplacement(todo, members)
  BY <1>2, <1>3 DEF Writing, ListOfReplacement
<1>5. ListOfReplacement(rest, members)
  BY <1>1, <1>3, <1>4, RestOfReplacement
<1>6. /\ Changes(st) /\ st.scope = Global
      /\ st.do = "insert" => st.role = Group /\ st.user \in members
      /\ st.do = "delete" /\ st.user \in members =>
           2 \in DOMAIN todo /\ todo[2] = Insert(st.user, Global, Group)
  BY <1>3, <1>4 DEF ListOfReplacement
<1>7. \A k \in DOMAIN todo : k = 1 \/ (k - 1 \in DOMAIN rest /\ rest[k - 1] = todo[k])
  BY <1>1, <1>3, Sent
<1>8. ASSUME NEW u \in Users, ~Touches(rest, u, Global)
      PROVE  Holds(u, Global, Group)' <=> u \in members
  <2>1. CASE u # st.user
    <3>1. ~Touches(todo, u, Global)
      BY <1>3, <1>7, <1>8, <2>1 DEF Touches, OfPair
    <3>2. rows'[u][Global] = rows[u][Global]
      BY <2>1, Constant DEF Writes, Creates, Deletes, Inserts
    <3>3. QED
      BY <1>2, <1>3, <3>1, <3>2 DEF Writing, Holds
  <2>2. CASE u = st.user /\ Deletes(c, st)
    <3>1. rows'[u][Global] = <<>>
      BY <1>6, <2>2, Constant DEF Deletes
    <3>2. ~Holds(u, Global, Group)'
      BY <3>1 DEF Holds, Range
    <3>3. ASSUME u \in members PROVE FALSE
      <4>1. 2 \in DOMAIN todo /\ todo[2] = Insert(u, Global, Group)
        BY <1>6, <2>2, <3>3 DEF Deletes
      <4>2. 1 \in DOMAIN rest /\ rest[1] = Insert(u, Global, Group)
        <5>1. 2 - 1 \in DOMAIN rest /\ rest[2 - 1] = todo[2]
          BY <1>7, <4>1
        <5>2. QED
          BY <4>1, <5>1
      <4>3. Changes(rest[1]) /\ OfPair(rest[1], u, Global)
        BY <4>2, StatementKinds, Constant DEF Changes, OfPair
      <4>4. QED
        BY <1>8, <4>2, <4>3 DEF Touches
    <3>4. QED
      BY <3>2, <3>3
  <2>3. CASE u = st.user /\ Inserts(c, st)
    <3>1. st.role = Group /\ u \in members
      BY <1>6, <2>3 DEF Inserts
    <3>2. rows'[u][Global] = Append(rows[u][Global], Group)
      BY <1>6, <2>3, <3>1, Constant DEF Inserts
    <3>3. PICK s, t : s = rows[u][Global] /\ t = rows'[u][Global]
      OBVIOUS
    <3>4. s \in Seq(GlobalRoles \cup ProjectRoles) /\ Group \in GlobalRoles \cup ProjectRoles
      BY <3>3, Constant DEF Shape
    <3>5. t = Append(s, Group)
      BY <3>2, <3>3
    <3>6. Len(s) + 1 \in DOMAIN t /\ t[Len(s) + 1] = Group
      BY <3>4, <3>5
    <3>7. Holds(u, Global, Group)'
      BY <3>3, <3>6 DEF Holds, Range
    <3>8. QED
      BY <3>1, <3>7
  <2>4. ~Creates(c, st)
    BY <1>3, <1>6 DEF Creates
  <2>5. QED
    BY <2>1, <2>2, <2>3, <2>4 DEF Writes
<1>9. QED
  BY <1>3, <1>5, <1>8 DEF Writing, ListOfReplacement

LEMMA GroupStep ==
  ASSUME Shape, ProperInv, GroupInv, NEW c \in Calls, NEW todo, NEW st,
         NextIs(c, todo, st), Writes(c, st)
  PROVE  GroupInv'
<1>1. /\ call[c] # Idle /\ call'[c].alone = call[c].alone /\ call'[c].op = call[c].op
      /\ \A o \in Calls \ {c} : call'[o] = call[o]
      /\ overlapped' = overlapped /\ call'[c].todo = Tail(todo)
  BY Constant DEF NextIs, Writes, Creates, Deletes, Inserts, Stepped
<1>2. ASSUME NEW o \in Calls, call'[o] # Idle, call'[o].alone
      PROVE  o = c /\ \A k \in Calls : k = o \/ call'[k] = Idle
  BY <1>1, <1>2 DEF GroupInv
<1>3. ASSUME call'[c].op = "group", call'[c].alone, overlapped' = {}
      PROVE  /\ ~(call'[c].todo # <<>> /\ AllReads(call'[c].todo))
             /\ Writing(call[c])'
  <2>1. PICK rest : rest = Tail(todo)
    OBVIOUS
  <2>2. /\ todo \in Seq(Statements) /\ todo # <<>> /\ st = todo[1] /\ 1 \in DOMAIN todo
        /\ st.do # "read" /\ todo = call[c].todo
    BY DEF NextIs, Writes, Creates, Deletes, Inserts
  <2>3. ~AllReads(todo)
    BY <2>2 DEF AllReads
  <2>4. Writing(call[c])
    BY <1>1, <1>3, <2>2, <2>3 DEF GroupInv
  <2>5. RestKeeps(todo, rest)
    BY <2>1, <2>2, RestOf DEF NextIs
  <2>6. ASSUME rest # <<>>, AllReads(rest) PROVE FALSE
    <3>1. rest \in Seq(Statements)
      BY <2>5 DEF RestKeeps
    <3>2. 1 \in DOMAIN rest
      BY <2>6, <3>1
    <3>3. \E k \in DOMAIN todo : todo[k].do = "read"
      BY <2>5, <2>6, <3>2 DEF RestKeeps, AllReads
    <3>4. QED
      BY <2>2, <2>3, <3>3 DEF ProperInv, Proper
  <2>7. QED
    BY <1>1, <2>1, <2>4, <2>6, WritesOn
<1>4. QED
  BY <1>2, <1>3, Constant DEF GroupInv

-----------------------------------------------------------------------------
(* The role of a user is read; after the last one the replacement has its    *)
(* list.                                                                     *)
SeenAfter(before, u, seen) ==
  \E r : /\ IF rows[u][Global] = <<>> THEN r = None ELSE r \in Range(rows[u][Global])
         /\ seen = before \cup (IF r = Group THEN {u} ELSE {})

Reads(c, todo, st, next) ==
  /\ NextIs(c, todo, st) /\ st.do = "read" /\ AllReads(todo)
  /\ call[c].op = "group" /\ next.op = "group" /\ Fits(c, next) /\ Harmless(next)
  /\ next.members = call[c].members /\ next.alone = call[c].alone
  /\ \A o \in Calls \ {c} : call'[o] = call[o]
  /\ SeenAfter(call[c].seen, st.user, next.seen)
  /\ Tail(todo) # <<>> => next.todo = Tail(todo)
  /\ Tail(todo) = <<>> => next.todo = ReplacePlan(next.members, next.seen)

(* What a replacement may go on with. *)
GoesOn(plan) ==
  /\ plan \in Seq(Statements) /\ Orderly(plan) /\ Once(plan) /\ Known(plan, users)
  /\ (\E k \in DOMAIN plan : plan[k].do = "read") => AllReads(plan)
  /\ plan # <<>> => plan[1].do # "insert"

LEMMA ReadGoesOn ==
  ASSUME Shape, ProperInv, NEW c \in Calls, NEW todo, NEW st, NextIs(c, todo, st),
         AllReads(todo), Tail(todo) # <<>>
  PROVE  GoesOn(Tail(todo))
<1>1. PICK rest : rest = Tail(todo)
  OBVIOUS
<1>2. todo \in Seq(Statements) /\ todo # <<>> /\ todo = call[c].todo /\ st = todo[1]
      /\ 1 \in DOMAIN todo /\ call[c].op = "group"
  BY DEF NextIs, AllReads, ProperInv, Proper
<1>3. RestKeeps(todo, rest)
  BY <1>1, <1>2, RestOf DEF NextIs
<1>4. Once(todo) /\ Known(todo, users)
  BY <1>2 DEF ProperInv, Proper
<1>5. Known(rest, users)
  BY <1>2, <1>3, <1>4 DEF RestKeeps, AllReads
<1>6. rest \in Seq(Statements) /\ Orderly(rest) /\ Once(rest) /\ AllReads(rest)
  BY <1>3, <1>4 DEF RestKeeps
<1>7. rest[1].do # "insert"
  BY <1>1, <1>6 DEF AllReads
<1>8. QED
  BY <1>1, <1>5, <1>6, <1>7 DEF GoesOn

LEMMA WriteGoesOn ==
  ASSUME Shape, NEW members \in SUBSET users, NEW seen \in SUBSET users
  PROVE  GoesOn(ReplacePlan(members, seen))
<1>1. /\ IsFiniteSet(members) /\ IsFiniteSet(seen)
      /\ members \in SUBSET Users /\ seen \in SUBSET Users
  BY FS_Subset DEF Shape
<1>2. PICK plan : plan = ReplacePlan(members, seen)
  OBVIOUS
<1>3. /\ plan \in Seq(Statements) /\ Orderly(plan) /\ Once(plan)
      /\ Known(plan, members \cup seen)
      /\ \A k \in DOMAIN plan : Changes(plan[k]) /\ (k = 1 => plan[k].do = "delete")
  BY <1>1, <1>2, ReplaceOf
<1>4. Known(plan, users)
  BY <1>3 DEF Known
<1>5. \A k \in DOMAIN plan : plan[k].do # "read"
  BY <1>3 DEF Changes
<1>6. plan # <<>> => plan[1].do # "insert"
  BY <1>3
<1>7. QED
  BY <1>2, <1>3, <1>4, <1>5, <1>6 DEF GoesOn

LEMMA ReadEffect ==
  ASSUME Shape, ProperInv, RowsInv, NEW c \in Calls, ReadRole(c)
  PROVE  \E todo, st, next : Reads(c, todo, st, next)
<1>1. call[c].todo # <<>> /\ Stmt(c).do = "read"
  BY DEF ReadRole, Sends
<1>2. PICK todo, st : NextIs(c, todo, st)
  BY <1>1, SendsNext
<1>3. /\ todo \in Seq(Statements) /\ todo # <<>> /\ todo = call[c].todo /\ st = todo[1]
      /\ 1 \in DOMAIN todo /\ st.do = "read" /\ st = Stmt(c) /\ st.user \in users
  BY <1>1, <1>2 DEF NextIs
<1>4. call[c].op = "group" /\ AllReads(todo)
  BY <1>3 DEF ProperInv, Proper
<1>5. PICK p : p = call[c]
  OBVIOUS
<1>6. /\ p \in CallShape /\ p.members \in SUBSET users /\ p.seen \in SUBSET users
      /\ p.op = "group" /\ p.todo = todo
  BY <1>3, <1>4, <1>5 DEF Shape, ProperInv, Proper
<1>7. PICK r, seen, plan :
        /\ IF rows[st.user][Global] = <<>> THEN r = None ELSE r \in Range(rows[st.user][Global])
        /\ seen = p.seen \cup (IF r = Group THEN {st.user} ELSE {})
        /\ plan = IF Tail(todo) = <<>> THEN ReplacePlan(p.members, seen) ELSE Tail(todo)
        /\ call' = [call EXCEPT ![c] = [p EXCEPT !.todo = plan, !.seen = seen]]
        /\ Note(plan)
  <2>1. PICK r \in IF rows[Stmt(c).user][Global] = <<>> THEN {None}
                   ELSE Range(rows[Stmt(c).user][Global]) :
          \E seen, plan :
            /\ seen = call[c].seen \cup (IF r = Group THEN {Stmt(c).user} ELSE {})
            /\ plan = IF Tail(call[c].todo) = <<>> THEN ReplacePlan(call[c].members, seen)
                      ELSE Tail(call[c].todo)
            /\ call' = [call EXCEPT ![c] = [call[c] EXCEPT !.todo = plan, !.seen = seen]]
            /\ Note(plan)
    BY DEF ReadRole
  <2>2. IF rows[st.user][Global] = <<>> THEN r = None ELSE r \in Range(rows[st.user][Global])
    BY <1>3, <2>1
  <2>3. QED
    BY <1>3, <1>5, <2>1, <2>2
<1>8. seen \in SUBSET users /\ SeenAfter(p.seen, st.user, seen)
  BY <1>3, <1>6, <1>7 DEF SeenAfter
<1>9. GoesOn(plan)
  BY <1>2, <1>4, <1>6, <1>7, <1>8, ReadGoesOn, WriteGoesOn
<1>10. plan \in Seq(Statements) /\ Orderly(plan)
  BY <1>9 DEF GoesOn
<1>11. PICK next : next = [p EXCEPT !.todo = plan, !.seen = seen]
  OBVIOUS
<1>12. /\ next \in CallShape /\ next.op = "group" /\ next.todo = plan /\ next.seen = seen
       /\ next.members = p.members /\ next.alone = p.alone
  BY <1>6, <1>8, <1>10, <1>11 DEF CallShape, Shape
<1>13. /\ call' \in [Calls -> CallShape] /\ call'[c] = next
       /\ \A o \in Calls \ {c} : call'[o] = call[o]
  BY <1>7, <1>11, <1>12 DEF Shape
<1>14. /\ overlapped \subseteq overlapped' /\ overlapped' \subseteq Users \X Scopes
       /\ \A o \in Calls : \A u, s :
            Touches(plan, u, s) /\ Touches(call[o].todo, u, s) => <<u, s>> \in overlapped'
  <2>1. overlapped' = overlapped \cup
          (Changed(plan) \cap UNION {Changed(call[o].todo) : o \in Calls})
    BY <1>7 DEF Note
  <2>2. QED
    BY <1>10, <2>1, Noted
<1>15. /\ seized' \in BOOLEAN /\ (seized => seized')
       /\ \A u \in Users : Admin(u) /\ Touches(plan, u, Global) => seized'
  BY <1>7, <1>10, ChangedPairs DEF Note, Admin, Super, Shape
<1>16. users' = users /\ rows' = rows /\ complete' = complete /\ installed' = installed
  BY DEF ReadRole
<1>17. Proper(next, users)
  BY <1>6, <1>8, <1>9, <1>12 DEF Proper, GoesOn
<1>18. Fits(c, next)
  BY <1>9, <1>12, <1>13, <1>14, <1>15, <1>16, <1>17 DEF Fits, GoesOn
<1>19. Harmless(next)
  BY <1>12, <1>15 DEF Harmless
<1>20. Reads(c, todo, st, next)
  BY <1>2, <1>3, <1>4, <1>5, <1>7, <1>8, <1>12, <1>13, <1>18, <1>19 DEF Reads
<1>21. QED
  BY <1>20

(* Where a user has one row at most, the role read is the user's role. *)
LEMMA SeenIsHeld ==
  ASSUME Shape, RowsInv, overlapped = {}, NEW u \in Users, NEW before, NEW seen,
         SeenAfter(before, u, seen)
  PROVE  seen = before \cup (IF Holds(u, Global, Group) THEN {u} ELSE {})
<1>1. PICK mine : mine = rows[u][Global]
  OBVIOUS
<1>2. mine \in Seq(GlobalRoles \cup ProjectRoles) /\ Len(mine) <= 1
  BY <1>1, Constant DEF Shape, RowsInv
<1>3. PICK r : /\ IF mine = <<>> THEN r = None ELSE r \in Range(mine)
               /\ seen = before \cup (IF r = Group THEN {u} ELSE {})
  BY <1>1 DEF SeenAfter
<1>4. Holds(u, Global, Group) <=> Group \in Range(mine)
  BY <1>1 DEF Holds
<1>5. CASE mine = <<>>
  <2>1. Group \notin Range(mine) /\ r # Group
    BY <1>3, <1>5, Constant DEF Range
  <2>2. QED
    BY <1>3, <1>4, <2>1
<1>6. CASE mine # <<>>
  <2>1. DOMAIN mine = {1}
    <3>1. Len(mine) \in Nat /\ Len(mine) # 0
      BY <1>2, <1>6, EmptySeq
    <3>2. PICK n : n = Len(mine)
      OBVIOUS
    <3>3. n \in Nat /\ n # 0 /\ n <= 1
      BY <1>2, <3>1, <3>2
    <3>4. n = 1
      BY <3>3
    <3>5. DOMAIN mine = 1 .. n
      BY <1>2, <3>2, LenProperties
    <3>6. QED
      BY <3>4, <3>5
  <2>2. Range(mine) = {mine[1]}
    BY <2>1 DEF Range
  <2>3. r = Group <=> Group \in Range(mine)
    BY <1>3, <1>6, <2>2
  <2>4. QED
    BY <1>3, <1>4, <2>3
<1>7. QED
  BY <1>5, <1>6

LEMMA ReadsOn ==
  ASSUME Shape, ProperInv, RowsInv, overlapped = {}, NEW c \in Calls, NEW todo, NEW st, NEW next,
         Reads(c, todo, st, next), Reading(call[c])
  PROVE  IF next.todo # <<>> /\ AllReads(next.todo) THEN Reading(next) ELSE Writing(next)
<1>1. PICK rest : rest = Tail(todo)
  OBVIOUS
<1>2. PICK u : u = st.user
  OBVIOUS
<1>3. /\ todo \in Seq(Statements) /\ todo # <<>> /\ todo = call[c].todo /\ st = todo[1]
      /\ u \in Users /\ AllReads(todo) /\ Orderly(todo)
      /\ next.members \in SUBSET users /\ next.seen \in SUBSET users
  BY <1>2 DEF Reads, NextIs, Fits, Proper
<1>4. next.seen = call[c].seen \cup (IF Holds(u, Global, Group) THEN {u} ELSE {})
  <2>1. SeenAfter(call[c].seen, u, next.seen)
    BY <1>2 DEF Reads
  <2>2. QED
    BY <1>3, <2>1, SeenIsHeld
<1>5. next.seen \subseteq Holders(Group)
  BY <1>3, <1>4 DEF Reading, Holders
<1>6. ASSUME NEW v \in Holders(Group)
      PROVE  v \in next.seen \/ \E k \in DOMAIN rest : rest[k].user = v
  <2>1. v \in call[c].seen \/ \E k \in DOMAIN todo : todo[k].user = v
    BY <1>3, <1>6 DEF Reading
  <2>2. \A k \in DOMAIN todo : k = 1 \/ (k - 1 \in DOMAIN rest /\ rest[k - 1] = todo[k])
    BY <1>1, <1>3, Sent
  <2>3. v = u => v \in next.seen
    BY <1>4, <1>6 DEF Holders
  <2>4. QED
    BY <1>2, <1>3, <1>4, <2>1, <2>2, <2>3
<1>7. CASE rest # <<>>
  <2>1. next.todo = rest
    BY <1>1, <1>7 DEF Reads
  <2>2. AllReads(rest)
    BY <1>1, <1>3, RestOf DEF RestKeeps
  <2>3. Reading(next)
    BY <1>5, <1>6, <2>1 DEF Reading
  <2>4. QED
    BY <1>7, <2>1, <2>2, <2>3
<1>8. CASE rest = <<>>
  <2>1. PICK members, seen, plan : members = next.members /\ seen = next.seen /\ plan = next.todo
    OBVIOUS
  <2>2. /\ IsFiniteSet(members) /\ IsFiniteSet(seen)
        /\ members \in SUBSET Users /\ seen \in SUBSET Users
    BY <1>3, <2>1, FS_Subset DEF Shape
  <2>3. plan = ReplacePlan(members, seen)
    BY <1>1, <1>8, <2>1 DEF Reads
  <2>4. /\ ListOfReplacement(plan, members)
        /\ \A k \in DOMAIN plan : Changes(plan[k])
        /\ \A v \in Users : (v \in members <=> v \notin seen) => Touches(plan, v, Global)
        /\ plan \in Seq(Statements)
    BY <2>2, <2>3, ReplaceOf
  <2>5. \A v \in Users : Holds(v, Global, Group) <=> v \in seen
    BY <1>5, <1>6, <1>8, <2>1 DEF Holders
  <2>6. Writing(next)
    BY <2>1, <2>4, <2>5 DEF Writing, ListOfReplacement
  <2>7. plan # <<>> => ~AllReads(plan)
    BY <2>4 DEF AllReads, Changes
  <2>8. QED
    BY <2>1, <2>6, <2>7
<1>9. QED
  BY <1>7, <1>8

LEMMA ReadGroup ==
  ASSUME Shape, ProperInv, RowsInv, GroupInv, NEW c \in Calls, NEW todo, NEW st, NEW next,
         Reads(c, todo, st, next)
  PROVE  GroupInv'
<1>1. /\ call'[c] = next /\ rows' = rows /\ call[c] # Idle /\ next.alone = call[c].alone
      /\ call[c].op = "group" /\ call[c].todo # <<>> /\ AllReads(call[c].todo)
      /\ \A o \in Calls \ {c} : call'[o] = call[o]
      /\ overlapped \subseteq overlapped'
  BY Constant DEF Reads, Fits, NextIs
<1>2. ASSUME NEW o \in Calls, call'[o] # Idle, call'[o].alone
      PROVE  o = c /\ \A k \in Calls : k = o \/ call'[k] = Idle
  BY <1>1, <1>2 DEF GroupInv
<1>3. ASSUME call'[c].alone, overlapped' = {}
      PROVE  IF call'[c].todo # <<>> /\ AllReads(call'[c].todo)
             THEN Reading(call[c])' ELSE Writing(call[c])'
  <2>1. overlapped = {} /\ Reading(call[c])
    BY <1>1, <1>3 DEF GroupInv
  <2>2. PICK q : q = call'[c]
    OBVIOUS
  <2>3. IF q.todo # <<>> /\ AllReads(q.todo) THEN Reading(q) ELSE Writing(q)
    BY <1>1, <2>1, <2>2, ReadsOn
  <2>4. /\ \A u \in Users : \A s, r : Holds(u, s, r)' <=> Holds(u, s, r)
        /\ Holders(Group)' = Holders(Group)
    BY <1>1 DEF Holds, Holders
  <2>5. Reading(q) => Reading(call[c])'
    BY <2>2, <2>4 DEF Reading
  <2>6. Writing(q) => Writing(call[c])'
    BY <2>2, <2>4 DEF Writing
  <2>7. QED
    BY <2>2, <2>3, <2>5, <2>6
<1>4. QED
  BY <1>2, <1>3, Constant DEF GroupInv

-----------------------------------------------------------------------------
(* Each kind of step keeps the invariant. *)
LEMMA BeginKeeps ==
  ASSUME IInv, NEW c \in Calls, Begun(c)
  PROVE  IInv'
<1>1. PICK next : Started(c, next) /\ Harmless(next) /\ Replaces(next)
  BY DEF Begun
<1>2. Fits(c, next)
  BY <1>1 DEF Started
<1>3. Shape' /\ ProperInv'
  BY <1>2, FitsShape DEF IInv
<1>4. ApartInv' /\ RowsInv'
  BY <1>2, FitsRows DEF IInv
<1>5. SuperInv'
  BY <1>1, <1>2, FitsSuper DEF IInv
<1>6. GroupInv'
  BY <1>1, StartedGroup DEF IInv
<1>7. QED
  BY <1>3, <1>4, <1>5, <1>6 DEF IInv

LEMMA ReadKeeps ==
  ASSUME IInv, NEW c \in Calls, ReadRole(c)
  PROVE  IInv'
<1>1. PICK todo, st, next : Reads(c, todo, st, next)
  BY ReadEffect DEF IInv
<1>2. Fits(c, next) /\ Harmless(next)
  BY <1>1 DEF Reads
<1>3. Shape' /\ ProperInv'
  BY <1>2, FitsShape DEF IInv
<1>4. ApartInv' /\ RowsInv'
  BY <1>2, FitsRows DEF IInv
<1>5. SuperInv'
  BY <1>2, FitsSuper DEF IInv
<1>6. GroupInv'
  BY <1>1, ReadGroup DEF IInv
<1>7. QED
  BY <1>3, <1>4, <1>5, <1>6 DEF IInv

LEMMA WriteKeeps ==
  ASSUME IInv, NEW c \in Calls, InsertUser(c) \/ DeleteRows(c) \/ InsertRow(c)
  PROVE  IInv'
<1>1. call[c].todo # <<>>
  BY DEF InsertUser, DeleteRows, InsertRow, Sends
<1>2. PICK todo, st : NextIs(c, todo, st)
  BY <1>1, SendsNext DEF IInv
<1>3. Writes(c, st)
  BY <1>2, CreateEffect, DeleteEffect, InsertEffect DEF IInv, Writes
<1>4. Shape' /\ Stepped(c)
  BY <1>3 DEF Writes, Creates, Deletes, Inserts
<1>5. /\ users \subseteq users'
      /\ st.do = "create" => st.user \in users'
  BY <1>3 DEF Writes, Creates, Deletes, Inserts
<1>6. ProperInv' /\ ApartInv'
  BY <1>2, <1>4, <1>5, SteppedProper DEF IInv
<1>7. RowsInv'
  BY <1>2, <1>3, CreateRows, DeleteRowsKeep, InsertRowsKeep DEF IInv, Writes
<1>8. SuperInv'
  BY <1>2, <1>3, SuperStep DEF IInv
<1>9. GroupInv'
  BY <1>2, <1>3, GroupStep DEF IInv
<1>10. QED
  BY <1>4, <1>6, <1>7, <1>8, <1>9 DEF IInv

(* Requests end, or are lost: nothing else changes.                          *)
Drops ==
  /\ users' = users /\ rows' = rows /\ installed' = installed
  /\ overlapped' = overlapped /\ seized' = seized /\ complete' \in BOOLEAN
  /\ call' \in [Calls -> CallShape] /\ \A o \in Calls : call'[o] \in {call[o], Idle}

LEMMA IdleHasNothing ==
  /\ Proper(Idle, users) /\ \A u, s : ~Touches(Idle.todo, u, s) /\ ~InsertsNext(Idle.todo, u, s)
<1>1. /\ Idle.todo = <<>> /\ Idle.members = {} /\ Idle.seen = {} /\ Idle.op = "idle"
      /\ DOMAIN <<>> = {}
  BY Constant
<1>2. Orderly(Idle.todo) /\ Once(Idle.todo) /\ Known(Idle.todo, users)
  BY <1>1 DEF Orderly, Once, Known
<1>3. Proper(Idle, users)
  BY <1>1, <1>2 DEF Proper
<1>4. QED
  BY <1>1, <1>3 DEF Touches, InsertsNext

LEMMA DropKeeps ==
  ASSUME IInv, Drops
  PROVE  IInv'
<1>1. /\ Shape /\ ProperInv /\ ApartInv /\ RowsInv /\ SuperInv /\ GroupInv
      /\ users' = users /\ rows' = rows /\ installed' = installed
      /\ overlapped' = overlapped /\ seized' = seized
      /\ \A o \in Calls : call'[o] = call[o] \/ call'[o] = Idle
  BY DEF IInv, Drops
<1>2. Shape'
  BY DEF IInv, Shape, Drops
<1>3. ProperInv'
  <2>1. SUFFICES ASSUME NEW o \in Calls PROVE Proper(call'[o], users')
    BY DEF ProperInv
  <2>2. PICK q : q = call'[o]
    OBVIOUS
  <2>3. Proper(q, users)
    BY <1>1, <2>2, IdleHasNothing DEF ProperInv
  <2>4. QED
    BY <1>1, <2>2, <2>3
<1>4. \A o \in Calls : \A u, s :
        /\ Touches(call'[o].todo, u, s) => Touches(call[o].todo, u, s)
        /\ InsertsNext(call'[o].todo, u, s) => InsertsNext(call[o].todo, u, s)
  BY <1>1, IdleHasNothing
<1>5. ApartInv'
  BY <1>1, <1>4 DEF ApartInv
<1>6. RowsInv'
  BY <1>1, <1>4 DEF RowsInv
<1>7. \A u \in Users : \A s, r : Holds(u, s, r)' <=> Holds(u, s, r)
  BY <1>1 DEF Holds
<1>8. SuperInv'
  <2>1. SUFFICES ASSUME ~seized', ~Crossed' PROVE Remains' /\ \A o \in Calls : SafeCall(o)'
    BY DEF SuperInv, Remains, SafeCall
  <2>2. ~seized /\ ~Crossed
    BY <1>1, <2>1 DEF Crossed
  <2>3. Remains /\ \A o \in Calls : SafeCall(o)
    BY <1>1, <2>2, SuperInvIs
  <2>4. \A u \in Users : Admin(u)' <=> Admin(u)
    BY <1>7 DEF Admin
  <2>5. \A o \in Calls : \A u : AboutToDemote(o, u)' => AboutToDemote(o, u)
    BY <1>1, Constant DEF AboutToDemote
  <2>6. Remains'
    <3>1. \A u \in users : u \in Users
      BY <1>1 DEF Shape
    <3>2. QED
      BY <1>1, <2>3, <2>4, <2>5, <3>1 DEF Remains
  <2>7. ASSUME NEW o \in Calls PROVE SafeCall(o)'
    <3>1. CASE call'[o].op = "transfer"
      <4>1. PICK mine : mine = call'[o].todo
        OBVIOUS
      <4>2. Transferring(mine)
        BY <1>1, <2>3, <3>1, <4>1, Constant DEF SafeCall
      <4>3. Transferring(mine)'
        BY <2>4, <4>2 DEF Transferring
      <4>4. QED
        BY <3>1, <4>1, <4>3 DEF SafeCall
    <3>2. CASE call'[o].op # "transfer"
      <4>1. \A u \in Users : Admin(u) => ~Touches(call'[o].todo, u, Global)
        BY <1>1, <2>3, <3>2, IdleHasNothing DEF SafeCall
      <4>2. QED
        BY <2>4, <3>2, <4>1 DEF SafeCall
    <3>3. QED
      BY <3>1, <3>2
  <2>8. QED
    BY <2>6, <2>7
<1>9. GroupInv'
  <2>1. ASSUME NEW o \in Calls, call'[o] # Idle, call'[o].alone
        PROVE  \A k \in Calls : k = o \/ call'[k] = Idle
    BY <1>1, <2>1 DEF GroupInv
  <2>2. ASSUME NEW o \in Calls, call'[o].op = "group", call'[o].alone, overlapped' = {}
        PROVE  IF call'[o].todo # <<>> /\ AllReads(call'[o].todo)
               THEN Reading(call[o])' ELSE Writing(call[o])'
    <3>1. PICK q : q = call'[o]
      OBVIOUS
    <3>2. q = call[o]
      BY <1>1, <2>2, <3>1, Constant
    <3>3. IF q.todo # <<>> /\ AllReads(q.todo) THEN Reading(q) ELSE Writing(q)
      BY <1>1, <2>2, <3>1, <3>2 DEF GroupInv
    <3>4. Holders(Group)' = Holders(Group)
      BY <1>7 DEF Holders
    <3>5. Reading(q) => Reading(call[o])'
      BY <3>1, <3>4 DEF Reading
    <3>6. Writing(q) => Writing(call[o])'
      BY <1>7, <3>1 DEF Writing
    <3>7. QED
      BY <3>1, <3>3, <3>5, <3>6
  <2>3. QED
    BY <2>1, <2>2 DEF GroupInv
<1>10. QED
  BY <1>2, <1>3, <1>5, <1>6, <1>8, <1>9 DEF IInv

LEMMA EndsAreDrops ==
  ASSUME Shape, \/ CloseBootstrap \/ Restart \/ UNCHANGED vars
                \/ \E c \in Calls : Answer(c) \/ StatementFails(c)
  PROVE  Drops
<1>1. Idle \in CallShape /\ call \in [Calls -> CallShape] /\ complete \in BOOLEAN
  BY Constant DEF Shape
<1>2. CASE CloseBootstrap \/ UNCHANGED vars
  BY <1>1, <1>2 DEF CloseBootstrap, vars, history, Drops
<1>3. CASE Restart
  BY <1>1, <1>3 DEF Restart, history, Drops
<1>4. ASSUME NEW c \in Calls, Answer(c) \/ StatementFails(c) PROVE Drops
  <2>1. call' = [call EXCEPT ![c] = Idle]
    BY <1>4 DEF Answer, StatementFails
  <2>2. call' \in [Calls -> CallShape] /\ \A o \in Calls : call'[o] \in {call[o], Idle}
    BY <1>1, <2>1
  <2>3. complete' \in BOOLEAN
    BY <1>1, <1>4 DEF Answer, StatementFails
  <2>4. QED
    BY <1>4, <2>2, <2>3 DEF Answer, StatementFails, history, Drops
<1>5. QED
  BY <1>2, <1>3, <1>4

-----------------------------------------------------------------------------
LEMMA InitInv == Init => Inv
<1>1. SUFFICES ASSUME Init PROVE Inv
  OBVIOUS
<1>2. /\ users = {} /\ call = [c \in Calls |-> Idle] /\ overlapped = {}
      /\ complete = FALSE /\ installed = FALSE /\ seized = FALSE
      /\ rows = [u \in Users |-> [s \in Scopes |-> <<>>]]
  BY <1>1 DEF Init
<1> PICK R : R = Seq(GlobalRoles \cup ProjectRoles)
  OBVIOUS
<1> PICK none : none = [s \in Scopes |-> <<>>]
  OBVIOUS
<1>3. none \in [Scopes -> R] /\ \A s \in Scopes : none[s] = <<>>
  <2>1. <<>> \in R
    OBVIOUS
  <2>2. QED
    BY <2>1
<1>4. rows \in [Users -> [Scopes -> R]] /\ \A u \in Users, s \in Scopes : rows[u][s] = <<>>
  <2>1. rows = [u \in Users |-> none]
    BY <1>2
  <2>2. QED
    BY <1>3, <2>1
<1>5. Shape
  BY <1>2, <1>4, FS_EmptySet, Constant DEF Shape
<1>6. \A c \in Calls : call[c] = Idle
  BY <1>2
<1>7. ProperInv /\ ApartInv /\ RowsInv
  BY <1>2, <1>4, <1>6, IdleHasNothing, Constant DEF ProperInv, ApartInv, RowsInv
<1>8. SuperInv
  BY <1>2, <1>6, IdleHasNothing, Constant DEF SuperInv
<1>9. GroupInv
  BY <1>2, <1>6, Constant DEF GroupInv
<1>10. claims = {}
  BY <1>1 DEF Init
<1>11. QED
  BY <1>5, <1>7, <1>8, <1>9, <1>10 DEF IInv, Inv

(* The set of tokens changes by itself: nothing else does.                   *)
LEMMA TokensAreDrops ==
  ASSUME Shape, NEW u \in Users, TokenIssued(u) \/ TokenExpires(u)
  PROVE  Drops
BY DEF TokenIssued, TokenExpires, history, Drops, Shape

LEMMA StepKeeps ==
  ASSUME Inv, \/ CloseBootstrap \/ Restart \/ UNCHANGED vars
              \/ \E c \in Calls : CallStep(c)
              \/ \E u \in Users : TokenIssued(u) \/ TokenExpires(u)
  PROVE  IInv' /\ users \subseteq users'
<1>1. IInv /\ claims \subseteq users /\ Shape /\ RowsInv
  BY DEF Inv, IInv
<1>2. ASSUME Drops PROVE IInv' /\ users \subseteq users'
  BY <1>1, <1>2, DropKeeps DEF Drops
<1>3. ASSUME NEW c \in Calls, Begun(c) PROVE IInv' /\ users \subseteq users'
  <2>1. users' = users
    BY <1>3 DEF Begun, Started, Fits
  <2>2. QED
    BY <1>1, <1>3, <2>1, BeginKeeps
<1>4. CASE \/ CloseBootstrap \/ Restart \/ UNCHANGED vars
           \/ \E c \in Calls : Answer(c) \/ StatementFails(c)
  BY <1>1, <1>2, <1>4, EndsAreDrops
<1>5. CASE \E u \in Users : TokenIssued(u) \/ TokenExpires(u)
  BY <1>1, <1>2, <1>5, TokensAreDrops
<1>6. ASSUME NEW c \in Calls, CallStep(c) PROVE IInv' /\ users \subseteq users'
  <2>1. CASE \E u \in Users : BeginBootstrap(c, u) \/ BeginCreate(c, u)
    BY <1>1, <1>3, <2>1, BootstrapBegins, CreateBegins
  <2>2. CASE \E u \in Users, s \in Scopes : BeginGrant(c, u, s) \/ BeginRevoke(c, u, s)
    BY <1>1, <1>3, <2>2, GrantBegins, RevokeBegins
  <2>3. CASE \E from, to \in Users : BeginTransfer(c, from, to)
    BY <1>1, <1>3, <2>3, TransferBegins
  <2>4. CASE BeginReplaceGroup(c)
    BY <1>1, <1>3, <2>4, ReplaceBegins
  <2>5. CASE ReadRole(c)
    BY <1>1, <2>5, ReadKeeps DEF ReadRole
  <2>6. CASE InsertUser(c) \/ DeleteRows(c) \/ InsertRow(c)
    BY <1>1, <2>6, WriteKeeps DEF InsertUser, DeleteRows, InsertRow
  <2>7. CASE Answer(c) \/ StatementFails(c)
    BY <1>4, <2>7
  <2>8. QED
    BY <1>6, <2>1, <2>2, <2>3, <2>4, <2>5, <2>6, <2>7 DEF CallStep
<1>7. QED
  BY <1>4, <1>5, <1>6

LEMMA NextInv == Inv /\ [Next]_vars => Inv'
<1>1. SUFFICES ASSUME Inv, [Next]_vars PROVE Inv'
  OBVIOUS
<1>2. \/ CloseBootstrap \/ Restart \/ UNCHANGED vars
      \/ \E c \in Calls : CallStep(c)
      \/ \E u \in Users : TokenIssued(u) \/ TokenExpires(u)
  BY <1>1 DEF Next
<1>3. IInv' /\ users \subseteq users'
  BY <1>1, <1>2, StepKeeps
<1>4. claims' \subseteq users'
  <2>1. claims \subseteq users'
    BY <1>1, <1>3 DEF Inv
  <2>2. CASE UNCHANGED claims
    BY <2>1, <2>2
  <2>3. ASSUME NEW u \in Users, TokenIssued(u) \/ TokenExpires(u) PROVE claims' \subseteq users'
    BY <1>3, <2>1, <2>3 DEF TokenIssued, TokenExpires
  <2>4. QED
    BY <1>1, <2>2, <2>3 DEF Next, vars
<1>5. QED
  BY <1>3, <1>4 DEF Inv

(* The tables and the requests under way have the shapes the code gives      *)
(* them: a request's list holds the four kinds of statement and nothing else.*)
THEOREM TypeCorrect == Spec => []TypeOK
<1>1. Inv => TypeOK
  BY DEF Inv, IInv, Shape, CallShape, Ops, TypeOK
<1>2. QED
  BY InitInv, NextInv, <1>1, PTL DEF Spec

(* Without a unique key, for any number of users, scopes and requests: a     *)
(* user has two rows in a scope only if two requests were to change it at    *)
(* once. A request that fails or is lost halfway leaves one row, or none.    *)
THEOREM OneRowAlways == Spec => []OneRow
<1>1. Inv => OneRow
  BY DEF Inv, IInv, RowsInv, OneRow
<1>2. QED
  BY InitInv, NextInv, <1>1, PTL DEF Spec

(* However a transfer of the super_admin role fails, or is lost in a         *)
(* restart, and however old the token of its caller, somebody has the role:  *)
(* the target is given it before the caller loses it. Excepted is a transfer *)
(* to who has the role, by a caller that has not (or is the target): the     *)
(* row the role is in is deleted first, and nothing else holds it.           *)
THEOREM SuperAdminAlwaysRemains == Spec => []SuperAdminRemains
<1>1. Inv => SuperAdminRemains
  BY DEF Inv, IInv, SuperInv, SuperAdminRemains, Crossed, Admin, Super
<1>2. QED
  BY InitInv, NextInv, <1>1, PTL DEF Spec

(* A replacement of a group's members nothing else ran along with ends with  *)
(* exactly those members in the group, however many there are and in         *)
(* whatever order their roles were read.                                     *)
THEOREM GroupAlwaysReplaced == Spec => []GroupIsReplaced
<1>1. ASSUME Inv PROVE GroupIsReplaced
  <2>1. SUFFICES ASSUME NEW c \in Calls, call[c].op = "group", call[c].todo = <<>>,
                        call[c].alone, overlapped = {}
                 PROVE  Holders(Group) = call[c].members
    BY DEF GroupIsReplaced
  <2>2. Writing(call[c])
    BY <1>1, <2>1 DEF Inv, IInv, GroupInv
  <2>3. \A u \in Users : Holds(u, Global, Group) <=> u \in call[c].members
    BY <2>1, <2>2 DEF Writing, Touches
  <2>4. call[c].members \subseteq Users
    BY <1>1 DEF Inv, IInv, Shape, CallShape
  <2>5. QED
    BY <2>3, <2>4 DEF Holders
<1>2. QED
  BY InitInv, NextInv, <1>1, PTL DEF Spec
=============================================================================
