----------------------------- MODULE StorageProofs -----------------------------
(***************************************************************************)
(* Check-ins into the object store, and the circuit breaker in front of    *)
(* it: what CheckIn keeps for every number of check-ins, files and         *)
(* requests, and CircuitBreaker for every number of calls in flight.       *)
(*                                                                         *)
(* A step of CheckIn is one request's, and touches the check-in it is of;  *)
(* so its invariant is stated for one check-in, in four parts:             *)
(*                                                                         *)
(*   reserved: a reservation works alone; whoever commits or aborts comes  *)
(*     after it, when every file has a row in the log;                     *)
(*   backed: what a request knows of S3 (the roles it has completed a file *)
(*     of, the call it is about to note) stays true, since a complete      *)
(*     upload and one that is gone never change again;                     *)
(*   settles: a request that compensates has in its list every row that is *)
(*     still pending, since no row becomes pending again, unless it        *)
(*     swallowed that its compensation threw;                              *)
(*   clean: how far the only request of a check-in has come that met no    *)
(*     mishap.                                                             *)
(***************************************************************************)
EXTENDS CheckIn, CircuitBreaker, TLAPS

VersionStates == {"none", "draft", "completed", "failed"}
CheckinStates == {"none", "reserved", "compensating", "committed", "aborted"}
UploadStates == {"none", "open", "complete", "gone"}
LogStates == {"none", "pending", "committed", "compensated", "failed"}
Events == {"reserved", "committed", "failed", "aborted"}

ReserveSteps == {"open", "log", "rollback", "row"}
WriteSteps == {"manifest", "version", "sentinel", "rows", "state"}
UndoSteps == {"list", "undo", "note", "aborted"}
Ops == {"none", "reserve", "commit", "abort"}
StepNames == {"none", "complete", "compensate"} \cup ReserveSteps \cup WriteSteps \cup UndoSteps

RequestType == [op : Ops, step : StepNames, of : CheckIns \cup {None}, todo : SUBSET Files,
                file : Files \cup {None}, ok : BOOLEAN]

StepOf(op, step) ==
  \/ op = "reserve" /\ step \in ReserveSteps
  \/ op = "commit" /\ step \in {"complete", "compensate"} \cup WriteSteps \cup UndoSteps
  \/ op = "abort" /\ step \in UndoSteps

Of(r, i) == request[r].of = i

Fits(q) ==
  \/ q = Idle
  \/ /\ q.of \in CheckIns /\ StepOf(q.op, q.step)
     /\ q.step \in {"log", "note"} => q.file \in Files

StoreShape ==
  /\ version \in [CheckIns -> VersionStates] /\ checkin \in [CheckIns -> CheckinStates]
  /\ expired \in [CheckIns -> BOOLEAN]
  /\ upload \in [CheckIns -> [Files -> UploadStates]]
  /\ log \in [CheckIns -> [Files -> LogStates]]
  /\ manifests \in [CheckIns -> 0 .. MaxManifests] /\ latest \in CheckIns \cup {None}
  /\ published \in [CheckIns -> SUBSET Events]
  /\ role \in [CheckIns -> Plans] /\ mishap \in [CheckIns -> SUBSET Mishap]

Shape ==
  StoreShape /\ request \in [Requests -> RequestType] /\ \A r \in Requests : Fits(request[r])

-----------------------------------------------------------------------------
Stored(i, f) == \E g \in Files : role[i][g] = role[i][f] /\ upload[i][g] = "complete"
NonePending(i) == \A f \in Files : log[i][f] # "pending"
AllPending(i) == \A f \in Files : log[i][f] = "pending"

Reserving(r, i) ==
  request[r].op = "reserve" =>
    /\ checkin[i] = "none" /\ version[i] # "none"
    /\ \A q \in Requests : Of(q, i) => q = r
    /\ \A f \in Files : log[i][f] \in {"none", "pending"}
    /\ request[r].step # "rollback" => \A f \in Files \ request[r].todo : log[i][f] = "pending"
    /\ request[r].step = "row" => request[r].todo = {}

ReservedOnce(i) ==
  /\ version[i] = "none" =>
       /\ checkin[i] = "none" /\ Quiet(i) /\ published[i] = {}
       /\ \A f \in Files : log[i][f] = "none"
  /\ checkin[i] = "none" => manifests[i] = 0
  /\ checkin[i] # "none" => \A f \in Files : log[i][f] # "none"
  /\ \A r \in Requests : Of(r, i) =>
       Reserving(r, i) /\ (request[r].op # "reserve" => checkin[i] # "none")

Backs(r, i) ==
  /\ At(r, "commit", "complete") =>
       \A f \in Files : Stored(i, f) \/ \E g \in request[r].todo : role[i][g] = role[i][f]
  /\ request[r].step \in WriteSteps => RolesStored(i)
  /\ request[r].step = "note" /\ request[r].ok => upload[i][request[r].file] = "gone"

Backed(i) ==
  /\ manifests[i] > 0 => RolesStored(i)
  /\ \A f \in Files : /\ log[i][f] = "committed" => Stored(i, f)
                      /\ log[i][f] = "compensated" => upload[i][f] = "gone"
  /\ \A r \in Requests : Of(r, i) => Backs(r, i)

Settling(r, i) ==
  /\ request[r].step = "state" => NonePending(i)
  /\ request[r].step = "aborted" /\ "swallowed" \notin mishap[i] => NonePending(i)
  /\ request[r].step \in {"undo", "note"} =>
       \A f \in Files : log[i][f] = "pending" => f \in request[r].todo

HasEnded(i) ==
  checkin[i] = "committed" \/ (checkin[i] = "aborted" /\ "swallowed" \notin mishap[i])

Settles(i) ==
  /\ HasEnded(i) => NonePending(i)
  /\ \A r \in Requests : Of(r, i) => Settling(r, i)

(* No commit has written anything; and moreover, nothing was undone.         *)
Uncommitted(i) ==
  /\ checkin[i] # "committed" /\ manifests[i] = 0 /\ version[i] # "completed"
  /\ "committed" \notin published[i]

Untouched(i) ==
  checkin[i] = "reserved" /\ Uncommitted(i) /\ AllPending(i) /\ published[i] = {"reserved"}

Complete(i) ==
  /\ manifests[i] = 1 /\ version[i] = "completed"
  /\ \A f \in Files : log[i][f] = "committed"

Progress(r, i) ==
  /\ request[r].step \in ReserveSteps => Uncommitted(i) /\ published[i] = {}
  /\ request[r].step \in {"complete", "manifest"} => Untouched(i)
  /\ request[r].step \in {"version", "sentinel", "rows"} => AllPending(i)
  /\ request[r].step \in {"version", "sentinel", "rows", "state"} =>
       manifests[i] = 1 /\ published[i] = {"reserved"} /\ checkin[i] = "reserved"
  /\ request[r].step \in {"sentinel", "rows", "state"} => version[i] = "completed"
  /\ request[r].step = "state" => Complete(i)
  /\ request[r].step \in {"compensate"} \cup UndoSteps => Uncommitted(i)

Ended(i) ==
  /\ checkin[i] = "committed" => Complete(i) /\ published[i] = {"reserved", "committed"}
  /\ checkin[i] # "committed" => Uncommitted(i)
  /\ checkin[i] = "reserved" => Untouched(i)

AboutToCommit(r, i) == Of(r, i) /\ request[r].step \in {"rows", "state"}

Clean(i) ==
  mishap[i] = {} =>
    /\ \A q, r \in Requests : Of(q, i) /\ Of(r, i) => q = r
    /\ latest = i => checkin[i] = "committed" \/ \E r \in Requests : AboutToCommit(r, i)
    /\ \A r \in Requests : Of(r, i) => Progress(r, i)
    /\ Quiet(i) => Ended(i)

InvAt(i) == ReservedOnce(i) /\ Backed(i) /\ Settles(i) /\ Clean(i)

IInv == Shape /\ \A i \in CheckIns : InvAt(i)

-----------------------------------------------------------------------------
(* Records and maps. *)
LEMMA Nothing ==
  /\ None \notin CheckIns /\ None \notin Files /\ MaxManifests \in Nat /\ MaxManifests > 0
  /\ Idle \in RequestType /\ Idle.op = "none" /\ Idle.step = "none" /\ Idle.of = None
BY ConstantsAssumption DEF Idle, RequestType, Ops, StepNames

LEMMA ShapeIsTypeOK == Shape => TypeOK
<1>1. StepNames = {"none", "open", "log", "rollback", "row", "complete", "compensate", "manifest",
                   "version", "sentinel", "rows", "state", "list", "undo", "note", "aborted"}
  BY DEF StepNames, ReserveSteps, WriteSteps, UndoSteps
<1>2. QED
  BY <1>1 DEF Shape, StoreShape, TypeOK, VersionStates, CheckinStates, UploadStates, LogStates,
              Events, RequestType, Ops

(* A request that does something is of a check-in. *)
LEMMA Busy ==
  ASSUME Shape, NEW r \in Requests, request[r].step # "none"
  PROVE  /\ request[r].of \in CheckIns /\ StepOf(request[r].op, request[r].step)
         /\ request[r] \in RequestType /\ request[r].todo \subseteq Files
         /\ request[r].step \in {"log", "note"} => request[r].file \in Files
<1>1. request[r] \in RequestType /\ Fits(request[r])
  BY DEF Shape
<1>2. QED
  BY <1>1, Nothing DEF Fits, RequestType

(* One request goes from record to record, the others stay. *)
Moves(r, next) ==
  /\ request' \in [Requests -> RequestType]
  /\ request'[r] = next
  /\ \A q \in Requests \ {r} : request'[q] = request[q]

LEMMA Moved ==
  ASSUME Shape, NEW r \in Requests, NEW next \in RequestType,
         request' = [request EXCEPT ![r] = next]
  PROVE  Moves(r, next)
BY DEF Moves, Shape

LEMMA Returned ==
  ASSUME Shape, NEW r \in Requests, Return(r)
  PROVE  Moves(r, Idle)
BY Moved, Nothing DEF Return

(* The next step, with the rest of the record as it is. *)
LEMMA WentTo ==
  ASSUME Shape, NEW r \in Requests, NEW step \in StepNames, Goto(r, step)
  PROVE  \E next \in RequestType :
           /\ Moves(r, next)
           /\ next.step = step /\ next.op = request[r].op /\ next.of = request[r].of
           /\ next.todo = request[r].todo /\ next.file = request[r].file
<1>1. request[r] \in RequestType
  BY DEF Shape, StoreShape
<1>2. PICK next : next = [request[r] EXCEPT !.step = step]
  OBVIOUS
<1>3. /\ next \in RequestType
      /\ next.step = step /\ next.op = request[r].op /\ next.of = request[r].of
      /\ next.todo = request[r].todo /\ next.file = request[r].file
  BY <1>1, <1>2 DEF RequestType
<1>4. request' = [request EXCEPT ![r] = next]
  BY <1>2 DEF Shape, Goto
<1>5. QED
  BY <1>3, <1>4, Moved

LEMMA WentWith ==
  ASSUME Shape, NEW r \in Requests, NEW step \in StepNames, NEW files \in SUBSET Files,
         GotoWith(r, step, files)
  PROVE  \E next \in RequestType :
           /\ Moves(r, next)
           /\ next.step = step /\ next.op = request[r].op /\ next.of = request[r].of
           /\ next.todo = files /\ next.file = request[r].file
<1>1. request[r] \in RequestType
  BY DEF Shape, StoreShape
<1>2. PICK next : next = [request[r] EXCEPT !.step = step, !.todo = files]
  OBVIOUS
<1>3. /\ next \in RequestType
      /\ next.step = step /\ next.op = request[r].op /\ next.of = request[r].of
      /\ next.todo = files /\ next.file = request[r].file
  BY <1>1, <1>2 DEF RequestType
<1>4. request' = [request EXCEPT ![r] = next]
  BY <1>2 DEF Shape, GotoWith
<1>5. QED
  BY <1>3, <1>4, Moved

LEMMA Began ==
  ASSUME Shape, NEW r \in Requests, NEW op \in Ops, NEW step \in StepNames, NEW i \in CheckIns,
         NEW files \in SUBSET Files, Begin(r, op, step, i, files)
  PROVE  /\ request[r] = Idle
         /\ \E next \in RequestType :
              /\ Moves(r, next)
              /\ next.step = step /\ next.op = op /\ next.of = i /\ next.todo = files
<1>1. PICK next : next = [Idle EXCEPT !.op = op, !.step = step, !.of = i, !.todo = files]
  OBVIOUS
<1>2. /\ next \in RequestType
      /\ next.step = step /\ next.op = op /\ next.of = i /\ next.todo = files
  BY <1>1 DEF Idle, RequestType
<1>3. request[r] = Idle /\ request' = [request EXCEPT ![r] = next]
  BY <1>1 DEF Begin
<1>4. QED
  BY <1>2, <1>3, Moved

LEMMA UploadSet ==
  ASSUME Shape, NEW i \in CheckIns, NEW f \in Files, NEW s \in UploadStates, SetUpload(i, f, s)
  PROVE  /\ upload' \in [CheckIns -> [Files -> UploadStates]]
         /\ upload'[i][f] = s /\ \A g \in Files \ {f} : upload'[i][g] = upload[i][g]
         /\ \A j \in CheckIns \ {i} : upload'[j] = upload[j]
<1>1. upload \in [CheckIns -> [Files -> UploadStates]] /\ upload[i] \in [Files -> UploadStates]
  BY DEF Shape, StoreShape
<1>2. upload' = [upload EXCEPT ![i] = [upload[i] EXCEPT ![f] = s]]
  BY <1>1 DEF SetUpload
<1>3. PICK row : row = [upload[i] EXCEPT ![f] = s]
  OBVIOUS
<1>4. /\ row \in [Files -> UploadStates]
      /\ row[f] = s /\ \A g \in Files \ {f} : row[g] = upload[i][g]
  BY <1>1, <1>3
<1>5. /\ upload' \in [CheckIns -> [Files -> UploadStates]] /\ upload'[i] = row
      /\ \A j \in CheckIns \ {i} : upload'[j] = upload[j]
  BY <1>1, <1>2, <1>3, <1>4
<1>6. QED
  BY <1>4, <1>5

LEMMA LogSet ==
  ASSUME Shape, NEW i \in CheckIns, NEW f \in Files, NEW s \in LogStates, SetLog(i, f, s)
  PROVE  /\ log' \in [CheckIns -> [Files -> LogStates]]
         /\ log'[i][f] = s /\ \A g \in Files \ {f} : log'[i][g] = log[i][g]
         /\ \A j \in CheckIns \ {i} : log'[j] = log[j]
<1>1. log \in [CheckIns -> [Files -> LogStates]] /\ log[i] \in [Files -> LogStates]
  BY DEF Shape, StoreShape
<1>2. log' = [log EXCEPT ![i] = [log[i] EXCEPT ![f] = s]]
  BY <1>1 DEF SetLog
<1>3. PICK row : row = [log[i] EXCEPT ![f] = s]
  OBVIOUS
<1>4. /\ row \in [Files -> LogStates]
      /\ row[f] = s /\ \A g \in Files \ {f} : row[g] = log[i][g]
  BY <1>1, <1>3
<1>5. /\ log' \in [CheckIns -> [Files -> LogStates]] /\ log'[i] = row
      /\ \A j \in CheckIns \ {i} : log'[j] = log[j]
  BY <1>1, <1>2, <1>3, <1>4
<1>6. QED
  BY <1>4, <1>5

-----------------------------------------------------------------------------
(* A step of request r, to the record next, which touches check-in i only.   *)
StoreLocal(i) ==
  /\ \A j \in CheckIns \ {i} :
       /\ version'[j] = version[j] /\ checkin'[j] = checkin[j] /\ upload'[j] = upload[j]
       /\ log'[j] = log[j] /\ manifests'[j] = manifests[j] /\ published'[j] = published[j]
       /\ mishap'[j] = mishap[j]
  /\ mishap[i] \subseteq mishap'[i] /\ role' = role
  /\ latest' \in {latest, i}

Acts(r, i, next) ==
  /\ r \in Requests /\ i \in CheckIns
  /\ Moves(r, next) /\ Fits(next)
  /\ request[r].of \in {i, None} /\ next.of \in {i, None}
  /\ StoreLocal(i) /\ StoreShape'

LEMMA Elsewhere ==
  ASSUME IInv, NEW r, NEW i, NEW next, Acts(r, i, next), NEW j \in CheckIns \ {i}
  PROVE  InvAt(j)'
<1>1. /\ r \in Requests /\ i \in CheckIns
      /\ \A q \in Requests :
           /\ Of(q, j)' <=> Of(q, j)
           /\ Of(q, j) => q # r /\ request'[q] = request[q]
  BY Nothing DEF Acts, Moves, Of
<1>2. /\ version'[j] = version[j] /\ checkin'[j] = checkin[j] /\ upload'[j] = upload[j]
      /\ log'[j] = log[j] /\ manifests'[j] = manifests[j] /\ published'[j] = published[j]
      /\ mishap'[j] = mishap[j] /\ (latest' = j => latest = j) /\ role'[j] = role[j]
  BY DEF Acts, StoreLocal
<1>3. InvAt(j) /\ (Quiet(j)' <=> Quiet(j))
  BY <1>1 DEF IInv, Quiet, Of
<1>4. ReservedOnce(j)'
  <2>1. \A q \in Requests : Of(q, j)' => Reserving(q, j)' /\ (request'[q].op # "reserve" => checkin'[j] # "none")
    BY <1>1, <1>2, <1>3 DEF InvAt, ReservedOnce, Reserving
  <2>2. QED
    BY <1>2, <1>3, <2>1 DEF InvAt, ReservedOnce
<1>5. Backed(j)'
  <2>1. \A q \in Requests : Of(q, j)' => Backs(q, j)'
    BY <1>1, <1>2, <1>3 DEF InvAt, Backed, Backs, At, RolesStored, Stored
  <2>2. QED
    BY <1>2, <1>3, <2>1 DEF InvAt, Backed, RolesStored, Stored
<1>6. Settles(j)'
  <2>1. \A q \in Requests : Of(q, j)' => Settling(q, j)'
    BY <1>1, <1>2, <1>3 DEF InvAt, Settles, Settling, NonePending
  <2>2. QED
    BY <1>2, <1>3, <2>1 DEF InvAt, Settles, HasEnded, NonePending
<1>7. Clean(j)'
  <2>1. ASSUME mishap[j] = {} PROVE \A q \in Requests : Of(q, j)' => Progress(q, j)'
    <3>1. ASSUME NEW q \in Requests, Of(q, j) PROVE Progress(q, j) /\ request'[q] = request[q]
      BY <1>1, <1>3, <2>1, <3>1 DEF InvAt, Clean
    <3>2. QED
      BY <1>1, <1>2, <3>1 DEF Progress, Uncommitted, Untouched, Complete, AllPending
  <2>2. ASSUME mishap[j] = {}, Quiet(j) PROVE Ended(j)'
    BY <1>2, <1>3, <2>2 DEF InvAt, Clean, Ended, Uncommitted, Untouched, Complete, AllPending
  <2>3. ASSUME mishap[j] = {}, latest' = j
        PROVE  checkin'[j] = "committed" \/ \E q \in Requests : AboutToCommit(q, j)'
    BY <1>1, <1>2, <1>3, <2>3 DEF InvAt, Clean, AboutToCommit
  <2>4. ASSUME mishap[j] = {} PROVE \A p, q \in Requests : Of(p, j)' /\ Of(q, j)' => p = q
    BY <1>1, <1>3, <2>4 DEF InvAt, Clean
  <2>5. QED
    BY <1>2, <1>3, <2>1, <2>2, <2>3, <2>4 DEF Clean
<1>8. QED
  BY <1>4, <1>5, <1>6, <1>7 DEF InvAt

LEMMA StepKeeps ==
  ASSUME IInv, NEW r, NEW i, NEW next, Acts(r, i, next), InvAt(i)'
  PROVE  IInv'
<1>1. Shape'
  BY DEF IInv, Shape, Acts, Moves
<1>2. \A j \in CheckIns : InvAt(j)'
  BY Elsewhere
<1>3. QED
  BY <1>1, <1>2 DEF IInv

(* The parts of the invariant at i itself.                                   *)
LEMMA WorkReserved ==
  ASSUME IInv, NEW r, NEW i, NEW next, Acts(r, i, next),
         checkin[i] # "none", checkin'[i] # "none", version'[i] # "none",
         next.op # "reserve",
         \A f \in Files : log[i][f] # "none" => log'[i][f] # "none"
  PROVE  ReservedOnce(i)'
<1>1. /\ r \in Requests /\ i \in CheckIns /\ request'[r] = next
      /\ \A q \in Requests \ {r} : request'[q] = request[q]
  BY DEF Acts, Moves
<1>2. InvAt(i)
  BY <1>1 DEF IInv
<1>3. \A f \in Files : log'[i][f] # "none"
  BY <1>2 DEF InvAt, ReservedOnce
<1>4. \A q \in Requests : Of(q, i)' => request'[q].op # "reserve"
  BY <1>1, <1>2 DEF InvAt, ReservedOnce, Reserving, Of
<1>5. \A q \in Requests : Of(q, i)' => Reserving(q, i)'
  BY <1>4 DEF Reserving
<1>6. QED
  BY <1>3, <1>5 DEF ReservedOnce

LEMMA BackedKept ==
  ASSUME IInv, NEW r, NEW i, NEW next, Acts(r, i, next),
         \A f \in Files : upload[i][f] \in {"complete", "gone"} => upload'[i][f] = upload[i][f],
         manifests'[i] > 0 => manifests[i] > 0 \/ RolesStored(i),
         \A f \in Files :
           /\ log'[i][f] = "committed" => log[i][f] = "committed" \/ Stored(i, f)'
           /\ log'[i][f] = "compensated" => log[i][f] = "compensated" \/ upload'[i][f] = "gone",
         next.of = i => Backs(r, i)'
  PROVE  Backed(i)'
<1>1. /\ r \in Requests /\ i \in CheckIns /\ request'[r] = next
      /\ \A q \in Requests \ {r} : request'[q] = request[q]
      /\ \A q \in Requests : request[q] \in RequestType /\ Fits(request[q])
  BY DEF Acts, Moves, IInv, Shape
<1>2. InvAt(i)
  BY <1>1 DEF IInv
<1>3. /\ role' = role /\ \A f \in Files : Stored(i, f) => Stored(i, f)'
      /\ RolesStored(i) => RolesStored(i)'
  BY DEF RolesStored, Stored, Acts, StoreLocal
<1>4. ASSUME NEW q \in Requests \ {r}, Of(q, i)' PROVE Backs(q, i)'
  <2>1. Of(q, i) /\ request'[q] = request[q] /\ Backs(q, i)
    BY <1>1, <1>2, <1>4 DEF InvAt, Backed, Of
  <2>2. request[q].step = "note" => request[q].file \in Files
    BY <1>1, <2>1, Nothing DEF Fits
  <2>3. QED
    BY <1>3, <2>1, <2>2 DEF Backs, At
<1>5. QED
  BY <1>1, <1>2, <1>3, <1>4 DEF InvAt, Backed, Of

LEMMA SettlesKept ==
  ASSUME IInv, NEW r, NEW i, NEW next, Acts(r, i, next),
         \A f \in Files : log'[i][f] = "pending" => log[i][f] = "pending",
         checkin'[i] = "committed" => checkin[i] = "committed" \/ NonePending(i),
         checkin'[i] = "aborted" /\ "swallowed" \notin mishap'[i] =>
           checkin[i] = "aborted" \/ NonePending(i),
         next.of = i => Settling(r, i)'
  PROVE  Settles(i)'
<1>1. /\ r \in Requests /\ i \in CheckIns /\ request'[r] = next
      /\ \A q \in Requests \ {r} : request'[q] = request[q]
  BY DEF Acts, Moves
<1>2. InvAt(i) /\ (NonePending(i) => NonePending(i)') /\ mishap[i] \subseteq mishap'[i]
  BY <1>1 DEF IInv, NonePending, Acts, StoreLocal
<1>3. \A q \in Requests \ {r} : Of(q, i)' => Settling(q, i)'
  BY <1>1, <1>2 DEF InvAt, Settles, Settling, Of
<1>4. QED
  BY <1>1, <1>2, <1>3 DEF InvAt, Settles, HasEnded, Of

(* The only request of a check-in without mishap goes on, or ends. *)
LEMMA CleanKept ==
  ASSUME IInv, NEW r, NEW i, NEW next, Acts(r, i, next), request[r].of = i,
         mishap[i] = {} /\ Progress(r, i) =>
           /\ latest' = i => \/ latest = i /\ (checkin[i] = "committed" => checkin'[i] = "committed")
                                          /\ ~AboutToCommit(r, i)
                             \/ checkin'[i] = "committed"
                             \/ AboutToCommit(r, i)'
           /\ next.of = i => Progress(r, i)'
           /\ next.of # i => Ended(i)'
  PROVE  Clean(i)'
<1>1. /\ r \in Requests /\ i \in CheckIns /\ request'[r] = next
      /\ \A q \in Requests \ {r} : request'[q] = request[q]
  BY DEF Acts, Moves
<1>2. InvAt(i)
  BY <1>1 DEF IInv
<1>3. SUFFICES ASSUME mishap'[i] = {}
               PROVE  /\ \A q, s \in Requests : Of(q, i)' /\ Of(s, i)' => q = s
                      /\ latest' = i => checkin'[i] = "committed" \/ \E s \in Requests : AboutToCommit(s, i)'
                      /\ \A q \in Requests : Of(q, i)' => Progress(q, i)'
                      /\ Quiet(i)' => Ended(i)'
  BY DEF Clean
<1>4. mishap[i] = {} /\ Of(r, i) /\ Progress(r, i) /\ \A q \in Requests : Of(q, i) => q = r
  BY <1>1, <1>2, <1>3 DEF InvAt, Clean, Of, Acts, StoreLocal
<1>5. \A q \in Requests : Of(q, i)' => q = r
  BY <1>1, <1>4 DEF Of
<1>6. ASSUME latest' = i
      PROVE  checkin'[i] = "committed" \/ \E s \in Requests : AboutToCommit(s, i)'
  <2>1. latest = i => checkin[i] = "committed" \/ AboutToCommit(r, i)
    BY <1>2, <1>4 DEF InvAt, Clean, AboutToCommit
  <2>2. QED
    BY <1>1, <1>4, <1>6, <2>1
<1>7. Quiet(i)' => next.of # i
  BY <1>1 DEF Quiet
<1>8. Of(r, i)' => next.of = i
  BY <1>1 DEF Of
<1>9. QED
  BY <1>1, <1>4, <1>5, <1>6, <1>7, <1>8

-----------------------------------------------------------------------------
(* What a request that is under way may rely on. *)
Knows(r, i) ==
  /\ Of(r, i) /\ InvAt(i) /\ StepOf(request[r].op, request[r].step)
  /\ request[r].todo \subseteq Files
  /\ request[r].step \in {"log", "note"} => request[r].file \in Files
  /\ version[i] # "none" /\ (request[r].op # "reserve" => checkin[i] # "none")
  /\ Reserving(r, i) /\ Backs(r, i) /\ Settling(r, i)
  /\ manifests[i] \in 0 .. MaxManifests

LEMMA Here ==
  ASSUME IInv, NEW r \in Requests, request[r].step # "none"
  PROVE  \E i \in CheckIns : Knows(r, i)
<1>1. PICK i \in CheckIns : i = request[r].of
  BY Busy DEF IInv
<1>2. Of(r, i) /\ InvAt(i) /\ ~Quiet(i)
  BY <1>1 DEF Of, IInv, Quiet
<1>3. /\ version[i] # "none" /\ (request[r].op # "reserve" => checkin[i] # "none")
      /\ Reserving(r, i) /\ Backs(r, i) /\ Settling(r, i)
  BY <1>2 DEF InvAt, ReservedOnce, Backed, Settles
<1>4. manifests[i] \in 0 .. MaxManifests
  BY DEF IInv, Shape, StoreShape
<1>5. QED
  BY <1>2, <1>3, <1>4, Busy DEF Knows, IInv

-----------------------------------------------------------------------------
(* Commit. *)
LEMMA CompleteUploadKeeps ==
  ASSUME IInv, NEW r \in Requests, CompleteUpload(r), UNCHANGED <<role, mishap>>
  PROVE  IInv'
<1>1. PICK i \in CheckIns : Knows(r, i)
  BY Here DEF CompleteUpload, At
<1>2. /\ request[r].op = "commit" /\ request[r].step = "complete"
      /\ UNCHANGED <<version, checkin, expired, log, manifests, latest, published>>
  BY DEF CompleteUpload, At
<1>3. PICK f \in request[r].todo :
        /\ SetUpload(i, f, "complete") /\ upload[i][f] \in {"open", "complete"}
        /\ GotoWith(r, IF request[r].todo = {f} THEN "manifest" ELSE "complete",
                    request[r].todo \ {f})
  BY <1>1 DEF CompleteUpload, Knows, Of
<1>4. PICK step \in {"complete", "manifest"} :
        step = IF request[r].todo = {f} THEN "manifest" ELSE "complete"
  OBVIOUS
<1>5. f \in Files /\ request[r].todo \ {f} \in SUBSET Files /\ step \in StepNames
  BY <1>1 DEF Knows, StepNames, WriteSteps
<1>6. PICK next \in RequestType :
        /\ Moves(r, next)
        /\ next.step = step /\ next.op = "commit" /\ next.of = i
        /\ next.todo = request[r].todo \ {f}
  BY <1>1, <1>2, <1>3, <1>4, <1>5, WentWith DEF IInv, Knows, Of
<1>7. /\ upload' \in [CheckIns -> [Files -> UploadStates]]
      /\ upload'[i][f] = "complete" /\ \A g \in Files \ {f} : upload'[i][g] = upload[i][g]
      /\ \A j \in CheckIns \ {i} : upload'[j] = upload[j]
  BY <1>3, <1>5, UploadSet DEF IInv, UploadStates
<1>8. Acts(r, i, next)
  BY <1>1, <1>2, <1>6, <1>7
  DEF Acts, Fits, StepOf, WriteSteps, StoreLocal, StoreShape, IInv, Shape, Knows, Of
<1>9. Of(r, i)' /\ request'[r] = next /\ request[r].of = i
  BY <1>1, <1>6 DEF Moves, Of, Knows
<1>10. ReservedOnce(i)'
  BY <1>1, <1>2, <1>6, <1>8, WorkReserved DEF Knows
<1>11. Backed(i)'
  <2>1. ASSUME NEW g \in Files
        PROVE  Stored(i, g)' \/ \E h \in next.todo : role'[i][h] = role'[i][g]
    <3>1. CASE Stored(i, g)
      BY <1>5, <1>7, <3>1 DEF Stored
    <3>2. ASSUME NEW h \in request[r].todo, role[i][h] = role[i][g] PROVE Stored(i, g)' \/ h \in next.todo
      BY <1>5, <1>6, <1>7, <3>2 DEF Stored
    <3>3. QED
      BY <1>1, <1>2, <3>1, <3>2 DEF Knows, Backs, At
  <2>2. next.step = "manifest" => next.todo = {}
    BY <1>4, <1>6
  <2>3. Backs(r, i)'
    BY <1>4, <1>6, <1>9, <2>1, <2>2 DEF Backs, At, RolesStored, Stored, WriteSteps
  <2>4. QED
    BY <1>2, <1>3, <1>7, <1>8, <2>3, BackedKept
<1>12. Settles(i)'
  <2>1. Settling(r, i)'
    BY <1>6, <1>9 DEF Settling
  <2>2. QED
    BY <1>2, <1>8, <2>1, SettlesKept
<1>13. Clean(i)'
  <2>1. ASSUME Progress(r, i) PROVE Progress(r, i)'
    BY <1>2, <1>6, <1>9, <2>1
    DEF Progress, Untouched, Uncommitted, AllPending, ReserveSteps, UndoSteps
  <2>2. ~AboutToCommit(r, i)
    BY <1>2 DEF AboutToCommit
  <2>3. QED
    BY <1>2, <1>6, <1>8, <1>9, <2>1, <2>2, CleanKept
<1>14. QED
  BY <1>8, <1>10, <1>11, <1>12, <1>13, StepKeeps DEF InvAt

LEMMA CompleteFailsKeeps ==
  ASSUME IInv, NEW r \in Requests, CompleteFails(r), UNCHANGED <<role, mishap>>
  PROVE  IInv'
<1>1. PICK i \in CheckIns : Knows(r, i)
  BY Here DEF CompleteFails, At
<1>2. /\ request[r].op = "commit" /\ request[r].step = "complete" /\ Goto(r, "compensate")
      /\ UNCHANGED <<version, checkin, expired, log, manifests, latest, published>>
  BY DEF CompleteFails, At
<1>3. PICK f \in Files :
        UNCHANGED upload \/ (upload[i][f] = "open" /\ SetUpload(i, f, "complete"))
  BY <1>1 DEF CompleteFails, Knows, Of
<1>4. PICK next \in RequestType :
        /\ Moves(r, next)
        /\ next.step = "compensate" /\ next.op = "commit" /\ next.of = i
  BY <1>1, <1>2, WentTo DEF IInv, Knows, Of, StepNames
<1>5. /\ upload' \in [CheckIns -> [Files -> UploadStates]]
      /\ \A g \in Files : upload[i][g] \in {"complete", "gone"} => upload'[i][g] = upload[i][g]
      /\ \A j \in CheckIns \ {i} : upload'[j] = upload[j]
  BY <1>3, UploadSet DEF IInv, UploadStates, Shape, StoreShape
<1>6. Acts(r, i, next)
  BY <1>1, <1>2, <1>4, <1>5
  DEF Acts, Fits, StepOf, StoreLocal, StoreShape, IInv, Shape, Knows, Of
<1>7. Of(r, i)' /\ request'[r] = next /\ request[r].of = i
  BY <1>1, <1>4 DEF Moves, Of, Knows
<1>8. ReservedOnce(i)'
  BY <1>1, <1>2, <1>4, <1>6, WorkReserved DEF Knows
<1>9. Backed(i)'
  <2>1. Backs(r, i)'
    BY <1>4, <1>7 DEF Backs, At, WriteSteps
  <2>2. QED
    BY <1>2, <1>5, <1>6, <2>1, BackedKept
<1>10. Settles(i)'
  <2>1. Settling(r, i)'
    BY <1>4, <1>7 DEF Settling
  <2>2. QED
    BY <1>2, <1>6, <2>1, SettlesKept
<1>11. Clean(i)'
  <2>1. ASSUME Progress(r, i) PROVE Progress(r, i)'
    BY <1>2, <1>4, <1>7, <2>1 DEF Progress, Untouched, Uncommitted, ReserveSteps
  <2>2. ~AboutToCommit(r, i)
    BY <1>2 DEF AboutToCommit
  <2>3. QED
    BY <1>2, <1>4, <1>6, <1>7, <2>1, <2>2, CleanKept
<1>12. QED
  BY <1>6, <1>8, <1>9, <1>10, <1>11, StepKeeps DEF InvAt

LEMMA StartCompensatingKeeps ==
  ASSUME IInv, NEW r \in Requests, StartCompensating(r), UNCHANGED <<role, mishap>>
  PROVE  IInv'
<1>1. PICK i \in CheckIns : Knows(r, i)
  BY Here DEF StartCompensating, At
<1>2. /\ request[r].op = "commit" /\ request[r].step = "compensate" /\ Goto(r, "list")
      /\ checkin' = [checkin EXCEPT ![i] = "compensating"]
      /\ UNCHANGED <<version, expired, upload, log, manifests, latest, published>>
  BY <1>1 DEF StartCompensating, At, Knows, Of
<1>3. PICK next \in RequestType :
        /\ Moves(r, next)
        /\ next.step = "list" /\ next.op = "commit" /\ next.of = i
  BY <1>1, <1>2, WentTo DEF IInv, Knows, Of, StepNames, UndoSteps
<1>4. /\ checkin' \in [CheckIns -> CheckinStates] /\ checkin'[i] = "compensating"
      /\ \A j \in CheckIns \ {i} : checkin'[j] = checkin[j]
  BY <1>2 DEF IInv, CheckinStates, Shape, StoreShape
<1>5. Acts(r, i, next)
  BY <1>1, <1>2, <1>3, <1>4
  DEF Acts, Fits, StepOf, UndoSteps, StoreLocal, StoreShape, IInv, Shape, Knows, Of
<1>6. Of(r, i)' /\ request'[r] = next /\ request[r].of = i
  BY <1>1, <1>3 DEF Moves, Of, Knows
<1>7. ReservedOnce(i)'
  BY <1>1, <1>2, <1>3, <1>4, <1>5, WorkReserved DEF Knows
<1>8. Backed(i)'
  <2>1. Backs(r, i)'
    BY <1>3, <1>6 DEF Backs, At, WriteSteps
  <2>2. QED
    BY <1>2, <1>5, <2>1, BackedKept
<1>9. Settles(i)'
  <2>1. Settling(r, i)'
    BY <1>3, <1>6 DEF Settling
  <2>2. QED
    BY <1>2, <1>4, <1>5, <2>1, SettlesKept
<1>10. Clean(i)'
  <2>1. ASSUME Progress(r, i) PROVE Progress(r, i)' /\ checkin[i] # "committed"
    BY <1>2, <1>3, <1>4, <1>6, <2>1 DEF Progress, Uncommitted, ReserveSteps
  <2>2. ~AboutToCommit(r, i)
    BY <1>2 DEF AboutToCommit
  <2>3. QED
    BY <1>2, <1>3, <1>5, <1>6, <2>1, <2>2, CleanKept
<1>11. QED
  BY <1>5, <1>7, <1>8, <1>9, <1>10, StepKeeps DEF InvAt

LEMMA CreateVersionFilesKeeps ==
  ASSUME IInv, NEW r \in Requests, CreateVersionFiles(r), UNCHANGED <<role, mishap>>
  PROVE  IInv'
<1>1. PICK i \in CheckIns : Knows(r, i)
  BY Here DEF CreateVersionFiles, At
<1>2. /\ request[r].op = "commit" /\ request[r].step = "manifest" /\ Goto(r, "version")
      /\ manifests' = [manifests EXCEPT ![i] = IF manifests[i] < MaxManifests
                                               THEN manifests[i] + 1 ELSE manifests[i]]
      /\ UNCHANGED <<version, checkin, expired, upload, log, latest, published>>
  BY <1>1 DEF CreateVersionFiles, At, Knows, Of, IInv, Shape, StoreShape
<1>3. PICK next \in RequestType :
        /\ Moves(r, next)
        /\ next.step = "version" /\ next.op = "commit" /\ next.of = i
  BY <1>1, <1>2, WentTo DEF IInv, Knows, Of, StepNames, WriteSteps
<1>4. PICK n \in 0 .. MaxManifests :
        /\ manifests' = [manifests EXCEPT ![i] = n]
        /\ manifests[i] = 0 => n = 1
  <2>1. PICK n : n = IF manifests[i] < MaxManifests THEN manifests[i] + 1 ELSE manifests[i]
    OBVIOUS
  <2>2. n \in 0 .. MaxManifests /\ (manifests[i] = 0 => n = 1)
    BY <1>1, <2>1, Nothing DEF Knows
  <2>3. QED
    BY <1>2, <2>1, <2>2
<1>5. /\ manifests' \in [CheckIns -> 0 .. MaxManifests] /\ manifests'[i] = n
      /\ \A j \in CheckIns \ {i} : manifests'[j] = manifests[j]
  BY <1>4 DEF IInv, Shape, StoreShape
<1>6. Acts(r, i, next)
  BY <1>1, <1>2, <1>3, <1>5
  DEF Acts, Fits, StepOf, WriteSteps, StoreLocal, StoreShape, IInv, Shape, Knows, Of
<1>7. Of(r, i)' /\ request'[r] = next /\ request[r].of = i
  BY <1>1, <1>3 DEF Moves, Of, Knows
<1>8. ReservedOnce(i)'
  BY <1>1, <1>2, <1>3, <1>6, WorkReserved DEF Knows
<1>9. Backed(i)'
  <2>1. RolesStored(i) /\ RolesStored(i)'
    BY <1>1, <1>2 DEF Knows, Backs, WriteSteps, RolesStored, Stored
  <2>2. Backs(r, i)'
    BY <1>3, <1>7, <2>1 DEF Backs, At
  <2>3. QED
    BY <1>2, <1>6, <2>1, <2>2, BackedKept
<1>10. Settles(i)'
  <2>1. Settling(r, i)'
    BY <1>3, <1>7 DEF Settling
  <2>2. QED
    BY <1>2, <1>6, <2>1, SettlesKept
<1>11. Clean(i)'
  <2>1. ASSUME Progress(r, i) PROVE Progress(r, i)'
    BY <1>2, <1>3, <1>4, <1>5, <1>7, <2>1
    DEF Progress, Untouched, Uncommitted, AllPending, ReserveSteps, UndoSteps
  <2>2. ~AboutToCommit(r, i)
    BY <1>2 DEF AboutToCommit
  <2>3. QED
    BY <1>2, <1>3, <1>6, <1>7, <2>1, <2>2, CleanKept
<1>12. QED
  BY <1>6, <1>8, <1>9, <1>10, <1>11, StepKeeps DEF InvAt

LEMMA CompleteVersionKeeps ==
  ASSUME IInv, NEW r \in Requests, CompleteVersion(r), UNCHANGED <<role, mishap>>
  PROVE  IInv'
<1>1. PICK i \in CheckIns : Knows(r, i)
  BY Here DEF CompleteVersion, At
<1>2. /\ request[r].op = "commit" /\ request[r].step = "version" /\ Goto(r, "sentinel")
      /\ version' = [version EXCEPT ![i] = "completed"]
      /\ UNCHANGED <<checkin, expired, upload, log, manifests, latest, published>>
  BY <1>1 DEF CompleteVersion, SetVersion, At, Knows, Of
<1>3. PICK next \in RequestType :
        /\ Moves(r, next)
        /\ next.step = "sentinel" /\ next.op = "commit" /\ next.of = i
  BY <1>1, <1>2, WentTo DEF IInv, Knows, Of, StepNames, WriteSteps
<1>4. /\ version' \in [CheckIns -> VersionStates] /\ version'[i] = "completed"
      /\ \A j \in CheckIns \ {i} : version'[j] = version[j]
  BY <1>2 DEF IInv, VersionStates, Shape, StoreShape
<1>5. Acts(r, i, next)
  BY <1>1, <1>2, <1>3, <1>4
  DEF Acts, Fits, StepOf, WriteSteps, StoreLocal, StoreShape, IInv, Shape, Knows, Of
<1>6. Of(r, i)' /\ request'[r] = next /\ request[r].of = i
  BY <1>1, <1>3 DEF Moves, Of, Knows
<1>7. ReservedOnce(i)'
  BY <1>1, <1>2, <1>3, <1>4, <1>5, WorkReserved DEF Knows
<1>8. Backed(i)'
  <2>1. Backs(r, i)'
    BY <1>1, <1>2, <1>3, <1>6 DEF Knows, Backs, At, WriteSteps, RolesStored, Stored
  <2>2. QED
    BY <1>2, <1>5, <2>1, BackedKept
<1>9. Settles(i)'
  <2>1. Settling(r, i)'
    BY <1>3, <1>6 DEF Settling
  <2>2. QED
    BY <1>2, <1>5, <2>1, SettlesKept
<1>10. Clean(i)'
  <2>1. ASSUME Progress(r, i) PROVE Progress(r, i)'
    BY <1>2, <1>3, <1>4, <1>6, <2>1 DEF Progress, AllPending, ReserveSteps, UndoSteps
  <2>2. ~AboutToCommit(r, i)
    BY <1>2 DEF AboutToCommit
  <2>3. QED
    BY <1>2, <1>3, <1>5, <1>6, <2>1, <2>2, CleanKept
<1>11. QED
  BY <1>5, <1>7, <1>8, <1>9, <1>10, StepKeeps DEF InvAt

LEMMA UpsertSentinelKeeps ==
  ASSUME IInv, NEW r \in Requests, UpsertSentinel(r), UNCHANGED <<role, mishap>>
  PROVE  IInv'
<1>1. PICK i \in CheckIns : Knows(r, i)
  BY Here DEF UpsertSentinel, At
<1>2. /\ request[r].op = "commit" /\ request[r].step = "sentinel" /\ Goto(r, "rows")
      /\ latest' = i
      /\ UNCHANGED <<version, checkin, expired, upload, log, manifests, published>>
  BY <1>1 DEF UpsertSentinel, At, Knows, Of
<1>3. PICK next \in RequestType :
        /\ Moves(r, next)
        /\ next.step = "rows" /\ next.op = "commit" /\ next.of = i
  BY <1>1, <1>2, WentTo DEF IInv, Knows, Of, StepNames, WriteSteps
<1>4. Acts(r, i, next)
  BY <1>1, <1>2, <1>3
  DEF Acts, Fits, StepOf, WriteSteps, StoreLocal, StoreShape, IInv, Shape, Knows, Of
<1>5. Of(r, i)' /\ request'[r] = next /\ request[r].of = i
  BY <1>1, <1>3 DEF Moves, Of, Knows
<1>6. ReservedOnce(i)'
  BY <1>1, <1>2, <1>3, <1>4, WorkReserved DEF Knows
<1>7. Backed(i)'
  <2>1. Backs(r, i)'
    BY <1>1, <1>2, <1>3, <1>5 DEF Knows, Backs, At, WriteSteps, RolesStored, Stored
  <2>2. QED
    BY <1>2, <1>4, <2>1, BackedKept
<1>8. Settles(i)'
  <2>1. Settling(r, i)'
    BY <1>3, <1>5 DEF Settling
  <2>2. QED
    BY <1>2, <1>4, <2>1, SettlesKept
<1>9. Clean(i)'
  <2>1. ASSUME Progress(r, i) PROVE Progress(r, i)'
    BY <1>2, <1>3, <1>5, <2>1 DEF Progress, AllPending, ReserveSteps, UndoSteps
  <2>2. AboutToCommit(r, i)'
    BY <1>3, <1>5 DEF AboutToCommit
  <2>3. QED
    BY <1>2, <1>3, <1>4, <1>5, <2>1, <2>2, CleanKept
<1>10. QED
  BY <1>4, <1>6, <1>7, <1>8, <1>9, StepKeeps DEF InvAt

LEMMA CommitLogKeeps ==
  ASSUME IInv, NEW r \in Requests, CommitLog(r), UNCHANGED <<role, mishap>>
  PROVE  IInv'
<1>1. PICK i \in CheckIns : Knows(r, i)
  BY Here DEF CommitLog, At
<1>2. PICK row : row = [f \in Files |-> IF log[i][f] = "pending" THEN "committed" ELSE log[i][f]]
  OBVIOUS
<1>3. /\ request[r].op = "commit" /\ request[r].step = "rows" /\ Goto(r, "state")
      /\ log' = [log EXCEPT ![i] = row]
      /\ UNCHANGED <<version, checkin, expired, upload, manifests, latest, published>>
  BY <1>1, <1>2 DEF CommitLog, At, Knows, Of, IInv, Shape, StoreShape
<1>4. PICK next \in RequestType :
        /\ Moves(r, next)
        /\ next.step = "state" /\ next.op = "commit" /\ next.of = i
  BY <1>1, <1>3, WentTo DEF IInv, Knows, Of, StepNames, WriteSteps
<1>5. log \in [CheckIns -> [Files -> LogStates]] /\ log[i] \in [Files -> LogStates]
  BY DEF IInv, Shape, StoreShape
<1>6. /\ row \in [Files -> LogStates]
      /\ \A f \in Files : /\ row[f] # "pending"
                          /\ log[i][f] = "pending" => row[f] = "committed"
                          /\ log[i][f] # "pending" => row[f] = log[i][f]
  BY <1>2, <1>5 DEF LogStates
<1>7. /\ log' \in [CheckIns -> [Files -> LogStates]] /\ log'[i] = row
      /\ \A j \in CheckIns \ {i} : log'[j] = log[j]
  BY <1>3, <1>5, <1>6
<1>8. Acts(r, i, next)
  BY <1>1, <1>3, <1>4, <1>7
  DEF Acts, Fits, StepOf, WriteSteps, StoreLocal, StoreShape, IInv, Shape, Knows, Of
<1>9. Of(r, i)' /\ request'[r] = next /\ request[r].of = i
  BY <1>1, <1>4 DEF Moves, Of, Knows
<1>10. ReservedOnce(i)'
  BY <1>1, <1>3, <1>4, <1>6, <1>7, <1>8, WorkReserved DEF Knows
<1>11. Backed(i)'
  <2>1. RolesStored(i) /\ RolesStored(i)'
    BY <1>1, <1>3 DEF Knows, Backs, WriteSteps, RolesStored, Stored
  <2>2. Backs(r, i)'
    BY <1>4, <1>9, <2>1 DEF Backs, At
  <2>3. \A f \in Files :
          /\ Stored(i, f)'
          /\ log'[i][f] = "compensated" => log[i][f] = "compensated"
    BY <1>6, <1>7, <2>1 DEF RolesStored, Stored
  <2>4. QED
    BY <1>3, <1>8, <2>2, <2>3, BackedKept
<1>12. Settles(i)'
  <2>1. Settling(r, i)'
    BY <1>4, <1>6, <1>7, <1>9 DEF Settling, NonePending
  <2>2. QED
    BY <1>3, <1>6, <1>7, <1>8, <2>1, SettlesKept
<1>13. Clean(i)'
  <2>1. ASSUME Progress(r, i) PROVE Progress(r, i)'
    <3>1. Complete(i)'
      BY <1>3, <1>6, <1>7, <2>1 DEF Progress, Complete, AllPending
    <3>2. QED
      BY <1>3, <1>4, <1>9, <2>1, <3>1 DEF Progress, ReserveSteps, UndoSteps
  <2>2. AboutToCommit(r, i)'
    BY <1>4, <1>9 DEF AboutToCommit
  <2>3. QED
    BY <1>3, <1>4, <1>8, <1>9, <2>1, <2>2, CleanKept
<1>14. QED
  BY <1>8, <1>10, <1>11, <1>12, <1>13, StepKeeps DEF InvAt

(* What a throw leaves in the history of its check-in. *)
LEMMA Suffered ==
  ASSUME Shape, NEW r \in Requests, request[r].of \in CheckIns, NEW what \in Mishap,
         Suffers(r, what), UNCHANGED role
  PROVE  /\ mishap' \in [CheckIns -> SUBSET Mishap] /\ what \in mishap'[request[r].of]
         /\ mishap[request[r].of] \subseteq mishap'[request[r].of] /\ role' = role
         /\ \A j \in CheckIns \ {request[r].of} : mishap'[j] = mishap[j]
<1>1. mishap \in [CheckIns -> SUBSET Mishap]
  BY DEF Shape, StoreShape
<1>2. PICK i \in CheckIns : i = request[r].of
  OBVIOUS
<1>3. PICK met : met = mishap[i] \cup {what}
  OBVIOUS
<1>4. met \in SUBSET Mishap /\ what \in met /\ mishap[i] \subseteq met
  BY <1>1, <1>3
<1>5. mishap' = [mishap EXCEPT ![i] = met]
  BY <1>1, <1>2, <1>3 DEF Suffers
<1>6. QED
  BY <1>1, <1>2, <1>4, <1>5

(* The last record of a request, and the event it leaves on the bus.         *)
LEMMA Announced ==
  ASSUME Shape, NEW i \in CheckIns, NEW e \in Events, Publish(i, e)
  PROVE  /\ published' \in [CheckIns -> SUBSET Events]
         /\ published'[i] = published[i] \cup {e}
         /\ \A j \in CheckIns \ {i} : published'[j] = published[j]
<1>1. published \in [CheckIns -> SUBSET Events]
  BY DEF Shape, StoreShape
<1>2. PICK set : set = published[i] \cup {e}
  OBVIOUS
<1>3. set \in SUBSET Events /\ published' = [published EXCEPT ![i] = set]
  BY <1>1, <1>2 DEF Publish
<1>4. QED
  BY <1>1, <1>2, <1>3

LEMMA CheckinSet ==
  ASSUME Shape, NEW i \in CheckIns, NEW s \in CheckinStates, checkin' = [checkin EXCEPT ![i] = s]
  PROVE  /\ checkin' \in [CheckIns -> CheckinStates] /\ checkin'[i] = s
         /\ \A j \in CheckIns \ {i} : checkin'[j] = checkin[j]
BY DEF Shape, StoreShape

LEMMA VersionSet ==
  ASSUME Shape, NEW i \in CheckIns, NEW s \in VersionStates, version' = [version EXCEPT ![i] = s]
  PROVE  /\ version' \in [CheckIns -> VersionStates] /\ version'[i] = s
         /\ \A j \in CheckIns \ {i} : version'[j] = version[j]
BY DEF Shape, StoreShape

(* A request that is over, at the check-in it was of.                        *)
LEMMA Over ==
  ASSUME NEW r \in Requests, NEW i \in CheckIns, Knows(r, i), Moves(r, Idle)
  PROVE  /\ request[r].of = i /\ request'[r] = Idle
         /\ Idle.of # i /\ Idle.op # "reserve" /\ Fits(Idle) /\ Idle.of \in {i, None}
BY Nothing DEF Knows, Of, Moves, Fits

LEMMA CommittedKeeps ==
  ASSUME IInv, NEW r \in Requests, Committed(r), UNCHANGED <<role, mishap>>
  PROVE  IInv'
<1>1. PICK i \in CheckIns : Knows(r, i)
  BY Here DEF Committed, At
<1>2. /\ request[r].op = "commit" /\ request[r].step = "state" /\ Return(r)
      /\ checkin' = [checkin EXCEPT ![i] = "committed"] /\ Publish(i, "committed")
      /\ UNCHANGED <<version, expired, upload, log, manifests, latest>>
  BY <1>1 DEF Committed, At, Knows, Of
<1>3. /\ Moves(r, Idle) /\ request[r].of = i /\ request'[r] = Idle
      /\ Idle.of # i /\ Idle.op # "reserve" /\ Fits(Idle) /\ Idle.of \in {i, None}
  BY <1>1, <1>2, Returned, Over DEF IInv
<1>4. /\ checkin' \in [CheckIns -> CheckinStates] /\ checkin'[i] = "committed"
      /\ \A j \in CheckIns \ {i} : checkin'[j] = checkin[j]
  BY <1>2, CheckinSet DEF IInv, CheckinStates
<1>5. /\ published' \in [CheckIns -> SUBSET Events]
      /\ published'[i] = published[i] \cup {"committed"}
      /\ \A j \in CheckIns \ {i} : published'[j] = published[j]
  BY <1>2, Announced DEF IInv, Events
<1>6. Acts(r, i, Idle)
  BY <1>2, <1>3, <1>4, <1>5 DEF Acts, StoreLocal, StoreShape, IInv, Shape
<1>7. ReservedOnce(i)'
  BY <1>1, <1>2, <1>3, <1>4, <1>6, WorkReserved DEF Knows
<1>8. Backed(i)'
  BY <1>2, <1>3, <1>6, BackedKept
<1>9. Settles(i)'
  BY <1>1, <1>2, <1>3, <1>6, SettlesKept DEF Knows, Settling
<1>10. Clean(i)'
  <2>1. ASSUME Progress(r, i) PROVE Ended(i)'
    BY <1>2, <1>4, <1>5, <2>1 DEF Progress, Ended, Complete
  <2>2. QED
    BY <1>2, <1>3, <1>4, <1>6, <2>1, CleanKept
<1>11. QED
  BY <1>6, <1>7, <1>8, <1>9, <1>10, StepKeeps DEF InvAt

LEMMA CommitThrowsKeeps ==
  ASSUME IInv, NEW r \in Requests, CommitThrows(r), UNCHANGED role
  PROVE  IInv'
<1>1. PICK i \in CheckIns : Knows(r, i)
  BY Here DEF CommitThrows
<1>2. /\ request[r].op = "commit" /\ Return(r) /\ Suffers(r, "threw") /\ "threw" \in Mishap
      /\ \/ checkin' = [checkin EXCEPT ![i] = "compensating"] /\ Publish(i, "failed")
         \/ UNCHANGED <<checkin, published>>
      /\ UNCHANGED <<version, expired, upload, log, manifests, latest>>
  BY <1>1 DEF CommitThrows, Knows, Of, Mishap
<1>3. /\ Moves(r, Idle) /\ request[r].of = i /\ request'[r] = Idle
      /\ Idle.of # i /\ Idle.op # "reserve" /\ Fits(Idle) /\ Idle.of \in {i, None}
  BY <1>1, <1>2, Returned, Over DEF IInv
<1>4. /\ checkin' \in [CheckIns -> CheckinStates] /\ checkin'[i] \in {checkin[i], "compensating"}
      /\ \A j \in CheckIns \ {i} : checkin'[j] = checkin[j]
  BY <1>2, CheckinSet DEF IInv, CheckinStates, Shape, StoreShape
<1>5. /\ published' \in [CheckIns -> SUBSET Events]
      /\ \A j \in CheckIns \ {i} : published'[j] = published[j]
  BY <1>2, Announced DEF IInv, Events, Shape, StoreShape
<1>6. /\ mishap' \in [CheckIns -> SUBSET Mishap] /\ mishap[i] \subseteq mishap'[i]
      /\ mishap'[i] # {} /\ role' = role
      /\ \A j \in CheckIns \ {i} : mishap'[j] = mishap[j]
  BY <1>2, <1>3, Suffered DEF IInv
<1>7. Acts(r, i, Idle)
  BY <1>2, <1>3, <1>4, <1>5, <1>6 DEF Acts, StoreLocal, StoreShape, IInv, Shape
<1>8. ReservedOnce(i)'
  BY <1>1, <1>2, <1>3, <1>4, <1>7, WorkReserved DEF Knows
<1>9. Backed(i)'
  BY <1>2, <1>3, <1>7, BackedKept
<1>10. Settles(i)'
  BY <1>2, <1>3, <1>4, <1>7, SettlesKept
<1>11. Clean(i)'
  BY <1>6 DEF Clean
<1>12. QED
  BY <1>7, <1>8, <1>9, <1>10, <1>11, StepKeeps DEF InvAt

(* A commit or an abort that ends where it stands.                           *)
LEMMA BreakingOffKeeps ==
  ASSUME IInv, NEW r \in Requests, NEW what \in Mishap,
         request[r].step # "none", request[r].op # "reserve",
         Return(r), Suffers(r, what), UNCHANGED role,
         UNCHANGED <<version, checkin, expired, upload, log, manifests, latest, published>>
  PROVE  IInv'
<1>1. PICK i \in CheckIns : Knows(r, i)
  BY Here
<1>2. /\ Moves(r, Idle) /\ request[r].of = i /\ request'[r] = Idle
      /\ Idle.of # i /\ Idle.op # "reserve" /\ Fits(Idle) /\ Idle.of \in {i, None}
  BY <1>1, Returned, Over DEF IInv
<1>3. /\ mishap' \in [CheckIns -> SUBSET Mishap] /\ mishap[i] \subseteq mishap'[i]
      /\ mishap'[i] # {} /\ role' = role
      /\ \A j \in CheckIns \ {i} : mishap'[j] = mishap[j]
  BY <1>2, Suffered DEF IInv
<1>4. Acts(r, i, Idle)
  BY <1>2, <1>3 DEF Acts, StoreLocal, StoreShape, IInv, Shape
<1>5. ReservedOnce(i)'
  BY <1>1, <1>2, <1>4, WorkReserved DEF Knows
<1>6. Backed(i)'
  BY <1>2, <1>4, BackedKept
<1>7. Settles(i)'
  BY <1>2, <1>4, SettlesKept
<1>8. Clean(i)'
  BY <1>3 DEF Clean
<1>9. QED
  BY <1>4, <1>5, <1>6, <1>7, <1>8, StepKeeps DEF InvAt

LEMMA FailureThrowsKeeps ==
  ASSUME IInv, NEW r \in Requests, FailureThrows(r), UNCHANGED role
  PROVE  IInv'
BY BreakingOffKeeps DEF FailureThrows, Mishap

LEMMA AbortThrowsKeeps ==
  ASSUME IInv, NEW r \in Requests, AbortThrows(r), UNCHANGED role
  PROVE  IInv'
BY BreakingOffKeeps DEF AbortThrows, At, Mishap

-----------------------------------------------------------------------------
(* Compensation, of a commit that failed or of an abort. *)
LEMMA ListRowsKeeps ==
  ASSUME IInv, NEW r \in Requests, ListRows(r), UNCHANGED <<role, mishap>>
  PROVE  IInv'
<1>1. PICK i \in CheckIns : Knows(r, i)
  BY Here DEF ListRows
<1>2. /\ request[r].step = "list"
      /\ GotoWith(r, "undo", {f \in Files : log[i][f] = "pending"})
      /\ UNCHANGED <<version, checkin, expired, upload, log, manifests, latest, published>>
  BY <1>1 DEF ListRows, Knows, Of
<1>3. request[r].op \in {"commit", "abort"}
  BY <1>1, <1>2 DEF Knows, StepOf, ReserveSteps
<1>4. PICK next \in RequestType :
        /\ Moves(r, next)
        /\ next.step = "undo" /\ next.op = request[r].op /\ next.of = i
        /\ next.todo = {f \in Files : log[i][f] = "pending"}
  BY <1>1, <1>2, WentWith DEF IInv, Knows, Of, StepNames, UndoSteps
<1>5. Acts(r, i, next)
  BY <1>1, <1>2, <1>3, <1>4
  DEF Acts, Fits, StepOf, UndoSteps, StoreLocal, StoreShape, IInv, Shape, Knows, Of
<1>6. Of(r, i)' /\ request'[r] = next /\ request[r].of = i
  BY <1>1, <1>4 DEF Moves, Of, Knows
<1>7. ReservedOnce(i)'
  BY <1>1, <1>2, <1>3, <1>4, <1>5, WorkReserved DEF Knows
<1>8. Backed(i)'
  <2>1. Backs(r, i)'
    BY <1>4, <1>6 DEF Backs, At, WriteSteps
  <2>2. QED
    BY <1>2, <1>5, <2>1, BackedKept
<1>9. Settles(i)'
  <2>1. Settling(r, i)'
    BY <1>2, <1>4, <1>6 DEF Settling
  <2>2. QED
    BY <1>2, <1>5, <2>1, SettlesKept
<1>10. Clean(i)'
  <2>1. ASSUME Progress(r, i) PROVE Progress(r, i)'
    BY <1>2, <1>4, <1>6, <2>1 DEF Progress, Uncommitted, ReserveSteps, UndoSteps
  <2>2. ~AboutToCommit(r, i)
    BY <1>2 DEF AboutToCommit
  <2>3. QED
    BY <1>2, <1>4, <1>5, <1>6, <2>1, <2>2, CleanKept
<1>11. QED
  BY <1>5, <1>7, <1>8, <1>9, <1>10, StepKeeps DEF InvAt

LEMMA ExecuteInverseKeeps ==
  ASSUME IInv, NEW r \in Requests, ExecuteInverse(r), UNCHANGED <<role, mishap>>
  PROVE  IInv'
<1>1. PICK i \in CheckIns : Knows(r, i)
  BY Here DEF ExecuteInverse
<1>2. /\ request[r].step = "undo"
      /\ UNCHANGED <<version, checkin, expired, log, manifests, latest, published>>
  BY DEF ExecuteInverse
<1>3. request[r].op \in {"commit", "abort"} /\ request[r] \in RequestType
  BY <1>1, <1>2, Busy DEF Knows, StepOf, ReserveSteps, IInv
<1>4. PICK f \in request[r].todo, ok \in BOOLEAN :
        /\ \/ upload[i][f] = "open" /\ SetUpload(i, f, "gone")
           \/ ~ok /\ UNCHANGED upload
        /\ request' = [request EXCEPT ![r] =
             [request[r] EXCEPT !.step = "note", !.file = f, !.ok = ok]]
  BY <1>1 DEF ExecuteInverse, AbortTakes, Knows, Of, IInv, Shape
<1>5. f \in Files
  BY <1>1 DEF Knows
<1>6. PICK next : next = [request[r] EXCEPT !.step = "note", !.file = f, !.ok = ok]
  OBVIOUS
<1>7. /\ next \in RequestType
      /\ next.step = "note" /\ next.op = request[r].op /\ next.of = request[r].of
      /\ next.todo = request[r].todo /\ next.file = f /\ next.ok = ok
  BY <1>3, <1>5, <1>6 DEF RequestType, StepNames, UndoSteps
<1>8. Moves(r, next) /\ next.of = i
  BY <1>1, <1>4, <1>6, <1>7, Moved DEF IInv, Knows, Of
<1>9. /\ upload' \in [CheckIns -> [Files -> UploadStates]]
      /\ \A g \in Files : upload[i][g] \in {"complete", "gone"} => upload'[i][g] = upload[i][g]
      /\ ok => upload'[i][f] = "gone"
      /\ \A j \in CheckIns \ {i} : upload'[j] = upload[j]
  BY <1>4, <1>5, UploadSet DEF IInv, UploadStates, Shape, StoreShape
<1>10. Acts(r, i, next)
  BY <1>1, <1>2, <1>3, <1>5, <1>7, <1>8, <1>9
  DEF Acts, Fits, StepOf, UndoSteps, StoreLocal, StoreShape, IInv, Shape, Knows, Of
<1>11. Of(r, i)' /\ request'[r] = next /\ request[r].of = i
  BY <1>1, <1>8 DEF Moves, Of, Knows
<1>12. ReservedOnce(i)'
  BY <1>1, <1>2, <1>3, <1>7, <1>10, WorkReserved DEF Knows
<1>13. Backed(i)'
  <2>1. Backs(r, i)'
    BY <1>7, <1>9, <1>11 DEF Backs, At, WriteSteps
  <2>2. QED
    BY <1>2, <1>9, <1>10, <2>1, BackedKept
<1>14. Settles(i)'
  <2>1. Settling(r, i)'
    BY <1>1, <1>2, <1>7, <1>11 DEF Knows, Settling
  <2>2. QED
    BY <1>2, <1>10, <2>1, SettlesKept
<1>15. Clean(i)'
  <2>1. ASSUME Progress(r, i) PROVE Progress(r, i)'
    BY <1>2, <1>7, <1>11, <2>1 DEF Progress, Uncommitted, ReserveSteps, UndoSteps
  <2>2. ~AboutToCommit(r, i)
    BY <1>2 DEF AboutToCommit
  <2>3. QED
    BY <1>2, <1>8, <1>10, <1>11, <2>1, <2>2, CleanKept
<1>16. QED
  BY <1>10, <1>12, <1>13, <1>14, <1>15, StepKeeps DEF InvAt

LEMMA NoteInverseKeeps ==
  ASSUME IInv, NEW r \in Requests, NoteInverse(r), UNCHANGED <<role, mishap>>
  PROVE  IInv'
<1>1. PICK i \in CheckIns : Knows(r, i)
  BY Here DEF NoteInverse
<1>2. PICK f : f = request[r].file
  OBVIOUS
<1>3. PICK s \in {"compensated", "failed"} : s = IF request[r].ok THEN "compensated" ELSE "failed"
  OBVIOUS
<1>4. /\ request[r].step = "note" /\ f \in Files
      /\ SetLog(i, f, s) /\ GotoWith(r, "undo", request[r].todo \ {f})
      /\ UNCHANGED <<version, checkin, expired, upload, manifests, latest, published>>
  BY <1>1, <1>2, <1>3 DEF NoteInverse, Knows, Of
<1>5. request[r].op \in {"commit", "abort"} /\ request[r].todo \ {f} \in SUBSET Files
  BY <1>1, <1>4 DEF Knows, StepOf, ReserveSteps
<1>6. PICK next \in RequestType :
        /\ Moves(r, next)
        /\ next.step = "undo" /\ next.op = request[r].op /\ next.of = i
        /\ next.todo = request[r].todo \ {f}
  BY <1>1, <1>4, <1>5, WentWith DEF IInv, Knows, Of, StepNames, UndoSteps
<1>7. /\ log' \in [CheckIns -> [Files -> LogStates]]
      /\ log'[i][f] = s /\ \A g \in Files \ {f} : log'[i][g] = log[i][g]
      /\ \A j \in CheckIns \ {i} : log'[j] = log[j]
  BY <1>3, <1>4, LogSet DEF IInv, LogStates
<1>8. Acts(r, i, next)
  BY <1>1, <1>4, <1>5, <1>6, <1>7
  DEF Acts, Fits, StepOf, UndoSteps, StoreLocal, StoreShape, IInv, Shape, Knows, Of
<1>9. Of(r, i)' /\ request'[r] = next /\ request[r].of = i
  BY <1>1, <1>6 DEF Moves, Of, Knows
<1>10. ReservedOnce(i)'
  <2>1. \A g \in Files : log[i][g] # "none" => log'[i][g] # "none"
    BY <1>3, <1>7
  <2>2. QED
    BY <1>1, <1>4, <1>5, <1>6, <1>8, <2>1, WorkReserved DEF Knows
<1>11. Backed(i)'
  <2>1. Backs(r, i)'
    BY <1>6, <1>9 DEF Backs, At, WriteSteps
  <2>2. s = "compensated" => upload'[i][f] = "gone"
    BY <1>1, <1>2, <1>3, <1>4 DEF Knows, Backs
  <2>3. \A g \in Files :
          /\ log'[i][g] = "committed" => log[i][g] = "committed"
          /\ log'[i][g] = "compensated" => log[i][g] = "compensated" \/ upload'[i][g] = "gone"
    BY <1>3, <1>4, <1>7, <2>2
  <2>4. QED
    BY <1>4, <1>8, <2>1, <2>3, BackedKept
<1>12. Settles(i)'
  <2>1. \A g \in Files : log'[i][g] = "pending" => log[i][g] = "pending" /\ g # f
    BY <1>3, <1>7
  <2>2. Settling(r, i)'
    BY <1>1, <1>4, <1>6, <1>9, <2>1 DEF Knows, Settling
  <2>3. QED
    BY <1>4, <1>8, <2>1, <2>2, SettlesKept
<1>13. Clean(i)'
  <2>1. ASSUME Progress(r, i) PROVE Progress(r, i)'
    BY <1>4, <1>6, <1>9, <2>1 DEF Progress, Uncommitted, ReserveSteps, UndoSteps
  <2>2. ~AboutToCommit(r, i)
    BY <1>4 DEF AboutToCommit
  <2>3. QED
    BY <1>4, <1>6, <1>8, <1>9, <2>1, <2>2, CleanKept
<1>14. QED
  BY <1>8, <1>10, <1>11, <1>12, <1>13, StepKeeps DEF InvAt

LEMMA MarkThrowsKeeps ==
  ASSUME IInv, NEW r \in Requests, MarkThrows(r), UNCHANGED <<role, mishap>>
  PROVE  IInv'
<1>1. PICK i \in CheckIns : Knows(r, i)
  BY Here DEF MarkThrows
<1>2. /\ request[r].step = "note" /\ request[r] \in RequestType
      /\ request' = [request EXCEPT ![r] = [request[r] EXCEPT !.ok = FALSE]]
      /\ UNCHANGED <<version, checkin, expired, upload, log, manifests, latest, published>>
  BY Busy DEF MarkThrows, IInv, Shape
<1>3. request[r].op \in {"commit", "abort"}
  BY <1>1, <1>2 DEF Knows, StepOf, ReserveSteps
<1>4. PICK next : next = [request[r] EXCEPT !.ok = FALSE]
  OBVIOUS
<1>5. /\ next \in RequestType /\ ~next.ok
      /\ next.step = "note" /\ next.op = request[r].op /\ next.of = request[r].of
      /\ next.todo = request[r].todo /\ next.file = request[r].file
  BY <1>2, <1>4 DEF RequestType
<1>6. Moves(r, next) /\ next.of = i
  BY <1>1, <1>2, <1>4, <1>5, Moved DEF IInv, Knows, Of
<1>7. Acts(r, i, next)
  BY <1>1, <1>2, <1>3, <1>5, <1>6
  DEF Acts, Fits, StepOf, UndoSteps, StoreLocal, StoreShape, IInv, Shape, Knows, Of
<1>8. Of(r, i)' /\ request'[r] = next /\ request[r].of = i
  BY <1>1, <1>6 DEF Moves, Of, Knows
<1>9. ReservedOnce(i)'
  BY <1>1, <1>2, <1>3, <1>5, <1>7, WorkReserved DEF Knows
<1>10. Backed(i)'
  <2>1. Backs(r, i)'
    BY <1>5, <1>8 DEF Backs, At, WriteSteps
  <2>2. QED
    BY <1>2, <1>7, <2>1, BackedKept
<1>11. Settles(i)'
  <2>1. Settling(r, i)'
    BY <1>1, <1>2, <1>5, <1>8 DEF Knows, Settling
  <2>2. QED
    BY <1>2, <1>7, <2>1, SettlesKept
<1>12. Clean(i)'
  <2>1. ASSUME Progress(r, i) PROVE Progress(r, i)'
    BY <1>2, <1>5, <1>8, <2>1 DEF Progress, Uncommitted, ReserveSteps, UndoSteps
  <2>2. ~AboutToCommit(r, i)
    BY <1>2 DEF AboutToCommit
  <2>3. QED
    BY <1>2, <1>6, <1>7, <1>8, <2>1, <2>2, CleanKept
<1>13. QED
  BY <1>7, <1>9, <1>10, <1>11, <1>12, StepKeeps DEF InvAt

LEMMA CompensationThrowsKeeps ==
  ASSUME IInv, NEW r \in Requests, CompensationThrows(r), UNCHANGED role
  PROVE  IInv'
<1>1. PICK i \in CheckIns : Knows(r, i)
  BY Here DEF CompensationThrows
<1>2. /\ request[r].step \in {"list", "note"}
      /\ UNCHANGED <<version, checkin, expired, upload, log, manifests, latest, published>>
  BY DEF CompensationThrows
<1>3. CASE request[r].op = "abort" /\ Return(r) /\ Suffers(r, "threw")
  BY <1>2, <1>3, BreakingOffKeeps DEF Mishap
<1>4. CASE request[r].op = "commit" /\ Goto(r, "aborted") /\ Suffers(r, "swallowed")
  <2>1. PICK next \in RequestType :
          /\ Moves(r, next)
          /\ next.step = "aborted" /\ next.op = "commit" /\ next.of = i
    BY <1>1, <1>4, WentTo DEF IInv, Knows, Of, StepNames, UndoSteps
  <2>2. Of(r, i)' /\ request'[r] = next /\ request[r].of = i
    BY <1>1, <2>1 DEF Moves, Of, Knows
  <2>3. /\ mishap' \in [CheckIns -> SUBSET Mishap] /\ mishap[i] \subseteq mishap'[i]
        /\ "swallowed" \in mishap'[i] /\ role' = role
        /\ \A j \in CheckIns \ {i} : mishap'[j] = mishap[j]
    BY <1>4, <2>2, Suffered DEF IInv, Mishap
  <2>4. Acts(r, i, next)
    BY <1>1, <1>2, <2>1, <2>2, <2>3
    DEF Acts, Fits, StepOf, UndoSteps, StoreLocal, StoreShape, IInv, Shape, Knows, Of
  <2>5. ReservedOnce(i)'
    BY <1>1, <1>2, <1>4, <2>1, <2>4, WorkReserved DEF Knows
  <2>6. Backed(i)'
    <3>1. Backs(r, i)'
      BY <2>1, <2>2 DEF Backs, At, WriteSteps
    <3>2. QED
      BY <1>2, <2>4, <3>1, BackedKept
  <2>7. Settles(i)'
    <3>1. Settling(r, i)'
      BY <2>1, <2>2, <2>3 DEF Settling
    <3>2. QED
      BY <1>2, <2>4, <3>1, SettlesKept
  <2>8. Clean(i)'
    BY <2>3 DEF Clean
  <2>9. QED
    BY <2>4, <2>5, <2>6, <2>7, <2>8, StepKeeps DEF InvAt
<1>5. QED
  BY <1>3, <1>4 DEF CompensationThrows

LEMMA CompensatedKeeps ==
  ASSUME IInv, NEW r \in Requests, Compensated(r), UNCHANGED <<role, mishap>>
  PROVE  IInv'
<1>1. PICK i \in CheckIns : Knows(r, i)
  BY Here DEF Compensated
<1>2. /\ request[r].step = "undo" /\ request[r].todo = {} /\ Goto(r, "aborted")
      /\ UNCHANGED version \/ version' = [version EXCEPT ![i] = "failed"]
      /\ UNCHANGED <<checkin, expired, upload, log, manifests, latest, published>>
  BY <1>1 DEF Compensated, SetVersion, Knows, Of
<1>3. request[r].op \in {"commit", "abort"}
  BY <1>1, <1>2 DEF Knows, StepOf, ReserveSteps
<1>4. PICK next \in RequestType :
        /\ Moves(r, next)
        /\ next.step = "aborted" /\ next.op = request[r].op /\ next.of = i
  BY <1>1, <1>2, WentTo DEF IInv, Knows, Of, StepNames, UndoSteps
<1>5. /\ version' \in [CheckIns -> VersionStates] /\ version'[i] \in {version[i], "failed"}
      /\ \A j \in CheckIns \ {i} : version'[j] = version[j]
  BY <1>2, VersionSet DEF IInv, VersionStates, Shape, StoreShape
<1>6. Acts(r, i, next)
  BY <1>1, <1>2, <1>3, <1>4, <1>5
  DEF Acts, Fits, StepOf, UndoSteps, StoreLocal, StoreShape, IInv, Shape, Knows, Of
<1>7. Of(r, i)' /\ request'[r] = next /\ request[r].of = i
  BY <1>1, <1>4 DEF Moves, Of, Knows
<1>8. ReservedOnce(i)'
  BY <1>1, <1>2, <1>3, <1>4, <1>5, <1>6, WorkReserved DEF Knows
<1>9. Backed(i)'
  <2>1. Backs(r, i)'
    BY <1>4, <1>7 DEF Backs, At, WriteSteps
  <2>2. QED
    BY <1>2, <1>6, <2>1, BackedKept
<1>10. Settles(i)'
  <2>1. Settling(r, i)'
    BY <1>1, <1>2, <1>4, <1>7 DEF Knows, Settling, NonePending
  <2>2. QED
    BY <1>2, <1>6, <2>1, SettlesKept
<1>11. Clean(i)'
  <2>1. ASSUME Progress(r, i) PROVE Progress(r, i)'
    BY <1>2, <1>4, <1>5, <1>7, <2>1 DEF Progress, Uncommitted, ReserveSteps, UndoSteps
  <2>2. ~AboutToCommit(r, i)
    BY <1>2 DEF AboutToCommit
  <2>3. QED
    BY <1>2, <1>4, <1>6, <1>7, <2>1, <2>2, CleanKept
<1>12. QED
  BY <1>6, <1>8, <1>9, <1>10, <1>11, StepKeeps DEF InvAt

LEMMA AbortedKeeps ==
  ASSUME IInv, NEW r \in Requests, Aborted(r), UNCHANGED <<role, mishap>>
  PROVE  IInv'
<1>1. PICK i \in CheckIns : Knows(r, i)
  BY Here DEF Aborted
<1>2. PICK e \in {"aborted", "failed"} : e = IF request[r].op = "abort" THEN "aborted" ELSE "failed"
  OBVIOUS
<1>3. /\ request[r].step = "aborted" /\ Return(r)
      /\ checkin' = [checkin EXCEPT ![i] = "aborted"] /\ Publish(i, e)
      /\ UNCHANGED <<version, expired, upload, log, manifests, latest>>
  BY <1>1, <1>2 DEF Aborted, Knows, Of
<1>4. /\ Moves(r, Idle) /\ request[r].of = i /\ request'[r] = Idle
      /\ Idle.of # i /\ Idle.op # "reserve" /\ Fits(Idle) /\ Idle.of \in {i, None}
  BY <1>1, <1>3, Returned, Over DEF IInv
<1>5. /\ checkin' \in [CheckIns -> CheckinStates] /\ checkin'[i] = "aborted"
      /\ \A j \in CheckIns \ {i} : checkin'[j] = checkin[j]
  BY <1>3, CheckinSet DEF IInv, CheckinStates
<1>6. /\ published' \in [CheckIns -> SUBSET Events]
      /\ published'[i] = published[i] \cup {e}
      /\ \A j \in CheckIns \ {i} : published'[j] = published[j]
  BY <1>2, <1>3, Announced DEF IInv, Events
<1>7. Acts(r, i, Idle)
  BY <1>3, <1>4, <1>5, <1>6 DEF Acts, StoreLocal, StoreShape, IInv, Shape
<1>8. request[r].op # "reserve"
  BY <1>1, <1>3 DEF Knows, StepOf, ReserveSteps
<1>9. ReservedOnce(i)'
  BY <1>1, <1>3, <1>4, <1>5, <1>7, <1>8, WorkReserved DEF Knows
<1>10. Backed(i)'
  BY <1>3, <1>4, <1>7, BackedKept
<1>11. Settles(i)'
  BY <1>1, <1>3, <1>4, <1>7, SettlesKept DEF Knows, Settling
<1>12. Clean(i)'
  <2>1. ASSUME Progress(r, i) PROVE Ended(i)' /\ checkin[i] # "committed"
    BY <1>2, <1>3, <1>5, <1>6, <2>1 DEF Progress, Ended, Uncommitted, UndoSteps
  <2>2. ~AboutToCommit(r, i)
    BY <1>3 DEF AboutToCommit
  <2>3. QED
    BY <1>3, <1>4, <1>5, <1>7, <2>1, <2>2, CleanKept
<1>13. QED
  BY <1>7, <1>9, <1>10, <1>11, <1>12, StepKeeps DEF InvAt

-----------------------------------------------------------------------------
(* A request that starts on a check-in: no mishap if nobody is there.        *)
Joins(i) ==
  /\ mishap' = [mishap EXCEPT ![i] =
       IF \E q \in Requests : request[q].of = i THEN @ \cup {"overlap"} ELSE @]
  /\ UNCHANGED role

LEMMA Joined ==
  ASSUME Shape, NEW i \in CheckIns, Joins(i)
  PROVE  /\ mishap' \in [CheckIns -> SUBSET Mishap] /\ mishap[i] \subseteq mishap'[i]
         /\ mishap'[i] = {} => Quiet(i)
         /\ \A j \in CheckIns \ {i} : mishap'[j] = mishap[j]
<1>1. mishap \in [CheckIns -> SUBSET Mishap]
  BY DEF Shape, StoreShape
<1>2. PICK met : met = IF Quiet(i) THEN mishap[i] ELSE mishap[i] \cup {"overlap"}
  OBVIOUS
<1>3. met \in SUBSET Mishap /\ mishap[i] \subseteq met /\ (met = {} => Quiet(i))
  BY <1>1, <1>2 DEF Mishap
<1>4. mishap' = [mishap EXCEPT ![i] = met]
  BY <1>1, <1>2 DEF Joins, Quiet
<1>5. QED
  BY <1>1, <1>3, <1>4

(* A commit or an abort that starts finds the store as it is, and leaves it. *)
LEMMA EntryKeeps ==
  ASSUME IInv, NEW r \in Requests, NEW i \in CheckIns, NEW op \in {"commit", "abort"},
         NEW step \in {"complete", "list"}, StepOf(op, step), NEW files \in SUBSET Files,
         step = "complete" => CoversRoles(i, files) /\ checkin[i] = "reserved",
         step = "list" => checkin[i] \in {"reserved", "compensating"},
         Begin(r, op, step, i, files), Joins(i),
         UNCHANGED <<version, checkin, expired, upload, log, manifests, latest, published>>
  PROVE  IInv'
<1>1. op \in Ops /\ step \in StepNames
  BY DEF Ops, StepNames, UndoSteps
<1>2. /\ request[r] = Idle
      /\ \E next \in RequestType :
           Moves(r, next) /\ next.step = step /\ next.op = op /\ next.of = i /\ next.todo = files
  BY <1>1, Began DEF IInv
<1>3. PICK next \in RequestType :
        Moves(r, next) /\ next.step = step /\ next.op = op /\ next.of = i /\ next.todo = files
  BY <1>2
<1>4. /\ mishap' \in [CheckIns -> SUBSET Mishap] /\ mishap[i] \subseteq mishap'[i]
      /\ mishap'[i] = {} => mishap[i] = {} /\ Quiet(i)
      /\ role' = role /\ \A j \in CheckIns \ {i} : mishap'[j] = mishap[j]
  BY Joined DEF IInv, Joins
<1>5. Acts(r, i, next)
  BY <1>2, <1>3, <1>4, Nothing DEF Acts, Fits, StoreLocal, StoreShape, IInv, Shape
<1>6. InvAt(i) /\ Of(r, i)' /\ request'[r] = next
  BY <1>3 DEF IInv, Moves, Of
<1>7. checkin[i] # "none" /\ checkin[i] # "committed" /\ version[i] # "none"
  BY <1>6 DEF InvAt, ReservedOnce
<1>8. ReservedOnce(i)'
  BY <1>3, <1>5, <1>7, WorkReserved
<1>9. Backed(i)'
  <2>1. At(r, "commit", "complete")' =>
          \A f \in Files : \E g \in request'[r].todo : role'[i][g] = role'[i][f]
    BY <1>3, <1>4, <1>6 DEF At, CoversRoles
  <2>2. Backs(r, i)'
    BY <1>3, <1>6, <2>1 DEF Backs, WriteSteps
  <2>3. QED
    BY <1>5, <2>2, BackedKept
<1>10. Settles(i)'
  <2>1. Settling(r, i)'
    BY <1>3, <1>6 DEF Settling
  <2>2. QED
    BY <1>5, <2>1, SettlesKept
<1>11. Clean(i)'
  <2>1. SUFFICES ASSUME mishap'[i] = {}
                 PROVE  /\ \A p, q \in Requests : Of(p, i)' /\ Of(q, i)' => p = q
                        /\ latest' # i
                        /\ \A q \in Requests : Of(q, i)' => Progress(q, i)'
                        /\ ~Quiet(i)'
    BY DEF Clean
  <2>2. Quiet(i) /\ Ended(i) /\ latest # i
    BY <1>4, <1>6, <1>7, <2>1 DEF InvAt, Clean, AboutToCommit, Of, Quiet
  <2>3. \A q \in Requests : Of(q, i)' => q = r
    BY <1>3, <2>2 DEF Of, Quiet, Moves
  <2>4. Progress(r, i)'
    BY <1>3, <1>6, <1>7, <2>2
    DEF Progress, Ended, Untouched, Uncommitted, AllPending, ReserveSteps, UndoSteps
  <2>5. ~Quiet(i)'
    BY <1>6 DEF Quiet, Of
  <2>6. QED
    BY <2>2, <2>3, <2>4, <2>5
<1>12. QED
  BY <1>5, <1>8, <1>9, <1>10, <1>11, StepKeeps DEF InvAt

LEMMA CommitKeeps ==
  ASSUME IInv, NEW r \in Requests, NEW i \in CheckIns, Commit(r, i), Joins(i)
  PROVE  IInv'
<1>1. StepOf("commit", "complete")
  BY DEF StepOf
<1>2. QED
  BY <1>1, EntryKeeps DEF Commit

LEMMA AbortKeeps ==
  ASSUME IInv, NEW r \in Requests, NEW i \in CheckIns, Abort(r, i), Joins(i)
  PROVE  IInv'
<1>1. StepOf("abort", "list")
  BY DEF StepOf, UndoSteps
<1>2. QED
  BY <1>1, EntryKeeps DEF Abort

-----------------------------------------------------------------------------
(* A reservation, which is alone on its check-in and has no manifest yet. *)
Alone(r, i) == \A q \in Requests : Of(q, i) => q = r

(* What a step of it may do there. *)
Reserves(r, i, next) ==
  /\ Alone(r, i) /\ checkin[i] = "none" /\ (mishap[i] = {} => Uncommitted(i) /\ published[i] = {})
  /\ version'[i] \in {"draft", "failed", version[i]} /\ version'[i] # "none"
  /\ manifests'[i] = manifests[i] /\ latest' = latest
  /\ \A f \in Files : log'[i][f] \in {"none", "pending"}
  /\ IF checkin'[i] = "none"
     THEN published'[i] = published[i]
     ELSE /\ checkin'[i] = "reserved" /\ published'[i] = published[i] \cup {"reserved"}
          /\ \A f \in Files : log'[i][f] = "pending"
  /\ IF next.of = i
     THEN /\ next.op = "reserve" /\ next.step \in ReserveSteps /\ Reserving(r, i)'
          /\ checkin'[i] = "none"
     ELSE next.op # "reserve"

LEMMA ReservationKeeps ==
  ASSUME IInv, NEW r, NEW i, NEW next, Acts(r, i, next), Reserves(r, i, next)
  PROVE  IInv'
<1> USE DEF Reserves
<1>1. /\ r \in Requests /\ i \in CheckIns /\ request'[r] = next
      /\ \A q \in Requests \ {r} : request'[q] = request[q]
  BY DEF Acts, Moves
<1>2. InvAt(i) /\ manifests'[i] = 0 /\ (mishap'[i] = {} => mishap[i] = {})
  BY <1>1 DEF IInv, InvAt, ReservedOnce, Acts, StoreLocal
<1>3. \A q \in Requests : Of(q, i)' => q = r /\ next.of = i
  BY <1>1 DEF Alone, Of
<1>4. ReservedOnce(i)'
  BY <1>1, <1>2, <1>3 DEF ReservedOnce
<1>5. Backed(i)'
  <2>1. next.of = i => Backs(r, i)'
    BY <1>1 DEF Backs, At, ReserveSteps, WriteSteps
  <2>2. QED
    BY <1>2, <1>3, <2>1 DEF Backed
<1>6. Settles(i)'
  <2>1. next.of = i => Settling(r, i)'
    BY <1>1 DEF Settling, ReserveSteps
  <2>2. QED
    BY <1>3, <2>1 DEF Settles, HasEnded
<1>7. Clean(i)'
  <2>1. SUFFICES ASSUME mishap'[i] = {}
                 PROVE  /\ \A p, q \in Requests : Of(p, i)' /\ Of(q, i)' => p = q
                        /\ latest' # i
                        /\ \A q \in Requests : Of(q, i)' => Progress(q, i)'
                        /\ Quiet(i)' => Ended(i)'
    BY DEF Clean
  <2>2. latest' # i
    <3>1. \A q \in Requests : Of(q, i) => ~AboutToCommit(q, i)
      <4>1. ASSUME NEW q \in Requests, Of(q, i), AboutToCommit(q, i) PROVE FALSE
        <5>1. request[q].op = "reserve" /\ Fits(request[q]) /\ request[q].of = i
          BY <1>2, <4>1 DEF InvAt, ReservedOnce, Of, IInv, Shape
        <5>2. request[q].step \in ReserveSteps
          BY <1>1, <5>1, Nothing DEF Fits, StepOf
        <5>3. QED
          BY <4>1, <5>2 DEF AboutToCommit, ReserveSteps
      <4>2. QED
        BY <4>1
    <3>2. QED
      BY <1>2, <2>1, <3>1 DEF InvAt, Clean, AboutToCommit
  <2>3. Uncommitted(i)'
    BY <1>2, <2>1 DEF Uncommitted
  <2>4. next.of = i => Progress(r, i)'
    BY <1>1, <1>2, <2>1, <2>3 DEF Progress, ReserveSteps, UndoSteps
  <2>5. Ended(i)'
    BY <1>2, <2>1, <2>3 DEF Ended, Untouched, AllPending
  <2>6. QED
    BY <1>3, <2>2, <2>4, <2>5
<1>8. QED
  BY <1>4, <1>5, <1>6, <1>7, StepKeeps DEF InvAt

(* What a reservation under way may rely on, besides. *)
LEMMA WhileReserving ==
  ASSUME IInv, NEW r \in Requests, NEW i \in CheckIns, Knows(r, i), request[r].op = "reserve"
  PROVE  /\ request[r].of = i /\ request[r].step \in ReserveSteps
         /\ checkin[i] = "none" /\ version[i] # "none" /\ Alone(r, i)
         /\ \A f \in Files : log[i][f] \in {"none", "pending"}
         /\ request[r].step # "rollback" => \A f \in Files \ request[r].todo : log[i][f] = "pending"
         /\ request[r].step = "row" => request[r].todo = {}
         /\ mishap[i] = {} => Uncommitted(i) /\ published[i] = {}
<1>1. request[r].of = i /\ request[r].step \in ReserveSteps
  BY DEF Knows, StepOf, Of
<1>2. mishap[i] = {} => Progress(r, i)
  BY <1>1 DEF Knows, InvAt, Clean
<1>3. QED
  BY <1>1, <1>2 DEF Knows, Reserving, Alone, Progress

LEMMA ReserveKeeps ==
  ASSUME IInv, NEW r \in Requests, NEW i \in CheckIns, Reserve(r, i), Joins(i)
  PROVE  IInv'
<1>1. /\ version[i] = "none" /\ version' = [version EXCEPT ![i] = "draft"]
      /\ Begin(r, "reserve", "open", i, Files)
      /\ UNCHANGED <<checkin, expired, upload, log, manifests, latest, published>>
  BY DEF Reserve
<1>2. /\ checkin[i] = "none" /\ Quiet(i) /\ published[i] = {} /\ manifests[i] = 0
      /\ \A f \in Files : log[i][f] = "none"
  BY <1>1 DEF IInv, InvAt, ReservedOnce
<1>3. /\ request[r] = Idle
      /\ \E next \in RequestType :
           /\ Moves(r, next)
           /\ next.step = "open" /\ next.op = "reserve" /\ next.of = i /\ next.todo = Files
  BY <1>1, Began DEF IInv, Ops, StepNames, ReserveSteps
<1>4. PICK next \in RequestType :
        /\ Moves(r, next)
        /\ next.step = "open" /\ next.op = "reserve" /\ next.of = i /\ next.todo = Files
  BY <1>3
<1>5. /\ mishap' \in [CheckIns -> SUBSET Mishap] /\ mishap[i] \subseteq mishap'[i]
      /\ role' = role /\ \A j \in CheckIns \ {i} : mishap'[j] = mishap[j]
  BY Joined DEF IInv, Joins
<1>6. /\ version' \in [CheckIns -> VersionStates] /\ version'[i] = "draft"
      /\ \A j \in CheckIns \ {i} : version'[j] = version[j]
  BY <1>1, VersionSet DEF IInv, VersionStates
<1>7. Acts(r, i, next)
  BY <1>1, <1>3, <1>4, <1>5, <1>6, Nothing
  DEF Acts, Fits, StepOf, ReserveSteps, StoreLocal, StoreShape, IInv, Shape
<1>8. Alone(r, i) /\ next.step \in ReserveSteps
  BY <1>2, <1>4 DEF Alone, Quiet, Of, ReserveSteps
<1>9. Reserving(r, i)'
  BY <1>1, <1>2, <1>4, <1>6 DEF Reserving, Quiet, Of, Moves
<1>10. Uncommitted(i)
  BY <1>1, <1>2 DEF Uncommitted
<1>11. Reserves(r, i, next)
  BY <1>1, <1>2, <1>4, <1>5, <1>6, <1>7, <1>8, <1>9, <1>10 DEF Reserves
<1>12. QED
  BY <1>7, <1>11, ReservationKeeps

LEMMA OpenUploadKeeps ==
  ASSUME IInv, NEW r \in Requests, OpenUpload(r), UNCHANGED <<role, mishap>>
  PROVE  IInv'
<1>1. PICK i \in CheckIns : Knows(r, i)
  BY Here DEF OpenUpload, At
<1>2. /\ request[r].op = "reserve" /\ request[r].step = "open"
      /\ UNCHANGED <<version, checkin, expired, log, manifests, latest, published>>
  BY DEF OpenUpload, At
<1>3. PICK f \in request[r].todo :
        /\ SetUpload(i, f, "open")
        /\ request' = [request EXCEPT ![r] = [request[r] EXCEPT !.step = "log", !.file = f]]
  BY <1>1 DEF OpenUpload, Knows, Of, IInv, Shape
<1>4. f \in Files /\ request[r] \in RequestType
  BY <1>1, <1>2, Busy DEF Knows, IInv
<1>5. PICK next : next = [request[r] EXCEPT !.step = "log", !.file = f]
  OBVIOUS
<1>6. /\ next \in RequestType
      /\ next.step = "log" /\ next.op = "reserve" /\ next.of = request[r].of
      /\ next.todo = request[r].todo /\ next.file = f
  BY <1>2, <1>4, <1>5 DEF RequestType, StepNames, ReserveSteps
<1>7. Moves(r, next) /\ next.of = i
  BY <1>1, <1>3, <1>5, <1>6, Moved DEF IInv, Knows, Of
<1>8. /\ upload' \in [CheckIns -> [Files -> UploadStates]]
      /\ \A j \in CheckIns \ {i} : upload'[j] = upload[j]
  BY <1>3, <1>4, UploadSet DEF IInv, UploadStates
<1>9. Acts(r, i, next) /\ next.step \in ReserveSteps
  BY <1>1, <1>2, <1>4, <1>6, <1>7, <1>8
  DEF Acts, Fits, StepOf, ReserveSteps, StoreLocal, StoreShape, IInv, Shape, Knows, Of
<1>10. Reserving(r, i)'
  BY <1>1, <1>2, <1>6, <1>7, WhileReserving DEF Reserving, Alone, Of, Moves
<1>11. Reserves(r, i, next)
  BY <1>1, <1>2, <1>6, <1>7, <1>9, <1>10, WhileReserving DEF Reserves
<1>12. QED
  BY <1>9, <1>11, ReservationKeeps

LEMMA OpenFailsKeeps ==
  ASSUME IInv, NEW r \in Requests, OpenFails(r), UNCHANGED <<role, mishap>>
  PROVE  IInv'
<1>1. PICK i \in CheckIns : Knows(r, i)
  BY Here DEF OpenFails, At
<1>2. /\ request[r].op = "reserve" /\ request[r].step = "open"
      /\ GotoWith(r, "rollback", Files \ request[r].todo)
      /\ UNCHANGED <<version, checkin, expired, log, manifests, latest, published>>
  BY DEF OpenFails, At
<1>3. PICK f \in Files : UNCHANGED upload \/ SetUpload(i, f, "open")
  BY <1>1 DEF OpenFails, Knows, Of
<1>4. PICK next \in RequestType :
        /\ Moves(r, next)
        /\ next.step = "rollback" /\ next.op = "reserve" /\ next.of = i
  BY <1>1, <1>2, WentWith DEF IInv, Knows, Of, StepNames, ReserveSteps
<1>5. /\ upload' \in [CheckIns -> [Files -> UploadStates]]
      /\ \A j \in CheckIns \ {i} : upload'[j] = upload[j]
  BY <1>3, UploadSet DEF IInv, UploadStates, Shape, StoreShape
<1>6. Acts(r, i, next) /\ next.step \in ReserveSteps
  BY <1>1, <1>2, <1>4, <1>5
  DEF Acts, Fits, StepOf, ReserveSteps, StoreLocal, StoreShape, IInv, Shape, Knows, Of
<1>7. Reserving(r, i)'
  BY <1>1, <1>2, <1>4, WhileReserving DEF Reserving, Alone, Of, Moves
<1>8. Reserves(r, i, next)
  BY <1>1, <1>2, <1>4, <1>6, <1>7, WhileReserving DEF Reserves
<1>9. QED
  BY <1>6, <1>8, ReservationKeeps

LEMMA RollbackUploadKeeps ==
  ASSUME IInv, NEW r \in Requests, RollbackUpload(r), UNCHANGED <<role, mishap>>
  PROVE  IInv'
<1>1. PICK i \in CheckIns : Knows(r, i)
  BY Here DEF RollbackUpload, At
<1>2. /\ request[r].op = "reserve" /\ request[r].step = "rollback"
      /\ UNCHANGED <<version, checkin, expired, log, manifests, latest, published>>
  BY DEF RollbackUpload, At
<1>3. PICK f \in request[r].todo :
        /\ UNCHANGED upload \/ SetUpload(i, f, "gone")
        /\ GotoWith(r, "rollback", request[r].todo \ {f})
  BY <1>1 DEF RollbackUpload, AbortTakes, Knows, Of
<1>4. f \in Files /\ request[r].todo \ {f} \in SUBSET Files
  BY <1>1 DEF Knows
<1>5. PICK next \in RequestType :
        /\ Moves(r, next)
        /\ next.step = "rollback" /\ next.op = "reserve" /\ next.of = i
  BY <1>1, <1>2, <1>3, <1>4, WentWith DEF IInv, Knows, Of, StepNames, ReserveSteps
<1>6. /\ upload' \in [CheckIns -> [Files -> UploadStates]]
      /\ \A j \in CheckIns \ {i} : upload'[j] = upload[j]
  BY <1>3, <1>4, UploadSet DEF IInv, UploadStates, Shape, StoreShape
<1>7. Acts(r, i, next) /\ next.step \in ReserveSteps
  BY <1>1, <1>2, <1>5, <1>6
  DEF Acts, Fits, StepOf, ReserveSteps, StoreLocal, StoreShape, IInv, Shape, Knows, Of
<1>8. Reserving(r, i)'
  BY <1>1, <1>2, <1>5, WhileReserving DEF Reserving, Alone, Of, Moves
<1>9. Reserves(r, i, next)
  BY <1>1, <1>2, <1>5, <1>7, <1>8, WhileReserving DEF Reserves
<1>10. QED
  BY <1>7, <1>9, ReservationKeeps

LEMMA LogUploadKeeps ==
  ASSUME IInv, NEW r \in Requests, LogUpload(r), UNCHANGED <<role, mishap>>
  PROVE  IInv'
<1>1. PICK i \in CheckIns : Knows(r, i)
  BY Here DEF LogUpload, At
<1>2. PICK f, rest, step : f = request[r].file /\ rest = request[r].todo \ {f}
                           /\ step = IF rest = {} THEN "row" ELSE "open"
  OBVIOUS
<1>3. /\ request[r].op = "reserve" /\ request[r].step = "log"
      /\ SetLog(i, f, "pending") /\ GotoWith(r, step, rest)
      /\ UNCHANGED <<version, checkin, expired, upload, manifests, latest, published>>
  BY <1>1, <1>2 DEF LogUpload, At, Knows, Of
<1>4. /\ f \in Files /\ rest \in SUBSET Files
      /\ step \in {"row", "open"} /\ (step = "row" => rest = {})
  BY <1>1, <1>2, <1>3 DEF Knows
<1>5. PICK next \in RequestType :
        /\ Moves(r, next)
        /\ next.step = step /\ next.op = "reserve" /\ next.of = i /\ next.todo = rest
  BY <1>1, <1>3, <1>4, WentWith DEF IInv, Knows, Of, StepNames, ReserveSteps
<1>6. /\ log' \in [CheckIns -> [Files -> LogStates]]
      /\ log'[i][f] = "pending" /\ \A g \in Files \ {f} : log'[i][g] = log[i][g]
      /\ \A j \in CheckIns \ {i} : log'[j] = log[j]
  BY <1>3, <1>4, LogSet DEF IInv, LogStates
<1>7. Acts(r, i, next) /\ next.step \in ReserveSteps
  BY <1>1, <1>3, <1>4, <1>5, <1>6
  DEF Acts, Fits, StepOf, ReserveSteps, StoreLocal, StoreShape, IInv, Shape, Knows, Of
<1>8. /\ \A g \in Files : log'[i][g] \in {"none", "pending"}
      /\ \A g \in Files \ rest : log'[i][g] = "pending"
  BY <1>1, <1>2, <1>3, <1>6, WhileReserving
<1>9. Reserving(r, i)'
  BY <1>1, <1>3, <1>4, <1>5, <1>8, WhileReserving DEF Reserving, Alone, Of, Moves
<1>10. Reserves(r, i, next)
  BY <1>1, <1>3, <1>5, <1>7, <1>8, <1>9, WhileReserving DEF Reserves
<1>11. QED
  BY <1>7, <1>10, ReservationKeeps

LEMMA ReserveFailsKeeps ==
  ASSUME IInv, NEW r \in Requests, ReserveFails(r), UNCHANGED <<role, mishap>>
  PROVE  IInv'
<1>1. PICK i \in CheckIns : Knows(r, i)
  BY Here DEF ReserveFails, At
<1>2. /\ request[r].op = "reserve" /\ Return(r)
      /\ version' = [version EXCEPT ![i] = "failed"]
      /\ UNCHANGED <<checkin, expired, upload, log, manifests, latest, published>>
  BY <1>1 DEF ReserveFails, SetVersion, At, Knows, Of
<1>3. /\ Moves(r, Idle) /\ request[r].of = i
      /\ Idle.of # i /\ Idle.op # "reserve" /\ Fits(Idle) /\ Idle.of \in {i, None}
  BY <1>1, <1>2, Returned, Over DEF IInv
<1>4. /\ version' \in [CheckIns -> VersionStates] /\ version'[i] = "failed"
      /\ \A j \in CheckIns \ {i} : version'[j] = version[j]
  BY <1>2, VersionSet DEF IInv, VersionStates
<1>5. Acts(r, i, Idle)
  BY <1>2, <1>3, <1>4 DEF Acts, StoreLocal, StoreShape, IInv, Shape
<1>6. Reserves(r, i, Idle)
  BY <1>1, <1>2, <1>3, <1>4, <1>5, WhileReserving DEF Reserves
<1>7. QED
  BY <1>5, <1>6, ReservationKeeps

LEMMA CreateCheckinKeeps ==
  ASSUME IInv, NEW r \in Requests, CreateCheckin(r), UNCHANGED <<role, mishap>>
  PROVE  IInv'
<1>1. PICK i \in CheckIns : Knows(r, i)
  BY Here DEF CreateCheckin, At
<1>2. /\ request[r].op = "reserve" /\ request[r].step = "row" /\ Return(r)
      /\ checkin' = [checkin EXCEPT ![i] = "reserved"] /\ Publish(i, "reserved")
      /\ UNCHANGED <<version, expired, upload, log, manifests, latest>>
  BY <1>1 DEF CreateCheckin, At, Knows, Of
<1>3. /\ Moves(r, Idle) /\ request[r].of = i
      /\ Idle.of # i /\ Idle.op # "reserve" /\ Fits(Idle) /\ Idle.of \in {i, None}
  BY <1>1, <1>2, Returned, Over DEF IInv
<1>4. /\ checkin' \in [CheckIns -> CheckinStates] /\ checkin'[i] = "reserved"
      /\ \A j \in CheckIns \ {i} : checkin'[j] = checkin[j]
  BY <1>2, CheckinSet DEF IInv, CheckinStates
<1>5. /\ published' \in [CheckIns -> SUBSET Events]
      /\ published'[i] = published[i] \cup {"reserved"}
      /\ \A j \in CheckIns \ {i} : published'[j] = published[j]
  BY <1>2, Announced DEF IInv, Events
<1>6. Acts(r, i, Idle)
  BY <1>2, <1>3, <1>4, <1>5 DEF Acts, StoreLocal, StoreShape, IInv, Shape
<1>7. \A f \in Files : log'[i][f] = "pending"
  BY <1>1, <1>2, WhileReserving
<1>8. Reserves(r, i, Idle)
  BY <1>1, <1>2, <1>3, <1>4, <1>5, <1>6, <1>7, WhileReserving DEF Reserves
<1>9. QED
  BY <1>6, <1>8, ReservationKeeps

LEMMA ReserveThrowsKeeps ==
  ASSUME IInv, NEW r \in Requests, ReserveThrows(r),
         UNCHANGED role
  PROVE  IInv'
<1>1. PICK i \in CheckIns : Knows(r, i)
  BY Here DEF ReserveThrows, At
<1>2. /\ request[r].op = "reserve" /\ Return(r) /\ Suffers(r, "threw") /\ "threw" \in Mishap
      /\ UNCHANGED <<version, checkin, expired, upload, log, manifests, latest, published>>
  BY DEF ReserveThrows, At, Mishap
<1>3. /\ Moves(r, Idle) /\ request[r].of = i
      /\ Idle.of # i /\ Idle.op # "reserve" /\ Fits(Idle) /\ Idle.of \in {i, None}
  BY <1>1, <1>2, Returned, Over DEF IInv
<1>4. /\ mishap' \in [CheckIns -> SUBSET Mishap] /\ mishap[i] \subseteq mishap'[i]
      /\ mishap'[i] # {} /\ role' = role
      /\ \A j \in CheckIns \ {i} : mishap'[j] = mishap[j]
  BY <1>2, <1>3, Suffered DEF IInv
<1>5. Acts(r, i, Idle)
  BY <1>2, <1>3, <1>4 DEF Acts, StoreLocal, StoreShape, IInv, Shape
<1>6. Reserves(r, i, Idle)
  BY <1>1, <1>2, <1>3, <1>4, <1>5, WhileReserving DEF Reserves
<1>7. QED
  BY <1>5, <1>6, ReservationKeeps

-----------------------------------------------------------------------------
LEMMA InitInv == Init => IInv
<1>1. SUFFICES ASSUME Init PROVE IInv
  OBVIOUS
<1>2. \A r \in Requests : request[r] = Idle /\ request[r].of = None
  BY <1>1, Nothing DEF Init
<1>3. Shape
  <2>1. /\ version \in [CheckIns -> VersionStates] /\ checkin \in [CheckIns -> CheckinStates]
        /\ expired \in [CheckIns -> BOOLEAN] /\ mishap \in [CheckIns -> SUBSET Mishap]
        /\ role \in [CheckIns -> Plans]
        /\ published \in [CheckIns -> SUBSET Events] /\ latest \in CheckIns \cup {None}
    BY <1>1 DEF Init, VersionStates, CheckinStates
  <2>2. /\ upload \in [CheckIns -> [Files -> UploadStates]]
        /\ log \in [CheckIns -> [Files -> LogStates]]
    BY <1>1 DEF Init, UploadStates, LogStates
  <2>3. manifests \in [CheckIns -> 0 .. MaxManifests]
    BY <1>1, Nothing DEF Init
  <2>4. request \in [Requests -> RequestType]
    BY <1>1, Nothing DEF Init
  <2>5. QED
    BY <1>2, <2>1, <2>2, <2>3, <2>4 DEF Shape, StoreShape, Fits
<1>4. ASSUME NEW i \in CheckIns PROVE InvAt(i)
  <2>1. /\ version[i] = "none" /\ checkin[i] = "none" /\ manifests[i] = 0 /\ published[i] = {}
        /\ \A f \in Files : log[i][f] = "none"
        /\ latest # i /\ \A r \in Requests : ~Of(r, i)
    BY <1>1, <1>2, Nothing DEF Init, Of
  <2>2. QED
    BY <2>1
    DEF InvAt, ReservedOnce, Backed, Settles, HasEnded, Clean, Ended, Uncommitted, Quiet, Of
<1>5. QED
  BY <1>3, <1>4 DEF IInv

(* The deadline is looked at by a commit that starts, and by nothing else. *)
LEMMA Unmoved ==
  ASSUME IInv, expired' \in [CheckIns -> BOOLEAN],
         UNCHANGED <<version, checkin, upload, log, manifests, latest, published, role, request,
                   mishap>>
  PROVE  IInv'
<1>1. Shape'
  BY DEF IInv, Shape, StoreShape
<1>2. ASSUME NEW i \in CheckIns PROVE InvAt(i)'
  <2>1. InvAt(i)
    BY DEF IInv
  <2>2. ReservedOnce(i)'
    BY <2>1 DEF InvAt, ReservedOnce, Reserving, Quiet, Of
  <2>3. Backed(i)'
    BY <2>1 DEF InvAt, Backed, Backs, RolesStored, Stored, At, Of
  <2>4. Settles(i)'
    BY <2>1 DEF InvAt, Settles, HasEnded, Settling, NonePending, Of
  <2>5. Clean(i)'
    BY <2>1
    DEF InvAt, Clean, Progress, Ended, Untouched, Uncommitted, Complete, AllPending,
        AboutToCommit, Quiet, Of
  <2>6. QED
    BY <2>2, <2>3, <2>4, <2>5 DEF InvAt
<1>3. QED
  BY <1>1, <1>2 DEF IInv

LEMMA NextInv == IInv /\ [Next]_vars => IInv'
<1>1. SUFFICES ASSUME IInv, [Next]_vars PROVE IInv'
  OBVIOUS
<1>2. ASSUME NEW r \in Requests, NEW i \in CheckIns, Enter(r, i) PROVE IInv'
  BY <1>1, <1>2, ReserveKeeps, CommitKeeps, AbortKeeps DEF Enter, Joins
<1>3. ASSUME NEW r \in Requests, Continue(r) PROVE IInv'
  <2>1. CASE Steps(r) /\ UNCHANGED <<role, mishap>>
    BY <1>1, <2>1, OpenUploadKeeps, OpenFailsKeeps, LogUploadKeeps, RollbackUploadKeeps,
       ReserveFailsKeeps, CreateCheckinKeeps, CompleteUploadKeeps, CompleteFailsKeeps,
       StartCompensatingKeeps, CreateVersionFilesKeeps, CompleteVersionKeeps,
       UpsertSentinelKeeps, CommitLogKeeps, CommittedKeeps, ListRowsKeeps,
       ExecuteInverseKeeps, NoteInverseKeeps, MarkThrowsKeeps, CompensatedKeeps, AbortedKeeps
    DEF Steps
  <2>2. CASE Throws(r) /\ UNCHANGED role
    BY <1>1, <2>2, ReserveThrowsKeeps, CommitThrowsKeeps, FailureThrowsKeeps,
       CompensationThrowsKeeps, AbortThrowsKeeps DEF Throws
  <2>3. QED
    BY <1>3, <2>1, <2>2 DEF Continue
<1>4. ASSUME NEW i \in CheckIns, Expire(i), UNCHANGED <<role, mishap>> PROVE IInv'
  <2>1. expired' \in [CheckIns -> BOOLEAN]
    BY <1>1, <1>4 DEF Expire, IInv, Shape, StoreShape
  <2>2. QED
    BY <1>1, <1>4, <2>1, Unmoved DEF Expire
<1>5. CASE UNCHANGED vars
  BY <1>1, <1>5, Unmoved DEF vars, IInv, Shape, StoreShape
<1>6. QED
  BY <1>1, <1>2, <1>3, <1>4, <1>5 DEF Next

-----------------------------------------------------------------------------
(* Every table of the check-in, and every request, stays of its type, with   *)
(* any number of check-ins, files and requests (routes/checkin.ts).          *)
THEOREM TypeCorrect == Spec => []TypeOK
<1>1. IInv => TypeOK
  BY ShapeIsTypeOK DEF IInv
<1>2. QED
  BY InitInv, NextInv, <1>1, PTL DEF Spec

(* A manifest names an object S3 holds for every role of the check-in's      *)
(* plan, whichever files a client gives a role and its commit names, however *)
(* the commits and the aborts of one check-in interleave, and whatever fails *)
(* (normalizeCommitBody, createVersionFiles).                                *)
THEOREM ManifestIsBacked == Spec => []ManifestBacked
<1>1. IInv => ManifestBacked
  BY DEF IInv, InvAt, Backed, RolesStored, Stored, ManifestBacked
<1>2. QED
  BY InitInv, NextInv, <1>1, PTL DEF Spec

(* The compensation log tells the truth about S3, and has no pending row     *)
(* once a check-in has ended, unless a commit swallowed that its             *)
(* compensation threw (runCompensationInline, markS3CompensationCommitted).  *)
THEOREM LogStaysRight == Spec => []LogIsRight
<1>1. IInv => LogIsRight
  <2>1. SUFFICES ASSUME IInv PROVE LogIsTruthful /\ LogSettles
    BY DEF LogIsRight
  <2>2. LogIsTruthful
    BY <2>1 DEF IInv, InvAt, Backed, Stored, LogIsTruthful
  <2>3. ASSUME NEW i \in CheckIns, HasEnded(i), NEW f \in Files
        PROVE  log[i][f] \in {"committed", "compensated", "failed"}
    <3>1. log[i][f] # "none" /\ log[i][f] # "pending"
      BY <2>1, <2>3 DEF IInv, InvAt, ReservedOnce, Settles, HasEnded, NonePending
    <3>2. log[i][f] \in LogStates
      BY <2>1 DEF IInv, Shape, StoreShape
    <3>3. QED
      BY <3>1, <3>2 DEF LogStates
  <2>4. QED
    BY <2>2, <2>3 DEF LogSettles, HasEnded
<1>2. QED
  BY InitInv, NextInv, <1>1, PTL DEF Spec

(* What requests that come one at a time leave behind when no write of the   *)
(* store throws at them: a check-in wholly committed, or one no consumer was *)
(* told of (the handlers of reserve, commit and abort, end to end).          *)
THEOREM OutcomeIsClean == Spec => []CleanOutcome
<1>1. IInv => CleanOutcome
  <2>1. SUFFICES ASSUME IInv PROVE CleanOutcome
    OBVIOUS
  <2>2. ASSUME NEW i \in CheckIns, mishap[i] = {}, Quiet(i)
        PROVE  Ended(i) /\ (latest = i => checkin[i] = "committed")
    BY <2>1, <2>2 DEF IInv, InvAt, Clean, AboutToCommit, Of, Quiet
  <2>3. latest \in CheckIns \cup {None}
    BY <2>1 DEF IInv, Shape, StoreShape
  <2>4. ASSUME NEW i \in CheckIns, manifests[i] = 1 PROVE RolesStored(i)
    BY <2>1, <2>4 DEF IInv, InvAt, Backed
  <2>5. QED
    BY <2>2, <2>3, <2>4 DEF CleanOutcome, Ended, Complete, Uncommitted
<1>2. QED
  BY InitInv, NextInv, <1>1, PTL DEF Spec

-----------------------------------------------------------------------------
(* The breaker.  Its invariant is the conjunction of its safety properties;  *)
(* what makes it inductive is that every step that ends a call either clears *)
(* inProbe or leaves it clear.                                               *)
BreakerInv == BreakerTypeOK /\ NoWedge /\ ClosedHasRoom

LEMMA BreakerBounds == FailureThreshold \in Nat /\ FailureThreshold >= 1 /\ OpenDuration \in Nat
BY BreakerAssumption DEF BreakerAssumption

LEMMA InitBreaker == BreakerInit => BreakerInv
<1> SUFFICES ASSUME BreakerInit PROVE BreakerInv
    OBVIOUS
<1>1. BreakerTypeOK
  <2>1. state \in {"closed", "open", "half-open"}
    BY DEF BreakerInit
  <2>2. failureCount \in 0 .. FailureThreshold
    BY BreakerBounds DEF BreakerInit
  <2>3. wait \in 0 .. OpenDuration
    BY BreakerBounds DEF BreakerInit
  <2>4. inProbe \in BOOLEAN
    BY DEF BreakerInit
  <2>5. call \in [Calls -> {"idle", "calling", "probing"}]
    BY DEF BreakerInit
  <2> QED
    BY <2>1, <2>2, <2>3, <2>4, <2>5, Zenon DEF BreakerTypeOK
<1>2. NoWedge
  BY Zenon DEF BreakerInit, NoWedge
<1>3. ClosedHasRoom
  BY BreakerBounds DEF BreakerInit, ClosedHasRoom
<1> QED
  BY <1>1, <1>2, <1>3 DEF BreakerInv

(* One step per action of BreakerNext. *)
LEMMA StepBreaker == BreakerInv /\ [BreakerNext]_breakerVars => BreakerInv'
<1> SUFFICES ASSUME BreakerInv, [BreakerNext]_breakerVars PROVE BreakerInv'
    OBVIOUS
<1>1. ASSUME NEW c \in Calls, LetThrough(c) PROVE BreakerInv'
  BY <1>1 DEF BreakerInv, BreakerTypeOK, NoWedge, ClosedHasRoom, LetThrough
<1>2. ASSUME NEW c \in Calls, Probe(c) PROVE BreakerInv'
  BY <1>2 DEF BreakerInv, BreakerTypeOK, NoWedge, ClosedHasRoom, Probe
<1>3. ASSUME NEW c \in Calls, OnSuccess(c) PROVE BreakerInv'
  <2>1. BreakerTypeOK'
    <3>1. state' \in {"closed", "open", "half-open"}
      BY <1>3 DEF BreakerTypeOK, BreakerInv, OnSuccess, Settle
    <3>2. failureCount' \in 0 .. FailureThreshold
      BY <1>3, BreakerBounds DEF BreakerTypeOK, BreakerInv, OnSuccess, Settle
    <3>3. wait' \in 0 .. OpenDuration
      BY <1>3, BreakerBounds DEF BreakerTypeOK, BreakerInv, OnSuccess, Settle
    <3>4. inProbe' \in BOOLEAN
      BY <1>3 DEF BreakerTypeOK, BreakerInv, OnSuccess, Settle
    <3>5. call' \in [Calls -> {"idle", "calling", "probing"}]
      BY <1>3 DEF BreakerTypeOK, BreakerInv, OnSuccess, Settle
    <3> QED
      BY <3>1, <3>2, <3>3, <3>4, <3>5, Zenon DEF BreakerTypeOK
  <2>2. NoWedge'
    BY <1>3, Zenon DEF BreakerInv, NoWedge, OnSuccess, Settle
  <2>3. ClosedHasRoom'
    BY <1>3, BreakerBounds DEF BreakerInv, BreakerTypeOK, ClosedHasRoom, OnSuccess, Settle
  <2> QED
    BY <2>1, <2>2, <2>3 DEF BreakerInv
<1>4. ASSUME NEW c \in Calls, ExpectedError(c) PROVE BreakerInv'
  BY <1>4 DEF BreakerInv, BreakerTypeOK, NoWedge, ClosedHasRoom, ExpectedError, Settle
<1>5. ASSUME NEW c \in Calls, OnFailure(c) PROVE BreakerInv'
  <2>1. BreakerTypeOK'
    <3>1. state' \in {"closed", "open", "half-open"}
      BY <1>5 DEF BreakerTypeOK, BreakerInv, OnFailure, Settle, Opens
    <3>2. failureCount' \in 0 .. FailureThreshold
      BY <1>5, BreakerBounds DEF BreakerTypeOK, BreakerInv, OnFailure, Settle, Opens
    <3>3. wait' \in 0 .. OpenDuration
      BY <1>5, BreakerBounds DEF BreakerTypeOK, BreakerInv, OnFailure, Settle, Opens
    <3>4. inProbe' \in BOOLEAN
      BY <1>5 DEF BreakerTypeOK, BreakerInv, OnFailure, Settle, Opens
    <3>5. call' \in [Calls -> {"idle", "calling", "probing"}]
      BY <1>5 DEF BreakerTypeOK, BreakerInv, OnFailure, Settle, Opens
    <3> QED
      BY <3>1, <3>2, <3>3, <3>4, <3>5, Zenon DEF BreakerTypeOK
  <2>2. NoWedge'
    BY <1>5, Zenon DEF BreakerInv, NoWedge, OnFailure, Settle, Opens
  <2>3. ClosedHasRoom'
    BY <1>5, BreakerBounds DEF BreakerInv, BreakerTypeOK, ClosedHasRoom, OnFailure, Settle, Opens
  <2> QED
    BY <2>1, <2>2, <2>3 DEF BreakerInv
<1>6. CASE Reset
  <2>1. BreakerTypeOK'
    <3>1. state' \in {"closed", "open", "half-open"}
      BY <1>6 DEF BreakerTypeOK, BreakerInv, Reset
    <3>2. failureCount' \in 0 .. FailureThreshold
      BY <1>6, BreakerBounds DEF BreakerTypeOK, BreakerInv, Reset
    <3>3. wait' \in 0 .. OpenDuration
      BY <1>6, BreakerBounds DEF BreakerTypeOK, BreakerInv, Reset
    <3>4. inProbe' \in BOOLEAN
      BY <1>6 DEF BreakerTypeOK, BreakerInv, Reset
    <3>5. call' \in [Calls -> {"idle", "calling", "probing"}]
      BY <1>6 DEF BreakerTypeOK, BreakerInv, Reset
    <3> QED
      BY <3>1, <3>2, <3>3, <3>4, <3>5, Zenon DEF BreakerTypeOK
  <2>2. NoWedge'
    BY <1>6, Zenon DEF BreakerInv, NoWedge, Reset
  <2>3. ClosedHasRoom'
    BY <1>6, BreakerBounds DEF BreakerInv, BreakerTypeOK, ClosedHasRoom, Reset
  <2> QED
    BY <2>1, <2>2, <2>3 DEF BreakerInv
<1>7. CASE Tick
  <2>1. wait' \in 0 .. OpenDuration
    BY <1>7, BreakerBounds DEF BreakerInv, BreakerTypeOK, Tick
  <2> QED
    BY <1>7, <2>1, Zenon DEF BreakerInv, BreakerTypeOK, NoWedge, ClosedHasRoom, Tick
<1>8. CASE UNCHANGED breakerVars
  BY <1>8 DEF BreakerInv, BreakerTypeOK, NoWedge, ClosedHasRoom, breakerVars
<1> QED
  BY <1>1, <1>2, <1>3, <1>4, <1>5, <1>6, <1>7, <1>8 DEF BreakerNext

LEMMA BreakerInvariance == BreakerSpec => []BreakerInv
BY InitBreaker, StepBreaker, PTL DEF BreakerSpec

(* The fields of the breaker keep their ranges (class CircuitBreaker). *)
THEOREM BreakerTypeCorrect == BreakerSpec => []BreakerTypeOK
<1>1. BreakerInv => BreakerTypeOK
  BY DEF BreakerInv
<1> QED
  BY <1>1, BreakerInvariance, PTL

(* Callers are refused for a probe only while one is in flight, and a closed *)
(* breaker has fewer failures counted than the threshold (execute,           *)
(* onSuccess, onFailure, reset).                                             *)
THEOREM NextCallFindsItSound == BreakerSpec => []NextCallIsSound
<1>1. BreakerInv => NextCallIsSound
  BY DEF BreakerInv, NextCallIsSound
<1> QED
  BY <1>1, BreakerInvariance, PTL

(* The open state ends by a probe after its window or by reset, whatever     *)
(* answers of earlier calls arrive (execute, onSuccess, onFailure).          *)
THEOREM OpenStays == BreakerSpec => OpenIsKept
<1> DEFINE Kept ==
      state = "open" =>
        \/ state' = "open" /\ (wait' = wait \/ wait' + 1 = wait \/ wait' = OpenDuration)
        \/ state' = "half-open" /\ wait = 0
        \/ Reset
<1>1. BreakerInv /\ [BreakerNext]_breakerVars => [Kept]_breakerVars
  <2> SUFFICES ASSUME BreakerInv, BreakerNext, state = "open" PROVE Kept
      BY DEF breakerVars
  <2>1. ASSUME NEW c \in Calls, LetThrough(c) \/ Probe(c) PROVE Kept
    BY <2>1 DEF LetThrough, Probe
  <2>2. ASSUME NEW c \in Calls, OnSuccess(c) \/ ExpectedError(c) \/ OnFailure(c) PROVE Kept
    BY <2>2 DEF OnSuccess, ExpectedError, OnFailure
  <2>3. CASE Tick
    BY <2>3 DEF Tick, BreakerInv, BreakerTypeOK
  <2> QED
    BY <2>1, <2>2, <2>3 DEF BreakerNext
<1> QED
  BY <1>1, BreakerInvariance, PTL DEF BreakerSpec, OpenIsKept
=============================================================================
