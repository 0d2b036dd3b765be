------------------------------ MODULE CheckIn ------------------------------
(***************************************************************************)
(* The check-in of media files: reserve opens one multipart upload per     *)
(* file, the client uploads the parts, commit completes the uploads and    *)
(* writes the version's manifest, abort undoes the reservation by way of   *)
(* the compensation log.                                                   *)
(*                                                                         *)
(* A request is a handler of routes/checkin.ts at one of its awaits; each  *)
(* action is what it does up to the next one.  The state of a check-in is  *)
(* read once, at the start, and written later without a second look, so    *)
(* requests on one check-in (a client that retries, or that gives up while *)
(* its commit is under way) interleave freely.  Parts, presigned URLs, the *)
(* circuit breaker around S3 and the order of the files are left out; the  *)
(* store is the local adapter.                                             *)
(***************************************************************************)
EXTENDS Naturals, FiniteSets

CONSTANTS
  CheckIns,       \* check-ins, each with a version of its own, of one shot and context
  Files,          \* the files of a check-in
  Plans,          \* the roles clients give them: functions from Files
  Requests,       \* requests in progress at a time
  None,
  S3Fails,        \* whether calls of S3 may fail
  DatabaseFails,  \* whether a query or a write of the store may throw
  MaxThrows,      \* of how many kinds the model lets a check-in meet throws
  MaxManifests    \* how often the model lets a manifest be written

ASSUME ConstantsAssumption ==
  /\ None \notin CheckIns /\ None \notin Files
  /\ S3Fails \in BOOLEAN /\ DatabaseFails \in BOOLEAN
  /\ MaxThrows \in Nat /\ MaxManifests \in Nat \ {0}

VARIABLES
  version,    \* status of the version a check-in reserves
  checkin,    \* state of its row in checkins
  expired,    \* whether its deadline has passed
  upload,     \* S3: what became of each file's multipart upload
  log,        \* s3_compensation_log: one row per file
  manifests,  \* how many times version_files was written
  latest,     \* what the sentinel "latest" points at
  published,  \* what the event bus was told
  role,       \* of each file of a check-in, in its stored plan
  request,    \* what each request is doing
  mishap      \* history: what went wrong on a check-in so far

vars == <<version, checkin, expired, upload, log, manifests, latest, published, role, request, mishap>>

Idle == [op |-> "none", step |-> "none", of |-> None, todo |-> {}, file |-> None, ok |-> FALSE]

Init ==
  /\ version = [i \in CheckIns |-> "none"]
  /\ checkin = [i \in CheckIns |-> "none"]
  /\ expired = [i \in CheckIns |-> FALSE]
  /\ upload = [i \in CheckIns |-> [f \in Files |-> "none"]]
  /\ log = [i \in CheckIns |-> [f \in Files |-> "none"]]
  /\ manifests = [i \in CheckIns |-> 0]
  /\ latest = None
  /\ published = [i \in CheckIns |-> {}]
  /\ role \in [CheckIns -> Plans]
  /\ request = [r \in Requests |-> Idle]
  /\ mishap = [i \in CheckIns |-> {}]

-----------------------------------------------------------------------------
At(r, op, step) == request[r].op = op /\ request[r].step = step
Goto(r, step) == request' = [request EXCEPT ![r] = [@ EXCEPT !.step = step]]
GotoWith(r, step, files) ==
  request' = [request EXCEPT ![r] = [@ EXCEPT !.step = step, !.todo = files]]
Begin(r, op, step, i, files) ==
  /\ request[r] = Idle
  /\ request' = [request EXCEPT ![r] = [Idle EXCEPT !.op = op, !.step = step,
                                                    !.of = i, !.todo = files]]
Return(r) == request' = [request EXCEPT ![r] = Idle]

SetUpload(i, f, s) == upload' = [upload EXCEPT ![i] = [@ EXCEPT ![f] = s]]
SetLog(i, f, s) == log' = [log EXCEPT ![i] = [@ EXCEPT ![f] = s]]
Publish(i, e) == published' = [published EXCEPT ![i] = @ \cup {e}]

SetVersion(i, s) == version' = [version EXCEPT ![i] = s]

(* "overlap": two requests at once; "swallowed": a commit went on although   *)
(* its compensation threw; "stuck": it threw on its way to aborted; "threw": *)
(* any other request did.                                                    *)
Mishap == {"overlap", "threw", "swallowed", "stuck"}

Suffers(r, what) ==
  /\ Cardinality(mishap[request[r].of] \ {"overlap"}) < MaxThrows
  /\ mishap' = [mishap EXCEPT ![request[r].of] = @ \cup {what}]

(* S3.  A call takes effect, or is refused; when it fails, the caller does   *)
(* not know which: the reply may have been lost.                             *)
AbortTakes(i, f) == upload[i][f] = "open" /\ SetUpload(i, f, "gone")

-----------------------------------------------------------------------------
(* POST /assets/checkin *)

Reserve(r, i) ==
  /\ version[i] = "none"
  /\ version' = [version EXCEPT ![i] = "draft"]
  /\ Begin(r, "reserve", "open", i, Files)
  /\ UNCHANGED <<checkin, expired, upload, log, manifests, latest, published>>

OpenUpload(r) ==
  /\ At(r, "reserve", "open")
  /\ \E f \in request[r].todo :
       /\ SetUpload(request[r].of, f, "open")
       /\ request' = [request EXCEPT ![r] = [@ EXCEPT !.step = "log", !.file = f]]
  /\ UNCHANGED <<version, checkin, expired, log, manifests, latest, published>>

LogUpload(r) ==
  /\ At(r, "reserve", "log")
  /\ LET f == request[r].file
         rest == request[r].todo \ {f}
     IN /\ SetLog(request[r].of, f, "pending")
        /\ GotoWith(r, IF rest = {} THEN "row" ELSE "open", rest)
  /\ UNCHANGED <<version, checkin, expired, upload, manifests, latest, published>>

(* The uploads opened so far are aborted, as far as that works; their log    *)
(* rows stay.                                                                *)
OpenFails(r) ==
  /\ S3Fails
  /\ At(r, "reserve", "open")
  /\ \E f \in request[r].todo :
       SetUpload(request[r].of, f, "open") \/ UNCHANGED upload
  /\ GotoWith(r, "rollback", Files \ request[r].todo)
  /\ UNCHANGED <<version, checkin, expired, log, manifests, latest, published>>

RollbackUpload(r) ==
  /\ At(r, "reserve", "rollback")
  /\ \E f \in request[r].todo :
       /\ AbortTakes(request[r].of, f) \/ (S3Fails /\ UNCHANGED upload)
       /\ GotoWith(r, "rollback", request[r].todo \ {f})
  /\ UNCHANGED <<version, checkin, expired, log, manifests, latest, published>>

ReserveFails(r) ==
  /\ At(r, "reserve", "rollback") /\ request[r].todo = {}
  /\ SetVersion(request[r].of, "failed")
  /\ Return(r)
  /\ UNCHANGED <<checkin, expired, upload, log, manifests, latest, published>>

CreateCheckin(r) ==
  /\ At(r, "reserve", "row")
  /\ checkin' = [checkin EXCEPT ![request[r].of] = "reserved"]
  /\ Publish(request[r].of, "reserved")
  /\ Return(r)
  /\ UNCHANGED <<version, expired, upload, log, manifests, latest>>

(* A write throws: the handler ends where it stands, with nothing undone. *)
ReserveThrows(r) ==
  /\ DatabaseFails
  /\ \/ request[r].op = "reserve" /\ request[r].step \in {"log", "row"}
     \/ At(r, "reserve", "rollback") /\ request[r].todo = {}
  /\ Return(r)
  /\ Suffers(r, "threw")
  /\ UNCHANGED <<version, checkin, expired, upload, log, manifests, latest, published>>

Expire(i) ==
  /\ checkin[i] = "reserved" /\ ~expired[i]
  /\ expired' = [expired EXCEPT ![i] = TRUE]
  /\ UNCHANGED <<version, checkin, upload, log, manifests, latest, published, request>>

-----------------------------------------------------------------------------
(* POST /assets/checkin/:id/commit *)

(* Files whose upload the client may ask to complete: normalizeCommitBody    *)
(* refuses a body that leaves out a role, not one that leaves out a file.    *)
CoversRoles(i, named) == {role[i][f] : f \in named} = {role[i][f] : f \in Files}

(* Mutant: neither the state nor the deadline is looked at. *)
CommitAnyState(r, i) ==
  /\ checkin[i] # "none" /\ manifests[i] < MaxManifests
  /\ \E named \in SUBSET Files :
       CoversRoles(i, named) /\ Begin(r, "commit", "complete", i, named)
  /\ UNCHANGED <<version, checkin, expired, upload, log, manifests, latest, published>>

(* Mutant: the files the body names are enough, whatever roles are left. *)
CommitSomeRoles(r, i) ==
  /\ checkin[i] = "reserved" /\ ~expired[i]
  /\ \E named \in SUBSET Files \ {{}} : Begin(r, "commit", "complete", i, named)
  /\ UNCHANGED <<version, checkin, expired, upload, log, manifests, latest, published>>

Commit(r, i) ==
  /\ checkin[i] = "reserved" /\ ~expired[i]
  /\ \E named \in SUBSET Files :
       CoversRoles(i, named) /\ Begin(r, "commit", "complete", i, named)
  /\ UNCHANGED <<version, checkin, expired, upload, log, manifests, latest, published>>

CompleteUpload(r) ==
  /\ At(r, "commit", "complete")
  /\ LET i == request[r].of IN
     \E f \in request[r].todo :
       /\ upload[i][f] \in {"open", "complete"}
       /\ SetUpload(i, f, "complete")
       /\ GotoWith(r, IF request[r].todo = {f} THEN "manifest" ELSE "complete",
                   request[r].todo \ {f})
  /\ UNCHANGED <<version, checkin, expired, log, manifests, latest, published>>

(* An upload that is complete or gone is unknown to S3, and any call fails.  *)
(* A file the body names twice fails like one whose reply was lost.          *)
CompleteFails(r) ==
  /\ At(r, "commit", "complete")
  /\ LET i == request[r].of IN
     \E f \in request[r].todo :
       \/ upload[i][f] # "open" /\ UNCHANGED upload
       \/ upload[i][f] = "open" /\ S3Fails /\ UNCHANGED upload
       \/ upload[i][f] = "open" /\ S3Fails /\ SetUpload(i, f, "complete")
  /\ Goto(r, "compensate")
  /\ UNCHANGED <<version, checkin, expired, log, manifests, latest, published>>

(* Mutant: compensation is left to somebody else. *)
StopCompensating(r) ==
  /\ At(r, "commit", "compensate")
  /\ checkin' = [checkin EXCEPT ![request[r].of] = "compensating"]
  /\ Return(r)
  /\ UNCHANGED <<version, expired, upload, log, manifests, latest, published>>

StartCompensating(r) ==
  /\ At(r, "commit", "compensate")
  /\ checkin' = [checkin EXCEPT ![request[r].of] = "compensating"]
  /\ Goto(r, "list")
  /\ UNCHANGED <<version, expired, upload, log, manifests, latest, published>>

(* Either of the failure path's own writes throws: the handler ends, with    *)
(* the check-in as it is.                                                    *)
FailureThrows(r) ==
  /\ DatabaseFails
  /\ request[r].op = "commit" /\ request[r].step \in {"compensate", "aborted"}
  /\ Return(r)
  /\ Suffers(r, "stuck")
  /\ UNCHANGED <<version, checkin, expired, upload, log, manifests, latest, published>>

(* The manifest is of every file, whichever the commit has completed.        *)
CreateVersionFiles(r) ==
  /\ At(r, "commit", "manifest")
  /\ manifests' = [manifests EXCEPT ![request[r].of] = IF @ < MaxManifests THEN @ + 1 ELSE @]
  /\ Goto(r, "version")
  /\ UNCHANGED <<version, checkin, expired, upload, log, latest, published>>

CompleteVersion(r) ==
  /\ At(r, "commit", "version")
  /\ SetVersion(request[r].of, "completed")
  /\ Goto(r, "sentinel")
  /\ UNCHANGED <<checkin, expired, upload, log, manifests, latest, published>>

UpsertSentinel(r) ==
  /\ At(r, "commit", "sentinel")
  /\ latest' = request[r].of
  /\ Goto(r, "rows")
  /\ UNCHANGED <<version, checkin, expired, upload, log, manifests, published>>

CommitLog(r) ==
  /\ At(r, "commit", "rows")
  /\ log' = [log EXCEPT ![request[r].of] =
       [f \in Files |-> IF @[f] = "pending" THEN "committed" ELSE @[f]]]
  /\ Goto(r, "state")
  /\ UNCHANGED <<version, checkin, expired, upload, manifests, latest, published>>

Committed(r) ==
  /\ At(r, "commit", "state")
  /\ checkin' = [checkin EXCEPT ![request[r].of] = "committed"]
  /\ Publish(request[r].of, "committed")
  /\ Return(r)
  /\ UNCHANGED <<version, expired, upload, log, manifests, latest>>

(* S3 is committed but the database is not: left for an operator, unless     *)
(* the write that says so throws as well.                                    *)
CommitThrows(r) ==
  /\ DatabaseFails
  /\ request[r].op = "commit"
  /\ request[r].step \in {"manifest", "version", "sentinel", "rows", "state"}
  /\ \/ /\ checkin' = [checkin EXCEPT ![request[r].of] = "compensating"]
        /\ Publish(request[r].of, "failed")
     \/ UNCHANGED <<checkin, published>>
  /\ Return(r)
  /\ Suffers(r, "threw")
  /\ UNCHANGED <<version, expired, upload, log, manifests, latest>>

-----------------------------------------------------------------------------
(* POST /assets/checkin/:id/abort, and runCompensationInline for both. *)

Abort(r, i) ==
  /\ checkin[i] \in {"reserved", "compensating"}
  /\ Begin(r, "abort", "list", i, {})
  /\ UNCHANGED <<version, checkin, expired, upload, log, manifests, latest, published>>

(* The rows as they are now: the loop asks the list, not the log. *)
ListRows(r) ==
  /\ request[r].step = "list"
  /\ GotoWith(r, "undo", {f \in Files : log[request[r].of][f] = "pending"})
  /\ UNCHANGED <<version, checkin, expired, upload, log, manifests, latest, published>>

ExecuteInverse(r) ==
  /\ request[r].step = "undo"
  /\ LET i == request[r].of IN
     \E f \in request[r].todo, ok \in BOOLEAN :
       /\ \/ ok /\ AbortTakes(i, f)
          \/ ~ok /\ upload[i][f] # "open" /\ UNCHANGED upload
          \/ ~ok /\ S3Fails /\ (AbortTakes(i, f) \/ UNCHANGED upload)
       /\ request' = [request EXCEPT ![r] = [@ EXCEPT !.step = "note", !.file = f, !.ok = ok]]
  /\ UNCHANGED <<version, checkin, expired, log, manifests, latest, published>>

(* Mutant: the row is compensated whatever S3 answered. *)
NoteAlways(r) ==
  /\ request[r].step = "note"
  /\ SetLog(request[r].of, request[r].file, "compensated")
  /\ GotoWith(r, "undo", request[r].todo \ {request[r].file})
  /\ UNCHANGED <<version, checkin, expired, upload, manifests, latest, published>>

NoteInverse(r) ==
  /\ request[r].step = "note"
  /\ SetLog(request[r].of, request[r].file, IF request[r].ok THEN "compensated" ELSE "failed")
  /\ GotoWith(r, "undo", request[r].todo \ {request[r].file})
  /\ UNCHANGED <<version, checkin, expired, upload, manifests, latest, published>>

(* The row cannot be marked compensated: it is marked failed instead.        *)
MarkThrows(r) ==
  /\ DatabaseFails
  /\ request[r].step = "note" /\ request[r].ok
  /\ request' = [request EXCEPT ![r] = [@ EXCEPT !.ok = FALSE]]
  /\ UNCHANGED <<version, checkin, expired, upload, log, manifests, latest, published>>

(* The rows cannot be listed, or one not be marked failed: the rest stay as  *)
(* they are.  The abort ends there; the commit's .catch swallows it.         *)
CompensationThrows(r) ==
  /\ DatabaseFails
  /\ request[r].step = "list" \/ (request[r].step = "note" /\ ~request[r].ok)
  /\ \/ request[r].op = "commit" /\ Goto(r, "aborted") /\ Suffers(r, "swallowed")
     \/ request[r].op = "abort" /\ Return(r) /\ Suffers(r, "threw")
  /\ UNCHANGED <<version, checkin, expired, upload, log, manifests, latest, published>>

(* Only the abort of a client fails the version; a commit that failed does   *)
(* not.                                                                      *)
Compensated(r) ==
  /\ request[r].step = "undo" /\ request[r].todo = {}
  /\ IF request[r].op = "abort" THEN SetVersion(request[r].of, "failed") ELSE UNCHANGED version
  /\ Goto(r, "aborted")
  /\ UNCHANGED <<checkin, expired, upload, log, manifests, latest, published>>

(* Mutant: a state the table does not know. *)
AbortedAsFailed(r) ==
  /\ request[r].step = "aborted"
  /\ checkin' = [checkin EXCEPT ![request[r].of] = "failed"]
  /\ Publish(request[r].of, "failed")
  /\ Return(r)
  /\ UNCHANGED <<version, expired, upload, log, manifests, latest>>

Aborted(r) ==
  /\ request[r].step = "aborted"
  /\ checkin' = [checkin EXCEPT ![request[r].of] = "aborted"]
  /\ Publish(request[r].of, IF request[r].op = "abort" THEN "aborted" ELSE "failed")
  /\ Return(r)
  /\ UNCHANGED <<version, expired, upload, log, manifests, latest>>

(* One of the abort's writes after compensation throws. *)
AbortThrows(r) ==
  /\ DatabaseFails
  /\ \/ At(r, "abort", "undo") /\ request[r].todo = {}
     \/ At(r, "abort", "aborted")
  /\ Return(r)
  /\ Suffers(r, "threw")
  /\ UNCHANGED <<version, checkin, expired, upload, log, manifests, latest, published>>

-----------------------------------------------------------------------------
Steps(r) ==
  \/ OpenUpload(r) \/ OpenFails(r) \/ LogUpload(r) \/ RollbackUpload(r)
  \/ ReserveFails(r) \/ CreateCheckin(r)
  \/ CompleteUpload(r) \/ CompleteFails(r) \/ StartCompensating(r)
  \/ CreateVersionFiles(r) \/ CompleteVersion(r) \/ UpsertSentinel(r)
  \/ CommitLog(r) \/ Committed(r)
  \/ ListRows(r) \/ ExecuteInverse(r) \/ NoteInverse(r) \/ MarkThrows(r)
  \/ Compensated(r) \/ Aborted(r)

Throws(r) ==
  \/ ReserveThrows(r) \/ CommitThrows(r) \/ FailureThrows(r)
  \/ CompensationThrows(r) \/ AbortThrows(r)

Continue(r) ==
  /\ \/ Steps(r) /\ UNCHANGED mishap
     \/ Throws(r)
  /\ UNCHANGED role

Enter(r, i) ==
  /\ Reserve(r, i) \/ Commit(r, i) \/ Abort(r, i)
  /\ mishap' = [mishap EXCEPT ![i] =
       IF \E q \in Requests : request[q].of = i THEN @ \cup {"overlap"} ELSE @]
  /\ UNCHANGED role

Next ==
  \/ \E r \in Requests, i \in CheckIns : Enter(r, i)
  \/ \E r \in Requests : Continue(r)
  \/ \E i \in CheckIns : Expire(i) /\ UNCHANGED <<role, mishap>>

Spec == Init /\ [][Next]_vars

(* A handler that is under way goes on; clients promise nothing. *)
FairSpec == Spec /\ \A r \in Requests : WF_vars(Continue(r))

-----------------------------------------------------------------------------
(* Properties. *)

(* Type invariant. *)
TypeOK ==
  /\ version \in [CheckIns -> {"none", "draft", "completed", "failed"}]
  /\ checkin \in [CheckIns -> {"none", "reserved", "compensating", "committed", "aborted"}]
  /\ expired \in [CheckIns -> BOOLEAN]
  /\ upload \in [CheckIns -> [Files -> {"none", "open", "complete", "gone"}]]
  /\ log \in [CheckIns -> [Files -> {"none", "pending", "committed", "compensated", "failed"}]]
  /\ manifests \in [CheckIns -> 0 .. MaxManifests]
  /\ latest \in CheckIns \cup {None}
  /\ published \in [CheckIns -> SUBSET {"reserved", "committed", "failed", "aborted"}]
  /\ request \in [Requests ->
       [op : {"none", "reserve", "commit", "abort"},
        step : {"none", "open", "log", "rollback", "row", "complete", "compensate", "manifest",
                "version", "sentinel", "rows", "state", "list", "undo", "note", "aborted"},
        of : CheckIns \cup {None}, todo : SUBSET Files, file : Files \cup {None}, ok : BOOLEAN]]
  /\ role \in [CheckIns -> Plans] /\ mishap \in [CheckIns -> SUBSET Mishap]

(* Every role of check-in i has an object in S3. *)
RolesStored(i) ==
  \A f \in Files : \E g \in Files : role[i][g] = role[i][f] /\ upload[i][g] = "complete"

(* The manifest of a version names an object S3 holds for every role (and so *)
(* none but objects S3 holds, where no two files share a role), whatever     *)
(* other commits and aborts do meanwhile: commit writes it after the uploads *)
(* of files of all roles are complete (normalizeCommitBody), and             *)
(* compensation cannot take back a complete one.                             *)
ManifestBacked == \A i \in CheckIns : manifests[i] > 0 => RolesStored(i)

(* The compensation log tells the truth about S3: a committed row's role has *)
(* a complete upload, and a compensated row's upload is gone, although rows  *)
(* are judged by a list read before the calls (markS3CompensationCommitted,  *)
(* runCompensationInline).                                                   *)
LogIsTruthful ==
  \A i \in CheckIns, f \in Files :
    /\ log[i][f] = "committed" =>
         \E g \in Files : role[i][g] = role[i][f] /\ upload[i][g] = "complete"
    /\ log[i][f] = "compensated" => upload[i][f] = "gone"

(* When a check-in has ended, no row of its log is left pending, even while  *)
(* another request on it is still at work: each is committed, compensated,   *)
(* or failed for an operator; but for an aborted check-in one of whose       *)
(* commits swallowed that its compensation threw.                            *)
LogSettles ==
  \A i \in CheckIns :
    checkin[i] = "committed" \/ (checkin[i] = "aborted" /\ "swallowed" \notin mishap[i]) =>
      \A f \in Files : log[i][f] \in {"committed", "compensated", "failed"}

LogIsRight == LogIsTruthful /\ LogSettles

(* Nobody works on check-in i. *)
Quiet(i) == \A r \in Requests : request[r].of # i

(* Of requests that came one at a time, and with a store that does not throw *)
(* at them: a check-in that is committed has its manifest written once, with *)
(* an object of every role, its version completed, its log committed and was *)
(* announced as committed only; any other has no manifest, and no consumer   *)
(* was told of a commit; "latest" is a committed check-in (the commit and    *)
(* abort handlers, end to end).                                              *)
CleanOutcome ==
  /\ \A i \in CheckIns :
       mishap[i] = {} /\ Quiet(i) =>
         IF checkin[i] = "committed"
         THEN /\ manifests[i] = 1 /\ version[i] = "completed" /\ RolesStored(i)
              /\ \A f \in Files : log[i][f] = "committed"
              /\ published[i] = {"reserved", "committed"}
         ELSE manifests[i] = 0 /\ version[i] # "completed" /\ "committed" \notin published[i]
  /\ latest # None /\ mishap[latest] = {} /\ Quiet(latest) => checkin[latest] = "committed"

(* "compensating -> aborted" (migration 018): a commit that failed at S3     *)
(* ends with the check-in aborted, whatever the other requests write and     *)
(* although its compensation may throw, unless the store refuses one of the  *)
(* two writes of its state.                                                  *)
CompensationEnds ==
  \A r \in Requests, i \in CheckIns :
    At(r, "commit", "compensate") /\ request[r].of = i
      ~> checkin[i] = "aborted" \/ "stuck" \in mishap[i]
=============================================================================
