--------------------------- MODULE DispatchPoller ---------------------------
(***************************************************************************)
(* The ledger of DataEngine dispatches: a row for every file of a          *)
(* committed check-in that a function is expected to process, and the      *)
(* sweeps that look in S3 for what the functions produce.                  *)
(*                                                                         *)
(* A sweep lists the pending rows, then takes them one after the other,    *)
(* with awaits on S3 and on the version store in between; the timer starts *)
(* one every fifteen seconds whether or not the last has ended, and an     *)
(* administrator may start another.  What a sweep writes, it writes        *)
(* without looking at the row again.                                       *)
(*                                                                         *)
(* Clocks are relative: left is the time to a row's deadline, ago the time *)
(* since it was polled (Cooldown: that long, or never).  Left out: poll    *)
(* counts, the order of the list and its limit of fifty rows, the          *)
(* temporary TLS setting, and a store without a storage endpoint.          *)
(***************************************************************************)
EXTENDS Naturals, EventBus

CONSTANTS
  CheckIns,
  Files,
  FilesOf,       \* the files of each check-in
  KindOf,        \* the kind of a file, by its extension
  Pipelines,     \* the kinds of file a pipeline is configured for
  Sweeps,        \* sweeps in progress at a time
  Sla,           \* time from commit to deadline
  Cooldown,      \* time between two polls of a row
  MaxAnnounced,  \* bound: no sweep begins with a row announced that often
  None

Kinds == {"image", "video", "raw_camera"}

ASSUME DispatchAssumption ==
  /\ FilesOf \in [CheckIns -> SUBSET Files]
  /\ \A c, d \in CheckIns : c # d => FilesOf[c] \cap FilesOf[d] = {}
  /\ KindOf \in [Files -> Kinds \cup {"other"}]
  /\ Pipelines \subseteq Kinds
  /\ Sla \in Nat /\ Cooldown \in Nat /\ MaxAnnounced \in Nat
  /\ None \notin Files

VARIABLES
  committed,  \* check-ins committed so far
  row,        \* table dataengine_dispatches, by file
  sweep,      \* what each sweep is doing
  announced,  \* history: how often version.proxy.generated was published for a file
  raced       \* history: files that two sweeps had in hand at once

pollerVars == <<committed, row, sweep, announced, raced>>

Artifacts == {"proxy", "thumbnail", "metadata"}

(* What the functions make of a file, and the sweep looks for. *)
ProbePaths(kind) ==
  [k \in Kinds |->
     IF k = "image" THEN Artifacts
     ELSE IF k = "video" THEN {"proxy", "metadata"} ELSE {"metadata"}][kind]

NoRow == [status |-> "absent", left |-> 0, ago |-> 0]
NewRow == [status |-> "pending", left |-> Sla, ago |-> Cooldown]

Resting == [step |-> "idle", todo |-> {}, late |-> {}, seen |-> [f \in Files |-> 0],
            age |-> 0, file |-> None]

PollerInit ==
  /\ committed = {}
  /\ row = [f \in Files |-> NoRow]
  /\ sweep = [s \in Sweeps |-> Resting]
  /\ announced = [f \in Files |-> 0]
  /\ raced = {}

-----------------------------------------------------------------------------
(* The subscriber of checkin.committed: a row for each file whose kind has a *)
(* pipeline; sidecars and unknown kinds have none.                           *)
HandleCheckinCommitted(c) ==
  /\ c \notin committed
  /\ committed' = committed \cup {c}
  /\ LET expected == {f \in FilesOf[c] : KindOf[f] \in Pipelines}
     IN /\ row' = [f \in Files |-> IF f \in expected THEN NewRow ELSE row[f]]
        /\ bus' = bus \o <<Event("checkin.committed", c)>>
                      \o (IF expected = {} THEN <<>>
                          ELSE <<Event("version.processing.started", c)>>)
  /\ UNCHANGED <<sweep, announced, raced>>

-----------------------------------------------------------------------------
(* runSweep *)

InHand(s) == sweep[s].todo \cup ({sweep[s].file} \ {None})

(* listPendingDispatchesForPolling: rows past their deadline are not listed. *)
Listed == {f \in Files : row[f].status = "pending" /\ row[f].left > 0}

BeginSweep(s) ==
  /\ sweep[s] = Resting
  /\ Listed # {}
  /\ \A f \in Listed : announced[f] < MaxAnnounced
  /\ sweep' = [sweep EXCEPT ![s] =
       [step |-> "list", todo |-> Listed, late |-> {f \in Listed : row[f].left = 0},
        seen |-> [f \in Files |-> IF f \in Listed THEN row[f].ago ELSE 0],
        age |-> 0, file |-> None]]
  /\ raced' = raced \cup {f \in Listed : \E o \in Sweeps \ {s} : f \in InHand(o)}
  /\ UNCHANGED <<committed, row, bus, announced>>

(* The sweep goes on to the row of another file, or ends. *)
GoOn(s, todo) ==
  sweep' = [sweep EXCEPT ![s] =
    IF todo = {} THEN Resting
    ELSE [step |-> "list", todo |-> todo, late |-> sweep[s].late,
          seen |-> [f \in Files |-> IF f \in todo THEN sweep[s].seen[f] ELSE 0],
          age |-> sweep[s].age, file |-> None]]

(* updateDataEngineDispatch, with the time at which the sweep began. *)
Update(s, f, status) ==
  row' = [row EXCEPT ![f] = [@ EXCEPT !.status = status, !.ago = sweep[s].age]]

(* A row polled a moment ago, as it was listed, is passed over. *)
SkipRecent(s, f) ==
  /\ sweep[s].step = "list" /\ f \in sweep[s].todo
  /\ sweep[s].seen[f] < Cooldown
  /\ GoOn(s, sweep[s].todo \ {f})
  /\ UNCHANGED <<committed, row, bus, announced, raced>>

(* One whose deadline was over when the sweep began is given up; of another  *)
(* the artifacts are looked up.                                              *)
TakeRow(s, f) ==
  /\ sweep[s].step = "list" /\ f \in sweep[s].todo
  /\ sweep[s].seen[f] >= Cooldown
  /\ IF f \in sweep[s].late
     THEN /\ Update(s, f, "abandoned")
          /\ Publish("version.processing.abandoned", f)
          /\ GoOn(s, sweep[s].todo \ {f})
     ELSE /\ sweep' = [sweep EXCEPT ![s] =
               [@ EXCEPT !.step = "probe", !.todo = sweep[s].todo \ {f}, !.file = f]]
          /\ UNCHANGED <<row, bus>>
  /\ UNCHANGED <<committed, announced, raced>>

CompleteEnough(kind, found) ==
  \/ kind = "image" /\ found # {}
  \/ kind = "video" /\ found \cap {"proxy", "metadata"} # {}
  \/ kind = "raw_camera" /\ "metadata" \in found

Announce(f) ==
  /\ Publish("version.proxy.generated", f)
  /\ announced' = [announced EXCEPT ![f] = @ + 1]

(* The last HEAD has answered.  Artifacts appear at any time and the errors  *)
(* of a HEAD are swallowed: what is found may be any part of what the        *)
(* functions make, and less than another sweep found.  The URLs are left     *)
(* out.                                                                      *)
Complete(s) ==
  /\ sweep[s].step = "probe"
  /\ LET f == sweep[s].file
     IN \E found \in SUBSET ProbePaths(KindOf[f]) :
          /\ CompleteEnough(KindOf[f], found)
          /\ Update(s, f, "completed")
          /\ IF found \cap {"proxy", "thumbnail"} # {}
             THEN /\ sweep' = [sweep EXCEPT ![s] = [@ EXCEPT !.step = "attach"]]
                  /\ UNCHANGED <<bus, announced>>
             ELSE /\ Announce(f)
                  /\ GoOn(s, sweep[s].todo)
  /\ UNCHANGED <<committed, raced>>

(* Nothing, or not enough, was found: the row stays, or becomes, pending. *)
NotYet(s) ==
  /\ sweep[s].step = "probe"
  /\ LET f == sweep[s].file
     IN /\ \E found \in SUBSET ProbePaths(KindOf[f]) : ~CompleteEnough(KindOf[f], found)
        /\ Update(s, f, "pending")
  /\ GoOn(s, sweep[s].todo)
  /\ UNCHANGED <<committed, bus, announced, raced>>

(* Mutant: a dispatch whose URLs could not be attached is pending again. *)
AttachedOrRetried(s) ==
  /\ sweep[s].step = "attach"
  /\ \/ Announce(sweep[s].file) /\ UNCHANGED row
     \/ Update(s, sweep[s].file, "pending") /\ UNCHANGED <<bus, announced>>
  /\ GoOn(s, sweep[s].todo)
  /\ UNCHANGED <<committed, raced>>

(* Mutant: an attachment that fails is not caught, and ends the sweep. *)
AttachedOrThrown(s) ==
  /\ sweep[s].step = "attach"
  /\ \/ Announce(sweep[s].file) /\ GoOn(s, sweep[s].todo)
     \/ GoOn(s, {}) /\ UNCHANGED <<bus, announced>>
  /\ UNCHANGED <<committed, row, raced>>

(* The URLs were attached to the version, or that failed (a published        *)
(* version refuses): the completion is announced in either case.             *)
Attached(s) ==
  /\ sweep[s].step = "attach"
  /\ Announce(sweep[s].file)
  /\ GoOn(s, sweep[s].todo)
  /\ UNCHANGED <<committed, row, raced>>

-----------------------------------------------------------------------------
Older(t) == IF t < Cooldown THEN t + 1 ELSE t

Tick ==
  /\ row' = [f \in Files |->
       [row[f] EXCEPT !.left = IF @ > 0 THEN @ - 1 ELSE 0,
                      !.ago = IF row[f].status = "pending" THEN Older(@) ELSE @]]
  /\ sweep' = [s \in Sweeps |->
       IF sweep[s] = Resting THEN Resting
       ELSE [sweep[s] EXCEPT
               !.seen = [f \in Files |-> IF f \in sweep[s].todo THEN Older(@[f]) ELSE 0],
               !.age = Older(@)]]
  /\ UNCHANGED <<committed, bus, announced, raced>>

SweepStep(s) ==
  \/ \E f \in Files : SkipRecent(s, f) \/ TakeRow(s, f)
  \/ Complete(s) \/ NotYet(s) \/ Attached(s)

PollerNext ==
  \/ \E c \in CheckIns : HandleCheckinCommitted(c)
  \/ \E s \in Sweeps : BeginSweep(s) \/ SweepStep(s)
  \/ Tick

Spec == PollerInit /\ bus = <<>> /\ [][PollerNext]_<<pollerVars, bus>>

(* The timer starts sweeps, and S3 and the stores answer them, some way. *)
PollerFairness ==
  /\ WF_<<pollerVars, bus>>(Tick)
  /\ \A s \in Sweeps :
       /\ WF_<<pollerVars, bus>>(BeginSweep(s))
       /\ WF_<<pollerVars, bus>>(SweepStep(s))

FairPoller == Spec /\ PollerFairness

-----------------------------------------------------------------------------
(* "pending -> abandoned (poller gives up after deadline)", migration 022: a *)
(* dispatch whose deadline is over does not stay pending for ever.           *)
OverdueIsGivenUp ==
  \A f \in Files :
    row[f].status = "pending" /\ row[f].left = 0 ~> row[f].status # "pending"
=============================================================================
