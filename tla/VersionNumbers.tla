--------------------------- MODULE VersionNumbers ---------------------------
(***************************************************************************)
(* How a version gets its number when versions live in VAST: insertVersion *)
(* reads the highest number of the shot and context, inserts the next one, *)
(* looks who else has it, and when somebody with an older row does, takes  *)
(* its row back and starts over.  Each statement is atomic; between them   *)
(* other callers run.  One shot and context; a caller inserts one version. *)
(* created_at is the time the request began, kept across attempts.         *)
(***************************************************************************)
EXTENDS Naturals, FiniteSets

CONSTANTS
  Callers,
  MaxInserts,  \* attempts before insertVersion gives up
  LastSecond    \* where the clock of the model stops

ASSUME VersionsAssumption == MaxInserts \in Nat \ {0} /\ LastSecond \in Nat

VARIABLES
  rows,    \* table versions: rows [by, number, at]
  caller,  \* what each caller is doing: step, number, attempts left, created_at
  clock

versionVars == <<rows, caller, clock>>

VersionsInit ==
  /\ rows = {}
  /\ caller = [c \in Callers |-> [step |-> "idle", number |-> 0, tries |-> MaxInserts, at |-> 0]]
  /\ clock = 0

MoveOn(c, step) == caller' = [caller EXCEPT ![c] = [@ EXCEPT !.step = step]]

(* POST /assets/checkin takes writeCtx.now and calls createVersion. *)
BeginInsertVersion(c) ==
  /\ caller[c].step = "idle"
  /\ caller' = [caller EXCEPT ![c] = [@ EXCEPT !.step = "max", !.at = clock]]
  /\ UNCHANGED <<rows, clock>>

Highest == CHOOSE n \in {0} \cup {r.number : r \in rows} : \A r \in rows : r.number <= n

(* Mutant: the number is counted, not taken from the highest. *)
SelectCount(c) ==
  /\ caller[c].step = "max"
  /\ caller' = [caller EXCEPT ![c] = [@ EXCEPT !.step = "insert", !.number = Cardinality(rows)]]
  /\ UNCHANGED <<rows, clock>>

SelectMax(c) ==
  /\ caller[c].step = "max"
  /\ caller' = [caller EXCEPT ![c] = [@ EXCEPT !.step = "insert", !.number = Highest + 1]]
  /\ UNCHANGED <<rows, clock>>

Insert(c) ==
  /\ caller[c].step = "insert"
  /\ rows' = rows \cup {[by |-> c, number |-> caller[c].number, at |-> caller[c].at]}
  /\ MoveOn(c, "verify")
  /\ UNCHANGED clock

(* The first row by created_at wins; between equal times VAST may put        *)
(* either first.                                                             *)
Verify(c) ==
  /\ caller[c].step = "verify"
  /\ \E first \in {r \in rows : r.number = caller[c].number} :
       /\ \A r \in rows : r.number = caller[c].number => first.at <= r.at
       /\ MoveOn(c, IF first.by = c THEN "done" ELSE "delete")
  /\ UNCHANGED <<rows, clock>>

(* Another attempt, or an error after the last. *)
GiveWay(c) ==
  LET left == caller[c].tries - 1 IN
  caller' = [caller EXCEPT ![c] =
    [@ EXCEPT !.step = IF left > 0 THEN "max" ELSE "failed", !.tries = left]]

(* Mutant: the rows of the number are deleted, not the caller's own. *)
DeleteNumber(c) ==
  /\ caller[c].step = "delete"
  /\ rows' = {r \in rows : r.number # caller[c].number}
  /\ GiveWay(c)
  /\ UNCHANGED clock

Delete(c) ==
  /\ caller[c].step = "delete"
  /\ rows' = {r \in rows : r.by # c}
  /\ GiveWay(c)
  /\ UNCHANGED clock

(* A statement fails, or its reply is lost: insertVersion throws and a row   *)
(* it has inserted stays.                                                    *)
Throw(c) ==
  /\ caller[c].step \in {"max", "insert", "verify", "delete"}
  /\ MoveOn(c, "thrown")
  /\ UNCHANGED <<rows, clock>>

ClockTicks ==
  /\ clock < LastSecond
  /\ clock' = clock + 1
  /\ UNCHANGED <<rows, caller>>

VersionsNext ==
  \/ \E c \in Callers : \/ BeginInsertVersion(c) \/ SelectMax(c) \/ Insert(c)
                         \/ Verify(c) \/ Delete(c) \/ Throw(c)
  \/ ClockTicks

VersionsSpec == VersionsInit /\ [][VersionsNext]_versionVars

-----------------------------------------------------------------------------
(* Properties. *)

(* Type invariant. *)
VersionsTypeOK ==
  /\ rows \subseteq [by : Callers, number : Nat \ {0}, at : 0 .. LastSecond]
  /\ caller \in [Callers -> [step : {"idle", "max", "insert", "verify", "delete", "done", "failed",
                                     "thrown"},
                             number : Nat, tries : 0 .. MaxInserts, at : 0 .. LastSecond]]
  /\ clock \in 0 .. LastSecond

Done == {c \in Callers : caller[c].step = "done"}

(* The version a caller was given stays in the table, under the number it    *)
(* was told, whatever other callers insert and take back (insertVersion's    *)
(* DELETE names the row, not the number).                                    *)
GivenStays ==
  \A c \in Done : [by |-> c, number |-> caller[c].number, at |-> caller[c].at] \in rows

(* A number chosen after a version was handed out is higher, so that numbers *)
(* never run against time and no object of a finished version is overwritten *)
(* by a check-in that starts after it (the number is part of the S3 key).    *)
LaterIsHigher ==
  [][\A c \in Callers, d \in Done :
       caller[c].step = "max" /\ caller'[c].step = "insert" =>
         caller'[c].number > caller[d].number]_versionVars

=============================================================================
