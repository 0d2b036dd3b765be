-------------------------- MODULE AutomationProofs --------------------------
(***************************************************************************)
(* What the dispatch ledger keeps for every number of check-ins, files and *)
(* sweeps, and whatever the triggers on the bus do: the completion of a    *)
(* dispatch that no two sweeps had in hand at once is announced once, and  *)
(* is not taken back.                                                      *)
(*                                                                         *)
(* The invariant follows such a row through the sweep that has it: it is   *)
(* pending while the sweep has it in its list or probes for it, completed  *)
(* while its URLs are attached, and no other sweep has it.                 *)
(***************************************************************************)
EXTENDS Automation, TLAPS

RowShape == [status : {"absent", "pending", "completed", "abandoned"}, left : Nat, ago : Nat]
SweepShape ==
  [step : {"idle", "list", "probe", "attach"}, todo : SUBSET Files, late : SUBSET Files,
   seen : [Files -> Nat], age : Nat, file : Files \cup {None}]

Shape ==
  /\ row \in [Files -> RowShape]
  /\ sweep \in [Sweeps -> SweepShape]
  /\ announced \in [Files -> Nat]
  /\ committed \subseteq CheckIns
  /\ \A s \in Sweeps :
       IF sweep[s].step \in {"idle", "list"} THEN sweep[s].file = None
       ELSE sweep[s].file \in Files \ sweep[s].todo

(* Only files of a committed check-in have a row, and only rows are swept. *)
Known ==
  /\ \A f \in Files : row[f].status # "absent" => \E c \in committed : f \in FilesOf[c]
  /\ \A s \in Sweeps, f \in Files : f \in InHand(s) => row[f].status # "absent"

Seeking(s, f) == f \in sweep[s].todo \/ (sweep[s].step = "probe" /\ sweep[s].file = f)
AttachedBy(s, f) == sweep[s].step = "attach" /\ sweep[s].file = f
Has(s, f) == Seeking(s, f) \/ AttachedBy(s, f)

(* What a sweep finds of a row that it alone has. *)
Alone(f) ==
  /\ \A s, o \in Sweeps : Has(s, f) /\ Has(o, f) => s = o
  /\ \A s \in Sweeps : Seeking(s, f) => row[f].status = "pending"
  /\ \A s \in Sweeps : AttachedBy(s, f) => row[f].status = "completed"
  /\ announced[f] = IF row[f].status = "completed" /\ ~Attaching(f) THEN 1 ELSE 0

IInv == Shape /\ Known /\ \A f \in Files \ raced : Alone(f)

-----------------------------------------------------------------------------
LEMMA NoneIsNoFile == None \notin Files
BY DispatchAssumption

LEMMA InHandIsHad ==
  ASSUME Shape, NEW s \in Sweeps, NEW f \in Files
  PROVE  f \in InHand(s) <=> Has(s, f)
<1>1. sweep[s] \in SweepShape /\ f # None
  BY NoneIsNoFile DEF Shape
<1>2. CASE sweep[s].step \in {"idle", "list"}
  BY <1>1, <1>2 DEF Shape, InHand, Has, Seeking, AttachedBy
<1>3. CASE sweep[s].step \notin {"idle", "list"}
  <2>1. sweep[s].step \in {"probe", "attach"}
    BY <1>1, <1>3 DEF SweepShape
  <2>2. QED
    BY <1>1, <2>1 DEF InHand, Has, Seeking, AttachedBy
<1>4. QED
  BY <1>2, <1>3

(* A sweep that goes on has no file, and what is left of its list. *)
LEMMA WentOn ==
  ASSUME Shape, NEW s \in Sweeps, NEW todo \in SUBSET Files, GoOn(s, todo)
  PROVE  /\ sweep' \in [Sweeps -> SweepShape]
         /\ sweep'[s].todo = todo /\ sweep'[s].file = None
         /\ sweep'[s].step \in {"idle", "list"}
         /\ \A o \in Sweeps \ {s} : sweep'[o] = sweep[o]
<1> DEFINE on == [step |-> "list", todo |-> todo, late |-> sweep[s].late,
                  seen |-> [f \in Files |-> IF f \in todo THEN sweep[s].seen[f] ELSE 0],
                  age |-> sweep[s].age, file |-> None]
           new == IF todo = {} THEN Resting ELSE on
<1>1. sweep \in [Sweeps -> SweepShape] /\ sweep[s] \in SweepShape
  BY DEF Shape
<1>2. sweep[s].late \in SUBSET Files /\ sweep[s].seen \in [Files -> Nat] /\ sweep[s].age \in Nat
  BY <1>1 DEF SweepShape
<1>3. [f \in Files |-> IF f \in todo THEN sweep[s].seen[f] ELSE 0] \in [Files -> Nat]
  BY <1>2
<1>4. on \in SweepShape
  BY <1>2, <1>3 DEF SweepShape
<1>5. Resting \in SweepShape
  BY DEF SweepShape, Resting
<1>6. new \in SweepShape /\ new.todo = todo /\ new.file = None /\ new.step \in {"idle", "list"}
  BY <1>4, <1>5 DEF Resting
<1>7. sweep' = [sweep EXCEPT ![s] = new]
  BY DEF GoOn
<1> HIDE DEF new
<1>8. QED
  BY <1>1, <1>6, <1>7

(* A step that writes the status of f, or nothing. *)
LEMMA Updated ==
  ASSUME Shape, NEW s \in Sweeps, NEW f \in Files,
         NEW status \in {"pending", "completed", "abandoned"}, Update(s, f, status)
  PROVE  /\ row' \in [Files -> RowShape]
         /\ row'[f].status = status
         /\ \A g \in Files \ {f} : row'[g] = row[g]
<1>1. row \in [Files -> RowShape] /\ row[f] \in RowShape /\ sweep[s] \in SweepShape
  BY DEF Shape
<1>2. sweep[s].age \in Nat
  BY <1>1 DEF SweepShape
<1>3. row' = [row EXCEPT ![f] = [row[f] EXCEPT !.status = status, !.ago = sweep[s].age]]
  BY <1>1 DEF Update
<1>4. [row[f] EXCEPT !.status = status, !.ago = sweep[s].age] \in RowShape
  BY <1>1, <1>2 DEF RowShape
<1>5. [row[f] EXCEPT !.status = status, !.ago = sweep[s].age].status = status
  BY <1>1 DEF RowShape
<1>6. QED
  BY <1>1, <1>3, <1>4, <1>5

LEMMA Announced ==
  ASSUME Shape, NEW f \in Files, Announce(f)
  PROVE  /\ announced' \in [Files -> Nat]
         /\ announced'[f] = announced[f] + 1
         /\ \A g \in Files \ {f} : announced'[g] = announced[g]
BY DEF Shape, Announce

(* The sweep s leaves the row of f, having written what it writes of it. *)
LEMMA LeavesRow ==
  ASSUME IInv, NEW s \in Sweeps, NEW f \in Files, Has(s, f),
         NEW todo \in SUBSET Files, GoOn(s, todo), todo \subseteq sweep[s].todo, f \notin todo,
         \A g \in Files \ {f} : Has(s, g) => g \in todo,
         UNCHANGED <<committed, raced>>,
         row' \in [Files -> RowShape], \A g \in Files \ {f} : row'[g] = row[g],
         row'[f].status # "absent",
         announced' \in [Files -> Nat], \A g \in Files \ {f} : announced'[g] = announced[g],
         f \notin raced => announced'[f] = IF row'[f].status = "completed" THEN 1 ELSE 0
  PROVE  IInv'
<1>1. Shape /\ Known
  BY DEF IInv
<1>2. /\ sweep' \in [Sweeps -> SweepShape]
      /\ sweep'[s].todo = todo /\ sweep'[s].file = None
      /\ sweep'[s].step \in {"idle", "list"}
      /\ \A o \in Sweeps \ {s} : sweep'[o] = sweep[o]
  BY <1>1, WentOn
<1>3. Shape'
  <2>1. ASSUME NEW o \in Sweeps
        PROVE  IF sweep'[o].step \in {"idle", "list"} THEN sweep'[o].file = None
               ELSE sweep'[o].file \in Files \ sweep'[o].todo
    <3>1. CASE o = s
      BY <1>2, <3>1
    <3>2. CASE o # s
      BY <1>1, <1>2, <3>2 DEF Shape
    <3>3. QED
      BY <3>1, <3>2
  <2>2. QED
    BY <1>1, <1>2, <2>1 DEF Shape
<1>4. \A g \in Files : (Seeking(s, g)' <=> g \in todo) /\ ~AttachedBy(s, g)'
  BY <1>2, NoneIsNoFile DEF Seeking, AttachedBy
<1>5. \A o \in Sweeps \ {s}, g \in Files :
        (Seeking(o, g)' <=> Seeking(o, g)) /\ (AttachedBy(o, g)' <=> AttachedBy(o, g))
  BY <1>2 DEF Seeking, AttachedBy
<1>6. \A o \in Sweeps, g \in Files : Has(o, g)' => Has(o, g) /\ (o = s => g # f)
  BY <1>4, <1>5 DEF Has, Seeking
<1>7. \A g \in Files : row[g].status # "absent" => row'[g].status # "absent"
  OBVIOUS
<1>8. \A g \in Files : row'[g].status # "absent" => row[g].status # "absent"
  <2>1. row[f].status # "absent"
    BY <1>1, InHandIsHad DEF Known
  <2>2. QED
    BY <2>1
<1>9. Known'
  <2>1. ASSUME NEW o \in Sweeps, NEW g \in Files, (g \in InHand(o))'
        PROVE  row'[g].status # "absent"
    <3>1. Has(o, g)'
      BY <1>3, <2>1, NoneIsNoFile DEF InHand, Has, Seeking, AttachedBy, Shape, SweepShape
    <3>2. g \in InHand(o)
      BY <1>1, <1>6, <3>1, InHandIsHad
    <3>3. QED
      BY <1>1, <1>7, <3>2 DEF Known
  <2>2. \A g \in Files : row'[g].status # "absent" => \E c \in committed' : g \in FilesOf[c]
    BY <1>1, <1>8 DEF Known
  <2>3. QED
    BY <2>1, <2>2 DEF Known
<1>10. ASSUME NEW g \in Files \ raced' PROVE Alone(g)'
  <2>1. Alone(g)
    BY <1>10 DEF IInv
  <2>2. \A o, q \in Sweeps : Has(o, g)' /\ Has(q, g)' => o = q
    BY <1>6, <2>1 DEF Alone
  <2>3. CASE g = f
    <3>1. \A o \in Sweeps : ~Has(o, g)'
      BY <1>6, <2>1, <2>3 DEF Alone
    <3>2. \A o \in Sweeps : ~Seeking(o, g)' /\ ~AttachedBy(o, g)'
      BY <3>1 DEF Has
    <3>3. ~Attaching(g)'
      BY <3>2 DEF Attaching, AttachedBy
    <3>4. announced'[g] = IF row'[g].status = "completed" THEN 1 ELSE 0
      BY <1>10, <2>3
    <3>5. QED
      BY <2>2, <3>2, <3>3, <3>4 DEF Alone
  <2>4. CASE g # f
    <3>1. \A o \in Sweeps : AttachedBy(o, g)' <=> AttachedBy(o, g)
      <4>1. ~AttachedBy(s, g)
        <5>1. ASSUME AttachedBy(s, g) PROVE g \in sweep[s].todo /\ sweep[s].file = g /\ sweep[s].step = "attach"
          BY <2>4, <5>1 DEF Has, AttachedBy
        <5>2. QED
          BY <1>1, <5>1 DEF Shape
      <4>2. QED
        BY <1>4, <1>5, <4>1
    <3>2. Attaching(g)' <=> Attaching(g)
      BY <3>1 DEF Attaching, AttachedBy
    <3>3. row'[g] = row[g] /\ announced'[g] = announced[g]
      BY <2>4
    <3>4. \A o \in Sweeps : Seeking(o, g)' => Seeking(o, g)
      BY <1>4, <1>5 DEF Seeking
    <3>5. QED
      BY <2>1, <2>2, <3>1, <3>2, <3>3, <3>4 DEF Alone
  <2>5. QED
    BY <2>3, <2>4
<1>11. QED
  BY <1>3, <1>9, <1>10 DEF IInv

(* The sweep s probes for f, or has written it as completed and attaches. *)
LEMMA StaysAtRow ==
  ASSUME IInv, NEW s \in Sweeps, NEW f \in Files, Seeking(s, f),
         sweep' \in [Sweeps -> SweepShape],
         sweep'[s].todo = sweep[s].todo \ {f}, sweep'[s].file = f,
         sweep'[s].step \in {"probe", "attach"},
         sweep[s].step = "list" \/ sweep[s].file = f,
         \A o \in Sweeps \ {s} : sweep'[o] = sweep[o],
         UNCHANGED <<committed, raced, announced>>,
         row' \in [Files -> RowShape], \A g \in Files \ {f} : row'[g] = row[g],
         sweep'[s].step = "probe" => row'[f] = row[f],
         sweep'[s].step = "attach" => row'[f].status = "completed"
  PROVE  IInv'
<1>1. Shape /\ Known
  BY DEF IInv
<1>2. Shape'
  <2>1. ASSUME NEW o \in Sweeps
        PROVE  IF sweep'[o].step \in {"idle", "list"} THEN sweep'[o].file = None
               ELSE sweep'[o].file \in Files \ sweep'[o].todo
    <3>1. CASE o = s
      BY <3>1
    <3>2. CASE o # s
      BY <1>1, <3>2 DEF Shape
    <3>3. QED
      BY <3>1, <3>2
  <2>2. QED
    BY <1>1, <2>1 DEF Shape
<1>3. \A o \in Sweeps \ {s}, g \in Files :
        (Seeking(o, g)' <=> Seeking(o, g)) /\ (AttachedBy(o, g)' <=> AttachedBy(o, g))
  BY DEF Seeking, AttachedBy
<1>4. \A g \in Files \ {f} :
        /\ Seeking(s, g)' <=> g \in sweep[s].todo
        /\ Seeking(s, g) <=> g \in sweep[s].todo
        /\ ~AttachedBy(s, g) /\ ~AttachedBy(s, g)'
  BY DEF Seeking, AttachedBy
<1>5. /\ Seeking(s, f)' <=> sweep'[s].step = "probe"
      /\ AttachedBy(s, f)' <=> sweep'[s].step = "attach"
  BY DEF Seeking, AttachedBy
<1>6. \A o \in Sweeps, g \in Files : Has(o, g)' => Has(o, g)
  BY <1>3, <1>4 DEF Has
<1>7. row[f].status # "absent"
  BY <1>1, InHandIsHad DEF Known, Has
<1>8. \A g \in Files : row[g].status # "absent" <=> row'[g].status # "absent"
  BY <1>7
<1>9. Known'
  <2>1. ASSUME NEW o \in Sweeps, NEW g \in Files, (g \in InHand(o))'
        PROVE  row'[g].status # "absent"
    <3>1. Has(o, g)'
      BY <1>2, <2>1, NoneIsNoFile DEF InHand, Has, Seeking, AttachedBy, Shape, SweepShape
    <3>2. g \in InHand(o)
      BY <1>1, <1>6, <3>1, InHandIsHad
    <3>3. QED
      BY <1>1, <1>8, <3>2 DEF Known
  <2>2. \A g \in Files : row'[g].status # "absent" => \E c \in committed' : g \in FilesOf[c]
    BY <1>1, <1>8 DEF Known
  <2>3. QED
    BY <2>1, <2>2 DEF Known
<1>10. ASSUME NEW g \in Files \ raced' PROVE Alone(g)'
  <2>1. Alone(g)
    BY <1>10 DEF IInv
  <2>2. \A o, q \in Sweeps : Has(o, g)' /\ Has(q, g)' => o = q
    BY <1>6, <2>1 DEF Alone
  <2>3. CASE g = f
    <3>1. row[f].status = "pending" /\ (\A o \in Sweeps : ~AttachedBy(o, f)) /\ announced[f] = 0
      <4>1. row[f].status = "pending"
        BY <2>1, <2>3 DEF Alone
      <4>2. QED
        BY <2>1, <2>3, <4>1 DEF Alone
    <3>2. \A o \in Sweeps \ {s} : ~Seeking(o, f)' /\ ~AttachedBy(o, f)'
      BY <1>3, <2>1, <2>3, <3>1 DEF Alone, Has
    <3>3. CASE sweep'[s].step = "probe"
      <4>1. row'[f].status = "pending"
        BY <3>1, <3>3
      <4>2. \A o \in Sweeps : ~AttachedBy(o, f)'
        BY <1>5, <3>2, <3>3
      <4>3. QED
        BY <2>2, <2>3, <3>1, <4>1, <4>2 DEF Alone
    <3>4. CASE sweep'[s].step = "attach"
      <4>1. row'[f].status = "completed" /\ AttachedBy(s, f)' /\ ~Seeking(s, f)'
        BY <1>5, <3>4
      <4>2. Attaching(f)' /\ \A o \in Sweeps : ~Seeking(o, f)'
        BY <3>2, <4>1 DEF Attaching, AttachedBy
      <4>3. announced'[f] = 0
        BY <3>1
      <4>4. QED
        BY <2>2, <2>3, <4>1, <4>2, <4>3 DEF Alone
    <3>5. QED
      BY <3>3, <3>4
  <2>4. CASE g # f
    <3>1. \A o \in Sweeps :
            (AttachedBy(o, g)' <=> AttachedBy(o, g)) /\ (Seeking(o, g)' <=> Seeking(o, g))
      BY <1>3, <1>4, <2>4
    <3>2. Attaching(g)' <=> Attaching(g)
      BY <3>1 DEF Attaching, AttachedBy
    <3>3. row'[g] = row[g] /\ announced'[g] = announced[g]
      BY <2>4
    <3>4. QED
      BY <2>1, <2>2, <3>1, <3>2, <3>3 DEF Alone
  <2>5. QED
    BY <2>3, <2>4
<1>11. QED
  BY <1>2, <1>9, <1>10 DEF IInv

-----------------------------------------------------------------------------
(* No completion is taken back. *)
Kept == \A f \in Files \ raced' : row[f].status = "completed" => row'[f].status = "completed"

LEMMA OthersKept ==
  ASSUME IInv, NEW s \in Sweeps, NEW f \in Files, Has(s, f), UNCHANGED raced,
         \A g \in Files \ {f} : row'[g] = row[g],
         Seeking(s, f) \/ row'[f] = row[f]
  PROVE  Kept
<1>1. ASSUME f \notin raced, Seeking(s, f) PROVE row[f].status = "pending"
  BY <1>1 DEF IInv, Alone
<1>2. QED
  BY <1>1 DEF Kept

LEMMA SkipRecentKeeps ==
  ASSUME IInv, NEW s \in Sweeps, NEW f \in Files, SkipRecent(s, f)
  PROVE  IInv' /\ Kept
<1>1. /\ sweep[s].step = "list" /\ f \in sweep[s].todo /\ GoOn(s, sweep[s].todo \ {f})
      /\ UNCHANGED <<committed, row, announced, raced>>
  BY DEF SkipRecent
<1>2. Shape /\ Known /\ sweep[s] \in SweepShape
  BY DEF IInv, Shape
<1>3. Has(s, f) /\ Seeking(s, f) /\ \A g \in Files : Has(s, g) => g \in sweep[s].todo
  BY <1>1 DEF Has, Seeking, AttachedBy
<1>4. sweep[s].todo \ {f} \in SUBSET Files
  BY <1>2 DEF SweepShape
<1>5. row[f].status # "absent"
  BY <1>2, <1>3, InHandIsHad DEF Known
<1>6. f \notin raced => announced[f] = IF row[f].status = "completed" THEN 1 ELSE 0
  <2>1. SUFFICES ASSUME f \notin raced PROVE announced[f] = 0 /\ row[f].status = "pending"
    OBVIOUS
  <2>2. row[f].status = "pending"
    BY <1>3, <2>1 DEF IInv, Alone
  <2>3. QED
    BY <2>1, <2>2 DEF IInv, Alone
<1>7. row \in [Files -> RowShape] /\ announced \in [Files -> Nat]
  BY <1>2 DEF Shape
<1>8. IInv'
  BY <1>1, <1>3, <1>4, <1>5, <1>6, <1>7, LeavesRow
<1>9. Kept
  BY <1>1, <1>3, OthersKept
<1>10. QED
  BY <1>8, <1>9

LEMMA TakeRowKeeps ==
  ASSUME IInv, NEW s \in Sweeps, NEW f \in Files, TakeRow(s, f)
  PROVE  IInv' /\ Kept
<1>1. /\ sweep[s].step = "list" /\ f \in sweep[s].todo
      /\ UNCHANGED <<committed, announced, raced>>
  BY DEF TakeRow
<1>2. Shape /\ Known /\ sweep[s] \in SweepShape /\ sweep \in [Sweeps -> SweepShape]
  BY DEF IInv, Shape
<1>3. Has(s, f) /\ Seeking(s, f) /\ \A g \in Files : Has(s, g) => g \in sweep[s].todo
  BY <1>1 DEF Has, Seeking, AttachedBy
<1>4. sweep[s].todo \ {f} \in SUBSET Files
  BY <1>2 DEF SweepShape
<1>5. row \in [Files -> RowShape] /\ announced \in [Files -> Nat]
  BY <1>2 DEF Shape
<1>6. CASE f \in sweep[s].late
  <2>1. Update(s, f, "abandoned") /\ GoOn(s, sweep[s].todo \ {f})
    BY <1>6 DEF TakeRow
  <2>2. /\ row' \in [Files -> RowShape] /\ row'[f].status = "abandoned"
        /\ \A g \in Files \ {f} : row'[g] = row[g]
    BY <1>2, <2>1, Updated
  <2>3. f \notin raced => announced[f] = 0
    <3>1. SUFFICES ASSUME f \notin raced PROVE announced[f] = 0
      OBVIOUS
    <3>2. row[f].status = "pending"
      BY <1>3, <3>1 DEF IInv, Alone
    <3>3. QED
      BY <3>1, <3>2 DEF IInv, Alone
  <2>4. IInv'
    BY <1>1, <1>3, <1>4, <1>5, <2>1, <2>2, <2>3, LeavesRow
  <2>5. Kept
    BY <1>1, <1>3, <2>2, OthersKept
  <2>6. QED
    BY <2>4, <2>5
<1>7. CASE f \notin sweep[s].late
  <2>1. /\ sweep' = [sweep EXCEPT ![s] =
             [sweep[s] EXCEPT !.step = "probe", !.todo = sweep[s].todo \ {f}, !.file = f]]
        /\ UNCHANGED row
    BY <1>2, <1>7 DEF TakeRow
  <2>2. [sweep[s] EXCEPT !.step = "probe", !.todo = sweep[s].todo \ {f}, !.file = f] \in SweepShape
    BY <1>2, <1>4 DEF SweepShape
  <2>3. /\ sweep'[s].todo = sweep[s].todo \ {f} /\ sweep'[s].file = f
        /\ sweep'[s].step = "probe"
    BY <1>2, <2>1 DEF SweepShape
  <2>4. sweep' \in [Sweeps -> SweepShape] /\ \A o \in Sweeps \ {s} : sweep'[o] = sweep[o]
    BY <1>2, <2>1, <2>2
  <2>5. IInv'
    BY <1>1, <1>3, <1>5, <2>1, <2>3, <2>4, StaysAtRow
  <2>6. Kept
    BY <2>1 DEF Kept
  <2>7. QED
    BY <2>5, <2>6
<1>8. QED
  BY <1>6, <1>7

(* At an await on S3 or on the version store a sweep has its file. *)
LEMMA AtAwait ==
  ASSUME IInv, NEW s \in Sweeps, sweep[s].step \in {"probe", "attach"}
  PROVE  /\ sweep[s].file \in Files /\ sweep[s].file \notin sweep[s].todo
         /\ sweep[s].todo \in SUBSET Files /\ sweep[s] \in SweepShape
         /\ Has(s, sweep[s].file)
         /\ \A g \in Files \ {sweep[s].file} : Has(s, g) => g \in sweep[s].todo
<1>1. sweep[s] \in SweepShape /\ sweep[s].file \in Files \ sweep[s].todo
  BY DEF IInv, Shape
<1>2. sweep[s].todo \in SUBSET Files
  BY <1>1 DEF SweepShape
<1>3. QED
  BY <1>1, <1>2 DEF Has, Seeking, AttachedBy

LEMMA CompleteKeeps ==
  ASSUME IInv, NEW s \in Sweeps, Complete(s)
  PROVE  IInv' /\ Kept
<1>0. PICK f : f = sweep[s].file
  OBVIOUS
<1>1. sweep[s].step = "probe" /\ UNCHANGED <<committed, raced>>
  BY DEF Complete
<1>2. /\ f \in Files /\ f \notin sweep[s].todo /\ sweep[s].todo \in SUBSET Files
      /\ Has(s, f) /\ sweep[s] \in SweepShape
      /\ \A g \in Files \ {f} : Has(s, g) => g \in sweep[s].todo
  BY <1>0, <1>1, AtAwait
<1>3. Seeking(s, f)
  BY <1>0, <1>1 DEF Seeking
<1>4. /\ Update(s, f, "completed")
      /\ \/ /\ sweep' = [sweep EXCEPT ![s] = [@ EXCEPT !.step = "attach"]]
            /\ UNCHANGED announced
         \/ Announce(f) /\ GoOn(s, sweep[s].todo)
  BY <1>0 DEF Complete
<1>5. Shape /\ sweep \in [Sweeps -> SweepShape]
  BY DEF IInv, Shape
<1>6. /\ row' \in [Files -> RowShape] /\ row'[f].status = "completed"
      /\ \A g \in Files \ {f} : row'[g] = row[g]
  BY <1>2, <1>4, <1>5, Updated
<1>7. Kept
  BY <1>1, <1>2, <1>3, <1>6, OthersKept
<1>8. CASE sweep' = [sweep EXCEPT ![s] = [@ EXCEPT !.step = "attach"]] /\ UNCHANGED announced
  <2>1. [sweep[s] EXCEPT !.step = "attach"] \in SweepShape
    BY <1>2 DEF SweepShape
  <2>2. sweep' = [sweep EXCEPT ![s] = [sweep[s] EXCEPT !.step = "attach"]]
    BY <1>5, <1>8
  <2>3. /\ sweep'[s].todo = sweep[s].todo /\ sweep'[s].file = f /\ sweep'[s].step = "attach"
    BY <1>0, <1>2, <1>5, <2>2 DEF SweepShape
  <2>4. sweep' \in [Sweeps -> SweepShape] /\ \A o \in Sweeps \ {s} : sweep'[o] = sweep[o]
    BY <1>5, <2>1, <2>2
  <2>5. sweep'[s].todo = sweep[s].todo \ {f}
    BY <1>2, <2>3
  <2>6. IInv'
    BY <1>0, <1>1, <1>2, <1>3, <1>6, <1>8, <2>3, <2>4, <2>5, StaysAtRow
  <2>7. QED
    BY <1>7, <2>6
<1>9. CASE Announce(f) /\ GoOn(s, sweep[s].todo)
  <2>1. /\ announced' \in [Files -> Nat] /\ announced'[f] = announced[f] + 1
        /\ \A g \in Files \ {f} : announced'[g] = announced[g]
    BY <1>2, <1>5, <1>9, Announced
  <2>2. f \notin raced => announced[f] = 0
    <3>1. SUFFICES ASSUME f \notin raced PROVE announced[f] = 0
      OBVIOUS
    <3>2. row[f].status = "pending"
      BY <1>2, <1>3, <3>1 DEF IInv, Alone
    <3>3. QED
      BY <1>2, <3>1, <3>2 DEF IInv, Alone
  <2>3. f \notin raced => announced'[f] = IF row'[f].status = "completed" THEN 1 ELSE 0
    BY <1>6, <2>1, <2>2
  <2>4. IInv'
    BY <1>1, <1>2, <1>6, <1>9, <2>1, <2>3, LeavesRow
  <2>5. QED
    BY <1>7, <2>4
<1>10. QED
  BY <1>4, <1>8, <1>9

LEMMA NotYetKeeps ==
  ASSUME IInv, NEW s \in Sweeps, NotYet(s)
  PROVE  IInv' /\ Kept
<1>0. PICK f : f = sweep[s].file
  OBVIOUS
<1>1. /\ sweep[s].step = "probe" /\ UNCHANGED <<committed, announced, raced>>
      /\ Update(s, f, "pending") /\ GoOn(s, sweep[s].todo)
  BY <1>0 DEF NotYet
<1>2. /\ f \in Files /\ f \notin sweep[s].todo /\ sweep[s].todo \in SUBSET Files
      /\ Has(s, f) /\ \A g \in Files \ {f} : Has(s, g) => g \in sweep[s].todo
  BY <1>0, <1>1, AtAwait
<1>3. Seeking(s, f)
  BY <1>0, <1>1 DEF Seeking
<1>4. Shape /\ announced \in [Files -> Nat]
  BY DEF IInv, Shape
<1>5. /\ row' \in [Files -> RowShape] /\ row'[f].status = "pending"
      /\ \A g \in Files \ {f} : row'[g] = row[g]
  BY <1>1, <1>2, <1>4, Updated
<1>6. Kept
  BY <1>1, <1>2, <1>3, <1>5, OthersKept
<1>7. f \notin raced => announced[f] = 0
  <2>1. SUFFICES ASSUME f \notin raced PROVE announced[f] = 0
    OBVIOUS
  <2>2. row[f].status = "pending"
    BY <1>2, <1>3, <2>1 DEF IInv, Alone
  <2>3. QED
    BY <1>2, <2>1, <2>2 DEF IInv, Alone
<1>8. IInv'
  BY <1>1, <1>2, <1>4, <1>5, <1>7, LeavesRow
<1>9. QED
  BY <1>6, <1>8

LEMMA AttachedKeeps ==
  ASSUME IInv, NEW s \in Sweeps, Attached(s)
  PROVE  IInv' /\ Kept
<1>0. PICK f : f = sweep[s].file
  OBVIOUS
<1>1. /\ sweep[s].step = "attach" /\ UNCHANGED <<committed, row, raced>>
      /\ Announce(f) /\ GoOn(s, sweep[s].todo)
  BY <1>0 DEF Attached
<1>2. /\ f \in Files /\ f \notin sweep[s].todo /\ sweep[s].todo \in SUBSET Files
      /\ Has(s, f) /\ \A g \in Files \ {f} : Has(s, g) => g \in sweep[s].todo
  BY <1>0, <1>1, AtAwait
<1>3. AttachedBy(s, f) /\ Attaching(f)
  BY <1>0, <1>1 DEF AttachedBy, Attaching
<1>4. Shape /\ row \in [Files -> RowShape] /\ Known
  BY DEF IInv, Shape
<1>5. /\ announced' \in [Files -> Nat] /\ announced'[f] = announced[f] + 1
      /\ \A g \in Files \ {f} : announced'[g] = announced[g]
  BY <1>1, <1>2, <1>4, Announced
<1>6. f \notin raced => announced[f] = 0 /\ row[f].status = "completed"
  BY <1>2, <1>3 DEF IInv, Alone
<1>7. f \notin raced => announced'[f] = IF row'[f].status = "completed" THEN 1 ELSE 0
  BY <1>1, <1>5, <1>6
<1>8. row'[f].status # "absent"
  BY <1>1, <1>2, <1>4, InHandIsHad DEF Known
<1>9. IInv'
  BY <1>1, <1>2, <1>4, <1>5, <1>7, <1>8, LeavesRow
<1>10. QED
  BY <1>1, <1>9 DEF Kept

(* A sweep that begins has what is pending, and whoever has it already is     *)
(* noted.                                                                    *)
LEMMA BeginSweepKeeps ==
  ASSUME IInv, NEW s \in Sweeps, BeginSweep(s)
  PROVE  IInv' /\ Kept
<1> DEFINE new == [step |-> "list", todo |-> Listed, late |-> {f \in Listed : row[f].left = 0},
                   seen |-> [f \in Files |-> IF f \in Listed THEN row[f].ago ELSE 0],
                   age |-> 0, file |-> None]
<1>1. /\ sweep[s] = Resting /\ UNCHANGED <<committed, row, announced>>
      /\ sweep' = [sweep EXCEPT ![s] = new]
      /\ raced' = raced \cup {f \in Listed : \E o \in Sweeps \ {s} : f \in InHand(o)}
  BY DEF BeginSweep
<1>2. Shape /\ Known /\ row \in [Files -> RowShape] /\ sweep \in [Sweeps -> SweepShape]
  BY DEF IInv, Shape
<1>3. Listed \in SUBSET Files /\ \A f \in Listed : row[f].status = "pending"
  BY DEF Listed
<1>4. [f \in Files |-> IF f \in Listed THEN row[f].ago ELSE 0] \in [Files -> Nat]
  BY <1>2 DEF RowShape
<1>5. new \in SweepShape /\ new.todo = Listed /\ new.file = None /\ new.step = "list"
  BY <1>3, <1>4 DEF SweepShape
<1> HIDE DEF new
<1>6. /\ sweep' \in [Sweeps -> SweepShape] /\ sweep'[s] = new
      /\ \A o \in Sweeps \ {s} : sweep'[o] = sweep[o]
  BY <1>1, <1>2, <1>5
<1>7. Shape'
  <2>1. ASSUME NEW o \in Sweeps
        PROVE  IF sweep'[o].step \in {"idle", "list"} THEN sweep'[o].file = None
               ELSE sweep'[o].file \in Files \ sweep'[o].todo
    <3>1. CASE o = s
      BY <1>5, <1>6, <3>1
    <3>2. CASE o # s
      BY <1>2, <1>6, <3>2 DEF Shape
    <3>3. QED
      BY <3>1, <3>2
  <2>2. QED
    BY <1>1, <1>2, <1>6, <2>1 DEF Shape
<1>8. \A f \in Files : (Seeking(s, f)' <=> f \in Listed) /\ ~AttachedBy(s, f)'
  BY <1>5, <1>6, NoneIsNoFile DEF Seeking, AttachedBy
<1>9. \A f \in Files : ~Seeking(s, f) /\ ~AttachedBy(s, f)
  BY <1>1 DEF Resting, Seeking, AttachedBy
<1>10. \A o \in Sweeps \ {s}, f \in Files :
         (Seeking(o, f)' <=> Seeking(o, f)) /\ (AttachedBy(o, f)' <=> AttachedBy(o, f))
  BY <1>6 DEF Seeking, AttachedBy
<1>11. Known'
  <2>1. ASSUME NEW o \in Sweeps, NEW f \in Files, (f \in InHand(o))'
        PROVE  row[f].status # "absent"
    <3>1. Has(o, f)'
      BY <1>7, <2>1, NoneIsNoFile DEF InHand, Has, Seeking, AttachedBy, Shape, SweepShape
    <3>2. CASE o = s
      BY <1>3, <1>8, <3>1, <3>2 DEF Has
    <3>3. CASE o # s
      BY <1>2, <1>10, <3>1, <3>3, InHandIsHad DEF Has, Known
    <3>4. QED
      BY <3>2, <3>3
  <2>2. QED
    BY <1>1, <1>2, <2>1 DEF Known
<1>12. ASSUME NEW f \in Files \ raced' PROVE Alone(f)'
  <2>1. Alone(f)
    BY <1>1, <1>12 DEF IInv
  <2>2. \A o \in Sweeps : AttachedBy(o, f)' <=> AttachedBy(o, f)
    BY <1>8, <1>9, <1>10
  <2>3. Attaching(f)' <=> Attaching(f)
    BY <2>2 DEF Attaching, AttachedBy
  <2>4. \A o \in Sweeps : Seeking(o, f)' => row[f].status = "pending"
    BY <1>3, <1>8, <1>10, <2>1 DEF Alone
  <2>5. f \in Listed => \A o \in Sweeps \ {s} : ~Has(o, f)
    BY <1>1, <1>2, <1>12, InHandIsHad
  <2>6. \A o, q \in Sweeps : Has(o, f)' /\ Has(q, f)' => o = q
    BY <1>8, <1>10, <2>1, <2>5 DEF Has, Alone
  <2>7. QED
    BY <1>1, <2>1, <2>2, <2>3, <2>4, <2>6 DEF Alone
<1>13. QED
  BY <1>1, <1>7, <1>11, <1>12 DEF IInv, Kept

(* The rows of a check-in are the first its files get. *)
LEMMA CommittedKeeps ==
  ASSUME IInv, NEW c \in CheckIns, HandleCheckinCommitted(c)
  PROVE  IInv' /\ Kept
<1>1. PICK expected \in SUBSET FilesOf[c] :
        row' = [f \in Files |-> IF f \in expected THEN NewRow ELSE row[f]]
  BY DEF HandleCheckinCommitted
<1>2. /\ c \notin committed /\ committed' = committed \cup {c}
      /\ UNCHANGED <<sweep, announced, raced>>
  BY DEF HandleCheckinCommitted
<1>3. Shape /\ Known /\ row \in [Files -> RowShape]
  BY DEF IInv, Shape
<1>4. NewRow \in RowShape /\ NewRow.status = "pending"
  BY DispatchAssumption DEF NewRow, RowShape
<1>5. \A f \in Files : f \in expected => row[f].status = "absent"
  <2>1. \A d \in CheckIns : d # c => FilesOf[c] \cap FilesOf[d] = {}
    BY DispatchAssumption
  <2>2. committed \subseteq CheckIns
    BY DEF IInv, Shape
  <2>3. QED
    BY <1>2, <1>3, <2>1, <2>2 DEF Known
<1>6. \A f \in Files : row'[f] = IF f \in expected THEN NewRow ELSE row[f]
  BY <1>1
<1>7. Shape'
  BY <1>1, <1>2, <1>3, <1>4 DEF Shape
<1>8. \A s \in Sweeps, f \in Files : f \in expected => ~Has(s, f)
  BY <1>3, <1>5, InHandIsHad DEF Known
<1>9. Known'
  <2>1. \A s \in Sweeps, f \in Files : (f \in InHand(s))' <=> f \in InHand(s)
    BY <1>2 DEF InHand
  <2>2. QED
    BY <1>2, <1>3, <1>4, <1>6, <2>1 DEF Known
<1>10. ASSUME NEW f \in Files \ raced' PROVE Alone(f)'
  <2>1. Alone(f)
    BY <1>2, <1>10 DEF IInv
  <2>2. /\ Attaching(f)' <=> Attaching(f)
        /\ \A s \in Sweeps : (Seeking(s, f)' <=> Seeking(s, f)) /\ (AttachedBy(s, f)' <=> AttachedBy(s, f))
    BY <1>2 DEF Attaching, Seeking, AttachedBy
  <2>3. CASE f \in expected
    <3>1. announced[f] = 0
      BY <1>5, <2>1, <2>3 DEF Alone
    <3>2. \A s \in Sweeps : ~Seeking(s, f) /\ ~AttachedBy(s, f)
      BY <1>8, <2>3 DEF Has
    <3>3. row'[f].status = "pending"
      BY <1>4, <1>6, <2>3
    <3>4. QED
      BY <1>2, <2>2, <3>1, <3>2, <3>3 DEF Alone, Has
  <2>4. CASE f \notin expected
    <3>1. row'[f] = row[f]
      BY <1>6, <2>4
    <3>2. QED
      BY <1>2, <2>1, <2>2, <3>1 DEF Alone, Has
  <2>5. QED
    BY <2>3, <2>4
<1>11. Kept
  BY <1>5, <1>6 DEF Kept
<1>12. QED
  BY <1>7, <1>9, <1>10, <1>11 DEF IInv

(* Steps that leave alone who has which row, and what rows say. *)
LEMMA SameRows ==
  ASSUME IInv, row' \in [Files -> RowShape], sweep' \in [Sweeps -> SweepShape],
         \A f \in Files : row'[f].status = row[f].status,
         \A s \in Sweeps : /\ sweep'[s].step = sweep[s].step /\ sweep'[s].todo = sweep[s].todo
                            /\ sweep'[s].file = sweep[s].file,
         UNCHANGED <<committed, announced, raced>>
  PROVE  IInv' /\ Kept
<1>1. Shape'
  BY DEF IInv, Shape
<1>2. Known'
  BY DEF IInv, Known, InHand
<1>3. \A s \in Sweeps, f \in Files :
        (Seeking(s, f)' <=> Seeking(s, f)) /\ (AttachedBy(s, f)' <=> AttachedBy(s, f))
  BY DEF Seeking, AttachedBy
<1>4. \A f \in Files : Attaching(f)' <=> Attaching(f)
  BY <1>3 DEF Attaching, AttachedBy
<1>5. ASSUME NEW f \in Files \ raced' PROVE Alone(f)'
  <2>1. Alone(f)
    BY <1>5 DEF IInv
  <2>2. QED
    BY <1>3, <1>4, <2>1 DEF Alone, Has
<1>6. QED
  BY <1>1, <1>2, <1>5 DEF IInv, Kept

LEMMA TickKeeps ==
  ASSUME IInv, Tick
  PROVE  IInv' /\ Kept
<1>1. Shape /\ row \in [Files -> RowShape] /\ sweep \in [Sweeps -> SweepShape]
  BY DEF IInv, Shape
<1>2. \A t \in Nat : Older(t) \in Nat
  BY DEF Older
<1>3. ASSUME NEW f \in Files
      PROVE  row'[f] \in RowShape /\ row'[f].status = row[f].status
  <2>1. row[f] \in RowShape
    BY <1>1
  <2>2. PICK left \in Nat, ago \in Nat :
          row'[f] = [row[f] EXCEPT !.left = left, !.ago = ago]
    <3>1. row'[f] = [row[f] EXCEPT
              !.left = IF row[f].left > 0 THEN row[f].left - 1 ELSE 0,
              !.ago = IF row[f].status = "pending" THEN Older(row[f].ago) ELSE row[f].ago]
      BY <2>1 DEF Tick
    <3>2. /\ (IF row[f].left > 0 THEN row[f].left - 1 ELSE 0) \in Nat
          /\ (IF row[f].status = "pending" THEN Older(row[f].ago) ELSE row[f].ago) \in Nat
      BY <1>2, <2>1 DEF RowShape
    <3>3. QED
      BY <3>1, <3>2
  <2>3. QED
    BY <2>1, <2>2 DEF RowShape
<1>4. row' \in [Files -> RowShape]
  <2>1. DOMAIN row' = Files /\ row' = [f \in Files |-> row'[f]]
    BY DEF Tick
  <2>2. QED
    BY <1>3, <2>1
<1>5. ASSUME NEW s \in Sweeps
      PROVE  /\ sweep'[s] \in SweepShape
             /\ sweep'[s].step = sweep[s].step /\ sweep'[s].todo = sweep[s].todo
             /\ sweep'[s].file = sweep[s].file
  <2>1. sweep[s] \in SweepShape
    BY <1>1
  <2>2. CASE sweep[s] = Resting
    <3>1. sweep'[s] = sweep[s]
      BY <2>2 DEF Tick
    <3>2. QED
      BY <2>1, <3>1
  <2>3. CASE sweep[s] # Resting
    <3>1. PICK seen \in [Files -> Nat], age \in Nat :
            sweep'[s] = [sweep[s] EXCEPT !.seen = seen, !.age = age]
      <4>1. sweep'[s] = [sweep[s] EXCEPT
                !.seen = [f \in Files |-> IF f \in sweep[s].todo THEN Older(sweep[s].seen[f]) ELSE 0],
                !.age = Older(sweep[s].age)]
        BY <2>1, <2>3 DEF Tick
      <4>2. sweep[s].seen \in [Files -> Nat] /\ sweep[s].age \in Nat
        BY <2>1 DEF SweepShape
      <4>3. /\ [f \in Files |-> IF f \in sweep[s].todo THEN Older(sweep[s].seen[f]) ELSE 0]
                  \in [Files -> Nat]
            /\ Older(sweep[s].age) \in Nat
        BY <1>2, <4>2
      <4>4. QED
        BY <4>1, <4>3
    <3>2. QED
      BY <2>1, <3>1 DEF SweepShape
  <2>4. QED
    BY <2>2, <2>3
<1>6. sweep' \in [Sweeps -> SweepShape]
  <2>1. DOMAIN sweep' = Sweeps /\ sweep' = [s \in Sweeps |-> sweep'[s]]
    BY DEF Tick
  <2>2. QED
    BY <1>5, <2>1
<1>7. UNCHANGED <<committed, announced, raced>>
  BY DEF Tick
<1>8. QED
  BY <1>3, <1>4, <1>5, <1>6, <1>7, SameRows

-----------------------------------------------------------------------------
LEMMA InitInv == Init => IInv
<1> SUFFICES ASSUME PollerInit PROVE IInv
  BY DEF Init
<1>1. Resting \in SweepShape /\ NoRow \in RowShape
  BY DEF Resting, NoRow, SweepShape, RowShape
<1>2. \A s \in Sweeps : /\ sweep[s] = Resting /\ sweep[s].todo = {} /\ sweep[s].file = None
                         /\ sweep[s].step = "idle"
  BY DEF PollerInit, Resting
<1>3. \A f \in Files : row[f].status = "absent" /\ announced[f] = 0
  BY DEF PollerInit, NoRow
<1>4. Shape
  BY <1>1, <1>2 DEF PollerInit, Shape
<1>5. Known
  BY <1>2, <1>3 DEF Known, InHand
<1>6. ASSUME NEW f \in Files PROVE Alone(f)
  BY <1>2, <1>3 DEF Alone, Has, Seeking, AttachedBy
<1>7. QED
  BY <1>4, <1>5, <1>6 DEF IInv

LEMMA NextKeeps == IInv /\ [Next]_vars => IInv' /\ Kept
<1> SUFFICES ASSUME IInv, [Next]_vars PROVE IInv' /\ Kept
  OBVIOUS
<1>1. CASE UNCHANGED pollerVars
  <2>1. /\ row' \in [Files -> RowShape] /\ sweep' \in [Sweeps -> SweepShape]
        /\ row' = row /\ sweep' = sweep /\ UNCHANGED <<committed, announced, raced>>
    BY <1>1 DEF IInv, Shape, pollerVars
  <2>2. QED
    BY <2>1, SameRows
<1>2. CASE PollerNext
  <2>1. ASSUME NEW s \in Sweeps, SweepStep(s) PROVE IInv' /\ Kept
    BY <2>1, SkipRecentKeeps, TakeRowKeeps, CompleteKeeps, NotYetKeeps, AttachedKeeps
       DEF SweepStep
  <2>2. QED
    BY <1>2, <2>1, CommittedKeeps, BeginSweepKeeps, TickKeeps DEF PollerNext
<1>3. QED
  BY <1>1, <1>2 DEF Next, vars

(* Whatever sweeps, triggers and administrators do, version.proxy.generated  *)
(* is published once for a completed dispatch that no two sweeps had in hand *)
(* at once, and not before (runSweep).                                       *)
THEOREM AnnouncedOnceAlways == FairSpec => []AnnouncedOnce
<1>1. IInv => AnnouncedOnce
  BY DEF IInv, Alone, AnnouncedOnce
<1>2. QED
  BY InitInv, NextKeeps, <1>1, PTL DEF FairSpec

(* And such a dispatch stays completed. *)
THEOREM CompletionIsKept == FairSpec => CompletedStays
<1>1. IInv /\ [Next]_vars =>
        [\A f \in Files \ raced' :
           row[f].status = "completed" => row'[f].status = "completed"]_vars
  BY NextKeeps DEF Kept
<1>2. QED
  BY InitInv, NextKeeps, <1>1, PTL DEF FairSpec, CompletedStays
=============================================================================
