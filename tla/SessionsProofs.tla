--------------------------- MODULE SessionsProofs ---------------------------
(***************************************************************************)
(* What Sessions keeps for every number of users, tokens, codes and        *)
(* requests and every threshold.  Invariants over the same shape of the    *)
(* requests:                                                               *)
(*                                                                         *)
(*   lines: a grant in use is named after a token that was issued, so a    *)
(*     fresh token begins a line of its own; a request that renews a line  *)
(*     has spent the one token of it;                                      *)
(*   codes: a code that was redeemed is gone, and one that is not          *)
(*     contended is polled by one request at most, before it is redeemed;  *)
(*   locks: LockedAtThreshold;                                             *)
(*   registry: RegistryAgrees, and a token is fresh or has its user for    *)
(*     good.  It needs the lines: a successor is no login's own token.     *)
(***************************************************************************)
EXTENDS Sessions, SequenceTheorems, TLAPS

CallShape == [op : Ops, step : Steps, user : Users \cup {None},
              grant : Tokens \cup {None}, code : Codes \cup {None}]
TokenShape == [user : Users \cup {None}, live : BOOLEAN, grant : Tokens \cup {None}]
CodeShape == [status : {"none", "pending", "approved", "gone"}, user : Users \cup {None}]

RequestShape ==
  /\ call \in [Calls -> CallShape]
  /\ \A c \in Calls :
       /\ call[c].op \in {"login", "poll", "unlock"} => call[c].user \in Users
       /\ call[c].op = "poll" => call[c].code \in Codes

StoreShape ==
  /\ token \in [Tokens -> TokenShape]
  /\ code \in [Codes -> CodeShape]
  /\ redeemed \in [Codes -> SUBSET Tokens]
  /\ fails \in [Users -> 0 .. Threshold]
  /\ status \in [Users -> Statuses]
  /\ \A d \in Codes : code[d].status = "approved" => code[d].user \in Users

Shape == RequestShape /\ StoreShape

Issued(t) == token[t].user \in Users

LineInv ==
  /\ \A s, g \in Tokens : token[s].grant = g => Issued(g)
  /\ \A c \in Calls, g \in Tokens : Renewing(c, g) => Issued(g)
  /\ GrantsGoOn

CodeInv ==
  /\ \A d \in Codes : redeemed[d] # {} => code[d].status = "gone"
  /\ \A d \in Codes \ contended :
       /\ \A c, o \in Calls : call[c].code = d /\ call[o].code = d => c = o
       /\ \A c \in Calls : call[c].code = d => redeemed[d] = {}
  /\ OneGrantPerCode

IInv == Shape /\ LineInv /\ CodeInv /\ LockedAtThreshold

-----------------------------------------------------------------------------
(* The constants and the records of the module. *)
LEMMA Nothing ==
  /\ None \notin Users /\ None \notin Tokens /\ None \notin Codes
  /\ Threshold \in Nat /\ Threshold > 0 /\ 0 \in 0 .. Threshold /\ Threshold \in 0 .. Threshold
BY SessionsAssumption

LEMMA Records ==
  /\ Idle \in CallShape /\ NoToken \in TokenShape /\ NoCode \in CodeShape
  /\ Idle.op = "idle" /\ Idle.step = "none" /\ Idle.grant = None /\ Idle.code = None
  /\ NoToken.user = None /\ NoToken.grant = None /\ NoToken.live = FALSE
  /\ NoCode.status = "none"
BY DEF Idle, NoToken, NoCode, CallShape, TokenShape, CodeShape, Ops, Steps

(* One request takes a step, to the record next; the others stay. *)
StepsTo(c, next) ==
  /\ RequestShape'
  /\ call'[c] = next
  /\ \A o \in Calls \ {c} : call'[o] = call[o]

LEMMA Assigned ==
  ASSUME Shape, NEW c \in Calls, NEW next \in CallShape, call' = [call EXCEPT ![c] = next],
         next.op \in {"login", "poll", "unlock"} => next.user \in Users,
         next.op = "poll" => next.code \in Codes
  PROVE  StepsTo(c, next)
<1>1. call' \in [Calls -> CallShape] /\ call'[c] = next /\ \A o \in Calls \ {c} : call'[o] = call[o]
  BY DEF Shape, RequestShape
<1>2. QED
  BY <1>1 DEF Shape, RequestShape, StepsTo

LEMMA Returned ==
  ASSUME Shape, NEW c \in Calls, Return(c)
  PROVE  StepsTo(c, Idle)
BY Assigned, Records DEF Return

LEMMA WentTo ==
  ASSUME Shape, NEW c \in Calls, NEW step \in Steps, Goto(c, step)
  PROVE  /\ RequestShape'
         /\ call'[c].step = step /\ call'[c].op = call[c].op /\ call'[c].user = call[c].user
         /\ call'[c].grant = call[c].grant /\ call'[c].code = call[c].code
         /\ \A o \in Calls \ {c} : call'[o] = call[o]
<1>1. call \in [Calls -> CallShape] /\ call[c] \in CallShape
  BY DEF Shape, RequestShape
<1>2. call' = [call EXCEPT ![c] = [call[c] EXCEPT !.step = step]]
  BY <1>1 DEF Goto
<1>3. [call[c] EXCEPT !.step = step] \in CallShape
  BY <1>1 DEF CallShape
<1>4. call'[c] = [call[c] EXCEPT !.step = step]
  BY <1>1, <1>2
<1>5. \A o \in Calls \ {c} : call'[o] = call[o]
  BY <1>1, <1>2
<1>6. /\ call'[c].step = step /\ call'[c].op = call[c].op /\ call'[c].user = call[c].user
      /\ call'[c].grant = call[c].grant /\ call'[c].code = call[c].code
  BY <1>1, <1>4 DEF CallShape
<1>7. call' \in [Calls -> CallShape]
  BY <1>1, <1>2, <1>3
<1>8. RequestShape'
  BY <1>5, <1>6, <1>7 DEF Shape, RequestShape
<1>9. QED
  BY <1>5, <1>6, <1>8

LEMMA Started ==
  ASSUME Shape, NEW c \in Calls, NEW op \in Ops, NEW step \in Steps, NEW u \in Users,
         Start(c, op, step, u), op # "poll"
  PROVE  /\ call[c] = Idle
         /\ StepsTo(c, [op |-> op, step |-> step, user |-> u, grant |-> None, code |-> None])
<1>1. [op |-> op, step |-> step, user |-> u, grant |-> None, code |-> None] \in CallShape
  BY DEF CallShape
<1>2. QED
  BY <1>1, Assigned DEF Start

-----------------------------------------------------------------------------
(* Each part of the invariant is kept by steps that are none of its business.*)

(* Tokens may be spent and requests may give up. *)
LEMMA LinesKept ==
  ASSUME Shape, LineInv,
         \A t \in Tokens : /\ token'[t].user = token[t].user /\ token'[t].grant = token[t].grant
                           /\ token'[t].live => token[t].live,
         \A c \in Calls : call'[c].op = "refresh" =>
           call[c].op = "refresh" /\ call'[c].grant = call[c].grant
  PROVE  LineInv'
<1>1. \A c \in Calls, g \in Tokens : Renewing(c, g)' => Renewing(c, g)
  BY DEF Renewing
<1>2. \A t \in Tokens : (Issued(t)' <=> Issued(t)) /\ (Live(t)' => Live(t))
  BY DEF Issued, Live
<1>3. \A s, g \in Tokens : (token[s].grant = g => Issued(g))'
  BY <1>2 DEF LineInv
<1>4. \A c \in Calls, g \in Tokens : (Renewing(c, g) => Issued(g))'
  BY <1>1, <1>2 DEF LineInv
<1>5. GrantsGoOn'
  BY <1>1, <1>2 DEF LineInv, GrantsGoOn
<1>6. QED
  BY <1>3, <1>4, <1>5 DEF LineInv

LEMMA CodesKept ==
  ASSUME CodeInv, UNCHANGED <<redeemed, contended>>,
         \A d \in Codes : code[d].status = "gone" => code'[d].status = "gone",
         \A c \in Calls : call'[c].code \in Codes => call'[c].code = call[c].code
  PROVE  CodeInv'
<1>1. \A d \in Codes, c \in Calls : call'[c].code = d => call[c].code = d
  OBVIOUS
<1>2. QED
  BY <1>1 DEF CodeInv, OneGrantPerCode

LEMMA LocksKept ==
  ASSUME LockedAtThreshold, UNCHANGED <<fails, status>>, excused \subseteq excused',
         \A c \in Calls : AboutToSettle(c) =>
           \/ AboutToSettle(c)' /\ call'[c].user = call[c].user
           \/ call[c].user \in excused'
  PROVE  LockedAtThreshold'
BY DEF LockedAtThreshold

(* A request in the middle of a login, a renewal or a poll goes on, or ends.  *)
GoesOn(c) ==
  /\ RequestShape'
  /\ \A o \in Calls \ {c} : call'[o] = call[o]
  /\ \/ call'[c] = Idle
     \/ /\ call'[c].op = call[c].op /\ call'[c].user = call[c].user
        /\ call'[c].grant = call[c].grant /\ call'[c].code = call[c].code

LEMMA GoingOn ==
  ASSUME Shape, NEW c \in Calls, Return(c) \/ \E step \in Steps : Goto(c, step)
  PROVE  GoesOn(c)
<1>1. CASE Return(c)
  BY <1>1, Returned DEF GoesOn, StepsTo
<1>2. ASSUME NEW step \in Steps, Goto(c, step) PROVE GoesOn(c)
  BY <1>2, WentTo DEF GoesOn
<1>3. QED
  BY <1>1, <1>2

LEMMA GoingOnKeeps ==
  ASSUME IInv, NEW c \in Calls, GoesOn(c), UNCHANGED <<token, code, redeemed, contended>>
  PROVE  LineInv' /\ CodeInv'
<1>1. \A o \in Calls : call'[o].op = "refresh" =>
        call[o].op = "refresh" /\ call'[o].grant = call[o].grant
  BY Records DEF GoesOn
<1>2. \A o \in Calls : call'[o].code \in Codes => call'[o].code = call[o].code
  BY Records, Nothing DEF GoesOn
<1>3. LineInv'
  BY <1>1, LinesKept DEF IInv
<1>4. CodeInv'
  BY <1>2, CodesKept DEF IInv
<1>5. QED
  BY <1>3, <1>4

(* Requests that were not about to settle a lock. *)
LEMMA GoingOnLocks ==
  ASSUME IInv, NEW c \in Calls, GoesOn(c), UNCHANGED <<fails, status>>, excused \subseteq excused',
         AboutToSettle(c) => call[c].user \in excused' \/ (AboutToSettle(c)' /\ call'[c].user = call[c].user)
  PROVE  LockedAtThreshold'
<1>1. \A o \in Calls \ {c} : call'[o] = call[o]
  BY DEF GoesOn
<1>2. \A o \in Calls : AboutToSettle(o) =>
        \/ AboutToSettle(o)' /\ call'[o].user = call[o].user
        \/ call[o].user \in excused'
  BY <1>1 DEF AboutToSettle
<1>3. QED
  BY <1>2, LocksKept DEF IInv

-----------------------------------------------------------------------------
(* The actions of a login. *)
LEMMA LoginFoundKeeps ==
  ASSUME IInv, NEW c \in Calls, NEW u \in Users, LoginFound(c, u)
  PROVE  IInv'
<1>1. /\ Start(c, "login", "verify", u)
      /\ UNCHANGED <<status, excused, fails, token, code, redeemed, contended>>
  BY DEF LoginFound, accountVars, tokenVars, codeVars
<1>2. Shape
  BY DEF IInv
<1>3. PICK next : /\ call[c] = Idle /\ StepsTo(c, next)
                  /\ next.op = "login" /\ next.code = None /\ next.step = "verify"
  <2>1. "login" \in Ops /\ "verify" \in Steps
    BY DEF Ops, Steps
  <2>2. /\ call[c] = Idle
        /\ StepsTo(c, [op |-> "login", step |-> "verify", user |-> u, grant |-> None, code |-> None])
    BY <1>1, <1>2, <2>1, Started
  <2>3. QED
    BY <2>2
<1>4. Shape'
  BY <1>1, <1>2, <1>3 DEF Shape, StoreShape, StepsTo
<1>5. LineInv'
  BY <1>1, <1>2, <1>3, LinesKept DEF IInv, StepsTo
<1>6. CodeInv'
  BY <1>1, <1>3, CodesKept, Nothing DEF IInv, StepsTo
<1>7. \A o \in Calls : AboutToSettle(o) => AboutToSettle(o)' /\ call'[o].user = call[o].user
  BY <1>3, Records DEF AboutToSettle, StepsTo
<1>8. LockedAtThreshold'
  BY <1>1, <1>7, LocksKept DEF IInv
<1>9. QED
  BY <1>4, <1>5, <1>6, <1>8 DEF IInv

LEMMA LoginWrongKeeps ==
  ASSUME IInv, NEW c \in Calls, LoginWrong(c)
  PROVE  IInv'
<1>0. PICK u : u = call[c].user
  OBVIOUS
<1>1. /\ call[c].op = "login" /\ call[c].step = "verify"
      /\ fails' = [fails EXCEPT ![u] = IF fails[u] + 1 > Threshold THEN Threshold ELSE fails[u] + 1]
      /\ IF fails[u] + 1 >= Threshold THEN Goto(c, "mayLock") ELSE Return(c)
      /\ UNCHANGED <<status, excused, token, code, redeemed, contended>>
  BY <1>0 DEF LoginWrong, At, accountVars, tokenVars, codeVars
<1>2. Shape /\ u \in Users /\ fails \in [Users -> 0 .. Threshold] /\ Threshold \in Nat
  BY <1>0, <1>1, Nothing DEF IInv, Shape, RequestShape, StoreShape
<1>3. GoesOn(c)
  BY <1>1, <1>2, GoingOn DEF Steps
<1>4. /\ fails'[u] \in 0 .. Threshold
      /\ \A v \in Users \ {u} : fails'[v] = fails[v]
      /\ fails' \in [Users -> 0 .. Threshold]
      /\ fails'[u] = Threshold => fails[u] + 1 >= Threshold
  BY <1>1, <1>2
<1>5. Shape'
  BY <1>1, <1>2, <1>3, <1>4 DEF Shape, StoreShape, GoesOn
<1>6. LineInv' /\ CodeInv'
  BY <1>1, <1>3, GoingOnKeeps
<1>7. \A o \in Calls : AboutToSettle(o) => AboutToSettle(o)' /\ call'[o].user = call[o].user
  BY <1>1, <1>3 DEF AboutToSettle, GoesOn
<1>8. ASSUME NEW v \in Users \ excused', fails'[v] = Threshold
      PROVE  status'[v] = "locked" \/ \E o \in Calls : AboutToSettle(o)' /\ call'[o].user = v
  <2>1. CASE v = u
    <3>1. Goto(c, "mayLock")
      BY <1>1, <1>4, <1>8, <2>1
    <3>2. call'[c].step = "mayLock" /\ call'[c].user = u
      BY <1>0, <1>2, <3>1, WentTo DEF Steps
    <3>3. QED
      BY <2>1, <3>2 DEF AboutToSettle
  <2>2. CASE v # u
    BY <1>1, <1>4, <1>7, <1>8, <2>2 DEF IInv, LockedAtThreshold
  <2>3. QED
    BY <2>1, <2>2
<1>9. QED
  BY <1>5, <1>6, <1>8 DEF IInv, LockedAtThreshold

LEMMA LockUnlessSuperKeeps ==
  ASSUME IInv, NEW c \in Calls, LockUnlessSuper(c)
  PROVE  IInv'
<1>1. /\ call[c].step = "mayLock"
      /\ \/ Return(c) /\ excused' = excused \cup {call[c].user}
         \/ Goto(c, "lock") /\ excused' = excused
      /\ UNCHANGED <<status, fails, token, code, redeemed, contended>>
  BY DEF LockUnlessSuper, At, tokenVars, codeVars
<1>2. Shape /\ "lock" \in Steps
  BY DEF IInv, Steps
<1>3. GoesOn(c)
  BY <1>1, <1>2, GoingOn
<1>4. Shape'
  BY <1>1, <1>2, <1>3 DEF Shape, StoreShape, GoesOn
<1>5. LineInv' /\ CodeInv'
  BY <1>1, <1>3, GoingOnKeeps
<1>6. call[c].user \in excused' \/ (AboutToSettle(c)' /\ call'[c].user = call[c].user)
  BY <1>1, <1>2, WentTo DEF AboutToSettle
<1>7. excused \subseteq excused'
  BY <1>1
<1>8. LockedAtThreshold'
  BY <1>1, <1>3, <1>6, <1>7, GoingOnLocks
<1>9. QED
  BY <1>4, <1>5, <1>8 DEF IInv

LEMMA LockKeeps ==
  ASSUME IInv, NEW c \in Calls, Lock(c)
  PROVE  IInv'
<1>0. PICK u : u = call[c].user
  OBVIOUS
<1>1. /\ call[c].op = "login" /\ status' = [status EXCEPT ![u] = "locked"] /\ Return(c)
      /\ UNCHANGED <<excused, fails, token, code, redeemed, contended>>
  BY <1>0 DEF Lock, At, tokenVars, codeVars
<1>2. Shape /\ u \in Users /\ status \in [Users -> Statuses]
  BY <1>0, <1>1 DEF IInv, Shape, RequestShape, StoreShape
<1>3. GoesOn(c)
  BY <1>1, <1>2, GoingOn
<1>4. /\ status'[u] = "locked" /\ \A v \in Users \ {u} : status'[v] = status[v]
      /\ status' \in [Users -> Statuses]
  BY <1>1, <1>2 DEF Statuses
<1>5. Shape'
  BY <1>1, <1>2, <1>3, <1>4 DEF Shape, StoreShape, GoesOn
<1>6. LineInv' /\ CodeInv'
  BY <1>1, <1>3, GoingOnKeeps
<1>7. \A o \in Calls : AboutToSettle(o) /\ call[o].user # u =>
        AboutToSettle(o)' /\ call'[o].user = call[o].user
  BY <1>0, <1>3 DEF AboutToSettle, GoesOn
<1>8. LockedAtThreshold'
  BY <1>1, <1>2, <1>4, <1>7 DEF IInv, LockedAtThreshold
<1>9. QED
  BY <1>5, <1>6, <1>8 DEF IInv

(* A login that succeeds and the end of an unlock both clear the counter. *)
LEMMA ClearedKeeps ==
  ASSUME IInv, NEW c \in Calls, GoesOn(c), call[c].op \in {"login", "unlock"},
         fails' = [fails EXCEPT ![call[c].user] = 0],
         UNCHANGED <<status, excused, token, code, redeemed, contended>>
  PROVE  IInv'
<1>0. PICK u : u = call[c].user
  OBVIOUS
<1>1. Shape /\ u \in Users /\ fails \in [Users -> 0 .. Threshold]
  BY <1>0 DEF IInv, Shape, RequestShape, StoreShape
<1>2. /\ fails'[u] = 0 /\ \A v \in Users \ {u} : fails'[v] = fails[v]
      /\ fails' \in [Users -> 0 .. Threshold]
  BY <1>0, <1>1, Nothing
<1>3. Shape'
  BY <1>1, <1>2 DEF Shape, StoreShape, GoesOn
<1>4. LineInv' /\ CodeInv'
  BY GoingOnKeeps
<1>5. \A o \in Calls : AboutToSettle(o) /\ call[o].user # u =>
        AboutToSettle(o)' /\ call'[o].user = call[o].user
  BY <1>0 DEF AboutToSettle, GoesOn
<1>6. ASSUME NEW v \in Users \ excused', fails'[v] = Threshold
      PROVE  status'[v] = "locked" \/ \E o \in Calls : AboutToSettle(o)' /\ call'[o].user = v
  <2>1. v # u
    BY <1>2, <1>6, Nothing
  <2>2. QED
    BY <1>2, <1>5, <1>6, <2>1 DEF IInv, LockedAtThreshold
<1>7. LockedAtThreshold'
  BY <1>6 DEF LockedAtThreshold
<1>8. QED
  BY <1>3, <1>4, <1>7 DEF IInv

LEMMA LoginRightKeeps ==
  ASSUME IInv, NEW c \in Calls, LoginRight(c)
  PROVE  IInv'
<1>1. Shape /\ Goto(c, "roles") /\ "roles" \in Steps
  BY DEF IInv, LoginRight, Steps
<1>2. GoesOn(c)
  BY <1>1, GoingOn
<1>3. QED
  BY <1>2, ClearedKeeps DEF LoginRight, At, accountVars, tokenVars, codeVars

LEMMA ResetFailsKeeps ==
  ASSUME IInv, NEW c \in Calls, ResetFails(c)
  PROVE  IInv'
<1>1. Shape /\ Return(c)
  BY DEF IInv, ResetFails
<1>2. GoesOn(c)
  BY <1>1, GoingOn
<1>3. QED
  BY <1>2, ClearedKeeps DEF ResetFails, At, accountVars, tokenVars, codeVars

LEMMA CallFailsKeeps ==
  ASSUME IInv, NEW c \in Calls, CallFails(c)
  PROVE  IInv'
<1>1. /\ Shape /\ Return(c)
      /\ excused' = IF AboutToSettle(c) THEN excused \cup {call[c].user} ELSE excused
      /\ UNCHANGED <<status, fails, token, code, redeemed, contended>>
  BY DEF IInv, CallFails, tokenVars, codeVars
<1>2. GoesOn(c)
  BY <1>1, GoingOn
<1>3. Shape'
  BY <1>1, <1>2 DEF Shape, StoreShape, GoesOn
<1>4. LineInv' /\ CodeInv'
  BY <1>1, <1>2, GoingOnKeeps
<1>5. excused \subseteq excused' /\ (AboutToSettle(c) => call[c].user \in excused')
  BY <1>1
<1>6. LockedAtThreshold'
  BY <1>1, <1>2, <1>5, GoingOnLocks
<1>7. QED
  BY <1>3, <1>4, <1>6 DEF IInv

LEMMA RefreshUserKeeps ==
  ASSUME IInv, NEW c \in Calls, RefreshUser(c)
  PROVE  IInv'
<1>1. /\ Shape /\ (Return(c) \/ Goto(c, "roles")) /\ "roles" \in Steps
      /\ ~AboutToSettle(c)
      /\ UNCHANGED <<excused, status, fails, token, code, redeemed, contended>>
  BY DEF IInv, RefreshUser, At, AboutToSettle, Steps, accountVars, tokenVars, codeVars
<1>2. GoesOn(c)
  BY <1>1, GoingOn
<1>3. Shape'
  BY <1>1, <1>2 DEF Shape, StoreShape, GoesOn
<1>4. LineInv' /\ CodeInv'
  BY <1>1, <1>2, GoingOnKeeps
<1>5. LockedAtThreshold'
  BY <1>1, <1>2, GoingOnLocks
<1>6. QED
  BY <1>3, <1>4, <1>5 DEF IInv

-----------------------------------------------------------------------------
(* The actions that issue tokens and spend them. *)

(* A line begins with a token that was never issued: nothing is named after it. *)
LEMMA Unused ==
  ASSUME Shape, LineInv, NEW t \in Tokens, Fresh(t)
  PROVE  /\ ~Issued(t)
         /\ \A s \in Tokens : token[s].grant # t
         /\ \A c \in Calls : ~Renewing(c, t)
<1>1. ~Issued(t)
  BY Nothing, Records DEF Fresh, Issued
<1>2. QED
  BY <1>1 DEF LineInv

(* t is written; the tokens it is not are kept, or spent. *)
Writes(t) ==
  /\ token' \in [Tokens -> TokenShape]
  /\ \A s \in Tokens \ {t} : /\ token'[s].user = token[s].user
                             /\ token'[s].grant = token[s].grant
                             /\ token'[s].live => token[s].live

LEMMA NewLine ==
  ASSUME Shape, LineInv, NEW t \in Tokens, Fresh(t), Writes(t),
         token'[t].user \in Users, token'[t].grant = t,
         \A c \in Calls : call'[c].op = "refresh" =>
           call[c].op = "refresh" /\ call'[c].grant = call[c].grant
  PROVE  LineInv'
<1>1. \A c \in Calls, g \in Tokens : Renewing(c, g)' => Renewing(c, g)
  BY DEF Renewing
<1>2. /\ Issued(t)'
      /\ \A s \in Tokens \ {t} : (Issued(s) => Issued(s)') /\ (Live(s)' => Live(s))
  BY DEF Issued, Live, Writes
<1>3. ASSUME NEW s \in Tokens, NEW g \in Tokens, token'[s].grant = g
      PROVE  /\ Issued(g)'
             /\ s = t => g = t
             /\ s # t => g # t /\ token[s].grant = g
  BY <1>2, <1>3, Unused DEF LineInv, Writes
<1>4. ASSUME NEW c \in Calls, NEW g \in Tokens, Renewing(c, g)'
      PROVE  Issued(g)' /\ g # t
  BY <1>1, <1>2, <1>4, Unused DEF LineInv
<1>5. ASSUME NEW g \in Tokens, NEW s1 \in Tokens, NEW s2 \in Tokens,
             Live(s1)', Live(s2)', token'[s1].grant = g, token'[s2].grant = g
      PROVE  s1 = s2
  <2>1. CASE g = t
    BY <1>3, <1>5, <2>1
  <2>2. CASE g # t
    BY <1>2, <1>3, <1>5, <2>2 DEF LineInv, GrantsGoOn
  <2>3. QED
    BY <2>1, <2>2
<1>6. ASSUME NEW g \in Tokens, NEW c \in Calls, NEW s \in Tokens, Renewing(c, g)', token'[s].grant = g
      PROVE  ~Live(s)'
  <2>1. s # t
    BY <1>3, <1>4, <1>6
  <2>2. QED
    BY <1>1, <1>2, <1>3, <1>6, <2>1 DEF LineInv, GrantsGoOn
<1>7. GrantsGoOn'
  BY <1>1, <1>5, <1>6 DEF LineInv, GrantsGoOn
<1>8. QED
  BY <1>3, <1>4, <1>7 DEF LineInv

LEMMA OpenSessionKeeps ==
  ASSUME IInv, NEW c \in Calls, OpenSession(c)
  PROVE  IInv'
<1>0. PICK u : u = call[c].user
  OBVIOUS
<1>1. PICK t \in Tokens :
        /\ Fresh(t)
        /\ token' = [s \in Tokens |->
             IF s = t THEN [user |-> u, live |-> TRUE, grant |-> t]
             ELSE IF Len(Append(sessions[u], t)) > MaxSessions /\ s = Head(Append(sessions[u], t))
                  THEN [token[s] EXCEPT !.live = FALSE] ELSE token[s]]
  BY <1>0 DEF OpenSession
<1>2. /\ call[c].op = "login" /\ call[c].step = "roles" /\ Return(c)
      /\ UNCHANGED <<status, excused, fails, code, redeemed, contended>>
  BY DEF OpenSession, At, accountVars, codeVars
<1>3. Shape /\ u \in Users /\ token \in [Tokens -> TokenShape]
  BY <1>0, <1>2 DEF IInv, Shape, RequestShape, StoreShape
<1>4. /\ Writes(t)
      /\ token'[t].user = u /\ token'[t].grant = t
  <2>1. token'[t] = [user |-> u, live |-> TRUE, grant |-> t] /\ token'[t] \in TokenShape
    BY <1>1, <1>3 DEF TokenShape
  <2>2. ASSUME NEW s \in Tokens \ {t}
        PROVE  /\ token'[s].user = token[s].user /\ token'[s].grant = token[s].grant
               /\ token'[s].live => token[s].live
               /\ token'[s] \in TokenShape
    <3>1. token[s] \in TokenShape
      BY <1>3
    <3>2. token'[s] = token[s] \/ token'[s] = [token[s] EXCEPT !.live = FALSE]
      BY <1>1
    <3>3. QED
      BY <3>1, <3>2 DEF TokenShape
  <2>3. token' \in [Tokens -> TokenShape]
    BY <1>1, <2>1, <2>2
  <2>4. QED
    BY <2>1, <2>2, <2>3 DEF Writes
<1>5. GoesOn(c) /\ call'[c] = Idle
  BY <1>2, <1>3, Returned DEF GoesOn, StepsTo
<1>6. Shape'
  BY <1>2, <1>3, <1>4, <1>5 DEF Shape, StoreShape, GoesOn, Writes
<1>7. \A o \in Calls : call'[o].op = "refresh" =>
        call[o].op = "refresh" /\ call'[o].grant = call[o].grant
  BY <1>5, Records DEF GoesOn
<1>8. LineInv'
  BY <1>1, <1>3, <1>4, <1>7, NewLine DEF IInv
<1>9. \A o \in Calls : call'[o].code \in Codes => call'[o].code = call[o].code
  BY <1>5, Records, Nothing DEF GoesOn
<1>10. CodeInv'
  BY <1>2, <1>9, CodesKept DEF IInv
<1>11. LockedAtThreshold'
  BY <1>2, <1>5, GoingOnLocks DEF AboutToSettle
<1>12. QED
  BY <1>6, <1>8, <1>10, <1>11 DEF IInv

LEMMA SpendTokenKeeps ==
  ASSUME IInv, NEW c \in Calls, NEW t \in Tokens, SpendToken(c, t)
  PROVE  IInv'
<1>0. PICK next : next = [op |-> "refresh", step |-> "user", user |-> token[t].user,
                          grant |-> token[t].grant, code |-> None]
  OBVIOUS
<1>1. /\ Live(t) /\ call[c] = Idle
      /\ token' = [token EXCEPT ![t] = [token[t] EXCEPT !.live = FALSE]]
      /\ call' = [call EXCEPT ![c] = next]
      /\ UNCHANGED <<status, excused, fails, code, redeemed, contended>>
  BY <1>0 DEF SpendToken, accountVars, codeVars
<1>2. Shape /\ token \in [Tokens -> TokenShape] /\ token[t] \in TokenShape
  BY DEF IInv, Shape, StoreShape
<1>3. /\ next \in CallShape /\ next.op = "refresh" /\ next.grant = token[t].grant
      /\ next.code = None /\ next.step = "user"
  BY <1>0, <1>2 DEF CallShape, TokenShape, Ops, Steps
<1>4. StepsTo(c, next)
  BY <1>1, <1>2, <1>3, Assigned
<1>5. /\ token' \in [Tokens -> TokenShape]
      /\ token'[t].live = FALSE
      /\ \A s \in Tokens : token'[s].user = token[s].user /\ token'[s].grant = token[s].grant
      /\ \A s \in Tokens \ {t} : token'[s] = token[s]
  BY <1>1, <1>2 DEF TokenShape
<1>6. Shape'
  BY <1>1, <1>2, <1>4, <1>5 DEF Shape, StoreShape, StepsTo
<1>7. \A s \in Tokens : (Issued(s) <=> Issued(s)') /\ (Live(s)' => Live(s) /\ s # t)
  BY <1>5 DEF Issued, Live
<1>8. \A o \in Calls, g \in Tokens : Renewing(o, g)' =>
        \/ o # c /\ Renewing(o, g)
        \/ o = c /\ token[t].grant = g
  BY <1>3, <1>4 DEF Renewing, StepsTo
<1>9. \A o \in Calls, g \in Tokens : Renewing(o, g) => token[t].grant # g
  BY <1>1 DEF IInv, LineInv, GrantsGoOn
<1>10. LineInv'
  <2>1. \A s, g \in Tokens : (token[s].grant = g => Issued(g))'
    BY <1>5, <1>7 DEF IInv, LineInv
  <2>2. \A o \in Calls, g \in Tokens : (Renewing(o, g) => Issued(g))'
    BY <1>7, <1>8 DEF IInv, LineInv
  <2>3. \A g, s1, s2 \in Tokens :
          Live(s1)' /\ Live(s2)' /\ token'[s1].grant = g /\ token'[s2].grant = g => s1 = s2
    BY <1>5, <1>7 DEF IInv, LineInv, GrantsGoOn
  <2>4. \A g \in Tokens : \A o, p \in Calls : Renewing(o, g)' /\ Renewing(p, g)' => o = p
    BY <1>8, <1>9 DEF IInv, LineInv, GrantsGoOn
  <2>5. \A g \in Tokens : \A o \in Calls, s \in Tokens :
          Renewing(o, g)' /\ token'[s].grant = g => ~Live(s)'
    BY <1>1, <1>5, <1>7, <1>8 DEF IInv, LineInv, GrantsGoOn
  <2>6. QED
    BY <2>1, <2>2, <2>3, <2>4, <2>5 DEF LineInv, GrantsGoOn
<1>11. CodeInv'
  BY <1>1, <1>3, <1>4, CodesKept, Nothing DEF IInv, StepsTo
<1>12. \A o \in Calls : AboutToSettle(o) => AboutToSettle(o)' /\ call'[o].user = call[o].user
  BY <1>1, <1>4, Records DEF AboutToSettle, StepsTo
<1>13. LockedAtThreshold'
  BY <1>1, <1>12, LocksKept DEF IInv
<1>14. QED
  BY <1>6, <1>10, <1>11, <1>13 DEF IInv

LEMMA IssueNextKeeps ==
  ASSUME IInv, NEW c \in Calls, IssueNext(c)
  PROVE  IInv'
<1>0. PICK u, g : u = call[c].user /\ g = call[c].grant
  OBVIOUS
<1>1. PICK t \in Tokens :
        /\ Fresh(t)
        /\ token' = [token EXCEPT ![t] = [user |-> u, live |-> TRUE, grant |-> g]]
  BY <1>0 DEF IssueNext, Issue
<1>2. /\ call[c].op = "refresh" /\ call[c].step = "roles" /\ Return(c)
      /\ UNCHANGED <<status, excused, fails, code, redeemed, contended>>
  BY DEF IssueNext, At, accountVars, codeVars
<1>3. /\ Shape /\ token \in [Tokens -> TokenShape]
      /\ u \in Users \cup {None} /\ g \in Tokens \cup {None}
  BY <1>0 DEF IInv, Shape, RequestShape, StoreShape, CallShape
<1>4. /\ token' \in [Tokens -> TokenShape]
      /\ token'[t].grant = g
      /\ \A s \in Tokens \ {t} : token'[s] = token[s]
  BY <1>1, <1>3 DEF TokenShape
<1>5. GoesOn(c) /\ call'[c] = Idle
  BY <1>2, <1>3, Returned DEF GoesOn, StepsTo
<1>6. Shape'
  BY <1>2, <1>3, <1>4, <1>5 DEF Shape, StoreShape, GoesOn
<1>7. /\ \A s \in Tokens : token[s].grant # t
      /\ \A o \in Calls : ~Renewing(o, t)
      /\ ~Issued(t)
  BY <1>1, <1>3, Unused DEF IInv
<1>8. g \in Tokens => Renewing(c, g) /\ g # t
  BY <1>0, <1>2, <1>7 DEF Renewing
<1>9. \A o \in Calls, h \in Tokens : Renewing(o, h)' => o # c /\ Renewing(o, h)
  BY <1>5, Records DEF Renewing, GoesOn
<1>10. \A s \in Tokens \ {t} : (Issued(s) => Issued(s)') /\ (Live(s)' <=> Live(s))
  BY <1>4 DEF Issued, Live
<1>11. LineInv'
  <2>1. \A s, h \in Tokens : token'[s].grant = h => Issued(h)'
    BY <1>4, <1>7, <1>8, <1>10 DEF IInv, LineInv
  <2>2. \A o \in Calls, h \in Tokens : Renewing(o, h)' => Issued(h)'
    BY <1>7, <1>9, <1>10 DEF IInv, LineInv
  <2>3. \A h, s1, s2 \in Tokens :
          Live(s1)' /\ Live(s2)' /\ token'[s1].grant = h /\ token'[s2].grant = h => s1 = s2
    BY <1>4, <1>8, <1>10 DEF IInv, LineInv, GrantsGoOn
  <2>4. \A h \in Tokens : \A o, p \in Calls : Renewing(o, h)' /\ Renewing(p, h)' => o = p
    BY <1>9 DEF IInv, LineInv, GrantsGoOn
  <2>5. \A h \in Tokens : \A o \in Calls, s \in Tokens :
          Renewing(o, h)' /\ token'[s].grant = h => ~Live(s)'
    BY <1>4, <1>8, <1>9, <1>10 DEF IInv, LineInv, GrantsGoOn
  <2>6. QED
    BY <2>1, <2>2, <2>3, <2>4, <2>5 DEF LineInv, GrantsGoOn
<1>12. \A o \in Calls : call'[o].code \in Codes => call'[o].code = call[o].code
  BY <1>5, Records, Nothing DEF GoesOn
<1>13. CodeInv'
  BY <1>2, <1>12, CodesKept DEF IInv
<1>14. LockedAtThreshold'
  BY <1>2, <1>5, GoingOnLocks DEF AboutToSettle
<1>15. QED
  BY <1>6, <1>11, <1>13, <1>14 DEF IInv

LEMMA RevokeKeeps ==
  ASSUME IInv, NEW t \in Tokens, Revoke(t)
  PROVE  IInv'
<1>1. /\ token' = [token EXCEPT ![t] = [token[t] EXCEPT !.live = FALSE]]
      /\ UNCHANGED <<status, excused, fails, code, redeemed, contended, call>>
  BY DEF Revoke, accountVars, codeVars
<1>2. Shape /\ token \in [Tokens -> TokenShape] /\ token[t] \in TokenShape
  BY DEF IInv, Shape, StoreShape
<1>3. /\ token' \in [Tokens -> TokenShape]
      /\ \A s \in Tokens : /\ token'[s].user = token[s].user /\ token'[s].grant = token[s].grant
                          /\ token'[s].live => token[s].live
  BY <1>1, <1>2 DEF TokenShape
<1>4. Shape'
  BY <1>1, <1>2, <1>3 DEF Shape, RequestShape, StoreShape
<1>5. LineInv'
  BY <1>1, <1>2, <1>3, LinesKept DEF IInv
<1>6. CodeInv'
  BY <1>1, CodesKept DEF IInv
<1>7. LockedAtThreshold'
  BY <1>1, LocksKept DEF IInv, AboutToSettle
<1>8. QED
  BY <1>4, <1>5, <1>6, <1>7 DEF IInv

-----------------------------------------------------------------------------
(* The device flow. *)

(* A code that is not gone changes. *)
LEMMA CodeChanges ==
  ASSUME IInv, NEW d \in Codes, NEW next \in CodeShape, code[d].status # "gone",
         code' = [code EXCEPT ![d] = next], next.status = "approved" => next.user \in Users,
         UNCHANGED <<status, excused, fails, token, redeemed, contended, call>>
  PROVE  IInv'
<1>1. Shape /\ code \in [Codes -> CodeShape]
  BY DEF IInv, Shape, StoreShape
<1>2. /\ code' \in [Codes -> CodeShape] /\ code'[d] = next
      /\ \A e \in Codes \ {d} : code'[e] = code[e]
  BY <1>1
<1>3. Shape'
  BY <1>1, <1>2 DEF Shape, RequestShape, StoreShape
<1>4. LineInv'
  BY <1>1, LinesKept DEF IInv
<1>5. \A e \in Codes : code[e].status = "gone" => code'[e].status = "gone"
  BY <1>2
<1>6. CodeInv'
  BY <1>5, CodesKept DEF IInv
<1>7. LockedAtThreshold'
  BY LocksKept DEF IInv, AboutToSettle
<1>8. QED
  BY <1>3, <1>4, <1>6, <1>7 DEF IInv

LEMMA CodeStepsKeep ==
  ASSUME IInv, NEW d \in Codes,
         RequestCode(d) \/ ExpireCode(d) \/ \E u \in Users : AuthorizeDevice(d, u)
  PROVE  IInv'
<1>0. code \in [Codes -> CodeShape] /\ code[d] \in CodeShape
  BY DEF IInv, Shape, StoreShape
<1>1. CASE RequestCode(d)
  <2>1. code' = [code EXCEPT ![d] = [code[d] EXCEPT !.status = "pending"]]
    BY <1>1 DEF RequestCode
  <2>2. /\ [code[d] EXCEPT !.status = "pending"] \in CodeShape
        /\ [code[d] EXCEPT !.status = "pending"].status = "pending"
    BY <1>0 DEF CodeShape
  <2>3. /\ code[d].status # "gone"
        /\ UNCHANGED <<status, excused, fails, token, redeemed, contended, call>>
    BY <1>1 DEF RequestCode, accountVars, tokenVars
  <2>4. QED
    BY <2>1, <2>2, <2>3, CodeChanges
<1>2. CASE ExpireCode(d)
  <2>1. /\ [status |-> "gone", user |-> None] \in CodeShape
        /\ code' = [code EXCEPT ![d] = [status |-> "gone", user |-> None]]
        /\ code[d].status # "gone"
        /\ UNCHANGED <<status, excused, fails, token, redeemed, contended, call>>
    BY <1>2 DEF ExpireCode, CodeShape, accountVars, tokenVars
  <2>2. QED
    BY <2>1, CodeChanges
<1>3. ASSUME NEW u \in Users, AuthorizeDevice(d, u) PROVE IInv'
  <2>1. /\ [status |-> "approved", user |-> u] \in CodeShape
        /\ code' = [code EXCEPT ![d] = [status |-> "approved", user |-> u]]
        /\ code[d].status # "gone"
        /\ UNCHANGED <<status, excused, fails, token, redeemed, contended, call>>
    BY <1>3 DEF AuthorizeDevice, CodeShape, accountVars, tokenVars
  <2>2. QED
    BY <2>1, CodeChanges
<1>4. QED
  BY <1>1, <1>2, <1>3

LEMMA PollApprovedKeeps ==
  ASSUME IInv, NEW c \in Calls, NEW d \in Codes, PollApproved(c, d)
  PROVE  IInv'
<1>0. PICK next : next = [op |-> "poll", step |-> "roles", user |-> code[d].user,
                          grant |-> None, code |-> d]
  OBVIOUS
<1>1. /\ code[d].status = "approved" /\ call[c] = Idle
      /\ call' = [call EXCEPT ![c] = next]
      /\ contended' = IF \E o \in Calls : call[o].code = d THEN contended \cup {d} ELSE contended
      /\ UNCHANGED <<status, excused, fails, token, code, redeemed>>
  BY <1>0 DEF PollApproved, accountVars, tokenVars
<1>2. Shape /\ code[d].user \in Users
  BY <1>1 DEF IInv, Shape, StoreShape
<1>3. /\ next \in CallShape /\ next.op = "poll" /\ next.step = "roles" /\ next.code = d
      /\ next.user \in Users
  BY <1>0, <1>2 DEF CallShape, Ops, Steps
<1>4. StepsTo(c, next)
  BY <1>1, <1>2, <1>3, Assigned
<1>5. Shape'
  BY <1>1, <1>2, <1>4 DEF Shape, StoreShape, StepsTo
<1>6. \A o \in Calls : call'[o].op = "refresh" =>
        call[o].op = "refresh" /\ call'[o].grant = call[o].grant
  BY <1>3, <1>4 DEF StepsTo
<1>7. LineInv'
  BY <1>1, <1>2, <1>6, LinesKept DEF IInv
<1>8. /\ contended \subseteq contended'
      /\ d \notin contended' => \A o \in Calls : call[o].code # d
      /\ redeemed[d] = {}
  BY <1>1 DEF IInv, CodeInv
<1>9. CodeInv'
  <2>1. ASSUME NEW e \in Codes \ contended', NEW o \in Calls, NEW p \in Calls,
               call'[o].code = e, call'[p].code = e
        PROVE  o = p /\ redeemed[e] = {}
    <3>1. CASE e = d
      BY <1>3, <1>4, <1>8, <2>1, <3>1 DEF StepsTo
    <3>2. CASE e # d
      <4>1. o # c /\ p # c /\ call[o].code = e /\ call[p].code = e /\ e \notin contended
        BY <1>3, <1>4, <1>8, <2>1, <3>2 DEF StepsTo
      <4>2. QED
        BY <4>1 DEF IInv, CodeInv
    <3>3. QED
      BY <3>1, <3>2
  <2>2. QED
    BY <1>1, <1>8, <2>1 DEF IInv, CodeInv, OneGrantPerCode
<1>10. \A o \in Calls : AboutToSettle(o) => AboutToSettle(o)' /\ call'[o].user = call[o].user
  BY <1>1, <1>4, Records DEF AboutToSettle, StepsTo
<1>11. LockedAtThreshold'
  BY <1>1, <1>10, LocksKept DEF IInv
<1>12. QED
  BY <1>5, <1>7, <1>9, <1>11 DEF IInv

LEMMA IssueToDeviceKeeps ==
  ASSUME IInv, NEW c \in Calls, IssueToDevice(c)
  PROVE  IInv'
<1>0. PICK u, d : u = call[c].user /\ d = call[c].code
  OBVIOUS
<1>1. PICK t \in Tokens :
        /\ Fresh(t)
        /\ token' = [token EXCEPT ![t] = [user |-> u, live |-> TRUE, grant |-> t]]
        /\ redeemed' = [redeemed EXCEPT ![d] = redeemed[d] \cup {t}]
  BY <1>0 DEF IssueToDevice, Issue
<1>2. /\ call[c].op = "poll" /\ call[c].step = "roles" /\ Return(c)
      /\ code' = [code EXCEPT ![d] = [status |-> "gone", user |-> None]]
      /\ UNCHANGED <<status, excused, fails, contended>>
  BY <1>0 DEF IssueToDevice, At, accountVars
<1>3. /\ Shape /\ token \in [Tokens -> TokenShape] /\ code \in [Codes -> CodeShape]
      /\ redeemed \in [Codes -> SUBSET Tokens]
      /\ u \in Users /\ d \in Codes
  BY <1>0, <1>2 DEF IInv, Shape, RequestShape, StoreShape
<1>4. /\ Writes(t)
      /\ token'[t].user = u /\ token'[t].grant = t
  BY <1>1, <1>3 DEF Writes, TokenShape
<1>5. GoesOn(c) /\ call'[c] = Idle
  BY <1>2, <1>3, Returned DEF GoesOn, StepsTo
<1>6. /\ code' \in [Codes -> CodeShape] /\ code'[d].status = "gone"
      /\ \A e \in Codes \ {d} : code'[e] = code[e]
  BY <1>2, <1>3 DEF CodeShape
<1>7. /\ redeemed' \in [Codes -> SUBSET Tokens] /\ redeemed'[d] = redeemed[d] \cup {t}
      /\ \A e \in Codes \ {d} : redeemed'[e] = redeemed[e]
  BY <1>1, <1>3
<1>8. Shape'
  BY <1>2, <1>3, <1>4, <1>5, <1>6, <1>7 DEF Shape, StoreShape, GoesOn, Writes
<1>9. \A o \in Calls : call'[o].op = "refresh" =>
        call[o].op = "refresh" /\ call'[o].grant = call[o].grant
  BY <1>5, Records DEF GoesOn
<1>10. LineInv'
  BY <1>1, <1>3, <1>4, <1>9, NewLine DEF IInv
<1>11. \A o \in Calls, e \in Codes : call'[o].code = e => o # c /\ call[o].code = e
  BY <1>5, Records, Nothing DEF GoesOn
<1>12. d \notin contended =>
         redeemed[d] = {} /\ \A o \in Calls : call'[o].code # d
  BY <1>0, <1>3, <1>11 DEF IInv, CodeInv
<1>13. CodeInv'
  <2>1. \A e \in Codes : redeemed'[e] # {} => code'[e].status = "gone"
    BY <1>6, <1>7 DEF IInv, CodeInv
  <2>2. \A e \in Codes \ contended' :
          /\ \A o, p \in Calls : call'[o].code = e /\ call'[p].code = e => o = p
          /\ \A o \in Calls : call'[o].code = e => redeemed'[e] = {}
    BY <1>2, <1>7, <1>11, <1>12 DEF IInv, CodeInv
  <2>3. \A e \in Codes \ contended' : \A s1, s2 \in redeemed'[e] : s1 = s2
    BY <1>2, <1>7, <1>12 DEF IInv, CodeInv, OneGrantPerCode
  <2>4. QED
    BY <2>1, <2>2, <2>3 DEF CodeInv, OneGrantPerCode
<1>14. LockedAtThreshold'
  BY <1>2, <1>5, GoingOnLocks DEF AboutToSettle
<1>15. QED
  BY <1>8, <1>10, <1>13, <1>14 DEF IInv

-----------------------------------------------------------------------------
(* Administrators and the identity provider. *)
LEMMA SetStatusKeeps ==
  ASSUME IInv, NEW c \in Calls, NEW u \in Users, NEW s \in Statuses, SetStatus(c, u, s)
  PROVE  IInv'
<1>1. /\ status' = [status EXCEPT ![u] = s]
      /\ call[c] = Idle
      /\ IF s = "active" THEN Start(c, "unlock", "reset", u) ELSE UNCHANGED call
      /\ UNCHANGED <<excused, fails, token, code, redeemed, contended>>
  BY DEF SetStatus, Start, tokenVars, codeVars
<1>2. Shape /\ status \in [Users -> Statuses]
  BY DEF IInv, Shape, StoreShape
<1>3. /\ status'[u] = s /\ \A v \in Users \ {u} : status'[v] = status[v]
      /\ status' \in [Users -> Statuses]
  BY <1>1, <1>2
<1>4. PICK next : /\ StepsTo(c, next)
                  /\ next.op # "refresh" /\ next.code = None
                  /\ s = "active" => next.step = "reset" /\ next.user = u
  <2>1. CASE s = "active"
    <3>1. "unlock" \in Ops /\ "reset" \in Steps
      BY DEF Ops, Steps
    <3>2. StepsTo(c, [op |-> "unlock", step |-> "reset", user |-> u, grant |-> None, code |-> None])
      BY <1>1, <1>2, <2>1, <3>1, Started
    <3>3. QED
      BY <3>2
  <2>2. CASE s # "active"
    <3>1. StepsTo(c, Idle)
      BY <1>1, <1>2, <2>2 DEF StepsTo, Shape, RequestShape
    <3>2. QED
      BY <2>2, <3>1, Records
  <2>3. QED
    BY <2>1, <2>2
<1>5. Shape'
  BY <1>1, <1>2, <1>3, <1>4 DEF Shape, StoreShape, StepsTo
<1>6. LineInv'
  BY <1>1, <1>2, <1>4, LinesKept DEF IInv, StepsTo
<1>7. CodeInv'
  BY <1>1, <1>4, CodesKept, Nothing DEF IInv, StepsTo
<1>8. \A o \in Calls : AboutToSettle(o) => AboutToSettle(o)' /\ call'[o].user = call[o].user
  BY <1>1, <1>4, Records DEF AboutToSettle, StepsTo
<1>9. ASSUME NEW v \in Users \ excused', fails'[v] = Threshold
      PROVE  status'[v] = "locked" \/ \E o \in Calls : AboutToSettle(o)' /\ call'[o].user = v
  <2>1. CASE v # u
    BY <1>1, <1>3, <1>8, <1>9, <2>1 DEF IInv, LockedAtThreshold
  <2>2. CASE v = u /\ s = "active"
    BY <1>4, <2>2 DEF AboutToSettle, StepsTo
  <2>3. CASE v = u /\ s # "active"
    BY <1>3, <2>3 DEF Statuses
  <2>4. QED
    BY <2>1, <2>2, <2>3
<1>10. LockedAtThreshold'
  BY <1>9 DEF LockedAtThreshold
<1>11. QED
  BY <1>5, <1>6, <1>7, <1>10 DEF IInv

LEMMA ScimStatusKeeps ==
  ASSUME IInv, NEW u \in Users, NEW s \in Statuses, ScimStatus(u, s)
  PROVE  IInv'
<1>1. /\ status' = [status EXCEPT ![u] = s]
      /\ excused' = IF s = "active" THEN excused \cup {u} ELSE excused
      /\ UNCHANGED <<fails, token, code, redeemed, contended, call>>
  BY DEF ScimStatus, tokenVars, codeVars
<1>2. Shape /\ status \in [Users -> Statuses]
  BY DEF IInv, Shape, StoreShape
<1>3. /\ status'[u] = s /\ \A v \in Users \ {u} : status'[v] = status[v]
      /\ status' \in [Users -> Statuses]
  BY <1>1, <1>2
<1>4. Shape'
  BY <1>1, <1>2, <1>3 DEF Shape, RequestShape, StoreShape
<1>5. LineInv' /\ CodeInv'
  BY <1>1, <1>2, LinesKept, CodesKept DEF IInv
<1>6. ASSUME NEW v \in Users \ excused', fails'[v] = Threshold
      PROVE  status'[v] = "locked" \/ \E o \in Calls : AboutToSettle(o)' /\ call'[o].user = v
  <2>1. CASE v # u
    BY <1>1, <1>3, <1>6, <2>1 DEF IInv, LockedAtThreshold, AboutToSettle
  <2>2. CASE v = u
    BY <1>1, <1>3, <1>6, <2>2 DEF Statuses
  <2>3. QED
    BY <2>1, <2>2
<1>7. LockedAtThreshold'
  BY <1>6 DEF LockedAtThreshold
<1>8. QED
  BY <1>4, <1>5, <1>7 DEF IInv

(* Nothing the invariant speaks of changes. *)
LEMMA UntouchedKeeps ==
  ASSUME IInv, UNCHANGED <<status, excused, fails, token, code, redeemed, contended, call>>
  PROVE  IInv'
<1>1. Shape'
  BY DEF IInv, Shape, RequestShape, StoreShape
<1>2. LineInv' /\ CodeInv'
  BY LinesKept, CodesKept DEF IInv
<1>3. LockedAtThreshold'
  BY LocksKept DEF IInv, AboutToSettle
<1>4. QED
  BY <1>1, <1>2, <1>3 DEF IInv

-----------------------------------------------------------------------------
LEMMA InitInv == Init => IInv
<1> SUFFICES ASSUME Init PROVE IInv
  OBVIOUS
<1>1. /\ call \in [Calls -> CallShape] /\ \A c \in Calls : call[c] = Idle
      /\ token \in [Tokens -> TokenShape] /\ \A t \in Tokens : token[t] = NoToken
      /\ code \in [Codes -> CodeShape] /\ \A d \in Codes : code[d] = NoCode
      /\ redeemed \in [Codes -> SUBSET Tokens] /\ \A d \in Codes : redeemed[d] = {}
      /\ fails \in [Users -> 0 .. Threshold] /\ \A u \in Users : fails[u] = 0
      /\ status \in [Users -> Statuses]
  BY Records, Nothing DEF Init, Statuses
<1>2. Shape
  BY <1>1, Records DEF Shape, RequestShape, StoreShape
<1>3. LineInv
  BY <1>1, Records, Nothing DEF LineInv, GrantsGoOn, Renewing, Live
<1>4. CodeInv
  BY <1>1, Records, Nothing DEF CodeInv, OneGrantPerCode
<1>5. LockedAtThreshold
  BY <1>1, Nothing DEF LockedAtThreshold
<1>6. QED
  BY <1>2, <1>3, <1>4, <1>5 DEF IInv

LEMMA RestartKeeps == IInv /\ Restart => IInv'
<1> SUFFICES ASSUME IInv, Restart PROVE IInv'
  OBVIOUS
<1>1. /\ call' \in [Calls -> CallShape] /\ \A c \in Calls : call'[c] = Idle
      /\ token' \in [Tokens -> TokenShape] /\ \A t \in Tokens : token'[t] = NoToken
      /\ code' \in [Codes -> CodeShape] /\ \A d \in Codes : code'[d] = NoCode
      /\ redeemed' \in [Codes -> SUBSET Tokens] /\ \A d \in Codes : redeemed'[d] = {}
      /\ fails' \in [Users -> 0 .. Threshold] /\ \A u \in Users : fails'[u] = 0
      /\ status' \in [Users -> Statuses]
  BY Records, Nothing DEF Restart, IInv, Shape, StoreShape, accountVars
<1>2. Shape'
  BY <1>1, Records DEF Shape, RequestShape, StoreShape
<1>3. LineInv'
  BY <1>1, Records, Nothing DEF LineInv, GrantsGoOn, Renewing, Live
<1>4. CodeInv'
  BY <1>1, Records, Nothing DEF CodeInv, OneGrantPerCode
<1>5. LockedAtThreshold'
  BY <1>1, Nothing DEF LockedAtThreshold
<1>6. QED
  BY <1>2, <1>3, <1>4, <1>5 DEF IInv

LEMMA NextInv == IInv /\ [Next]_vars => IInv'
<1> SUFFICES ASSUME IInv, [Next]_vars PROVE IInv'
  OBVIOUS
<1>1. ASSUME NEW c \in Calls, CallStep(c) PROVE IInv'
  BY <1>1, LoginFoundKeeps, LoginWrongKeeps, LockUnlessSuperKeeps, LockKeeps, LoginRightKeeps,
     OpenSessionKeeps, SpendTokenKeeps, RefreshUserKeeps, IssueNextKeeps, PollApprovedKeeps,
     IssueToDeviceKeeps, SetStatusKeeps, ResetFailsKeeps, CallFailsKeeps DEF CallStep
<1>2. ASSUME NEW t \in Tokens, Revoke(t) PROVE IInv'
  BY <1>2, RevokeKeeps
<1>3. ASSUME NEW d \in Codes,
             RequestCode(d) \/ ExpireCode(d) \/ \E u \in Users : AuthorizeDevice(d, u)
      PROVE  IInv'
  BY <1>3, CodeStepsKeep
<1>4. ASSUME NEW u \in Users, NEW s \in Statuses, ScimStatus(u, s) PROVE IInv'
  BY <1>4, ScimStatusKeeps
<1>5. CASE TransferSuperAdmin
  BY <1>5, UntouchedKeeps DEF TransferSuperAdmin, tokenVars, codeVars
<1>6. CASE Restart
  BY <1>6, RestartKeeps
<1>7. CASE UNCHANGED vars
  BY <1>7, UntouchedKeeps DEF vars, accountVars, tokenVars, codeVars
<1>8. QED
  BY <1>1, <1>2, <1>3, <1>4, <1>5, <1>6, <1>7 DEF Next

-----------------------------------------------------------------------------
(* The registry.  What push, shift and splice do to a list without           *)
(* duplicates.                                                               *)
LEMMA Members ==
  ASSUME NEW s \in Seq(Tokens)
  PROVE  Range(s) = {s[i] : i \in 1 .. Len(s)} /\ Range(s) \subseteq Tokens
BY DEF Range

LEMMA Pushed ==
  ASSUME NEW s \in Seq(Tokens), NEW t \in Tokens, IsInjective(s), t \notin Range(s)
  PROVE  /\ Append(s, t) \in Seq(Tokens) /\ IsInjective(Append(s, t))
         /\ Len(Append(s, t)) = Len(s) + 1
         /\ Range(Append(s, t)) = Range(s) \cup {t}
         /\ s # <<>> => Head(Append(s, t)) = Head(s)
<1>1. PICK q : q = Append(s, t)
  OBVIOUS
<1>2. /\ q \in Seq(Tokens) /\ Len(q) = Len(s) + 1 /\ Len(s) \in Nat
      /\ \A i \in 1 .. Len(s) : q[i] = s[i]
      /\ q[Len(s) + 1] = t
  BY <1>1, AppendProperties
<1>3. DOMAIN q = 1 .. Len(s) + 1 /\ DOMAIN s = 1 .. Len(s)
  BY <1>2
<1>4. \A i \in 1 .. Len(s) : s[i] # t
  BY Members
<1>5. IsInjective(q)
  <2>1. ASSUME NEW a \in 1 .. Len(s) + 1, NEW b \in 1 .. Len(s) + 1, q[a] = q[b] PROVE a = b
    BY <1>2, <1>3, <1>4, <2>1 DEF IsInjective
  <2>2. QED
    BY <1>3, <2>1 DEF IsInjective
<1>6. Range(q) = Range(s) \cup {t}
  <2>1. \A x \in Range(q) : x \in Range(s) \cup {t}
    BY <1>2, <1>3 DEF Range
  <2>2. \A x \in Range(s) : x \in Range(q)
    BY <1>2, <1>3 DEF Range
  <2>3. t \in Range(q)
    <3>1. Len(s) + 1 \in DOMAIN q
      BY <1>2, <1>3
    <3>2. QED
      BY <1>2, <3>1 DEF Range
  <2>4. QED
    BY <2>1, <2>2, <2>3
<1>7. s # <<>> => Head(q) = Head(s)
  BY <1>1, HeadTailAppend
<1>8. QED
  BY <1>1, <1>2, <1>5, <1>6, <1>7

LEMMA Shifted ==
  ASSUME NEW s \in Seq(Tokens), s # <<>>, IsInjective(s)
  PROVE  /\ Tail(s) \in Seq(Tokens) /\ IsInjective(Tail(s)) /\ Len(Tail(s)) = Len(s) - 1
         /\ Head(s) \in Range(s) /\ Range(Tail(s)) = Range(s) \ {Head(s)}
<1>1. PICK q : q = Tail(s)
  OBVIOUS
<1>2. /\ q \in Seq(Tokens) /\ Len(q) = Len(s) - 1 /\ Len(s) \in Nat \ {0}
      /\ \A i \in 1 .. Len(s) - 1 : q[i] = s[i + 1]
      /\ Head(s) = s[1]
  BY <1>1, HeadTailProperties, EmptySeq, LenProperties
<1>3. DOMAIN q = 1 .. Len(s) - 1 /\ DOMAIN s = 1 .. Len(s)
  BY <1>2
<1>4. \A i, k \in 1 .. Len(s) : s[i] = s[k] => i = k
  BY <1>3 DEF IsInjective
<1>5. IsInjective(q)
  <2>1. ASSUME NEW a \in 1 .. Len(s) - 1, NEW b \in 1 .. Len(s) - 1, q[a] = q[b] PROVE a = b
    BY <1>2, <1>4, <2>1
  <2>2. QED
    BY <1>3, <2>1 DEF IsInjective
<1>6. Head(s) \in Range(s)
  BY <1>2, <1>3 DEF Range
<1>7. \A x \in Range(q) : x \in Range(s) /\ x # Head(s)
  <2>1. ASSUME NEW i \in 1 .. Len(s) - 1 PROVE q[i] \in Range(s) /\ q[i] # s[1]
    <3>1. i + 1 \in DOMAIN s /\ 1 \in 1 .. Len(s) /\ i + 1 # 1 /\ q[i] = s[i + 1]
      BY <1>2, <1>3, <2>1
    <3>2. QED
      BY <1>3, <1>4, <3>1 DEF Range
  <2>2. QED
    BY <1>2, <1>3, <2>1 DEF Range
<1>8. \A x \in Range(s) : x # Head(s) => x \in Range(q)
  <2>1. ASSUME NEW i \in 1 .. Len(s), s[i] # s[1] PROVE s[i] \in Range(q)
    <3>1. i - 1 \in DOMAIN q /\ q[i - 1] = s[i]
      BY <1>2, <1>3, <2>1
    <3>2. QED
      BY <3>1 DEF Range
  <2>2. QED
    BY <1>2, <1>3, <2>1 DEF Range
<1>9. QED
  BY <1>1, <1>2, <1>5, <1>6, <1>7, <1>8

LEMMA Spliced ==
  ASSUME NEW s \in Seq(Tokens), NEW idx \in DOMAIN s, IsInjective(s)
  PROVE  /\ RemoveAt(s, idx) \in Seq(Tokens) /\ IsInjective(RemoveAt(s, idx))
         /\ Len(RemoveAt(s, idx)) = Len(s) - 1
         /\ Range(RemoveAt(s, idx)) = Range(s) \ {s[idx]}
<1>1. PICK n : n = Len(s)
  OBVIOUS
<1>2. /\ n \in Nat /\ DOMAIN s = 1 .. n /\ idx \in 1 .. n
      /\ \A i \in 1 .. n : s[i] \in Tokens
  BY <1>1
<1>3. PICK f, b : f = SubSeq(s, 1, idx - 1) /\ b = SubSeq(s, idx + 1, n)
  OBVIOUS
<1>4. /\ f \in Seq(Tokens) /\ Len(f) = idx - 1
      /\ \A i \in 1 .. idx - 1 : f[i] = s[i]
  <2>1. /\ 1 \in Int /\ idx - 1 \in Int /\ \A i \in 1 .. idx - 1 : s[i] \in Tokens
    BY <1>2
  <2>2. /\ f \in Seq(Tokens)
        /\ Len(f) = IF 1 <= idx - 1 THEN idx - 1 - 1 + 1 ELSE 0
        /\ \A i \in 1 .. idx - 1 - 1 + 1 : f[i] = s[1 + i - 1]
    BY <1>3, <2>1, SubSeqProperties
  <2>3. idx - 1 - 1 + 1 = idx - 1 /\ \A i \in 1 .. idx - 1 : 1 + i - 1 = i
    BY <1>2
  <2>4. Len(f) = idx - 1
    BY <1>2, <2>2
  <2>5. QED
    BY <2>2, <2>3, <2>4
<1>5. /\ b \in Seq(Tokens) /\ Len(b) = n - idx
      /\ \A i \in 1 .. n - idx : b[i] = s[idx + i]
  <2>1. /\ idx + 1 \in Int /\ n \in Int /\ \A i \in idx + 1 .. n : s[i] \in Tokens
    BY <1>2
  <2>2. /\ b \in Seq(Tokens)
        /\ Len(b) = IF idx + 1 <= n THEN n - (idx + 1) + 1 ELSE 0
        /\ \A i \in 1 .. n - (idx + 1) + 1 : b[i] = s[(idx + 1) + i - 1]
    BY <1>3, <2>1, SubSeqProperties
  <2>3. n - (idx + 1) + 1 = n - idx /\ \A i \in 1 .. n - idx : (idx + 1) + i - 1 = idx + i
    BY <1>2
  <2>4. Len(b) = n - idx
    BY <1>2, <2>2
  <2>5. QED
    BY <2>2, <2>3, <2>4
<1>6. PICK q : q = f \o b
  OBVIOUS
<1>7. RemoveAt(s, idx) = q
  BY <1>1, <1>3, <1>6 DEF RemoveAt
<1>8. /\ q \in Seq(Tokens) /\ Len(q) = n - 1 /\ DOMAIN q = 1 .. n - 1
      /\ \A i \in 1 .. n - 1 : q[i] = IF i < idx THEN s[i] ELSE s[i + 1]
  <2>1. /\ q \in Seq(Tokens) /\ Len(q) = Len(f) + Len(b)
        /\ \A i \in 1 .. Len(f) + Len(b) : q[i] = IF i <= Len(f) THEN f[i] ELSE b[i - Len(f)]
    BY <1>4, <1>5, <1>6, ConcatProperties
  <2>2. Len(q) = n - 1 /\ DOMAIN q = 1 .. n - 1
    BY <1>2, <1>4, <1>5, <2>1
  <2>3. ASSUME NEW i \in 1 .. n - 1 PROVE q[i] = IF i < idx THEN s[i] ELSE s[i + 1]
    <3>1. CASE i < idx
      BY <1>2, <1>4, <1>5, <2>1, <3>1
    <3>2. CASE ~(i < idx)
      <4>1. q[i] = b[i - (idx - 1)] /\ i - (idx - 1) \in 1 .. n - idx
        BY <1>2, <1>4, <1>5, <2>1, <3>2
      <4>2. b[i - (idx - 1)] = s[idx + (i - (idx - 1))] /\ idx + (i - (idx - 1)) = i + 1
        BY <1>2, <1>5, <4>1
      <4>3. QED
        BY <3>2, <4>1, <4>2
    <3>3. QED
      BY <3>1, <3>2
  <2>4. QED
    BY <2>1, <2>2, <2>3
<1>9. \A i, k \in 1 .. n : s[i] = s[k] => i = k
  BY <1>2 DEF IsInjective
<1>10. IsInjective(q)
  <2>1. ASSUME NEW i \in 1 .. n - 1, NEW k \in 1 .. n - 1, q[i] = q[k] PROVE i = k
    BY <1>2, <1>8, <1>9, <2>1
  <2>2. QED
    BY <1>8, <2>1 DEF IsInjective
<1>11. \A x \in Range(q) : x \in Range(s) /\ x # s[idx]
  <2>1. ASSUME NEW i \in 1 .. n - 1 PROVE q[i] \in Range(s) /\ q[i] # s[idx]
    <3>1. PICK k \in 1 .. n : q[i] = s[k] /\ k # idx
      BY <1>2, <1>8, <2>1
    <3>2. QED
      BY <1>2, <1>9, <3>1 DEF Range
  <2>2. QED
    BY <1>8, <2>1 DEF Range
<1>12. \A x \in Range(s) : x # s[idx] => x \in Range(q)
  <2>1. ASSUME NEW i \in 1 .. n, s[i] # s[idx] PROVE s[i] \in Range(q)
    <3>1. PICK k \in 1 .. n - 1 : q[k] = s[i]
      <4>1. CASE i < idx
        BY <1>2, <1>8, <4>1
      <4>2. CASE i > idx
        <5>1. i - 1 \in 1 .. n - 1 /\ q[i - 1] = s[i]
          BY <1>2, <1>8, <4>2
        <5>2. QED
          BY <5>1
      <4>3. QED
        BY <1>2, <2>1, <4>1, <4>2
    <3>2. QED
      BY <1>8, <3>1 DEF Range
  <2>2. QED
    BY <1>2, <2>1 DEF Range
<1>13. QED
  BY <1>1, <1>7, <1>8, <1>10, <1>11, <1>12

-----------------------------------------------------------------------------
(* The registry and the maps beside it.  A token is fresh, or was issued to  *)
(* a user for good; so a fresh one is in none of the maps.                   *)
RegistryShape ==
  /\ sessions \in [Users -> Seq(Tokens)] /\ revoked \subseteq Tokens /\ csrf \subseteq Tokens
  /\ \A t \in Tokens : Fresh(t) \/ Issued(t)
  /\ \A c \in Calls : call[c].op = "refresh" => call[c].user \in Users
  /\ \A t \in revoked : Issued(t)

RegInv == RegistryShape /\ RegistryAgrees

Registered(t) == \E u \in Users : t \in Range(sessions[u])

LEMMA CsrfIsRegistered ==
  csrf = UNION {Range(sessions[u]) : u \in Users} <=> \A t : t \in csrf <=> Registered(t)
BY DEF Registered

LEMMA FreshIsNowhere ==
  ASSUME RegInv, NEW t \in Tokens, Fresh(t)
  PROVE  /\ ~Issued(t) /\ ~Registered(t) /\ t \notin csrf /\ t \notin revoked /\ ~Live(t)
<1>1. ~Issued(t) /\ ~Live(t)
  BY Nothing, Records DEF Fresh, Issued, Live
<1>2. ~Registered(t)
  BY <1>1 DEF RegInv, RegistryAgrees, Registered, Issued
<1>3. QED
  BY <1>1, <1>2, CsrfIsRegistered DEF RegInv, RegistryShape, RegistryAgrees

(* Requests that leave the maps alone: a token keeps its user and its grant  *)
(* and is not taken into use again.                                          *)
LEMMA RegistryKept ==
  ASSUME RegInv, UNCHANGED <<sessions, revoked, csrf>>,
         \A d \in Codes : redeemed[d] \subseteq redeemed'[d],
         \A t \in Tokens : /\ Fresh(t) => Fresh(t)'
                           /\ token'[t].user = token[t].user /\ token'[t].grant = token[t].grant
                           /\ token'[t].live => token[t].live,
         \A c \in Calls : call'[c].op = "refresh" => call'[c].user \in Users
  PROVE  RegInv'
<1>1. \A t \in Tokens : (Issued(t)' <=> Issued(t)) /\ (Live(t)' => Live(t))
  BY DEF Issued, Live
<1>2. RegistryShape'
  BY <1>1 DEF RegInv, RegistryShape
<1>3. \A u \in Users : /\ Len(sessions'[u]) <= MaxSessions
                       /\ IsInjective(sessions'[u])
                       /\ \A t \in Range(sessions'[u]) : token'[t].user = u
  <2>1. ASSUME NEW u \in Users PROVE Range(sessions[u]) \subseteq Tokens
    BY Members DEF RegInv, RegistryShape
  <2>2. QED
    BY <2>1 DEF RegInv, RegistryAgrees
<1>4. /\ csrf' = UNION {Range(sessions'[u]) : u \in Users}
      /\ revoked' \cap csrf' = {}
  BY DEF RegInv, RegistryAgrees
<1>5. \A t \in revoked' : ~Live(t)'
  BY <1>1 DEF RegInv, RegistryShape, RegistryAgrees
<1>6. \A t \in Tokens :
        Live(t)' /\ token'[t].grant = t /\ (\A d \in Codes : t \notin redeemed'[d]) => t \in csrf'
  BY <1>1 DEF RegInv, RegistryAgrees
<1>7. RegistryAgrees'
  BY <1>3, <1>4, <1>5, <1>6 DEF RegistryAgrees
<1>8. QED
  BY <1>2, <1>7 DEF RegInv

(* A token is issued, and not entered: it is another token's successor, or   *)
(* a device's.                                                               *)
LEMMA IssuedOutside ==
  ASSUME RegInv, UNCHANGED <<sessions, revoked, csrf>>, NEW t \in Tokens, Fresh(t),
         \A d \in Codes : redeemed[d] \subseteq redeemed'[d],
         \A s \in Tokens \ {t} : token'[s] = token[s],
         token'[t].user \in Users,
         token'[t].grant # t \/ \E d \in Codes : t \in redeemed'[d],
         \A c \in Calls : call'[c].op = "refresh" => call'[c].user \in Users
  PROVE  RegInv'
<1>1. ~Registered(t) /\ t \notin csrf /\ t \notin revoked
  BY FreshIsNowhere
<1>2. /\ Issued(t)'
      /\ \A s \in Tokens \ {t} : /\ Issued(s)' <=> Issued(s)
                                 /\ Live(s)' <=> Live(s)
                                 /\ Fresh(s)' <=> Fresh(s)
  BY DEF Issued, Live, Fresh
<1>3. RegistryShape'
  BY <1>1, <1>2 DEF RegInv, RegistryShape
<1>4. \A u \in Users : /\ Len(sessions'[u]) <= MaxSessions
                       /\ IsInjective(sessions'[u])
                       /\ \A s \in Range(sessions'[u]) : token'[s].user = u
  <2>1. ASSUME NEW u \in Users PROVE Range(sessions[u]) \subseteq Tokens \ {t}
    BY <1>1, Members DEF RegInv, RegistryShape, Registered
  <2>2. QED
    BY <2>1 DEF RegInv, RegistryAgrees
<1>5. /\ csrf' = UNION {Range(sessions'[u]) : u \in Users}
      /\ revoked' \cap csrf' = {}
  BY DEF RegInv, RegistryAgrees
<1>6. \A s \in revoked' : ~Live(s)'
  BY <1>1, <1>2 DEF RegInv, RegistryShape, RegistryAgrees
<1>7. \A s \in Tokens :
        Live(s)' /\ token'[s].grant = s /\ (\A d \in Codes : s \notin redeemed'[d]) => s \in csrf'
  BY <1>1, <1>2 DEF RegInv, RegistryAgrees
<1>8. RegistryAgrees'
  BY <1>4, <1>5, <1>6, <1>7 DEF RegistryAgrees
<1>9. QED
  BY <1>3, <1>8 DEF RegInv

(* The list of one user becomes q, and the other maps change with it: new    *)
(* are the tokens entered, out those taken out.                              *)
ListBecomes(u, q, new, out) ==
  /\ sessions' = [sessions EXCEPT ![u] = q]
  /\ q \in Seq(Tokens) /\ IsInjective(q) /\ Len(q) <= MaxSessions
  /\ Range(q) = (Range(sessions[u]) \cup new) \ out
  /\ csrf' = (csrf \cup new) \ out
  /\ revoked' = revoked \cup out
  /\ new \subseteq Tokens /\ out \subseteq Tokens /\ new \cap revoked' = {}
  /\ \A t \in new : Fresh(t) /\ token'[t].user = u
  /\ \A t \in out : Issued(t) /\ ~Live(t)' /\ token[t].user = u
  /\ \A s \in Tokens \ new : /\ Fresh(s) => Fresh(s)'
                             /\ token'[s].user = token[s].user
                             /\ token'[s].grant = token[s].grant
                             /\ token'[s].live => token[s].live

LEMMA ListChanges ==
  ASSUME RegInv, NEW u \in Users, NEW q, NEW new, NEW out, ListBecomes(u, q, new, out),
         UNCHANGED redeemed,
         \A c \in Calls : call'[c].op = "refresh" => call'[c].user \in Users
  PROVE  RegInv'
<1> USE DEF ListBecomes
<1>1. \A t \in new : ~Issued(t) /\ ~Registered(t) /\ t \notin csrf /\ t \notin revoked
  BY FreshIsNowhere
<1>2. /\ \A s \in Tokens \ new : (Issued(s)' <=> Issued(s)) /\ (Live(s)' => Live(s))
      /\ \A s \in new : Issued(s)'
  BY DEF Issued, Live
<1>3. /\ sessions' \in [Users -> Seq(Tokens)] /\ sessions'[u] = q
      /\ \A v \in Users \ {u} : sessions'[v] = sessions[v]
  BY DEF RegInv, RegistryShape
<1>4. RegistryShape'
  <2>1. /\ revoked' \subseteq Tokens /\ csrf' \subseteq Tokens
    BY DEF RegInv, RegistryShape
  <2>2. \A t \in Tokens : Fresh(t)' \/ Issued(t)'
    BY <1>2 DEF RegInv, RegistryShape
  <2>3. \A t \in revoked' : Issued(t)'
    BY <1>1, <1>2 DEF RegInv, RegistryShape
  <2>4. QED
    BY <1>3, <2>1, <2>2, <2>3 DEF RegistryShape
<1>5. \A v \in Users : Range(sessions[v]) \subseteq Tokens /\ \A t \in Range(sessions[v]) : token[t].user = v
  BY Members DEF RegInv, RegistryShape, RegistryAgrees
<1>6. ASSUME NEW v \in Users
      PROVE  /\ Len(sessions'[v]) <= MaxSessions
             /\ IsInjective(sessions'[v])
             /\ \A t \in Range(sessions'[v]) : token'[t].user = v
  <2>1. CASE v = u
    BY <1>3, <1>5, <2>1
  <2>2. CASE v # u
    <3>1. sessions'[v] = sessions[v]
      BY <1>3, <2>2
    <3>2. \A t \in Range(sessions[v]) : t \in Tokens \ new /\ token[t].user = v
      BY <1>1, <1>5 DEF Registered
    <3>3. QED
      BY <3>1, <3>2 DEF RegInv, RegistryAgrees
  <2>3. QED
    BY <2>1, <2>2
<1>7. ASSUME NEW t PROVE t \in csrf' <=> Registered(t)'
  <2>1. t \in csrf <=> Registered(t)
    BY CsrfIsRegistered DEF RegInv, RegistryAgrees
  <2>2. \A v \in Users \ {u} : t \in Range(sessions'[v]) => t \notin out
    BY <1>3, <1>5
  <2>3. Registered(t)' <=> t \in Range(q) \/ \E v \in Users \ {u} : t \in Range(sessions[v])
    BY <1>3 DEF Registered
  <2>4. QED
    BY <1>3, <2>1, <2>2, <2>3 DEF Registered
<1>8. csrf' = UNION {Range(sessions'[v]) : v \in Users}
  BY <1>7 DEF Registered
<1>9. revoked' \cap csrf' = {}
  BY DEF RegInv, RegistryAgrees
<1>10. \A t \in revoked' : ~Live(t)'
  BY <1>1, <1>2 DEF RegInv, RegistryShape, RegistryAgrees
<1>11. \A t \in Tokens :
        Live(t)' /\ token'[t].grant = t /\ (\A d \in Codes : t \notin redeemed'[d]) => t \in csrf'
  BY <1>2 DEF RegInv, RegistryAgrees
<1>12. RegistryAgrees'
  BY <1>6, <1>8, <1>9, <1>10, <1>11 DEF RegistryAgrees
<1>13. QED
  BY <1>4, <1>12 DEF RegInv

LEMMA Spent == [NoToken EXCEPT !.live = FALSE] = NoToken
<1>1. PICK n, r : n = NoToken /\ r = [NoToken EXCEPT !.live = FALSE]
  OBVIOUS
<1>2. n \in [user : {None}, live : {FALSE}, grant : {None}]
  BY <1>1 DEF NoToken
<1>3. r = [n EXCEPT !.live = FALSE]
  BY <1>1
<1>4. r = n
  BY <1>2, <1>3
<1>5. QED
  BY <1>1, <1>4

LEMMA OpenSessionRegisters ==
  ASSUME IInv, RegInv, NEW c \in Calls, OpenSession(c)
  PROVE  RegInv'
<1>0. PICK u : u = call[c].user
  OBVIOUS
<1>1. PICK t, all :
        /\ t \in Tokens
        /\ all = Append(sessions[u], t)
        /\ Fresh(t)
        /\ token' = [s \in Tokens |->
             IF s = t THEN [user |-> u, live |-> TRUE, grant |-> t]
             ELSE IF Len(all) > MaxSessions /\ s = Head(all)
                  THEN [token[s] EXCEPT !.live = FALSE] ELSE token[s]]
        /\ sessions' = [sessions EXCEPT ![u] = IF Len(all) > MaxSessions THEN Tail(all) ELSE all]
        /\ revoked' = IF Len(all) > MaxSessions THEN revoked \cup {Head(all)} ELSE revoked
        /\ csrf' = (IF Len(all) > MaxSessions THEN csrf \ {Head(all)} ELSE csrf) \cup {t}
  BY <1>0 DEF OpenSession
<1>2. call[c].op = "login" /\ Return(c) /\ UNCHANGED redeemed
  BY DEF OpenSession, At, codeVars
<1>3. Shape /\ u \in Users /\ token \in [Tokens -> TokenShape]
  BY <1>0, <1>2 DEF IInv, Shape, RequestShape, StoreShape
<1>4. /\ sessions[u] \in Seq(Tokens) /\ IsInjective(sessions[u])
      /\ Len(sessions[u]) <= MaxSessions /\ Len(sessions[u]) \in Nat
      /\ MaxSessions \in Nat \ {0}
      /\ Range(sessions[u]) \subseteq Tokens
      /\ \A s \in Range(sessions[u]) : token[s].user = u
  BY <1>3, Members, SessionsAssumption DEF RegInv, RegistryShape, RegistryAgrees
<1>5. /\ ~Issued(t) /\ t \notin Range(sessions[u]) /\ t \notin csrf /\ t \notin revoked
  BY <1>1, <1>3, FreshIsNowhere DEF Registered
<1>6. /\ all \in Seq(Tokens) /\ IsInjective(all) /\ Len(all) = Len(sessions[u]) + 1
      /\ Range(all) = Range(sessions[u]) \cup {t} /\ all # <<>>
      /\ sessions[u] # <<>> => Head(all) = Head(sessions[u])
  BY <1>1, <1>4, <1>5, Pushed, AppendProperties
<1>7. \A o \in Calls : call'[o].op = "refresh" => call'[o].user \in Users
  BY <1>2, <1>3, Returned, Records DEF StepsTo, RegInv, RegistryShape
<1>8. /\ token'[t].user = u /\ token'[t].live
      /\ \A s \in Tokens \ {t} :
           /\ ~(Len(all) > MaxSessions /\ s = Head(all)) => token'[s] = token[s]
           /\ token'[s].user = token[s].user /\ token'[s].grant = token[s].grant
           /\ token'[s].live => token[s].live
           /\ Len(all) > MaxSessions /\ s = Head(all) => ~token'[s].live
           /\ Fresh(s) => Fresh(s)'
  <2>1. token'[t] = [user |-> u, live |-> TRUE, grant |-> t]
    BY <1>1
  <2>2. ASSUME NEW s \in Tokens \ {t}
        PROVE  /\ ~(Len(all) > MaxSessions /\ s = Head(all)) => token'[s] = token[s]
               /\ token'[s].user = token[s].user /\ token'[s].grant = token[s].grant
               /\ token'[s].live => token[s].live
               /\ Len(all) > MaxSessions /\ s = Head(all) => ~token'[s].live
               /\ Fresh(s) => Fresh(s)'
    <3>1. token[s] \in TokenShape
      BY <1>3
    <3>2. token'[s] = IF Len(all) > MaxSessions /\ s = Head(all) THEN [token[s] EXCEPT !.live = FALSE] ELSE token[s]
      BY <1>1
    <3>3. [NoToken EXCEPT !.live = FALSE] = NoToken
      BY Spent
    <3>4. QED
      BY <3>1, <3>2, <3>3 DEF TokenShape, Fresh
  <2>3. QED
    BY <2>1, <2>2
<1>9. CASE Len(all) > MaxSessions
  <2>1. sessions[u] # <<>> /\ Len(sessions[u]) = MaxSessions
    <3>1. Len(sessions[u]) = MaxSessions
      BY <1>4, <1>6, <1>9
    <3>2. QED
      BY <1>4, <3>1
  <2>2. PICK old : old = Head(all)
    OBVIOUS
  <2>3. /\ old \in Range(sessions[u]) /\ old # t /\ old \in Tokens
    BY <1>4, <1>5, <1>6, <2>1, <2>2, Shifted
  <2>4. /\ Tail(all) \in Seq(Tokens) /\ IsInjective(Tail(all)) /\ Len(Tail(all)) = MaxSessions
        /\ Range(Tail(all)) = (Range(sessions[u]) \cup {t}) \ {old}
    BY <1>4, <1>6, <2>1, <2>2, Shifted
  <2>5. /\ sessions' = [sessions EXCEPT ![u] = Tail(all)]
        /\ revoked' = revoked \cup {old}
        /\ csrf' = (csrf \cup {t}) \ {old}
    BY <1>1, <1>9, <2>2, <2>3
  <2>6. Issued(old) /\ ~Live(old)' /\ token[old].user = u
    BY <1>3, <1>4, <1>8, <1>9, <2>2, <2>3 DEF Issued, Live
  <2>7. {t} \cap revoked' = {}
    BY <1>5, <2>3, <2>5
  <2>8. PICK new, out : new = {t} /\ out = {old}
    OBVIOUS
  <2>9. /\ new \subseteq Tokens /\ out \subseteq Tokens /\ new \cap revoked' = {}
        /\ Range(Tail(all)) = (Range(sessions[u]) \cup new) \ out
        /\ csrf' = (csrf \cup new) \ out /\ revoked' = revoked \cup out
    BY <1>1, <2>3, <2>4, <2>5, <2>7, <2>8
  <2>10. \A x \in new : Fresh(x) /\ token'[x].user = u
    BY <1>1, <1>8, <2>8
  <2>11. \A x \in out : Issued(x) /\ ~Live(x)' /\ token[x].user = u
    BY <2>6, <2>8
  <2>12. \A s \in Tokens \ new : /\ Fresh(s) => Fresh(s)'
                                 /\ token'[s].user = token[s].user
                                 /\ token'[s].grant = token[s].grant
                                 /\ token'[s].live => token[s].live
    BY <1>8, <2>8
  <2>13. Len(Tail(all)) <= MaxSessions
    BY <1>4, <2>4
  <2>14. ListBecomes(u, Tail(all), new, out)
    BY <2>4, <2>5, <2>9, <2>10, <2>11, <2>12, <2>13 DEF ListBecomes
  <2>15. QED
    BY <1>2, <1>3, <1>7, <2>14, ListChanges
<1>10. CASE ~(Len(all) > MaxSessions)
  <2>1. Len(all) <= MaxSessions
    BY <1>4, <1>6, <1>10
  <2>2. PICK new, out : new = {t} /\ out = {}
    OBVIOUS
  <2>3. /\ sessions' = [sessions EXCEPT ![u] = all]
        /\ new \subseteq Tokens /\ out \subseteq Tokens
        /\ Range(all) = (Range(sessions[u]) \cup new) \ out
        /\ csrf' = (csrf \cup new) \ out /\ revoked' = revoked \cup out
        /\ new \cap revoked' = {}
    BY <1>1, <1>5, <1>6, <1>10, <2>2
  <2>4. /\ \A x \in new : Fresh(x) /\ token'[x].user = u
        /\ \A x \in out : Issued(x) /\ ~Live(x)' /\ token[x].user = u
    BY <1>1, <1>8, <2>2
  <2>5. \A s \in Tokens \ new : /\ Fresh(s) => Fresh(s)'
                                /\ token'[s].user = token[s].user
                                /\ token'[s].grant = token[s].grant
                                /\ token'[s].live => token[s].live
    BY <1>8, <2>2
  <2>6. ListBecomes(u, all, new, out)
    BY <1>6, <2>1, <2>3, <2>4, <2>5 DEF ListBecomes
  <2>7. QED
    BY <1>2, <1>3, <1>7, <2>6, ListChanges
<1>11. QED
  BY <1>9, <1>10

LEMMA RevokeRegisters ==
  ASSUME IInv, RegInv, NEW old \in Tokens, Revoke(old)
  PROVE  RegInv'
<1>0. PICK u : u = token[old].user
  OBVIOUS
<1>1. /\ ~Fresh(old)
      /\ token' = [token EXCEPT ![old] = [token[old] EXCEPT !.live = FALSE]]
      /\ revoked' = revoked \cup {old} /\ csrf' = csrf \ {old}
      /\ IF old \in Range(sessions[u])
         THEN \E idx \in DOMAIN sessions[u] :
                /\ sessions[u][idx] = old
                /\ sessions' = [sessions EXCEPT ![u] = RemoveAt(sessions[u], idx)]
         ELSE UNCHANGED sessions
      /\ UNCHANGED <<redeemed, call>>
  BY <1>0 DEF Revoke, codeVars
<1>2. Shape /\ token \in [Tokens -> TokenShape] /\ token[old] \in TokenShape
  BY DEF IInv, Shape, StoreShape
<1>3. u \in Users /\ Issued(old)
  BY <1>0, <1>1 DEF RegInv, RegistryShape, Issued
<1>4. /\ sessions \in [Users -> Seq(Tokens)]
      /\ sessions[u] \in Seq(Tokens) /\ IsInjective(sessions[u])
      /\ Len(sessions[u]) <= MaxSessions /\ Len(sessions[u]) \in Nat
      /\ MaxSessions \in Nat \ {0}
  BY <1>3, SessionsAssumption DEF RegInv, RegistryShape, RegistryAgrees
<1>5. PICK q \in Seq(Tokens) :
        /\ sessions' = [sessions EXCEPT ![u] = q]
        /\ IsInjective(q) /\ Len(q) <= MaxSessions
        /\ Range(q) = (Range(sessions[u]) \cup {}) \ {old}
  <2>1. CASE old \in Range(sessions[u])
    <3>1. PICK idx \in DOMAIN sessions[u] :
            /\ sessions[u][idx] = old
            /\ sessions' = [sessions EXCEPT ![u] = RemoveAt(sessions[u], idx)]
      BY <1>1, <2>1
    <3>2. /\ RemoveAt(sessions[u], idx) \in Seq(Tokens) /\ IsInjective(RemoveAt(sessions[u], idx))
          /\ Len(RemoveAt(sessions[u], idx)) = Len(sessions[u]) - 1
          /\ Range(RemoveAt(sessions[u], idx)) = Range(sessions[u]) \ {old}
      BY <1>4, <3>1, Spliced
    <3>3. Len(RemoveAt(sessions[u], idx)) <= MaxSessions
      BY <1>4, <3>2
    <3>4. QED
      BY <3>1, <3>2, <3>3
  <2>2. CASE old \notin Range(sessions[u])
    <3>1. sessions' = [sessions EXCEPT ![u] = sessions[u]]
      BY <1>1, <1>4, <2>2
    <3>2. QED
      BY <1>4, <2>2, <3>1
  <2>3. QED
    BY <2>1, <2>2
<1>6. /\ ~token'[old].live
      /\ \A s \in Tokens : /\ token'[s].user = token[s].user /\ token'[s].grant = token[s].grant
                           /\ token'[s].live => token[s].live
                           /\ Fresh(s) => Fresh(s)'
  BY <1>1, <1>2 DEF TokenShape, Fresh
<1>7. csrf' = (csrf \cup {}) \ {old} /\ {} \cap revoked' = {}
  BY <1>1
<1>8. \A o \in Calls : call'[o].op = "refresh" => call'[o].user \in Users
  BY <1>1 DEF RegInv, RegistryShape
<1>9. PICK new, out : new = {} /\ out = {old}
  OBVIOUS
<1>10. /\ new \subseteq Tokens /\ out \subseteq Tokens /\ new \cap revoked' = {}
       /\ Range(q) = (Range(sessions[u]) \cup new) \ out
       /\ csrf' = (csrf \cup new) \ out /\ revoked' = revoked \cup out
  BY <1>1, <1>5, <1>7, <1>9
<1>11. /\ \A x \in new : Fresh(x) /\ token'[x].user = u
       /\ \A x \in out : Issued(x) /\ ~Live(x)' /\ token[x].user = u
  BY <1>0, <1>3, <1>6, <1>9 DEF Live
<1>12. \A s \in Tokens \ new :
         /\ Fresh(s) => Fresh(s)'
         /\ token'[s].user = token[s].user /\ token'[s].grant = token[s].grant
         /\ token'[s].live => token[s].live
  BY <1>6
<1>13. ListBecomes(u, q, new, out)
  BY <1>5, <1>10, <1>11, <1>12 DEF ListBecomes
<1>14. QED
  BY <1>1, <1>3, <1>8, <1>13, ListChanges

LEMMA SpendTokenRegisters ==
  ASSUME IInv, RegInv, NEW c \in Calls, NEW t \in Tokens, SpendToken(c, t)
  PROVE  RegInv'
<1>0. PICK next : next = [op |-> "refresh", step |-> "user", user |-> token[t].user,
                          grant |-> token[t].grant, code |-> None]
  OBVIOUS
<1>1. /\ Live(t)
      /\ token' = [token EXCEPT ![t] = [token[t] EXCEPT !.live = FALSE]]
      /\ call' = [call EXCEPT ![c] = next]
      /\ UNCHANGED <<sessions, revoked, csrf, redeemed>>
  BY <1>0 DEF SpendToken, codeVars
<1>2. /\ Shape /\ token \in [Tokens -> TokenShape] /\ token[t] \in TokenShape
      /\ call \in [Calls -> CallShape]
  BY DEF IInv, Shape, RequestShape, StoreShape
<1>3. ~Fresh(t) /\ next.user \in Users
  BY <1>0, <1>1, Records DEF Fresh, Live, RegInv, RegistryShape, Issued
<1>4. \A s \in Tokens : /\ token'[s].user = token[s].user /\ token'[s].grant = token[s].grant
                        /\ token'[s].live => token[s].live
                        /\ Fresh(s) => Fresh(s)'
  BY <1>1, <1>2, <1>3 DEF TokenShape, Fresh
<1>5. \A o \in Calls : call'[o].op = "refresh" => call'[o].user \in Users
  BY <1>1, <1>2, <1>3 DEF RegInv, RegistryShape
<1>6. QED
  BY <1>1, <1>4, <1>5, RegistryKept

LEMMA IssueNextRegisters ==
  ASSUME IInv, RegInv, NEW c \in Calls, IssueNext(c)
  PROVE  RegInv'
<1>0. PICK u, g : u = call[c].user /\ g = call[c].grant
  OBVIOUS
<1>1. PICK t \in Tokens :
        /\ Fresh(t)
        /\ token' = [token EXCEPT ![t] = [user |-> u, live |-> TRUE, grant |-> g]]
  BY <1>0 DEF IssueNext, Issue
<1>2. /\ call[c].op = "refresh" /\ Return(c)
      /\ UNCHANGED <<sessions, revoked, csrf, redeemed>>
  BY DEF IssueNext, At, codeVars
<1>3. Shape /\ token \in [Tokens -> TokenShape] /\ u \in Users
  BY <1>0, <1>2 DEF IInv, Shape, StoreShape, RegInv, RegistryShape
<1>4. g # t
  BY <1>0, <1>1, <1>2, <1>3, Unused DEF IInv, Renewing
<1>5. /\ token'[t].user = u /\ token'[t].grant = g
      /\ \A s \in Tokens \ {t} : token'[s] = token[s]
  BY <1>1, <1>3
<1>6. \A o \in Calls : call'[o].op = "refresh" => call'[o].user \in Users
  BY <1>2, <1>3, Returned, Records DEF StepsTo, RegInv, RegistryShape
<1>7. QED
  BY <1>1, <1>2, <1>3, <1>4, <1>5, <1>6, IssuedOutside

LEMMA IssueToDeviceRegisters ==
  ASSUME IInv, RegInv, NEW c \in Calls, IssueToDevice(c)
  PROVE  RegInv'
<1>0. PICK u, d : u = call[c].user /\ d = call[c].code
  OBVIOUS
<1>1. PICK t \in Tokens :
        /\ Fresh(t)
        /\ token' = [token EXCEPT ![t] = [user |-> u, live |-> TRUE, grant |-> t]]
        /\ redeemed' = [redeemed EXCEPT ![d] = redeemed[d] \cup {t}]
  BY <1>0 DEF IssueToDevice, Issue
<1>2. /\ call[c].op = "poll" /\ Return(c)
      /\ UNCHANGED <<sessions, revoked, csrf>>
  BY DEF IssueToDevice, At
<1>3. /\ Shape /\ token \in [Tokens -> TokenShape] /\ redeemed \in [Codes -> SUBSET Tokens]
      /\ u \in Users /\ d \in Codes
  BY <1>0, <1>2 DEF IInv, Shape, RequestShape, StoreShape
<1>4. /\ token'[t].user = u
      /\ \A s \in Tokens \ {t} : token'[s] = token[s]
      /\ t \in redeemed'[d]
      /\ \A e \in Codes : redeemed[e] \subseteq redeemed'[e]
  BY <1>1, <1>3
<1>5. \A o \in Calls : call'[o].op = "refresh" => call'[o].user \in Users
  BY <1>2, <1>3, Returned, Records DEF StepsTo, RegInv, RegistryShape
<1>6. QED
  BY <1>1, <1>2, <1>3, <1>4, <1>5, IssuedOutside

(* Any other step leaves the tokens and the maps as they are.                *)
LEMMA OthersRegister ==
  ASSUME IInv, RegInv, UNCHANGED <<token, sessions, revoked, csrf, redeemed>>,
         \/ UNCHANGED call
         \/ \E c \in Calls : \/ Return(c) \/ \E step \in Steps : Goto(c, step)
                             \/ /\ \A o \in Calls \ {c} : call'[o] = call[o]
                                /\ call'[c].op # "refresh"
  PROVE  RegInv'
<1>1. \A o \in Calls : call'[o].op = "refresh" => call'[o].user \in Users
  <2>1. ASSUME NEW c \in Calls, Return(c) \/ \E step \in Steps : Goto(c, step)
        PROVE  \A o \in Calls : call'[o].op = "refresh" => call'[o].user \in Users
    BY <2>1, GoingOn, Records DEF IInv, GoesOn, RegInv, RegistryShape
  <2>2. QED
    BY <2>1 DEF RegInv, RegistryShape
<1>2. \A t \in Tokens : Fresh(t) => Fresh(t)'
  BY DEF Fresh
<1>3. QED
  BY <1>1, <1>2, RegistryKept

LEMMA CallStepRegisters ==
  ASSUME IInv, RegInv, NEW c \in Calls, CallStep(c)
  PROVE  RegInv'
<1>0. /\ call \in [Calls -> CallShape]
      /\ {"mayLock", "lock", "roles"} \subseteq Steps
  BY DEF IInv, Shape, RequestShape, Steps
<1>1. ASSUME NEW u \in Users, LoginFound(c, u) PROVE RegInv'
  BY <1>0, <1>1, OthersRegister DEF LoginFound, Start, tokenVars, codeVars
<1>2. CASE LoginWrong(c)
  BY <1>0, <1>2, OthersRegister DEF LoginWrong, tokenVars, codeVars
<1>3. CASE LockUnlessSuper(c)
  BY <1>0, <1>3, OthersRegister DEF LockUnlessSuper, tokenVars, codeVars
<1>4. CASE Lock(c)
  BY <1>4, OthersRegister DEF Lock, tokenVars, codeVars
<1>5. CASE LoginRight(c)
  BY <1>0, <1>5, OthersRegister DEF LoginRight, tokenVars, codeVars
<1>6. CASE RefreshUser(c)
  BY <1>0, <1>6, OthersRegister DEF RefreshUser, tokenVars, codeVars
<1>7. ASSUME NEW d \in Codes, PollApproved(c, d) PROVE RegInv'
  BY <1>0, <1>7, OthersRegister DEF PollApproved, tokenVars
<1>8. ASSUME NEW u \in Users, NEW s \in Statuses, SetStatus(c, u, s) PROVE RegInv'
  BY <1>0, <1>8, OthersRegister DEF SetStatus, Start, tokenVars, codeVars
<1>9. CASE ResetFails(c)
  BY <1>9, OthersRegister DEF ResetFails, tokenVars, codeVars
<1>10. CASE CallFails(c)
  BY <1>10, OthersRegister DEF CallFails, tokenVars, codeVars
<1>11. QED
  BY <1>1, <1>2, <1>3, <1>4, <1>5, <1>6, <1>7, <1>8, <1>9, <1>10, OpenSessionRegisters,
     SpendTokenRegisters, IssueNextRegisters, IssueToDeviceRegisters DEF CallStep

(* At the start, and after a restart, there are no tokens. *)
LEMMA EmptyRegistry ==
  ASSUME token = [t \in Tokens |-> NoToken], sessions = [u \in Users |-> <<>>],
         revoked = {}, csrf = {}, \A c \in Calls : call[c] = Idle
  PROVE  RegInv
<1>1. \A t \in Tokens : Fresh(t) /\ ~Live(t)
  BY Records DEF Fresh, Live
<1>2. \A u \in Users : sessions[u] = <<>> /\ Range(sessions[u]) = {} /\ Len(sessions[u]) = 0
  BY DEF Range
<1>3. RegistryShape
  BY <1>1, Records DEF RegistryShape
<1>4. RegistryAgrees
  BY <1>1, <1>2, SessionsAssumption DEF RegistryAgrees, IsInjective
<1>5. QED
  BY <1>3, <1>4 DEF RegInv

LEMMA InitReg == Init => RegInv
BY EmptyRegistry DEF Init

LEMMA RestartRegisters == Restart => RegInv'
<1> SUFFICES ASSUME Restart PROVE RegInv'
  OBVIOUS
<1>1. \A t \in Tokens : Fresh(t)' /\ ~Live(t)'
  BY Records DEF Restart, Fresh, Live
<1>2. \A u \in Users : sessions'[u] = <<>> /\ Range(sessions'[u]) = {} /\ Len(sessions'[u]) = 0
  BY DEF Restart, Range
<1>3. RegistryShape'
  BY <1>1, Records DEF Restart, RegistryShape
<1>4. RegistryAgrees'
  BY <1>1, <1>2, SessionsAssumption DEF Restart, RegistryAgrees, IsInjective
<1>5. QED
  BY <1>3, <1>4 DEF RegInv

LEMMA NextReg == IInv /\ RegInv /\ [Next]_vars => RegInv'
<1> SUFFICES ASSUME IInv, RegInv, [Next]_vars PROVE RegInv'
  OBVIOUS
<1>1. ASSUME NEW d \in Codes,
             RequestCode(d) \/ ExpireCode(d) \/ \E u \in Users : AuthorizeDevice(d, u)
      PROVE  RegInv'
  BY <1>1, OthersRegister DEF RequestCode, ExpireCode, AuthorizeDevice, tokenVars
<1>2. ASSUME NEW u \in Users, NEW s \in Statuses, ScimStatus(u, s) PROVE RegInv'
  BY <1>2, OthersRegister DEF ScimStatus, tokenVars, codeVars
<1>3. CASE TransferSuperAdmin
  BY <1>3, OthersRegister DEF TransferSuperAdmin, tokenVars, codeVars
<1>4. CASE UNCHANGED vars
  BY <1>4, OthersRegister DEF vars, accountVars, tokenVars, codeVars
<1>5. QED
  BY <1>1, <1>2, <1>3, <1>4, CallStepRegisters, RevokeRegisters, RestartRegisters DEF Next

-----------------------------------------------------------------------------
(* The registry of sessions, the CSRF tokens, the revoked tokens and the     *)
(* refresh tokens agree after every login, eviction, renewal, logout and     *)
(* restart, for any number of users and any limit of sessions: the four maps *)
(* that login and /auth/revoke write one after the other (routes/iam.ts).    *)
THEOREM RegistryAlwaysAgrees == Spec => []RegistryAgrees
<1>1. IInv /\ RegInv => RegistryAgrees
  BY DEF RegInv
<1>2. QED
  BY <1>1, InitInv, NextInv, InitReg, NextReg, PTL DEF Spec

(* Of the tokens that stem from one login or one device code one at most is  *)
(* usable, whatever logins, renewals, logouts, evictions and restarts cross; *)
(* and a device code that two polls did not find at once became one grant    *)
(* (routes/iam.ts, routes/device-auth.ts, iam/persistent-token-service.ts).  *)
THEOREM OneLineAlways == Spec => []OneLinePerGrant
<1>1. IInv => OneLinePerGrant
  BY DEF IInv, LineInv, CodeInv, OneLinePerGrant
<1>2. QED
  BY <1>1, InitInv, NextInv, PTL DEF Spec

(* A user at the threshold is locked or is about to be, whatever failed      *)
(* logins, unlocks and the identity provider cross (the lockout in           *)
(* routes/iam.ts).                                                           *)
THEOREM LockedAtThresholdAlways == Spec => []LockedAtThreshold
<1>1. IInv => LockedAtThreshold
  BY DEF IInv
<1>2. QED
  BY <1>1, InitInv, NextInv, PTL DEF Spec

=============================================================================
