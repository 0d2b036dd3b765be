------------------------------ MODULE Sessions ------------------------------
(***************************************************************************)
(* Sign-in: logins with lockout, refresh tokens and their rotation, the    *)
(* registry of active sessions, and the device flow of the DCC plugins.    *)
(*                                                                         *)
(* Users live in a database: a request is a call whose steps are what lies *)
(* between two awaits (a password hash, a query).  Tokens, the registry,   *)
(* the failure counters and the device codes are maps of the process; what *)
(* one step does to them is atomic, and a restart empties them.            *)
(*                                                                         *)
(* Left out: the throttle per email (it only refuses logins), whether      *)
(* credentials exist, access tokens, fingerprints (stored, never read),    *)
(* the expiry of refresh tokens after thirty days (one nobody presents any *)
(* more).  A request that is refused changes nothing and is no action.     *)
(***************************************************************************)
EXTENDS Naturals, SequencesExt

CONSTANTS
  Users,        \* the users followed
  Tokens,       \* refresh tokens that one process can issue (bound)
  Codes,        \* device codes
  Calls,        \* requests under way at a time
  MaxSessions,  \* MAX_SESSIONS_PER_USER
  Threshold,    \* LOCKOUT_THRESHOLD; the counter is not counted beyond
  None

ASSUME SessionsAssumption ==
  /\ MaxSessions \in Nat \ {0}
  /\ Threshold \in Nat \ {0}
  /\ None \notin Users \cup Tokens \cup Codes

VARIABLES
  status,      \* iam_users.status
  superAdmins, \* users whose global role is super_admin
  excused,     \* history: users who were spared, or whose lock or reset went wrong
  fails,       \* lockoutCounter
  token,       \* refreshTokenStore
  sessions,    \* activeSessions: the tokens a user got by logging in, oldest first
  revoked,     \* revokedSessions
  csrf,        \* tokens with a CSRF token
  code,        \* deviceCodeStore
  redeemed,    \* history: grants a device code was exchanged for
  contended,   \* history: codes that two polls had found approved at once
  call

accountVars == <<status, superAdmins, excused>>
tokenVars == <<token, sessions, revoked, csrf>>
codeVars == <<code, redeemed, contended>>
vars == <<accountVars, fails, tokenVars, codeVars, call>>

(* A token stems from a grant, a login or a device code, and is named after  *)
(* the grant's first token; the store has no such field.                     *)
Statuses == {"active", "locked"}   \* disabled is as good as locked

NoToken == [user |-> None, live |-> FALSE, grant |-> None]
NoCode == [status |-> "none", user |-> None]
Idle == [op |-> "idle", step |-> "none", user |-> None, grant |-> None, code |-> None]

SuperAdminSets == {{}} \cup {{u} : u \in Users}

Fresh(t) == token[t] = NoToken
Live(t) == token[t].live

Init ==
  /\ status = [u \in Users |-> "active"]
  /\ superAdmins \in SuperAdminSets
  /\ excused = {}
  /\ fails = [u \in Users |-> 0]
  /\ token = [t \in Tokens |-> NoToken]
  /\ sessions = [u \in Users |-> <<>>]
  /\ revoked = {}
  /\ csrf = {}
  /\ code = [d \in Codes |-> NoCode]
  /\ redeemed = [d \in Codes |-> {}]
  /\ contended = {}
  /\ call = [c \in Calls |-> Idle]

Start(c, op, step, u) ==
  /\ call[c] = Idle
  /\ call' = [call EXCEPT ![c] = [op |-> op, step |-> step, user |-> u,
                                   grant |-> None, code |-> None]]

At(c, op, step) == call[c].op = op /\ call[c].step = step
Goto(c, step) == call' = [call EXCEPT ![c] = [@ EXCEPT !.step = step]]
Return(c) == call' = [call EXCEPT ![c] = Idle]

-----------------------------------------------------------------------------
(* POST /auth/login.  The user is found, and is active. *)
LoginFound(c, u) ==
  /\ status[u] = "active"
  /\ Start(c, "login", "verify", u)
  /\ UNCHANGED <<accountVars, fails, tokenVars, codeVars>>

(* Mutant: the lock comes one failure late. *)
LockLate(c) ==
  /\ At(c, "login", "verify")
  /\ LET u == call[c].user
         count == fails[u] + 1
     IN /\ fails' = [fails EXCEPT ![u] = IF count > Threshold THEN Threshold ELSE count]
        /\ IF count > Threshold THEN Goto(c, "mayLock") ELSE Return(c)
  /\ UNCHANGED <<accountVars, tokenVars, codeVars>>

(* bcrypt says no: the counter goes up, at the threshold the role is read. *)
LoginWrong(c) ==
  /\ At(c, "login", "verify")
  /\ LET u == call[c].user
         count == fails[u] + 1
     IN /\ fails' = [fails EXCEPT ![u] = IF count > Threshold THEN Threshold ELSE count]
        /\ IF count >= Threshold THEN Goto(c, "mayLock") ELSE Return(c)
  /\ UNCHANGED <<accountVars, tokenVars, codeVars>>

(* getGlobalRole has answered: super admins are not locked. *)
LockUnlessSuper(c) ==
  /\ At(c, "login", "mayLock")
  /\ LET u == call[c].user
     IN IF u \in superAdmins
        THEN /\ Return(c)
             /\ excused' = excused \cup {u}
        ELSE /\ Goto(c, "lock")
             /\ UNCHANGED excused
  /\ UNCHANGED <<status, superAdmins, fails, tokenVars, codeVars>>

Lock(c) ==
  /\ At(c, "login", "lock")
  /\ status' = [status EXCEPT ![call[c].user] = "locked"]
  /\ Return(c)
  /\ UNCHANGED <<superAdmins, excused, fails, tokenVars, codeVars>>

LoginRight(c) ==
  /\ At(c, "login", "verify")
  /\ fails' = [fails EXCEPT ![call[c].user] = 0]
  /\ Goto(c, "roles")
  /\ UNCHANGED <<accountVars, tokenVars, codeVars>>

(* Mutant: the oldest session falls out of the registry and stays usable. *)
OpenAndForget(c) ==
  /\ At(c, "login", "roles")
  /\ \E t \in Tokens :
       LET u == call[c].user
           all == Append(sessions[u], t)
           over == Len(all) > MaxSessions
       IN /\ Fresh(t)
          /\ token' = [token EXCEPT ![t] = [user |-> u, live |-> TRUE, grant |-> t]]
          /\ sessions' = [sessions EXCEPT ![u] = IF over THEN Tail(all) ELSE all]
          /\ csrf' = (IF over THEN csrf \ {Head(all)} ELSE csrf) \cup {t}
  /\ Return(c)
  /\ UNCHANGED <<accountVars, fails, revoked, codeVars>>

(* The new session is entered; of too many the oldest is revoked. *)
OpenSession(c) ==
  /\ At(c, "login", "roles")
  /\ \E t \in Tokens :
       LET u == call[c].user
           all == Append(sessions[u], t)
           over == Len(all) > MaxSessions
           oldest == Head(all)
       IN /\ Fresh(t)
          /\ token' = [s \in Tokens |->
               IF s = t THEN [user |-> u, live |-> TRUE, grant |-> t]
               ELSE IF over /\ s = oldest THEN [token[s] EXCEPT !.live = FALSE] ELSE token[s]]
          /\ sessions' = [sessions EXCEPT ![u] = IF over THEN Tail(all) ELSE all]
          /\ revoked' = IF over THEN revoked \cup {oldest} ELSE revoked
          /\ csrf' = (IF over THEN csrf \ {oldest} ELSE csrf) \cup {t}
  /\ Return(c)
  /\ UNCHANGED <<accountVars, fails, codeVars>>

-----------------------------------------------------------------------------
(* Mutant: the token is looked up, and spent by nobody. *)
PresentToken(c, t) ==
  /\ Live(t)
  /\ call[c] = Idle
  /\ call' = [call EXCEPT ![c] = [op |-> "refresh", step |-> "user", user |-> token[t].user,
                                   grant |-> token[t].grant, code |-> None]]
  /\ UNCHANGED <<accountVars, fails, tokenVars, codeVars>>

(* POST /auth/refresh, GET /auth/token: the token is spent before the first  *)
(* await, the next one is issued after the last.                             *)
SpendToken(c, t) ==
  /\ Live(t)
  /\ call[c] = Idle
  /\ token' = [token EXCEPT ![t] = [@ EXCEPT !.live = FALSE]]
  /\ call' = [call EXCEPT ![c] = [op |-> "refresh", step |-> "user", user |-> token[t].user,
                                   grant |-> token[t].grant, code |-> None]]
  /\ UNCHANGED <<accountVars, fails, sessions, revoked, csrf, codeVars>>

RefreshUser(c) ==
  /\ At(c, "refresh", "user")
  /\ IF status[call[c].user] = "active" THEN Goto(c, "roles") ELSE Return(c)
  /\ UNCHANGED <<accountVars, fails, tokenVars, codeVars>>

Issue(t, u, grant) ==
  /\ Fresh(t)
  /\ token' = [token EXCEPT ![t] = [user |-> u, live |-> TRUE, grant |-> grant]]

IssueNext(c) ==
  /\ At(c, "refresh", "roles")
  /\ \E t \in Tokens : Issue(t, call[c].user, call[c].grant)
  /\ Return(c)
  /\ UNCHANGED <<accountVars, fails, sessions, revoked, csrf, codeVars>>

(* POST /auth/revoke *)
Revoke(t) ==
  /\ ~Fresh(t)
  /\ token' = [token EXCEPT ![t] = [@ EXCEPT !.live = FALSE]]
  /\ revoked' = revoked \cup {t}
  /\ csrf' = csrf \ {t}
  /\ LET u == token[t].user IN
       IF t \in Range(sessions[u])
       THEN \E idx \in DOMAIN sessions[u] :
              /\ sessions[u][idx] = t /\ \A k \in 1 .. idx - 1 : sessions[u][k] # t
              /\ sessions' = [sessions EXCEPT ![u] = RemoveAt(@, idx)]
       ELSE UNCHANGED sessions
  /\ UNCHANGED <<accountVars, fails, codeVars, call>>

-----------------------------------------------------------------------------
(* Device flow: a code is requested, approved by a user in a browser, and    *)
(* polled by the plugin.  An expired code is dropped by the poll that finds  *)
(* it, or by the timer.                                                      *)
RequestCode(d) ==
  /\ code[d].status = "none"
  /\ code' = [code EXCEPT ![d] = [@ EXCEPT !.status = "pending"]]
  /\ UNCHANGED <<accountVars, fails, tokenVars, redeemed, contended, call>>

AuthorizeDevice(d, u) ==
  /\ code[d].status = "pending"
  /\ code' = [code EXCEPT ![d] = [status |-> "approved", user |-> u]]
  /\ UNCHANGED <<accountVars, fails, tokenVars, redeemed, contended, call>>

ExpireCode(d) ==
  /\ code[d].status \in {"pending", "approved"}
  /\ code' = [code EXCEPT ![d] = [status |-> "gone", user |-> None]]
  /\ UNCHANGED <<accountVars, fails, tokenVars, redeemed, contended, call>>

PollApproved(c, d) ==
  /\ code[d].status = "approved"
  /\ call[c] = Idle
  /\ call' = [call EXCEPT ![c] = [op |-> "poll", step |-> "roles", user |-> code[d].user,
                                   grant |-> None, code |-> d]]
  /\ contended' = IF \E o \in Calls : call[o].code = d THEN contended \cup {d} ELSE contended
  /\ UNCHANGED <<accountVars, fails, tokenVars, code, redeemed>>

IssueToDevice(c) ==
  /\ At(c, "poll", "roles")
  /\ \E t \in Tokens :
       /\ Issue(t, call[c].user, t)
       /\ redeemed' = [redeemed EXCEPT ![call[c].code] = @ \cup {t}]
  /\ code' = [code EXCEPT ![call[c].code] = [status |-> "gone", user |-> None]]
  /\ Return(c)
  /\ UNCHANGED <<accountVars, fails, sessions, revoked, csrf, contended>>

-----------------------------------------------------------------------------
(* PUT /users/:id/status; one that is made active has its counter reset once *)
(* its row was read again.                                                   *)
SetStatus(c, u, s) ==
  /\ s # status[u]
  /\ status' = [status EXCEPT ![u] = s]
  /\ IF s = "active" THEN Start(c, "unlock", "reset", u)
     ELSE call[c] = Idle /\ UNCHANGED call
  /\ UNCHANGED <<superAdmins, excused, fails, tokenVars, codeVars>>

ResetFails(c) ==
  /\ At(c, "unlock", "reset")
  /\ fails' = [fails EXCEPT ![call[c].user] = 0]
  /\ Return(c)
  /\ UNCHANGED <<accountVars, tokenVars, codeVars>>

(* PUT and PATCH of /scim/v2/Users: the counter stays where it is. *)
ScimStatus(u, s) ==
  /\ s # status[u]
  /\ status' = [status EXCEPT ![u] = s]
  /\ excused' = IF s = "active" THEN excused \cup {u} ELSE excused
  /\ UNCHANGED <<superAdmins, fails, tokenVars, codeVars, call>>

(* A transfer of the super_admin role to or from one of Users; Accounts has   *)
(* its statements.                                                           *)
TransferSuperAdmin ==
  /\ superAdmins' \in SuperAdminSets \ {superAdmins}
  /\ UNCHANGED <<status, excused, fails, tokenVars, codeVars, call>>

(* A query throws, and the request with it. *)
AboutToSettle(c) == call[c].step \in {"mayLock", "lock", "reset"}

CallFails(c) ==
  /\ call[c] # Idle
  /\ excused' = IF AboutToSettle(c) THEN excused \cup {call[c].user} ELSE excused
  /\ Return(c)
  /\ UNCHANGED <<status, superAdmins, fails, tokenVars, codeVars>>

Restart ==
  /\ fails' = [u \in Users |-> 0]
  /\ token' = [t \in Tokens |-> NoToken]
  /\ sessions' = [u \in Users |-> <<>>]
  /\ revoked' = {} /\ csrf' = {}
  /\ code' = [d \in Codes |-> NoCode]
  /\ redeemed' = [d \in Codes |-> {}]
  /\ contended' = {}
  /\ call' = [c \in Calls |-> Idle]
  /\ UNCHANGED accountVars

CallStep(c) ==
  \/ \E u \in Users : LoginFound(c, u)
  \/ LoginWrong(c) \/ LockUnlessSuper(c) \/ Lock(c) \/ LoginRight(c) \/ OpenSession(c)
  \/ \E t \in Tokens : SpendToken(c, t)
  \/ RefreshUser(c) \/ IssueNext(c)
  \/ \E d \in Codes : PollApproved(c, d)
  \/ IssueToDevice(c)
  \/ \E u \in Users, s \in Statuses : SetStatus(c, u, s)
  \/ ResetFails(c) \/ CallFails(c)

Next ==
  \/ \E c \in Calls : CallStep(c)
  \/ \E t \in Tokens : Revoke(t)
  \/ \E d \in Codes : RequestCode(d) \/ ExpireCode(d) \/ \E u \in Users : AuthorizeDevice(d, u)
  \/ \E u \in Users, s \in Statuses : ScimStatus(u, s)
  \/ TransferSuperAdmin
  \/ Restart

Spec == Init /\ [][Next]_vars

-----------------------------------------------------------------------------
Ops == {"idle", "login", "refresh", "poll", "unlock"}
Steps == {"none", "verify", "mayLock", "lock", "roles", "user", "reset"}

TypeOK ==
  /\ status \in [Users -> Statuses]
  /\ superAdmins \subseteq Users /\ excused \subseteq Users
  /\ fails \in [Users -> 0..Threshold]
  /\ token \in [Tokens -> [user : Users \cup {None}, live : BOOLEAN,
                           grant : Tokens \cup {None}]]
  /\ sessions \in [Users -> Seq(Tokens)]
  /\ revoked \subseteq Tokens /\ csrf \subseteq Tokens
  /\ code \in [Codes -> [status : {"none", "pending", "approved", "gone"},
                         user : Users \cup {None}]]
  /\ redeemed \in [Codes -> SUBSET Tokens] /\ contended \subseteq Codes
  /\ call \in [Calls -> [op : Ops, step : Steps, user : Users \cup {None},
                         grant : Tokens \cup {None}, code : Codes \cup {None}]]

(* The four maps a login touches agree whatever order logins, evictions,     *)
(* refreshes and logouts come in: the registry holds at most MaxSessions     *)
(* tokens of a user, each once; a token has its CSRF token exactly while it  *)
(* is registered; none that was revoked is still registered or usable; and a *)
(* login's own token, as long as it is usable, is in the registry.           *)
RegistryAgrees ==
  /\ \A u \in Users :
       /\ Len(sessions[u]) <= MaxSessions
       /\ IsInjective(sessions[u])
       /\ \A t \in Range(sessions[u]) : token[t].user = u
  /\ csrf = UNION {Range(sessions[u]) : u \in Users}
  /\ revoked \cap csrf = {}
  /\ \A t \in revoked : ~Live(t)
  /\ \A t \in Tokens :
       Live(t) /\ token[t].grant = t /\ (\A d \in Codes : t \notin redeemed[d]) => t \in csrf

(* Rotation: a grant goes on along one line.  Of the tokens that stem from   *)
(* one login or one device code at most one is usable, or one request is     *)
(* about to issue the next, and never both.  And a device code becomes one   *)
(* grant, unless two polls have found it approved at once: "Clean up device  *)
(* code after successful token issuance".                                    *)
Renewing(c, g) == call[c].op = "refresh" /\ call[c].grant = g

GrantsGoOn ==
  \A g \in Tokens :
    /\ \A s, t \in Tokens :
         Live(s) /\ Live(t) /\ token[s].grant = g /\ token[t].grant = g => s = t
    /\ \A c, o \in Calls : Renewing(c, g) /\ Renewing(o, g) => c = o
    /\ \A c \in Calls, t \in Tokens : Renewing(c, g) /\ token[t].grant = g => ~Live(t)

OneGrantPerCode == \A d \in Codes \ contended : \A s, t \in redeemed[d] : s = t

OneLinePerGrant == GrantsGoOn /\ OneGrantPerCode

(* "Account lockout after LOCKOUT_THRESHOLD consecutive failures", whatever   *)
(* logins and administrators cross: a user whose counter stands at the       *)
(* threshold is locked, or a request is about to lock it or to reset the     *)
(* counter.  Excused are those found to be super admin, those whose request  *)
(* threw on the way, and those whom the identity provider activated.         *)
LockedAtThreshold ==
  \A u \in Users \ excused :
    fails[u] = Threshold =>
      status[u] = "locked" \/ \E c \in Calls : AboutToSettle(c) /\ call[c].user = u
=============================================================================
