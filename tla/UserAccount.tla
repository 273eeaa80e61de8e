----------------------------- MODULE UserAccount -----------------------------
(***************************************************************************)
(* AuthService's transactions on one account: the users row, the account's *)
(* refresh_tokens rows and the row locks of PostgreSQL between them.  Each *)
(* request runs once.  A transaction's writes appear when it commits; what *)
(* it holds until then is its locks: SELECT ... FOR UPDATE on the users    *)
(* row, the tokens an UPDATE or a rotation has reached, and the shared key *)
(* lock by which an inserted token refers to its user.                     *)
(*                                                                         *)
(* forgotPassword alone takes no lock: it saves an entity it read earlier, *)
(* and save writes the columns in which that entity differs from the row   *)
(* it finds (Load), or inserts it when it finds none.                      *)
(*                                                                         *)
(* The Redis sessions these requests also clear are AuthSessions' subject. *)
(***************************************************************************)
EXTENDS AccountLedger, FiniteSets

CONSTANTS Requests,  \* 1 .. n, in the order in which they start
          OldLink,   \* a link mailed before the behaviour starts
          OldTokens  \* bound: tokens issued before it starts

Tokens == 1 .. OldTokens + Cardinality(Requests)

ASSUME AccountAssumption ==
    /\ IsFiniteSet(Requests)
    /\ Requests \subseteq Nat
    /\ Links = Requests \cup {OldLink}
    /\ OldTokens \in Nat

VARIABLES req,      \* what each request is doing
          userLock, \* the request that holds FOR UPDATE on the users row
          live,     \* refresh_tokens rows with isActive
          issued,   \* how many tokens were inserted
          chain,    \* history: sweeps when a token's login inserted it
          sweeps,   \* history: commits that revoked every token
          mailed    \* links that have been mailed

tokenVars == <<live, issued, chain, sweeps>>
vars == <<row, now, req, userLock, tokenVars, mailed>>

Nobody == 0

Sweepers == {"change", "reset", "softDelete", "remove"}
Ops == Sweepers \cup {"none", "login", "restore", "forgot", "refresh",
                      "logoutAll", "register"}

Columns == {"password", "failed", "lockedUntil", "link", "linkUntil", "deleted"}
Insert == Columns \cup {"id"}

Pcs == {"ready", "lock", "decide", "update", "commit", "issue", "token",
        "insert", "load", "save", "mail", "clear", "saveClear", "register", "end"}

Idle == [op |-> "none", pc |-> "ready", id |-> 0, guess |-> NoUser.password,
         known |-> NoUser.password, link |-> NoLink, copy |-> NoUser, diff |-> {}, scan |-> {},
         held |-> {}, token |-> 0]

TypeOK ==
    /\ row \in Users
    /\ now \in 0 .. MaxTime
    /\ req \in [Requests ->
           [op : Ops,
            pc : Pcs, id : 0 .. MaxUsers, guess : Passwords, known : Passwords,
            link : Links \cup {NoLink}, copy : Users, diff : SUBSET Insert,
            scan : SUBSET Tokens, held : SUBSET Tokens, token : 0 .. Cardinality(Tokens)]]
    /\ userLock \in Requests \cup {Nobody}
    /\ live \subseteq Tokens
    /\ issued \in 0 .. Cardinality(Tokens)
    /\ chain \in [Tokens -> Nat]
    /\ sweeps \in Nat
    /\ mailed \subseteq Links

(* A forgotPassword that has read a user since purged, or no request at all. *)
ForgotPurged(r) ==
    [Idle EXCEPT !.op = "forgot", !.pc = "load", !.id = 1,
                 !.copy = [NewUser(1, NoUser.password) EXCEPT !.link = r,
                                                              !.linkUntil = LinkTime]]

(* An account that has a link and may have failed attempts, or be deleted. *)
Registered(failed, deleted) ==
    [NewUser(1, NoUser.password) EXCEPT !.link = OldLink, !.linkUntil = LinkTime,
                                        !.failed = failed, !.deleted = deleted]

AllIdle == [r \in Requests |-> Idle]

FirstIsForgotPurged ==
    [r \in Requests |-> IF \A q \in Requests : r <= q THEN ForgotPurged(r) ELSE Idle]

Init ==
    /\ \/ row = NoUser
       \/ \E f \in 0 .. MaxAttempts - 1, d \in BOOLEAN : row = Registered(f, d)
    /\ now = 0
    /\ \/ req = AllIdle
       \/ ~Exists(row) /\ req = FirstIsForgotPurged
    /\ userLock = Nobody
    /\ live = IF Available(row) THEN 1 .. OldTokens ELSE {}
    /\ issued = OldTokens
    /\ chain = [t \in Tokens |-> 0]
    /\ sweeps = 0
    /\ mailed = {OldLink}

-----------------------------------------------------------------------------
(* Locks *)

At(r, pc) == req[r].pc = pc
To(r, pc) == req' = [req EXCEPT ![r].pc = pc]

UserFreeFor(r) == userLock \in {Nobody, r}

TokenFreeFor(r, t) == \A q \in Requests \ {r} : t \notin req[q].held

(* COMMIT or ROLLBACK, or a request that had nothing to give back.         *)
Ended == [Idle EXCEPT !.pc = "end"]
Release(r) == userLock' = IF userLock = r THEN Nobody ELSE userLock
EndKeepingLock(r) == req' = [req EXCEPT ![r] = Ended] /\ UNCHANGED userLock
End(r) == req' = [req EXCEPT ![r] = Ended] /\ Release(r)

Refuse(r) == End(r) /\ UNCHANGED <<row, now, tokenVars, mailed>>

(* An error of the database, a foreign key that refuses, or a crash: the   *)
(* transaction is rolled back.                                             *)
Fail(r) ==
    /\ req[r].pc \notin {"ready", "end"}
    /\ Refuse(r)

-----------------------------------------------------------------------------
(* A request starts *)

Begin(r, request) ==
    /\ At(r, "ready")
    /\ \A q \in Requests : q < r => ~At(q, "ready")
    /\ req' = [req EXCEPT ![r] = request]
    /\ UNCHANGED <<row, now, userLock, tokenVars, mailed>>

Request(op, pc) ==
    [Idle EXCEPT !.op = op, !.pc = pc, !.id = row.id]

StartLogin(r) ==
    \E p \in Passwords : Begin(r, [Request("login", "lock") EXCEPT !.guess = p])

StartChange(r) ==
    /\ Available(row)
    /\ \E p \in Passwords \ {row.password} :
        Begin(r, [Request("change", "lock") EXCEPT !.guess = p, !.known = row.password])

StartReset(r) ==
    \E l \in mailed, p \in Passwords :
        Begin(r, [Request("reset", "lock") EXCEPT !.link = l, !.guess = p])

StartAdmin(r) ==
    /\ Exists(row)
    /\ \E op \in {"softDelete", "restore", "remove"} : Begin(r, Request(op, "lock"))

StartRefresh(r) ==
    \E t \in live : Begin(r, [Request("refresh", "token") EXCEPT !.token = t])

(* UPDATE refresh_tokens: the rows it will visit are those its snapshot    *)
(* shows.                                                                  *)
StartLogoutAll(r) ==
    live # {} /\ Begin(r, [Request("logoutAll", "update") EXCEPT !.scan = live])

(* forgotPassword's and register's findOne                                 *)
StartForgot(r) ==
    /\ Available(row)
    /\ Begin(r, [Request("forgot", "load") EXCEPT !.copy = SetResetToken(row, r)])

StartRegister(r) ==
    /\ ~Exists(row)
    /\ \E p \in Passwords :
        Begin(r, [Request("register", "register") EXCEPT !.guess = p])

-----------------------------------------------------------------------------
(* Transactions that lock the users row *)

(* SELECT ... FOR UPDATE                                                   *)
LockUserWithoutWaiting(r) ==
    /\ At(r, "lock")
    /\ userLock' = r
    /\ req' = [req EXCEPT ![r].pc = "decide", ![r].copy = row]
    /\ UNCHANGED <<row, now, tokenVars, mailed>>

LockUser(r) ==
    /\ At(r, "lock")
    /\ userLock = Nobody
    /\ userLock' = r
    /\ req' = [req EXCEPT ![r].pc = "decide", ![r].copy = row]
    /\ UNCHANGED <<row, now, tokenVars, mailed>>

(* The WHERE clause: the address, the link or the id                       *)
Found(r) ==
    /\ Exists(req[r].copy)
    /\ req[r].op = "reset" => req[r].copy.link = req[r].link
    /\ req[r].op \notin {"login", "reset"} => req[r].copy.id = req[r].id

(* The service's checks between the SELECT and its first write.            *)
Allowed(r) ==
    LET u == req[r].copy
    IN  /\ Found(r)
        /\ CASE req[r].op = "login" -> ~u.deleted /\ ~IsLocked(u)
             [] req[r].op = "change" ->
                   ~u.deleted /\ req[r].known = u.password /\ req[r].guess # u.password
             [] req[r].op = "reset" -> ~u.deleted /\ IsResetTokenValid(u, req[r].link)
             [] req[r].op \in {"restore", "remove"} -> u.deleted
             [] OTHER -> ~u.deleted

RefuseLocked(r) ==
    /\ At(r, "decide")
    /\ ~Allowed(r)
    /\ Refuse(r)

Decide(r) == At(r, "decide") /\ Allowed(r)

(* A transaction of the users row alone: its save and its COMMIT.          *)
Commit(r, u, next) ==
    /\ row' = u
    /\ req' = [req EXCEPT ![r] = next]
    /\ Release(r)
    /\ UNCHANGED <<now, tokenVars, mailed>>

FailLoginCommit(r) ==
    /\ Decide(r)
    /\ req[r].op = "login" /\ req[r].guess # req[r].copy.password
    /\ Commit(r, IncrementFailedAttempts(req[r].copy), Ended)

LoginCommit(r) ==
    /\ Decide(r)
    /\ req[r].op = "login" /\ req[r].guess = req[r].copy.password
    /\ Commit(r, ResetFailedAttempts(req[r].copy), [req[r] EXCEPT !.pc = "issue"])

RestoreCommit(r) ==
    /\ Decide(r)
    /\ req[r].op = "restore"
    /\ Commit(r, Restored(req[r].copy), Ended)

(* login, after its transaction: generateRefreshToken                      *)
InsertToken(birth) ==
    /\ issued' = issued + 1
    /\ chain' = [chain EXCEPT ![issued + 1] = birth]
    /\ UNCHANGED sweeps

LoginIssue(r) ==
    /\ At(r, "issue")
    /\ UserFreeFor(r)
    /\ row.id = req[r].copy.id
    /\ InsertToken(sweeps)
    /\ live' = live \cup {issued + 1}
    /\ End(r)
    /\ UNCHANGED <<row, now, mailed>>

LoginIssueFails(r) ==
    /\ At(r, "issue")
    /\ UserFreeFor(r)
    /\ row.id # req[r].copy.id
    /\ Refuse(r)

(* The users row is written; UPDATE or DELETE of the tokens begins.        *)
SweepBegin(r) ==
    /\ Decide(r)
    /\ req[r].op \in Sweepers
    /\ req' = [req EXCEPT ![r].pc = "update", ![r].scan = live]
    /\ UNCHANGED <<row, now, userLock, tokenVars, mailed>>

(* The next row of the snapshot: locked, or left when it is active no more. *)
SweepNext(r) ==
    /\ At(r, "update")
    /\ req[r].scan # {}
    /\ LET t == CHOOSE t \in req[r].scan : \A o \in req[r].scan : t <= o
       IN  /\ TokenFreeFor(r, t)
           /\ req' = [req EXCEPT ![r].scan = @ \ {t},
                                 ![r].held = IF t \in live THEN @ \cup {t} ELSE @]
    /\ UNCHANGED <<row, now, userLock, tokenVars, mailed>>

AfterUpdateLock(r) == IF req[r].op = "logoutAll" THEN "lock" ELSE "commit"
AfterUpdate(r) == "commit"

SweepDone(r) ==
    /\ At(r, "update")
    /\ req[r].scan = {}
    /\ To(r, AfterUpdate(r))
    /\ UNCHANGED <<row, now, userLock, tokenVars, mailed>>

SweptRow(r) ==
    LET u == req[r].copy
    IN  CASE req[r].op = "change" -> SetPassword(u, req[r].guess)
          [] req[r].op = "reset" -> SetPasswordByLink(u, req[r].guess)
          [] req[r].op = "softDelete" -> SoftDeleted(u)
          [] req[r].op = "remove" -> NoUser

SweepCommit(r) ==
    /\ At(r, "commit")
    /\ req[r].op \in Sweepers
    /\ row' = SweptRow(r)
    /\ live' = live \ req[r].held
    /\ sweeps' = sweeps + 1
    /\ End(r)
    /\ UNCHANGED <<now, issued, chain, mailed>>

LogoutAllCommit(r) ==
    /\ At(r, "commit")
    /\ req[r].op = "logoutAll"
    /\ live' = live \ req[r].held
    /\ End(r)
    /\ UNCHANGED <<row, now, issued, chain, sweeps, mailed>>

-----------------------------------------------------------------------------
(* refreshAccessToken's transaction *)

(* SELECT ... FOR UPDATE OF token: the token is read again once locked.    *)
RotationAllowedStale(r) == Available(row)
RotationAllowed(r) == req[r].token \in live /\ Available(row)

RefreshLock(r) ==
    /\ At(r, "token")
    /\ TokenFreeFor(r, req[r].token)
    /\ RotationAllowed(r)
    /\ req' = [req EXCEPT ![r].pc = "insert", ![r].held = {req[r].token}]
    /\ UNCHANGED <<row, now, userLock, tokenVars, mailed>>

RefreshRefused(r) ==
    /\ At(r, "token")
    /\ TokenFreeFor(r, req[r].token)
    /\ ~RotationAllowed(r)
    /\ Refuse(r)

(* The new token's foreign key waits for the users row.                    *)
RefreshInsert(r) ==
    /\ At(r, "insert")
    /\ UserFreeFor(r)
    /\ row.id = req[r].id
    /\ InsertToken(chain[req[r].token])
    /\ live' = (live \ {req[r].token}) \cup {issued + 1}
    /\ End(r)
    /\ UNCHANGED <<row, now, mailed>>

-----------------------------------------------------------------------------
(* forgotPassword and register *)

(* save reads the row it is about to write, and compares.  Two links never *)
(* expire in the same millisecond, if in the same tick of this clock.      *)
Differs(entity, c) ==
    IF c = "linkUntil" THEN entity.link # row.link ELSE entity[c] # row[c]

Difference(entity) ==
    IF row.id = entity.id THEN {c \in Columns : Differs(entity, c)} ELSE Insert

Load(r, entity, pc) ==
    /\ req' = [req EXCEPT ![r].pc = pc, ![r].copy = entity,
                          ![r].diff = Difference(entity)]
    /\ UNCHANGED <<row, now, userLock, tokenVars, mailed>>

ForgotLoad(r) == At(r, "load") /\ Load(r, req[r].copy, "save")

ForgotClear(r) == At(r, "clear") /\ Load(r, ClearResetToken(req[r].copy), "saveClear")

(* UPDATE of the differing columns, which a row gone meanwhile does not    *)
(* feel; or INSERT, which the address's unique key may refuse.             *)
Written(r) ==
    LET e == req[r].copy
    IN  IF req[r].diff = Insert THEN e
        ELSE IF row.id # e.id THEN row
        ELSE [c \in DOMAIN row |-> IF c \in req[r].diff THEN e[c] ELSE row[c]]

Save(r) ==
    /\ UserFreeFor(r)
    /\ ~(req[r].diff = Insert /\ Exists(row))
    /\ row' = Written(r)

SaveRefused(r) ==
    /\ req[r].pc \in {"save", "saveClear"}
    /\ UserFreeFor(r)
    /\ req[r].diff = Insert /\ Exists(row)
    /\ Refuse(r)

ForgotSave(r) ==
    /\ At(r, "save")
    /\ Save(r)
    /\ To(r, "mail")
    /\ UNCHANGED <<now, userLock, tokenVars, mailed>>

MailSent(r) ==
    /\ At(r, "mail")
    /\ mailed' = mailed \cup {req[r].copy.link}
    /\ End(r)
    /\ UNCHANGED <<row, now, tokenVars>>

(* An error, or a timeout after which the mail may arrive all the same.    *)
MailFails(r) ==
    /\ At(r, "mail")
    /\ mailed' \in {mailed, mailed \cup {req[r].copy.link}}
    /\ To(r, "clear")
    /\ UNCHANGED <<row, now, userLock, tokenVars>>

ForgotSaveClear(r) ==
    /\ At(r, "saveClear")
    /\ Save(r)
    /\ End(r)
    /\ UNCHANGED <<now, tokenVars, mailed>>

RegisterInsert(r) ==
    /\ At(r, "register")
    /\ ~Exists(row)
    /\ \E id \in 1 .. MaxUsers :
        /\ \A q \in Requests : id \notin {req[q].id, req[q].copy.id}
        /\ row' = NewUser(id, req[r].guess)
    /\ End(r)
    /\ UNCHANGED <<now, tokenVars, mailed>>

(* Error 23505: a conflict                                                 *)
RegisterConflict(r) ==
    /\ At(r, "register")
    /\ Exists(row)
    /\ Refuse(r)

-----------------------------------------------------------------------------
(* Waiting, and the deadlock detector *)

Waiting(r, q) ==
    \/ /\ req[r].pc \in {"lock", "issue", "insert", "save", "saveClear"}
       /\ userLock = q /\ q # r
    \/ /\ At(r, "token")
       /\ req[r].token \in req[q].held /\ q # r
    \/ /\ At(r, "update") /\ req[r].scan # {} /\ q # r
       /\ \E t \in req[r].scan \cap req[q].held : \A o \in req[r].scan : t <= o

(* Requests that wait for one another in a circle.                         *)
Cycles ==
    {C \in SUBSET Requests : C # {} /\ \A r \in C : \E q \in C : Waiting(r, q)}

DeadlockVictim(r) == (\E C \in Cycles : r \in C) /\ Refuse(r)

Tick == now < MaxTime /\ now' = now + 1
          /\ UNCHANGED <<row, req, userLock, tokenVars, mailed>>

Step(r) ==
    \/ LockUser(r) \/ RefuseLocked(r)
    \/ FailLoginCommit(r) \/ LoginCommit(r) \/ RestoreCommit(r)
    \/ LoginIssue(r) \/ LoginIssueFails(r)
    \/ SweepBegin(r) \/ SweepNext(r) \/ SweepDone(r) \/ SweepCommit(r)
    \/ LogoutAllCommit(r)
    \/ RefreshLock(r) \/ RefreshRefused(r)
    \/ RefreshInsert(r)
    \/ ForgotLoad(r) \/ ForgotSave(r) \/ SaveRefused(r)
    \/ MailSent(r) \/ MailFails(r) \/ ForgotClear(r) \/ ForgotSaveClear(r)
    \/ RegisterInsert(r) \/ RegisterConflict(r)
    \/ DeadlockVictim(r)

StartAny(r) ==
    \/ StartLogin(r) \/ StartChange(r) \/ StartReset(r) \/ StartAdmin(r)
    \/ StartRefresh(r) \/ StartLogoutAll(r)
    \/ StartForgot(r) \/ StartRegister(r)

Next ==
    \/ \E r \in Requests : StartAny(r) \/ Step(r) \/ Fail(r)
    \/ Tick

(* The server does not stand still: each request is one run of its code,   *)
(* so it is enough that some request that can go on does.                  *)
Spec == Init /\ [][Next]_vars /\ WF_vars(\E r \in Requests : Step(r))

-----------------------------------------------------------------------------
(* Properties *)

(* A forgotPassword about to write an entity the row has moved away from.  *)
Overtaken(r) ==
    /\ req[r].pc \in {"save", "saveClear"}
    /\ \E c \in {"password", "failed", "lockedUntil", "deleted", "id"} :
        req[r].copy[c] # row[c]

(* Whatever the requests and their interleaving, each commit changes the   *)
(* row as one operation of the account would change the row of that        *)
(* moment: no failed attempt, lock, new password or deletion is lost --    *)
(* but to a forgotPassword (auth.service.ts:454) that was overtaken.       *)
RowFollowsLedger == [][Change \/ \E r \in Requests : Overtaken(r)]_row

(* A password change, a reset or a deletion ends every session open at its *)
(* commit: no active token descends from a login whose token it could see, *)
(* though rotations (auth.service.ts:224) run beside it.                   *)
SweptTokensStayDead == \A t \in live : chain[t] = sweeps

(* Of two requests that wait for one another one is a rotation, which      *)
(* locks its token before the users row (auth.service.ts:224-256); every   *)
(* other transaction takes the users row first.                            *)
DeadlocksNeedRefresh ==
    \A C \in Cycles : \E r \in C : req[r].op = "refresh" /\ At(r, "insert")

(* Every request is answered, whatever waits for whatever: in the end none *)
(* is left that has started and not ended (each runs once).                *)
EveryRequestEnds == <>[](\A r \in Requests : req[r].pc \in {"ready", "end"})

=============================================================================
