---------------------------- MODULE AuthSessions ----------------------------
(***************************************************************************)
(* The sessions of one user: auth.service.ts over the refresh_tokens table *)
(* of PostgreSQL and the user's Redis keys, session:<user>:<sid> (one per  *)
(* session, holding the hash of its refresh token) and the ZSET that       *)
(* indexes them by creation time.                                          *)
(*                                                                         *)
(* No transaction spans the two stores.  A request is therefore a program  *)
(* counter and its local variables; every SQL statement or transaction and *)
(* every Redis command, MULTI or script is one action, and the actions of  *)
(* concurrent requests interleave.  A Redis call may fail whether or not   *)
(* the server applied it, and the process serving a request may die; both  *)
(* count against MaxFaults.                                                *)
(*                                                                         *)
(* Transactions that hold the user row FOR UPDATE (password change, reset, *)
(* deletion) are atomic with respect to token inserts, which need a key    *)
(* share lock on that row for their foreign key.  logoutAll takes no such  *)
(* lock: its UPDATE sees a snapshot (READ COMMITTED), so it is two steps.  *)
(***************************************************************************)
EXTENDS Integers, FiniteSets

CONSTANTS Requests,      \* requests that may be in flight at once
          Tokens,        \* refresh token rows (random, never reused)
          NoToken,
          MaxLogins,     \* bound: successful password checks in a behaviour
          SessionLimit,  \* auth.sessions.max
          MaxStrays,     \* bound: one-character ids told apart
          MaxPassword,   \* bound: password changes in a behaviour
          MaxFaults      \* bound: failed Redis calls and dead requests

ASSUME AuthAssumption ==
    /\ NoToken \notin Tokens
    /\ MaxLogins \in Nat
    /\ SessionLimit \in Nat \ {0}
    /\ MaxStrays \in Nat \ {0}
    /\ MaxPassword \in Nat
    /\ MaxFaults \in Nat

Sessions == 1 .. MaxLogins   \* numbered in the order of their ZSET scores
NoSession == 0

(* What enforceSessionLimit takes for session ids are single characters
   (EvictRead).  No session has such an id; in the ZSET its score is a digit,
   so it comes before every session.                                        *)
Strays == (-MaxStrays) .. (-1)
Members == Strays \cup Sessions

VARIABLES
    account,        \* the user row: "active", "deleted" (soft) or "removed"
    password,       \* version of the stored password
    loginPassword,  \* the version each session's login verified
    logins,         \* sessions numbered so far
    tokenSession,   \* RefreshToken.sessionId of the rows ever inserted
    active,         \* rows with isActive = true
    session,        \* Redis: token whose hash the session key holds
    index,          \* Redis: members of the ZSET
    issued,         \* refresh tokens the client received
    granted,        \* sessions whose access token the client received
    req,            \* local state of each request
    faults,         \* failures so far
    barred          \* history: sessions cut off by a change of credentials

accountVars == <<account, password, loginPassword, logins, barred>>
tokenVars == <<tokenSession, active>>
redisVars == <<session, index>>
clientVars == <<issued, granted>>
vars == <<accountVars, tokenVars, redisVars, clientVars, req, faults>>

Steps == {"idle", "insert", "open", "count", "pop", "evict", "evictDelete",
          "evictRestore", "rollback", "rollbackDelete",
          "refreshGet", "rotate", "cas", "cleanup", "authorized",
          "logoutSave", "logoutDelete", "logoutAllUpdate", "readIndex",
          "drop", "revoke", "revokeUpdate", "revokeDelete",
          "lookup", "prune"}

Locals == [pc : Steps,
           session : Sessions \cup {NoSession},
           token : Tokens \cup {NoToken},    \* the token the request works on
           next : Tokens \cup {NoToken},     \* the token a refresh inserted
           excess : 0 .. MaxStrays + MaxLogins,  \* zcard - maxSessions
           batch : SUBSET Members,           \* ids read from the ZSET
           strings : 0 .. 2 * (MaxStrays + MaxLogins),  \* left of zpopmin's reply
           stray : Strays \cup {NoSession},  \* the id eviction works on
           snapshot : SUBSET Tokens,         \* rows an UPDATE selected
           pending : SUBSET {"token", "session"}]  \* cleanup still to do

Idle == [pc |-> "idle", session |-> NoSession, token |-> NoToken,
         next |-> NoToken, excess |-> 0, batch |-> {}, strings |-> 0,
         stray |-> NoSession, snapshot |-> {}, pending |-> {}]

TypeOK ==
    /\ account \in {"active", "deleted", "removed"}
    /\ password \in 0 .. MaxPassword
    /\ loginPassword \in [Sessions -> 0 .. MaxPassword]
    /\ logins \in 0 .. MaxLogins
    /\ tokenSession \in [Tokens -> Sessions \cup {NoSession}]
    /\ active \subseteq Tokens
    /\ session \in [Sessions -> Tokens \cup {NoToken}]
    /\ index \subseteq Members
    /\ issued \subseteq Tokens
    /\ granted \subseteq Sessions
    /\ req \in [Requests -> Locals]
    /\ faults \in 0 .. MaxFaults
    /\ barred \subseteq Sessions

Init ==
    /\ account = "active"
    /\ password = 0
    /\ loginPassword = [s \in Sessions |-> 0]
    /\ logins = 0
    /\ tokenSession = [t \in Tokens |-> NoSession]
    /\ active = {}
    /\ session = [s \in Sessions |-> NoToken]
    /\ index = {}
    /\ issued = {}
    /\ granted = {}
    /\ req = [r \in Requests |-> Idle]
    /\ faults = 0
    /\ barred = {}

-----------------------------------------------------------------------------
(* Building blocks *)

At(r, pc) == req[r].pc = pc
To(r, pc) == [req[r] EXCEPT !.pc = pc]
Continue(r, locals) == req' = [req EXCEPT ![r] = locals]

Fail == faults < MaxFaults /\ faults' = faults + 1

(* A Redis write by r: it succeeds, or reports an error although the server
   may have applied it.                                                    *)
RedisWrite(r, write, ok, failed) ==
    \/ write /\ Continue(r, ok) /\ UNCHANGED faults
    \/ (write \/ UNCHANGED redisVars) /\ Continue(r, failed) /\ Fail

(* A Redis read by r. *)
RedisRead(r, ok, failed) ==
    /\ \/ Continue(r, ok) /\ UNCHANGED faults
       \/ Continue(r, failed) /\ Fail
    /\ UNCHANGED redisVars

Fresh == {t \in Tokens : tokenSession[t] = NoSession}

SessionTokens(S) == {t \in Tokens : tokenSession[t] \in S}

(* Mutant: one fewer. *)
OldestButOne(S, n) == {s \in S : Cardinality({o \in S : o < s}) < n - 1}

Oldest(S, n) == {s \in S : Cardinality({o \in S : o < s}) < n}

(* Mutant: the row is added beside the one it should replace. *)
InsertTokenBeside(t, s, others) ==
    /\ tokenSession' = [tokenSession EXCEPT ![t] = s]
    /\ active' = active \cup {t}

(* generateRefreshToken: a new active row. *)
InsertToken(t, s, others) ==
    /\ tokenSession' = [tokenSession EXCEPT ![t] = s]
    /\ active' = others \cup {t}

RevokeToken(t) == active' = active \ {t} /\ UNCHANGED tokenSession

(* deleteSession: MULTI del, zrem. *)
DeleteSession(s) ==
    /\ session' = [session EXCEPT ![s] = NoToken]
    /\ index' = index \ {s}

-----------------------------------------------------------------------------
(* login *)

(* The first transaction verifies the password; then the session id and its
   score are chosen.                                                       *)
Login(r) ==
    /\ At(r, "idle")
    /\ account = "active"
    /\ logins < MaxLogins
    /\ logins' = logins + 1
    /\ loginPassword' = [loginPassword EXCEPT ![logins + 1] = password]
    /\ Continue(r, [Idle EXCEPT !.pc = "insert", !.session = logins + 1])
    /\ UNCHANGED <<account, password, barred, tokenVars, redisVars,
                   clientVars, faults>>

(* The insert fails on its foreign key once the user row is gone. *)
LoginInsert(r) ==
    /\ At(r, "insert")
    /\ \/ /\ account # "removed"
          /\ \E t \in Fresh :
                /\ InsertToken(t, req[r].session, active)
                /\ Continue(r, [To(r, "open") EXCEPT !.token = t])
       \/ account = "removed" /\ Continue(r, Idle) /\ UNCHANGED tokenVars
    /\ UNCHANGED <<accountVars, redisVars, clientVars, faults>>

(* MULTI set session key, zadd index. *)
LoginOpen(r) ==
    /\ At(r, "open")
    /\ RedisWrite(r, /\ session' = [session EXCEPT ![req[r].session] = req[r].token]
                     /\ index' = index \cup {req[r].session},
                  To(r, "count"), To(r, "rollback"))
    /\ UNCHANGED <<accountVars, tokenVars, clientVars>>

(* enforceSessionLimit: zcard, then zpopmin of the overflow. *)
LoginCount(r) ==
    /\ At(r, "count")
    /\ LET overflow == Cardinality(index) - SessionLimit IN
       RedisRead(r, IF overflow <= 0 THEN To(r, "evict")
                    ELSE [To(r, "pop") EXCEPT !.excess = overflow],
                 To(r, "rollback"))
    /\ UNCHANGED <<accountVars, tokenVars, clientVars>>

(* zpopmin answers one flat list, id, score, id, score ...: two strings for
   each member it took out.                                                *)
LoginPop(r) ==
    LET popped == Oldest(index, req[r].excess) IN
    /\ At(r, "pop")
    /\ RedisWrite(r, index' = index \ popped /\ UNCHANGED session,
                  [To(r, "evict") EXCEPT !.strings = 2 * Cardinality(popped)],
                  To(r, "rollback"))
    /\ UNCHANGED <<accountVars, tokenVars, clientVars>>

Evicted(r) == [To(r, "evict") EXCEPT !.strings = @ - 1, !.stray = NoSession]

(* The loop reads each string of the reply as an (id, score) pair, so its id
   is the string's first character: revokeAndDeleteSession finds no session
   key of that name, revokes nothing, and deletes the key that is not there
   and the member, if the index has it.  The session popped keeps its key
   and its token.  Which character it is, is left open.                    *)
EvictRead(r) ==
    /\ At(r, "evict")
    /\ req[r].strings > 0
    /\ \E c \in Strays :
          RedisRead(r, [To(r, "evictDelete") EXCEPT !.stray = c],
                       [To(r, "evictRestore") EXCEPT !.stray = c])
    /\ UNCHANGED <<accountVars, tokenVars, clientVars>>

EvictDelete(r) ==
    /\ At(r, "evictDelete")
    /\ RedisWrite(r, index' = index \ {req[r].stray} /\ UNCHANGED session,
                  Evicted(r), To(r, "evictRestore"))
    /\ UNCHANGED <<accountVars, tokenVars, clientVars>>

(* The compensation adds the character to the index, with the second one as
   its score; Redis refuses a score that is no number.  An error of it fails
   the login.                                                              *)
EvictRestore(r) ==
    /\ At(r, "evictRestore")
    /\ \/ RedisWrite(r, index' = index \cup {req[r].stray} /\ UNCHANGED session,
                     Evicted(r), To(r, "rollback"))
       \/ Continue(r, To(r, "rollback")) /\ UNCHANGED <<redisVars, faults>>
    /\ UNCHANGED <<accountVars, tokenVars, clientVars>>

LoginFinish(r) ==
    /\ At(r, "evict")
    /\ req[r].strings = 0
    /\ issued' = issued \cup {req[r].token}
    /\ granted' = granted \cup {req[r].session}
    /\ Continue(r, Idle)
    /\ UNCHANGED <<accountVars, tokenVars, redisVars, faults>>

RollbackToken(r) ==
    /\ At(r, "rollback")
    /\ RevokeToken(req[r].token)
    /\ Continue(r, To(r, "rollbackDelete"))
    /\ UNCHANGED <<accountVars, redisVars, clientVars, faults>>

RollbackSession(r) ==
    /\ At(r, "rollbackDelete")
    /\ RedisWrite(r, DeleteSession(req[r].session), Idle, Idle)
    /\ UNCHANGED <<accountVars, tokenVars, clientVars>>

LoginStep(r) ==
    \/ Login(r) \/ LoginInsert(r) \/ LoginOpen(r) \/ LoginCount(r) \/ LoginPop(r)
    \/ EvictRead(r) \/ EvictDelete(r) \/ EvictRestore(r)
    \/ LoginFinish(r) \/ RollbackToken(r) \/ RollbackSession(r)

-----------------------------------------------------------------------------
(* refreshAccessToken *)

(* findOne: the token is active; a token that is not is refused. *)
Refresh(r, t) ==
    /\ At(r, "idle")
    /\ t \in issued \cap active
    /\ Continue(r, [Idle EXCEPT !.pc = "refreshGet", !.token = t,
                                !.session = tokenSession[t]])
    /\ UNCHANGED <<accountVars, tokenVars, redisVars, clientVars, faults>>

RefreshGet(r) ==
    /\ At(r, "refreshGet")
    /\ RedisRead(r, IF session[req[r].session] = req[r].token
                    THEN To(r, "rotate") ELSE Idle, Idle)
    /\ UNCHANGED <<accountVars, tokenVars, clientVars>>

(* Mutant: the row, found active before, is not looked at again. *)
RotationAllowedUnlocked(r) == account = "active"

RotationAllowed(r) == req[r].token \in active /\ account = "active"

(* The rotation transaction: the row, read again under its lock, is replaced
   by a new one of the same session; it refuses a row that was revoked or
   has passed its expiresAt (possible at any time), or a missing account.  *)
RefreshRotate(r) ==
    /\ At(r, "rotate")
    /\ \/ /\ RotationAllowed(r)
          /\ \E t \in Fresh :
                /\ InsertToken(t, req[r].session, active \ {req[r].token})
                /\ Continue(r, [To(r, "cas") EXCEPT !.next = t])
       \/ Continue(r, Idle) /\ UNCHANGED tokenVars
    /\ UNCHANGED <<accountVars, redisVars, clientVars, faults>>

(* Mutant: a plain SET. *)
CasAlways(r) == req[r].token \in Tokens

(* compareAndSetSession: the script sets the key if it still holds the old
   hash; an error counts as a mismatch.                                    *)
CasMatches(r) == session[req[r].session] = req[r].token

(* Mutant: the cleanup deletes the session only. *)
CleanupOfSession(r) == [To(r, "cleanup") EXCEPT !.pending = {"session"}]

CleanupOf(r) == [To(r, "cleanup") EXCEPT !.pending = {"token", "session"}]

RefreshCas(r) ==
    LET s == req[r].session IN
    /\ At(r, "cas")
    /\ \/ /\ CasMatches(r)
          /\ RedisWrite(r, session' = [session EXCEPT ![s] = req[r].next]
                           /\ UNCHANGED index,
                        Idle, CleanupOf(r))
       \/ ~CasMatches(r) /\ RedisRead(r, CleanupOf(r), CleanupOf(r))
    /\ IF req'[r] = Idle
         THEN issued' = issued \cup {req[r].next} /\ granted' = granted \cup {s}
         ELSE UNCHANGED clientVars
    /\ UNCHANGED <<accountVars, tokenVars>>

(* cleanupAfterCasFailure: allSettled, so in either order and each one on its
   own; a part that fails is logged.                                       *)
Settled(r, part) ==
    IF req[r].pending = {part} THEN Idle
    ELSE [req[r] EXCEPT !.pending = @ \ {part}]

CleanupToken(r) ==
    /\ At(r, "cleanup")
    /\ "token" \in req[r].pending
    /\ \/ RevokeToken(req[r].next) /\ UNCHANGED faults
       \/ Fail /\ UNCHANGED tokenVars
    /\ Continue(r, Settled(r, "token"))
    /\ UNCHANGED <<accountVars, redisVars, clientVars>>

CleanupSession(r) ==
    /\ At(r, "cleanup")
    /\ "session" \in req[r].pending
    /\ RedisWrite(r, DeleteSession(req[r].session),
                  Settled(r, "session"), Settled(r, "session"))
    /\ UNCHANGED <<accountVars, tokenVars, clientVars>>

RefreshStep(r) ==
    \/ \E t \in Tokens : Refresh(r, t)
    \/ RefreshGet(r) \/ RefreshRotate(r) \/ RefreshCas(r)
    \/ CleanupToken(r) \/ CleanupSession(r)

-----------------------------------------------------------------------------
(* Requests behind the access-token guard *)

(* JwtStrategy.validate: the session key exists and the account is active.
   The handler runs later, on a session that may have ended meanwhile.     *)
Authorize(r, s) ==
    /\ At(r, "idle")
    /\ s \in granted
    /\ session[s] # NoToken
    /\ account = "active"
    /\ Continue(r, [Idle EXCEPT !.pc = "authorized", !.session = s])
    /\ UNCHANGED <<accountVars, tokenVars, redisVars, clientVars, faults>>

(* logout: find the session's active token, save it revoked, delete the key.
   Once the row is gone with its user, save would insert it and fails.     *)
Logout(r) ==
    LET current == SessionTokens({req[r].session}) \cap active IN
    /\ At(r, "authorized")
    /\ \/ \E t \in current : Continue(r, [To(r, "logoutSave") EXCEPT !.token = t])
       \/ current = {} /\ Continue(r, Idle)
    /\ UNCHANGED <<accountVars, tokenVars, redisVars, clientVars, faults>>

LogoutSave(r) ==
    /\ At(r, "logoutSave")
    /\ RevokeToken(req[r].token)
    /\ Continue(r, IF account = "removed" THEN Idle ELSE To(r, "logoutDelete"))
    /\ UNCHANGED <<accountVars, redisVars, clientVars, faults>>

LogoutDelete(r) ==
    /\ At(r, "logoutDelete")
    /\ RedisWrite(r, DeleteSession(req[r].session), Idle, Idle)
    /\ UNCHANGED <<accountVars, tokenVars, clientVars>>

(* logoutAll: the UPDATE selects rows in its snapshot, then revokes those
   that are still active when it reaches them.                             *)
LogoutAll(r) ==
    /\ At(r, "authorized")
    /\ Continue(r, [To(r, "logoutAllUpdate") EXCEPT !.snapshot = active])
    /\ UNCHANGED <<accountVars, tokenVars, redisVars, clientVars, faults>>

LogoutAllUpdate(r) ==
    /\ At(r, "logoutAllUpdate")
    /\ active' = active \ req[r].snapshot
    /\ Continue(r, [To(r, "readIndex") EXCEPT !.snapshot = {}])
    /\ UNCHANGED <<accountVars, tokenSession, redisVars, clientVars, faults>>

(* invalidateAllSessions: zrange, then MULTI del of every key it returned and
   of the whole index.  An error is swallowed.                             *)
ReadIndex(r) ==
    /\ At(r, "readIndex")
    /\ RedisRead(r, [To(r, "drop") EXCEPT !.batch = index], Idle)
    /\ UNCHANGED <<accountVars, tokenVars, clientVars>>

DropSessions(r) ==
    /\ At(r, "drop")
    /\ RedisWrite(r, /\ session' = [s \in Sessions |->
                            IF s \in req[r].batch THEN NoToken ELSE session[s]]
                     /\ index' = {},
                  Idle, Idle)
    /\ UNCHANGED <<accountVars, tokenVars, clientVars>>

(* revokeSession of any session of the user, its own included. *)
RevokeSession(r, s) ==
    /\ At(r, "authorized")
    /\ Continue(r, [To(r, "revoke") EXCEPT !.session = s])
    /\ UNCHANGED <<accountVars, tokenVars, redisVars, clientVars, faults>>

RevokeRead(r) ==
    LET held == session[req[r].session] IN
    /\ At(r, "revoke")
    /\ RedisRead(r, IF held = NoToken THEN Idle
                    ELSE [To(r, "revokeUpdate") EXCEPT !.token = held], Idle)
    /\ UNCHANGED <<accountVars, tokenVars, clientVars>>

RevokeUpdate(r) ==
    /\ At(r, "revokeUpdate")
    /\ RevokeToken(req[r].token)
    /\ Continue(r, To(r, "revokeDelete"))
    /\ UNCHANGED <<accountVars, redisVars, clientVars, faults>>

RevokeDelete(r) ==
    /\ At(r, "revokeDelete")
    /\ RedisWrite(r, DeleteSession(req[r].session), Idle, Idle)
    /\ UNCHANGED <<accountVars, tokenVars, clientVars>>

(* getUserSessionsDetailed: zrange, a pipeline of gets, then one zrem for
   each id whose key was missing.                                          *)
ListSessions(r) ==
    /\ At(r, "authorized")
    /\ RedisRead(r, [To(r, "lookup") EXCEPT !.batch = index], Idle)
    /\ UNCHANGED <<accountVars, tokenVars, clientVars>>

LookupSessions(r) ==
    LET missing == {s \in req[r].batch : s \in Strays \/ session[s] = NoToken} IN
    /\ At(r, "lookup")
    /\ RedisRead(r, IF missing = {} THEN Idle
                    ELSE [To(r, "prune") EXCEPT !.batch = missing], Idle)
    /\ UNCHANGED <<accountVars, tokenVars, clientVars>>

First(s, S) == s \in S /\ \A o \in S : s <= o

PruneSession(r) ==
    /\ At(r, "prune")
    /\ \E s \in Members :
          /\ First(s, req[r].batch)
          /\ RedisWrite(r, index' = index \ {s} /\ UNCHANGED session,
                        IF req[r].batch = {s} THEN Idle
                        ELSE [req[r] EXCEPT !.batch = @ \ {s}], Idle)
    /\ UNCHANGED <<accountVars, tokenVars, clientVars>>

GuardedStep(r) ==
    \/ \E s \in Sessions : Authorize(r, s) \/ RevokeSession(r, s)
    \/ Logout(r) \/ LogoutSave(r) \/ LogoutDelete(r)
    \/ LogoutAll(r) \/ LogoutAllUpdate(r) \/ ReadIndex(r) \/ DropSessions(r)
    \/ RevokeRead(r) \/ RevokeUpdate(r) \/ RevokeDelete(r)
    \/ ListSessions(r) \/ LookupSessions(r) \/ PruneSession(r)

-----------------------------------------------------------------------------
(* Changes of the account *)

(* The transaction's revokeAllRefreshTokens, then invalidateAllSessions. *)
RevokeAll(r) ==
    /\ active' = {}
    /\ barred' = {tokenSession[t] : t \in Tokens \ Fresh}
    /\ Continue(r, [Idle EXCEPT !.pc = "readIndex"])
    /\ UNCHANGED <<loginPassword, logins, tokenSession, redisVars, clientVars, faults>>

(* Wrong current password, same new password or unavailable account. *)
RefuseChange(r) ==
    /\ At(r, "authorized")
    /\ Continue(r, Idle)
    /\ UNCHANGED <<accountVars, tokenVars, redisVars, clientVars, faults>>

ChangePassword(r) ==
    /\ At(r, "authorized")
    /\ account = "active"
    /\ password < MaxPassword
    /\ password' = password + 1
    /\ RevokeAll(r)
    /\ UNCHANGED account

(* resetPassword, with a reset token from the user's mail. *)
ResetPassword(r) ==
    /\ At(r, "idle")
    /\ account = "active"
    /\ password < MaxPassword
    /\ password' = password + 1
    /\ RevokeAll(r)
    /\ UNCHANGED account

(* Requests of an administrator. *)
SoftDeleteUser(r) ==
    /\ At(r, "idle")
    /\ account = "active"
    /\ account' = "deleted"
    /\ RevokeAll(r)
    /\ UNCHANGED password

PermanentDeleteUser(r) ==
    /\ At(r, "idle")
    /\ account = "deleted"
    /\ account' = "removed"
    /\ RevokeAll(r)
    /\ UNCHANGED password

RestoreUser(r) ==
    /\ At(r, "idle")
    /\ account = "deleted"
    /\ account' = "active"
    /\ UNCHANGED <<password, loginPassword, logins, barred, tokenVars,
                   redisVars, clientVars, req, faults>>

AccountStep(r) ==
    \/ ChangePassword(r) \/ RefuseChange(r) \/ ResetPassword(r)
    \/ SoftDeleteUser(r) \/ PermanentDeleteUser(r) \/ RestoreUser(r)

-----------------------------------------------------------------------------
(* The environment *)

(* The TTL of a session key runs out. *)
ExpireSession(s) ==
    /\ session[s] # NoToken
    /\ session' = [session EXCEPT ![s] = NoToken]
    /\ UNCHANGED <<accountVars, tokenVars, index, clientVars, req, faults>>

(* The process serving r dies, or PostgreSQL fails it outside a handler. *)
Crash(r) ==
    /\ ~At(r, "idle")
    /\ Fail
    /\ Continue(r, Idle)
    /\ UNCHANGED <<accountVars, tokenVars, redisVars, clientVars>>

Next ==
    \/ \E r \in Requests :
          LoginStep(r) \/ RefreshStep(r) \/ GuardedStep(r) \/ AccountStep(r) \/ Crash(r)
    \/ \E s \in Sessions : ExpireSession(s)

Spec == Init /\ [][Next]_vars
-----------------------------------------------------------------------------
(* The ledger these requests keep *)

(* The changes of session keys under way: a login's that has inserted its
   row, and a refresh's that has rotated it.                               *)
Offers ==
    {[session |-> req[r].session, old |-> NoToken, new |-> req[r].token] :
        r \in {q \in Requests : At(q, "open")}}
    \cup
    {[session |-> req[r].session, old |-> req[r].token, new |-> req[r].next] :
        r \in {q \in Requests : At(q, "cas")}}

Ledger == INSTANCE SessionLedger WITH offers <- Offers

-----------------------------------------------------------------------------
(* Properties *)

Quiet == \A r \in Requests : req[r] = Idle

(* Rotation never forks a session: at most one row of a session is active,
   whatever logins, refreshes and revocations overlap or fail
   (refreshAccessToken replaces the row it has locked).                    *)
OneActiveTokenPerSession ==
    \A t, u \in active : tokenSession[t] = tokenSession[u] => t = u

(* A session that ended stays ended: only the login that created it ever
   writes its key while the key is absent.  A refresh that raced the end
   does not revive it (the compare-and-set script refuses a missing key).  *)
DeadSessionsStayDead ==
    [][\A s \in Sessions :
          session[s] = NoToken /\ session'[s] # NoToken =>
              \E r \in Requests : At(r, "open") /\ req[r].session = s]_vars

(* A change of password, a reset or a deletion of the account ends every
   session that had a token: no later step, of a refresh already under way
   or of a failed request's cleanup, gives such a session an active token
   (changePassword, resetPassword, softDeleteUser).                        *)
BarredSessionsStayRevoked == active \cap SessionTokens(barred) = {}

(* Without failures and with no request in flight, the index names no more
   sessions than the limit, however the logins that opened, counted and
   popped overlapped (enforceSessionLimit).  It bounds the index only: the
   sessions taken out live on (LiveSessionsListed).                        *)
IndexWithinLimit == Quiet /\ faults = 0 => Cardinality(index) <= SessionLimit

(* Without failures and with no request in flight, the two stores agree: an
   active token has reached the client, and if its session lives the key
   holds that token, so the client can refresh (the CAS and its cleanup,
   against logout and revocation).                                         *)
StoresAgree ==
    Quiet /\ faults = 0 =>
        \A t \in active : /\ t \in issued
                          /\ session[tokenSession[t]] \in {t, NoToken}

(* Whatever overlaps and fails, the two stores keep the promised ledger: a
   session begins once, each token is followed by one, a revoked session
   gets no other, and its key goes from a token to the one that replaced
   it, each once, until it is closed for good (login, refreshAccessToken
   and every operation that revokes).                                      *)
KeepsLedger == Ledger!LedgerSpec

(* sessions-response.dto.ts, "Active sessions for the authenticated user": a
   live session is listed, and therefore reached by logout from all devices.
   The code breaks it with one request at a time: a login at the session
   limit takes a session out of the index and leaves it alive.             *)
LiveSessionsListed ==
    Quiet /\ faults = 0 =>
        \A s \in Sessions : session[s] # NoToken => s \in index

(* auth.e2e-spec.ts, "should revoke previous refresh tokens after password
   change": an active token comes from a login with the current password.
   The code falls short of it (README, known gaps): no run checks it.      *)
TokensMatchPassword ==
    \A t \in active : loginPassword[tokenSession[t]] = password
=============================================================================
