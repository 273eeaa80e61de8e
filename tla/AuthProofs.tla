----------------------------- MODULE AuthProofs -----------------------------
(***************************************************************************)
(* Proofs about AuthSessions, for every set of requests and tokens and     *)
(* every bound.  The invariants the runs check are strengthened: a login   *)
(* that has not inserted its row yet owns a session no row has, and a      *)
(* request that is about to rotate a token knows that token's session.     *)
(*                                                                         *)
(* What holds at rest and without failures, that the stores agree and that *)
(* the index is within its limit, follows from what each request carries   *)
(* and has counted meanwhile (Handed and Agreed, Crowded).                 *)
(*                                                                         *)
(* That SessionLedger is implemented comes last: each step revokes rows,   *)
(* ends sessions, or makes, takes or withdraws one offer.                  *)
(***************************************************************************)
EXTENDS AuthSessions, FiniteSetTheorems, TLAPS

WithSession == Steps \ {"idle", "logoutAllUpdate", "readIndex", "drop",
                        "lookup", "prune"}

WithToken == {"open", "count", "pop", "evict", "evictDelete", "evictRestore",
              "rollback", "refreshGet", "rotate", "cas"}

(* What a request's step tells about its local variables. *)
Consistent(l) ==
    /\ l.pc \in WithSession => l.session \in Sessions
    /\ l.pc \in WithToken => l.token \in Tokens
    /\ l.pc \in {"cas", "cleanup"} => l.next \in Tokens
    /\ l.pc \in {"evictDelete", "evictRestore"} => l.stray \in Strays /\ l.strings > 0

LocalsOK == \A r \in Requests : Consistent(req[r])

NumberedOK == \A t \in Tokens : tokenSession[t] <= logins

ActiveInserted == active \cap Fresh = {}

BarredHadTokens == \A s \in barred : \E t \in Tokens : tokenSession[t] = s

InsertOwns ==
    \A r \in Requests : At(r, "insert") =>
        /\ req[r].session <= logins
        /\ SessionTokens({req[r].session}) = {}
        /\ \A q \in Requests : At(q, "insert") /\ q # r =>
               req[q].session # req[r].session

RotatesOwn ==
    \A r \in Requests : req[r].pc \in {"refreshGet", "rotate"} =>
        tokenSession[req[r].token] = req[r].session

-----------------------------------------------------------------------------
(* The members the index may have are finitely many integers. *)
LEMMA MembersFinite ==
    ASSUME AuthAssumption, NEW S \in SUBSET Members
    PROVE  /\ IsFiniteSet(S)
           /\ Cardinality(S) \in 0 .. MaxStrays + MaxLogins
           /\ Members \subseteq Int
<1>1. IsFiniteSet(Sessions) /\ Cardinality(Sessions) = MaxLogins
  BY FS_Interval DEF Sessions, AuthAssumption
<1>2. IsFiniteSet(Strays) /\ Cardinality(Strays) = MaxStrays
  BY FS_Interval DEF Strays, AuthAssumption
<1>3. Strays \cap Sessions = {} /\ Members \subseteq Int
  BY DEF Strays, Sessions, Members, AuthAssumption
<1>4. IsFiniteSet(Members) /\ Cardinality(Members) = MaxStrays + MaxLogins
  <2>1. /\ IsFiniteSet(Strays \cup Sessions)
        /\ Cardinality(Strays \cup Sessions) =
              Cardinality(Strays) + Cardinality(Sessions) - Cardinality(Strays \cap Sessions)
    BY <1>1, <1>2, FS_Union
  <2>2. Cardinality(Strays \cap Sessions) = 0
    BY <1>3, FS_EmptySet
  <2> QED BY <1>1, <1>2, <2>1, <2>2 DEF Members, AuthAssumption
<1>5. /\ IsFiniteSet(S) /\ Cardinality(S) \in Nat
      /\ Cardinality(S) <= Cardinality(Members)
  BY <1>4, FS_Subset, FS_CardinalityType
<1> QED BY <1>3, <1>4, <1>5 DEF AuthAssumption

(* The overflow counted in the index is a number of its members. *)
LEMMA OverflowType ==
    ASSUME AuthAssumption, index \subseteq Members
    PROVE  /\ Cardinality(index) - SessionLimit \in Int
           /\ Cardinality(index) - SessionLimit <= MaxStrays + MaxLogins
BY MembersFinite DEF AuthAssumption

(* A request that moves to new locals keeps the type of req. *)
LEMMA MoveType ==
    ASSUME TypeOK, LocalsOK, NEW r \in Requests, NEW l \in Locals,
           Consistent(l), Continue(r, l)
    PROVE  req' \in [Requests -> Locals] /\ LocalsOK'
BY DEF TypeOK, LocalsOK, Consistent, Continue

LEMMA IdleType == Idle \in Locals /\ Consistent(Idle)
BY AuthAssumption
   DEF Idle, Locals, Steps, Consistent, WithSession, WithToken, Sessions,
       NoSession, AuthAssumption

(* A step that continues r with one of two legal records of locals. *)
Legal(l) == l \in Locals /\ Consistent(l)

Moves(r) == \E l \in Locals : Consistent(l) /\ Continue(r, l)

LEMMA EitherMoves ==
    ASSUME NEW r \in Requests, NEW ok, NEW failed, Legal(ok), Legal(failed),
           Continue(r, ok) \/ Continue(r, failed)
    PROVE  Moves(r)
BY DEF Moves, Legal

LEMMA MovesType ==
    ASSUME TypeOK, LocalsOK, NEW r \in Requests, Moves(r)
    PROVE  req' \in [Requests -> Locals] /\ LocalsOK'
BY MoveType DEF Moves

LEMMA LoginMoves ==
    ASSUME TypeOK, LocalsOK, NEW r \in Requests, LoginStep(r)
    PROVE  Moves(r)
<1> USE DEF Legal
<1>0. Legal(req[r]) BY DEF TypeOK, LocalsOK
<1>i. Legal(Idle) BY IdleType
<1>1. CASE Login(r)
  <2>1. logins + 1 \in Sessions
    BY <1>1, AuthAssumption DEF Login, TypeOK, Sessions, AuthAssumption
  <2>2. Legal([Idle EXCEPT !.pc = "insert", !.session = logins + 1])
    BY <1>i, <2>1 DEF Locals, Steps, Consistent, WithSession, WithToken
  <2> QED BY <1>1, <2>2, EitherMoves DEF Login
<1>2. CASE LoginInsert(r)
  <2>1. ASSUME NEW t \in Tokens
        PROVE  Legal([To(r, "open") EXCEPT !.token = t])
    BY <1>0, <1>2 DEF LoginInsert, At, To, Locals, Steps, Consistent, WithSession, WithToken
  <2> QED BY <1>i, <1>2, <2>1, EitherMoves DEF LoginInsert, Fresh
<1>3. CASE LoginOpen(r)
  <2>1. Legal(To(r, "count")) /\ Legal(To(r, "rollback"))
    BY <1>0, <1>3
       DEF LoginOpen, At, To, Locals, Steps, Consistent, WithSession, WithToken
  <2> QED BY <1>i, <1>3, <2>1, EitherMoves DEF LoginOpen, RedisWrite
<1>4. CASE LoginCount(r)
  <2> DEFINE overflow == Cardinality(index) - SessionLimit
             counted == IF overflow <= 0 THEN To(r, "evict")
                        ELSE [To(r, "pop") EXCEPT !.excess = overflow]
  <2>1. Legal(counted) /\ Legal(To(r, "rollback"))
    <3>1. overflow <= 0 \/ overflow \in 0 .. MaxStrays + MaxLogins
      BY OverflowType, AuthAssumption DEF TypeOK, AuthAssumption
    <3> HIDE DEF overflow
    <3> QED BY <1>0, <1>4, <3>1 DEF LoginCount, At, To, Locals, Steps, Consistent, WithSession, WithToken
  <2> QED BY <1>4, <2>1, EitherMoves DEF LoginCount, RedisRead
<1>5. CASE LoginPop(r)
  <2> DEFINE n == 2 * Cardinality(Oldest(index, req[r].excess))
  <2>1. Oldest(index, req[r].excess) \in SUBSET Members
    BY DEF Oldest, TypeOK
  <2>2. n \in 0 .. 2 * (MaxStrays + MaxLogins)
    BY <2>1, MembersFinite, AuthAssumption DEF AuthAssumption
  <2> HIDE DEF n
  <2>3. Legal([To(r, "evict") EXCEPT !.strings = n]) /\ Legal(To(r, "rollback"))
    BY <1>0, <1>5, <2>2 DEF LoginPop, At, To, Locals, Steps, Consistent, WithSession, WithToken
  <2> QED BY <1>5, <2>3, EitherMoves DEF LoginPop, RedisWrite, n
<1>6. CASE EvictRead(r)
  <2>1. ASSUME NEW c \in Strays, NEW pc \in {"evictDelete", "evictRestore"}
        PROVE  Legal([To(r, pc) EXCEPT !.stray = c])
    BY <1>0, <1>6 DEF EvictRead, At, To, Locals, Steps, Consistent, WithSession, WithToken
  <2> QED BY <1>6, <2>1, EitherMoves DEF EvictRead, RedisRead
<1>7. CASE EvictDelete(r) \/ EvictRestore(r)
  <2>1. req[r].pc \in {"evictDelete", "evictRestore"} /\ req[r].strings > 0
    BY <1>0, <1>7 DEF EvictDelete, EvictRestore, At, Consistent
  <2>2. req[r].strings - 1 \in 0 .. 2 * (MaxStrays + MaxLogins)
    BY <1>0, <2>1, AuthAssumption DEF Locals, AuthAssumption
  <2>3. Legal(Evicted(r))
    BY <1>0, <2>1, <2>2
       DEF Evicted, NoSession, To, Locals, Steps, Consistent, WithSession, WithToken
  <2>4. Legal(To(r, "rollback"))
    BY <1>0, <2>1 DEF To, Locals, Steps, Consistent, WithSession, WithToken
  <2>5. CASE EvictDelete(r)
    <3>1. Legal(To(r, "evictRestore"))
      BY <1>0, <2>1, <2>5
         DEF EvictDelete, At, To, Locals, Steps, Consistent, WithSession, WithToken
    <3> QED BY <2>3, <2>5, <3>1, EitherMoves DEF EvictDelete, RedisWrite
  <2>6. CASE EvictRestore(r)
    BY <2>3, <2>4, <2>6, EitherMoves DEF EvictRestore, RedisWrite
  <2> QED BY <1>7, <2>5, <2>6
<1>9. CASE LoginFinish(r)
  BY <1>i, <1>9, EitherMoves DEF LoginFinish
<1>10. CASE RollbackToken(r)
  <2>1. Legal(To(r, "rollbackDelete"))
    BY <1>0, <1>10
       DEF RollbackToken, At, To, Locals, Steps, Consistent, WithSession, WithToken
  <2> QED BY <1>i, <1>10, <2>1, EitherMoves DEF RollbackToken
<1>11. CASE RollbackSession(r)
  BY <1>i, <1>11, EitherMoves DEF RollbackSession, RedisWrite
<1> QED
  BY <1>1, <1>2, <1>3, <1>4, <1>5, <1>6, <1>7, <1>9, <1>10, <1>11
     DEF LoginStep

LEMMA RefreshMoves ==
    ASSUME TypeOK, LocalsOK, ActiveInserted, NEW r \in Requests, RefreshStep(r)
    PROVE  Moves(r)
<1> USE DEF Legal
<1>0. Legal(req[r]) BY DEF TypeOK, LocalsOK
<1>i. Legal(Idle) BY IdleType
<1>1. ASSUME NEW t \in Tokens, Refresh(r, t) PROVE Moves(r)
  <2>1. tokenSession[t] \in Sessions
    BY <1>1 DEF Refresh, ActiveInserted, Fresh, TypeOK, NoSession, Sessions
  <2>2. Legal([Idle EXCEPT !.pc = "refreshGet", !.token = t, !.session = tokenSession[t]])
    BY <1>i, <2>1 DEF Locals, Steps, Consistent, WithSession, WithToken
  <2> QED BY <1>1, <2>2, EitherMoves DEF Refresh
<1>2. CASE RefreshGet(r)
  <2>1. Legal(To(r, "rotate"))
    BY <1>0, <1>2
       DEF RefreshGet, At, To, Locals, Steps, Consistent, WithSession, WithToken
  <2> QED BY <1>i, <1>2, <2>1, EitherMoves DEF RefreshGet, RedisRead
<1>3. CASE RefreshRotate(r)
  <2>1. ASSUME NEW t \in Tokens
        PROVE  Legal([To(r, "cas") EXCEPT !.next = t])
    BY <1>0, <1>3 DEF RefreshRotate, At, To, Locals, Steps, Consistent, WithSession, WithToken
  <2> QED BY <1>i, <1>3, <2>1, EitherMoves DEF RefreshRotate, Fresh
<1>4. CASE RefreshCas(r)
  <2>1. Legal(CleanupOf(r))
    BY <1>0, <1>4 DEF RefreshCas, CleanupOf, At, To, Locals, Steps, Consistent, WithSession, WithToken
  <2> QED BY <1>i, <1>4, <2>1, EitherMoves DEF RefreshCas, RedisWrite, RedisRead
<1>5. CASE CleanupToken(r) \/ CleanupSession(r)
  <2>1. ASSUME NEW part \in {"token", "session"}
        PROVE  Legal(Settled(r, part))
    <3>1. Legal([req[r] EXCEPT !.pending = @ \ {part}])
      BY <1>0 DEF Locals, Consistent
    <3> QED BY <1>i, <3>1 DEF Settled
  <2> QED BY <1>5, <2>1, EitherMoves DEF CleanupToken, CleanupSession, RedisWrite
<1> QED BY <1>1, <1>2, <1>3, <1>4, <1>5 DEF RefreshStep

(* Ids read from the index, or rows an UPDATE selects, are legal locals of
   steps that work on no session or token of their own.                    *)
LEMMA ReadsLegal ==
    ASSUME TypeOK, LocalsOK, NEW r \in Requests,
           NEW pc \in {"logoutAllUpdate", "readIndex", "drop", "lookup", "prune"},
           NEW B \in SUBSET Members, NEW S \in SUBSET Tokens
    PROVE  /\ Legal([To(r, pc) EXCEPT !.batch = B])
           /\ Legal([To(r, pc) EXCEPT !.snapshot = S])
<1>1. req[r] \in Locals
  BY DEF TypeOK
<1>2. [To(r, pc) EXCEPT !.batch = B] \in Locals
  BY <1>1 DEF To, Locals, Steps
<1>3. [To(r, pc) EXCEPT !.snapshot = S] \in Locals
  BY <1>1 DEF To, Locals, Steps
<1>4. /\ [To(r, pc) EXCEPT !.batch = B].pc = pc
      /\ [To(r, pc) EXCEPT !.snapshot = S].pc = pc
  BY <1>1 DEF To, Locals
<1>5. ASSUME NEW l, l.pc = pc PROVE Consistent(l)
  BY <1>5 DEF Consistent, WithSession, WithToken
<1> QED BY <1>2, <1>3, <1>4, <1>5 DEF Legal

LEMMA GuardedMoves ==
    ASSUME TypeOK, LocalsOK, NEW r \in Requests, GuardedStep(r)
    PROVE  Moves(r)
<1> USE DEF Legal
<1>0. Legal(req[r]) BY DEF TypeOK, LocalsOK
<1>i. Legal(Idle) BY IdleType
<1>1. ASSUME NEW s \in Sessions, Authorize(r, s) PROVE Moves(r)
  <2>1. Legal([Idle EXCEPT !.pc = "authorized", !.session = s])
    BY <1>i DEF Locals, Steps, Consistent, WithSession, WithToken
  <2> QED BY <1>1, <2>1, EitherMoves DEF Authorize
<1>2. ASSUME NEW s \in Sessions, RevokeSession(r, s) PROVE Moves(r)
  <2>1. Legal([To(r, "revoke") EXCEPT !.session = s])
    BY <1>0, <1>2 DEF RevokeSession, At, To, Locals, Steps, Consistent, WithSession, WithToken
  <2> QED BY <1>2, <2>1, EitherMoves DEF RevokeSession
<1>3. CASE Logout(r)
  <2>1. ASSUME NEW t \in Tokens
        PROVE  Legal([To(r, "logoutSave") EXCEPT !.token = t])
    BY <1>0, <1>3 DEF Logout, At, To, Locals, Steps, Consistent, WithSession, WithToken
  <2> QED BY <1>i, <1>3, <2>1, EitherMoves DEF Logout, SessionTokens
<1>4. CASE LogoutSave(r)
  <2>1. Legal(To(r, "logoutDelete"))
    BY <1>0, <1>4 DEF LogoutSave, At, To, Locals, Steps, Consistent, WithSession, WithToken
  <2> QED BY <1>i, <1>4, <2>1, EitherMoves DEF LogoutSave
<1>5. CASE LogoutAll(r)
  <2>1. active \in SUBSET Tokens
    BY DEF TypeOK
  <2>2. Legal([To(r, "logoutAllUpdate") EXCEPT !.snapshot = active])
    BY <2>1, ReadsLegal
  <2> QED BY <1>5, <2>2, EitherMoves DEF LogoutAll
<1>6. CASE LogoutAllUpdate(r)
  <2>1. Legal([To(r, "readIndex") EXCEPT !.snapshot = {}])
    BY ReadsLegal
  <2> QED BY <1>6, <2>1, EitherMoves DEF LogoutAllUpdate
<1>7. CASE ReadIndex(r)
  <2>1. index \in SUBSET Members
    BY DEF TypeOK
  <2>2. Legal([To(r, "drop") EXCEPT !.batch = index])
    BY <2>1, ReadsLegal
  <2> QED BY <1>i, <1>7, <2>2, EitherMoves DEF ReadIndex, RedisRead
<1>8. CASE ListSessions(r)
  <2>1. index \in SUBSET Members
    BY DEF TypeOK
  <2>2. Legal([To(r, "lookup") EXCEPT !.batch = index])
    BY <2>1, ReadsLegal
  <2> QED BY <1>i, <1>8, <2>2, EitherMoves DEF ListSessions, RedisRead
<1>9. CASE LookupSessions(r)
  <2> DEFINE missing == {s \in req[r].batch : s \in Strays \/ session[s] = NoToken}
  <2>1. missing \in SUBSET Members
    BY <1>0 DEF Locals
  <2> HIDE DEF missing
  <2>2. Legal([To(r, "prune") EXCEPT !.batch = missing])
    BY <2>1, ReadsLegal
  <2> QED BY <1>i, <1>9, <2>2, EitherMoves DEF LookupSessions, RedisRead, missing
<1>10. CASE PruneSession(r)
  <2>1. ASSUME NEW s \in Members
        PROVE  Legal([req[r] EXCEPT !.batch = @ \ {s}])
    BY <1>0 DEF Locals, Consistent
  <2> QED BY <1>i, <1>10, <2>1, EitherMoves DEF PruneSession, RedisWrite
<1>11. CASE RevokeRead(r)
  <2>1. ASSUME session[req[r].session] # NoToken
        PROVE  Legal([To(r, "revokeUpdate") EXCEPT !.token = session[req[r].session]])
    <3>1. req[r].session \in Sessions
      BY <1>0, <1>11 DEF RevokeRead, At, Consistent, WithSession, Steps
    <3>2. session[req[r].session] \in Tokens
      BY <2>1, <3>1 DEF TypeOK
    <3> QED BY <1>0, <3>1, <3>2 DEF To, Locals, Steps, Consistent, WithSession, WithToken
  <2> QED BY <1>i, <1>11, <2>1, EitherMoves DEF RevokeRead, RedisRead
<1>12. CASE RevokeUpdate(r)
  <2>1. Legal(To(r, "revokeDelete"))
    BY <1>0, <1>12 DEF RevokeUpdate, At, To, Locals, Steps, Consistent, WithSession, WithToken
  <2> QED BY <1>12, <2>1, EitherMoves DEF RevokeUpdate
<1>13. CASE LogoutDelete(r) \/ DropSessions(r) \/ RevokeDelete(r)
  BY <1>i, <1>13, EitherMoves DEF LogoutDelete, DropSessions, RevokeDelete, RedisWrite
<1> QED
  BY <1>1, <1>2, <1>3, <1>4, <1>5, <1>6, <1>7, <1>8, <1>9, <1>10, <1>11, <1>12,
     <1>13 DEF GuardedStep

LEMMA AccountMoves ==
    ASSUME NEW r \in Requests, AccountStep(r)
    PROVE  Moves(r) \/ UNCHANGED req
<1> USE DEF Legal
<1>i. Legal(Idle) BY IdleType
<1>1. Legal([Idle EXCEPT !.pc = "readIndex"])
  BY <1>i DEF Locals, Steps, Consistent, WithSession, WithToken
<1> QED
  BY <1>i, <1>1, EitherMoves
     DEF AccountStep, ChangePassword, RefuseChange, ResetPassword, SoftDeleteUser,
         PermanentDeleteUser, RestoreUser, RevokeAll

-----------------------------------------------------------------------------
(* Type correctness of the stores *)

StoresTyped ==
    /\ account \in {"active", "deleted", "removed"}
    /\ password \in 0 .. MaxPassword
    /\ loginPassword \in [Sessions -> 0 .. MaxPassword]
    /\ logins \in 0 .. MaxLogins
    /\ tokenSession \in [Tokens -> Sessions \cup {NoSession}]
    /\ active \subseteq Tokens
    /\ session \in [Sessions -> Tokens \cup {NoToken}]
    /\ index \subseteq Members
    /\ issued \subseteq Tokens
    /\ granted \subseteq Sessions
    /\ faults \in 0 .. MaxFaults
    /\ barred \subseteq Sessions

LEMMA FailType ==
    ASSUME AuthAssumption, faults \in 0 .. MaxFaults,
           Fail \/ UNCHANGED faults
    PROVE  faults' \in 0 .. MaxFaults
BY DEF Fail, AuthAssumption

LEMMA LoginStores ==
    ASSUME TypeOK, LocalsOK, NEW r \in Requests, LoginStep(r)
    PROVE  StoresTyped'
<1> USE AuthAssumption, FailType DEF StoresTyped, accountVars, tokenVars, redisVars, clientVars
<1>0. StoresTyped /\ Consistent(req[r]) BY DEF TypeOK, LocalsOK
<1>f. Fail \/ UNCHANGED faults
  BY DEF LoginStep, Login, LoginInsert, LoginOpen, LoginCount, LoginPop, EvictRead,
         EvictDelete, EvictRestore, LoginFinish, RollbackToken, RollbackSession,
         RedisWrite, RedisRead
<1>1. CASE Login(r)
  BY <1>0, <1>f, <1>1 DEF Login, Sessions, AuthAssumption
<1>2. CASE LoginInsert(r)
  BY <1>0, <1>f, <1>2
     DEF LoginInsert, InsertToken, Fresh, At, Consistent, WithSession, Steps
<1>3. CASE LoginOpen(r)
  BY <1>0, <1>f, <1>3
     DEF LoginOpen, RedisWrite, At, Consistent, WithSession, WithToken, Steps, Members
<1>4. CASE LoginCount(r) \/ EvictRead(r)
  BY <1>0, <1>f, <1>4 DEF LoginCount, EvictRead, RedisRead
<1>5. CASE LoginPop(r)
  BY <1>0, <1>f, <1>5 DEF LoginPop, RedisWrite
<1>6. CASE RollbackToken(r)
  BY <1>0, <1>f, <1>6 DEF RollbackToken, RevokeToken
<1>7. CASE EvictDelete(r) \/ RollbackSession(r)
  BY <1>0, <1>f, <1>7 DEF EvictDelete, RollbackSession, RedisWrite, DeleteSession
<1>8. CASE EvictRestore(r)
  BY <1>0, <1>f, <1>8 DEF EvictRestore, RedisWrite, At, Consistent, Members
<1>9. CASE LoginFinish(r)
  BY <1>0, <1>f, <1>9
     DEF LoginFinish, At, Consistent, WithSession, WithToken, Steps
<1> QED
  BY <1>1, <1>2, <1>3, <1>4, <1>5, <1>6, <1>7, <1>8, <1>9 DEF LoginStep

LEMMA RefreshStores ==
    ASSUME TypeOK, LocalsOK, NEW r \in Requests, RefreshStep(r)
    PROVE  StoresTyped'
<1> USE AuthAssumption, FailType DEF StoresTyped, accountVars, tokenVars, redisVars, clientVars
<1>0. StoresTyped /\ Consistent(req[r]) BY DEF TypeOK, LocalsOK
<1>f. Fail \/ UNCHANGED faults
  BY DEF RefreshStep, Refresh, RefreshGet, RefreshRotate, RefreshCas, CleanupToken,
         CleanupSession, RedisWrite, RedisRead
<1>1. ASSUME NEW t \in Tokens, Refresh(r, t) PROVE StoresTyped'
  BY <1>0, <1>f, <1>1 DEF Refresh
<1>2. CASE RefreshGet(r)
  BY <1>0, <1>f, <1>2 DEF RefreshGet, RedisRead
<1>3. CASE RefreshRotate(r)
  BY <1>0, <1>f, <1>3
     DEF RefreshRotate, InsertToken, Fresh, At, Consistent, WithSession, Steps
<1>4. CASE RefreshCas(r)
  BY <1>0, <1>f, <1>4
     DEF RefreshCas, RedisWrite, RedisRead, At, Consistent, WithSession, Steps
<1>5. CASE CleanupToken(r)
  BY <1>0, <1>f, <1>5 DEF CleanupToken, RevokeToken
<1>6. CASE CleanupSession(r)
  BY <1>0, <1>f, <1>6 DEF CleanupSession, RedisWrite, DeleteSession
<1> QED BY <1>1, <1>2, <1>3, <1>4, <1>5, <1>6 DEF RefreshStep

LEMMA GuardedStores ==
    ASSUME TypeOK, LocalsOK, NEW r \in Requests, GuardedStep(r)
    PROVE  StoresTyped'
<1> USE AuthAssumption, FailType DEF StoresTyped, accountVars, tokenVars, redisVars, clientVars
<1>0. StoresTyped BY DEF TypeOK
<1>f. Fail \/ UNCHANGED faults
  BY DEF GuardedStep, Authorize, RevokeSession, Logout, LogoutSave, LogoutDelete,
         LogoutAll, LogoutAllUpdate, ReadIndex, DropSessions, RevokeRead, RevokeUpdate,
         RevokeDelete, ListSessions, LookupSessions, PruneSession, RedisWrite, RedisRead
<1>1. ASSUME NEW s \in Sessions, Authorize(r, s) \/ RevokeSession(r, s)
      PROVE  StoresTyped'
  BY <1>0, <1>f, <1>1 DEF Authorize, RevokeSession
<1>2. CASE Logout(r) \/ LogoutAll(r)
  BY <1>0, <1>f, <1>2 DEF Logout, LogoutAll
<1>3. CASE LogoutSave(r) \/ RevokeUpdate(r) \/ LogoutAllUpdate(r)
  BY <1>0, <1>f, <1>3 DEF LogoutSave, RevokeUpdate, LogoutAllUpdate, RevokeToken
<1>4. CASE LogoutDelete(r) \/ RevokeDelete(r)
  BY <1>0, <1>f, <1>4 DEF LogoutDelete, RevokeDelete, RedisWrite, DeleteSession
<1>5. CASE ReadIndex(r) \/ RevokeRead(r) \/ ListSessions(r) \/ LookupSessions(r)
  BY <1>0, <1>f, <1>5 DEF ReadIndex, RevokeRead, ListSessions, LookupSessions, RedisRead
<1>6. CASE DropSessions(r)
  BY <1>0, <1>f, <1>6 DEF DropSessions, RedisWrite
<1>7. CASE PruneSession(r)
  BY <1>0, <1>f, <1>7 DEF PruneSession, RedisWrite
<1> QED BY <1>1, <1>2, <1>3, <1>4, <1>5, <1>6, <1>7 DEF GuardedStep

LEMMA AccountStores ==
    ASSUME TypeOK, NEW r \in Requests, AccountStep(r)
    PROVE  StoresTyped'
<1>0. StoresTyped BY DEF TypeOK, StoresTyped
<1>1. CASE RefuseChange(r) \/ RestoreUser(r)
  BY <1>0, <1>1 DEF RefuseChange, RestoreUser, StoresTyped, accountVars, tokenVars,
                    redisVars, clientVars
<1>2. ASSUME RevokeAll(r),
             account' \in {"active", "deleted", "removed"},
             password' \in 0 .. MaxPassword
      PROVE  StoresTyped'
  BY <1>0, <1>2 DEF RevokeAll, StoresTyped, Fresh, redisVars, clientVars
<1>3. CASE ChangePassword(r) \/ ResetPassword(r)
  BY <1>0, <1>2, <1>3, AuthAssumption
     DEF ChangePassword, ResetPassword, StoresTyped, AuthAssumption
<1>4. CASE SoftDeleteUser(r) \/ PermanentDeleteUser(r)
  BY <1>0, <1>2, <1>4 DEF SoftDeleteUser, PermanentDeleteUser, StoresTyped
<1> QED BY <1>1, <1>3, <1>4 DEF AccountStep

LEMMA TypeStep ==
    ASSUME TypeOK, LocalsOK, ActiveInserted, [Next]_vars
    PROVE  TypeOK' /\ LocalsOK'
<1>0. StoresTyped BY DEF TypeOK, StoresTyped
<1>1. ASSUME StoresTyped', NEW r \in Requests, Moves(r)
      PROVE  TypeOK' /\ LocalsOK'
  BY <1>1, MovesType DEF TypeOK, StoresTyped
<1>2. ASSUME StoresTyped', UNCHANGED req
      PROVE  TypeOK' /\ LocalsOK'
  BY <1>2 DEF TypeOK, StoresTyped, LocalsOK, Consistent
<1>3. ASSUME NEW r \in Requests, LoginStep(r) PROVE TypeOK' /\ LocalsOK'
  BY <1>1, <1>3, LoginStores, LoginMoves
<1>4. ASSUME NEW r \in Requests, RefreshStep(r) PROVE TypeOK' /\ LocalsOK'
  BY <1>1, <1>4, RefreshStores, RefreshMoves
<1>5. ASSUME NEW r \in Requests, GuardedStep(r) PROVE TypeOK' /\ LocalsOK'
  BY <1>1, <1>5, GuardedStores, GuardedMoves
<1>6. ASSUME NEW r \in Requests, AccountStep(r) PROVE TypeOK' /\ LocalsOK'
  BY <1>1, <1>2, <1>6, AccountStores, AccountMoves
<1>7. ASSUME NEW r \in Requests, Crash(r) PROVE TypeOK' /\ LocalsOK'
  <2>1. Moves(r)
    BY <1>7, IdleType, EitherMoves DEF Crash, Legal
  <2>2. StoresTyped'
    BY <1>0, <1>7, FailType, AuthAssumption
       DEF Crash, StoresTyped, accountVars, tokenVars, redisVars, clientVars
  <2> QED BY <1>1, <2>1, <2>2
<1>8. ASSUME NEW s \in Sessions, ExpireSession(s) PROVE TypeOK' /\ LocalsOK'
  BY <1>0, <1>2, <1>8
     DEF ExpireSession, StoresTyped, accountVars, tokenVars, clientVars
<1>9. CASE UNCHANGED vars
  BY <1>0, <1>2, <1>9
     DEF vars, StoresTyped, accountVars, tokenVars, redisVars, clientVars
<1> QED
  BY <1>3, <1>4, <1>5, <1>6, <1>7, <1>8, <1>9 DEF Next

-----------------------------------------------------------------------------
(* The relation of rows, sessions and requests *)

Linked ==
    /\ NumberedOK
    /\ ActiveInserted
    /\ BarredHadTokens
    /\ InsertOwns
    /\ RotatesOwn
    /\ OneActiveTokenPerSession
    /\ BarredSessionsStayRevoked

(* A record of locals that claims nothing about rows. *)
Calm(l) == l.pc \notin {"insert", "refreshGet", "rotate"}

OnlyRevokes ==
    /\ UNCHANGED <<tokenSession, barred, logins>>
    /\ active' \subseteq active

(* Any step that only revokes rows and leaves its request claiming no more
   than before keeps the relation.                                         *)
LEMMA RevokingKeepsLinked ==
    ASSUME TypeOK, Linked, OnlyRevokes,
           \A r \in Requests : \/ req'[r] = req[r]
                              \/ Calm(req'[r])
                              \/ /\ req'[r].pc \in {"refreshGet", "rotate"}
                                 /\ tokenSession[req'[r].token] = req'[r].session
    PROVE  Linked'
<1>1. NumberedOK' /\ ActiveInserted' /\ BarredHadTokens'
  BY DEF Linked, OnlyRevokes, NumberedOK, ActiveInserted, BarredHadTokens, Fresh
<1>2. InsertOwns'
  BY DEF Linked, OnlyRevokes, InsertOwns, Calm, At, SessionTokens
<1>3. RotatesOwn'
  BY DEF Linked, OnlyRevokes, RotatesOwn, Calm
<1>4. OneActiveTokenPerSession' /\ BarredSessionsStayRevoked'
  BY DEF Linked, OnlyRevokes, OneActiveTokenPerSession, BarredSessionsStayRevoked,
         SessionTokens
<1> QED BY <1>1, <1>2, <1>3, <1>4 DEF Linked

LEMMA EitherCalm ==
    ASSUME TypeOK, NEW r \in Requests, NEW ok, NEW failed, Calm(ok), Calm(failed),
           Continue(r, ok) \/ Continue(r, failed)
    PROVE  \A q \in Requests : req'[q] = req[q] \/ Calm(req'[q])
BY DEF TypeOK, Continue

LEMMA ToCalm ==
    ASSUME TypeOK, NEW r \in Requests,
           NEW pc \in Steps \ {"insert", "refreshGet", "rotate"}
    PROVE  Calm(To(r, pc)) /\ To(r, pc).pc = pc
BY DEF TypeOK, Locals, To, Calm

LEMMA IdleCalm == Calm(Idle)
BY DEF Idle, Calm

(* Everything a login does after its insert. *)
LEMMA LoginTailCalm ==
    ASSUME TypeOK, NEW r \in Requests, LoginStep(r), ~Login(r), ~LoginInsert(r)
    PROVE  /\ OnlyRevokes
           /\ \A q \in Requests : req'[q] = req[q] \/ Calm(req'[q])
<1>r. req[r] \in Locals BY DEF TypeOK
<1>1. OnlyRevokes
  BY DEF LoginStep, LoginOpen, LoginCount, LoginPop, EvictRead,
         EvictDelete, EvictRestore, LoginFinish, RollbackToken, RollbackSession,
         RevokeToken, OnlyRevokes, accountVars, tokenVars
<1> SUFFICES \A q \in Requests : req'[q] = req[q] \/ Calm(req'[q])
  BY <1>1
<1>2. CASE LoginOpen(r)
  BY <1>2, ToCalm, EitherCalm DEF LoginOpen, RedisWrite, Steps
<1>3. CASE LoginCount(r)
  <2>1. ASSUME NEW n PROVE Calm([To(r, "pop") EXCEPT !.excess = n])
    BY <1>r DEF To, Locals, Calm
  <2> QED BY <1>3, <2>1, ToCalm, EitherCalm DEF LoginCount, RedisRead, Steps
<1>4. CASE LoginPop(r)
  <2>1. ASSUME NEW n PROVE Calm([To(r, "evict") EXCEPT !.strings = n])
    BY <1>r DEF To, Locals, Calm
  <2> QED BY <1>4, <2>1, ToCalm, EitherCalm DEF LoginPop, RedisWrite, Steps
<1>5. CASE EvictRead(r)
  <2>1. ASSUME NEW c, NEW pc \in {"evictDelete", "evictRestore"}
        PROVE  Calm([To(r, pc) EXCEPT !.stray = c])
    BY <1>r DEF To, Locals, Calm
  <2> QED BY <1>5, <2>1, EitherCalm DEF EvictRead, RedisRead
<1>7. CASE EvictDelete(r) \/ EvictRestore(r)
  <2>1. Calm(Evicted(r))
    BY <1>r DEF Evicted, To, Locals, Calm
  <2> QED
    BY <1>7, <2>1, ToCalm, EitherCalm DEF EvictDelete, EvictRestore, RedisWrite, Steps
<1>8. CASE LoginFinish(r) \/ RollbackSession(r)
  BY <1>8, IdleCalm, EitherCalm DEF LoginFinish, RollbackSession, RedisWrite
<1>9. CASE RollbackToken(r)
  BY <1>9, ToCalm, EitherCalm DEF RollbackToken, Steps
<1> QED
  BY <1>1, <1>2, <1>3, <1>4, <1>5, <1>7, <1>8, <1>9 DEF LoginStep

(* The common part of a login's insert and of a rotation: a new row for
   session s, which no other active row and no waiting login has.          *)
LEMMA InsertLinked ==
    ASSUME TypeOK, LocalsOK, Linked, NEW r \in Requests, NEW t \in Fresh,
           NEW s \in Sessions, NEW rest \in SUBSET active,
           s <= logins, s \notin barred,
           \A u \in rest : tokenSession[u] # s,
           \A q \in Requests : At(q, "insert") /\ q # r => req[q].session # s,
           InsertToken(t, s, rest), UNCHANGED <<barred, logins>>,
           Calm(req'[r]), \A q \in Requests : q # r => req'[q] = req[q]
    PROVE  Linked'
<1>1. /\ t \in Tokens /\ tokenSession[t] = 0 /\ s # 0
      /\ tokenSession'[t] = s
      /\ \A u \in Tokens : u # t => tokenSession'[u] = tokenSession[u]
      /\ active' = rest \cup {t}
  BY DEF Fresh, InsertToken, NoSession, Sessions, TypeOK
<1>2. NumberedOK'
  BY <1>1 DEF Linked, NumberedOK
<1>3. ActiveInserted'
  BY <1>1 DEF Linked, ActiveInserted, Fresh, NoSession, TypeOK
<1>4. BarredHadTokens'
  <2>1. \A b \in barred : b # 0
    BY DEF TypeOK, Sessions
  <2> QED BY <1>1, <2>1 DEF Linked, BarredHadTokens
<1>5. InsertOwns'
  BY <1>1 DEF Linked, InsertOwns, At, SessionTokens, Calm
<1>6. RotatesOwn'
  <2>1. ASSUME NEW q \in Requests, req[q].pc \in {"refreshGet", "rotate"}
        PROVE  req[q].token \in Tokens /\ req[q].token # t
    BY <1>1, <2>1 DEF Linked, RotatesOwn, LocalsOK, Consistent, WithSession, WithToken,
                      Steps, Sessions
  <2> QED BY <1>1, <2>1 DEF Linked, RotatesOwn, Calm
<1>7. OneActiveTokenPerSession'
  BY <1>1 DEF Linked, OneActiveTokenPerSession, TypeOK
<1>8. BarredSessionsStayRevoked'
  BY <1>1 DEF Linked, BarredSessionsStayRevoked, SessionTokens
<1> QED BY <1>2, <1>3, <1>4, <1>5, <1>6, <1>7, <1>8 DEF Linked

LEMMA LoginLinked ==
    ASSUME TypeOK, LocalsOK, Linked, NEW r \in Requests, LoginStep(r)
    PROVE  Linked'
<1>1. CASE Login(r)
  <2> DEFINE l == [Idle EXCEPT !.pc = "insert", !.session = logins + 1]
  <2>1. l.pc = "insert" /\ l.session = logins + 1
    BY DEF Idle
  <2>2. Continue(r, l) /\ UNCHANGED <<tokenSession, active, barred>> /\ logins' = logins + 1
    BY <1>1 DEF Login, tokenVars
  <2> HIDE DEF l
  <2>3. req' \in [Requests -> Locals \cup {l}] /\ req' = [req EXCEPT ![r] = l]
    BY <2>2 DEF Continue, TypeOK
  <2>4. logins \in Nat /\ \A t \in Tokens : tokenSession[t] \in Nat
    BY AuthAssumption DEF TypeOK, Sessions, NoSession, AuthAssumption
  <2>5. NumberedOK' /\ ActiveInserted' /\ BarredHadTokens'
    BY <2>2, <2>4 DEF Linked, NumberedOK, ActiveInserted, BarredHadTokens, Fresh
  <2>6. InsertOwns'
    <3>1. SessionTokens({logins + 1}) = {}
      BY <2>4 DEF Linked, NumberedOK, SessionTokens
    <3>2. \A q \in Requests : At(q, "insert") => req[q].session # logins + 1
                                              /\ req[q].session <= logins + 1
      <4>1. \A q \in Requests : At(q, "insert") => req[q].session \in Sessions
        BY DEF LocalsOK, Consistent, At, WithSession, Steps
      <4>2. \A q \in Requests : At(q, "insert") => req[q].session <= logins
        BY DEF Linked, InsertOwns
      <4>3. \A n \in Sessions : n <= logins => n # logins + 1 /\ n <= logins + 1
        BY <2>4 DEF Sessions
      <4> QED BY <4>1, <4>2, <4>3
    <3> QED BY <2>1, <2>2, <2>3, <2>4, <3>1, <3>2
            DEF Linked, InsertOwns, At, SessionTokens, TypeOK
  <2>7. RotatesOwn'
    BY <2>1, <2>2, <2>3 DEF Linked, RotatesOwn
  <2>8. OneActiveTokenPerSession' /\ BarredSessionsStayRevoked'
    BY <2>2 DEF Linked, OneActiveTokenPerSession, BarredSessionsStayRevoked, SessionTokens
  <2> QED BY <2>5, <2>6, <2>7, <2>8 DEF Linked
<1>2. CASE LoginInsert(r)
  <2>1. ASSUME NEW t \in Fresh, InsertToken(t, req[r].session, active),
               Continue(r, [To(r, "open") EXCEPT !.token = t])
        PROVE  Linked'
    <3>1. req[r].session \in Sessions /\ At(r, "insert")
      BY <1>2 DEF LoginInsert, LocalsOK, Consistent, At, WithSession, Steps
    <3>2. /\ req[r].session <= logins
          /\ SessionTokens({req[r].session}) = {}
          /\ \A q \in Requests : At(q, "insert") /\ q # r => req[q].session # req[r].session
      BY <3>1 DEF Linked, InsertOwns
    <3>3. req[r].session \notin barred /\ \A u \in active : tokenSession[u] # req[r].session
      BY <3>2 DEF Linked, BarredHadTokens, SessionTokens, TypeOK
    <3>4. Calm([To(r, "open") EXCEPT !.token = t])
      BY DEF TypeOK, Locals, To, Calm
    <3>5. Calm(req'[r]) /\ \A q \in Requests : q # r => req'[q] = req[q]
      BY <2>1, <3>4 DEF Continue, TypeOK
    <3> QED BY <1>2, <2>1, <3>1, <3>2, <3>3, <3>5, InsertLinked DEF LoginInsert, accountVars
  <2>2. CASE Continue(r, Idle) /\ UNCHANGED tokenVars
    BY <1>2, <2>2, IdleCalm, EitherCalm, RevokingKeepsLinked
       DEF LoginInsert, OnlyRevokes, accountVars, tokenVars
  <2> QED BY <1>2, <2>1, <2>2 DEF LoginInsert
<1>3. CASE ~Login(r) /\ ~LoginInsert(r)
  BY <1>3, LoginTailCalm, RevokingKeepsLinked
<1> QED BY <1>1, <1>2, <1>3

LEMMA RefreshLinked ==
    ASSUME TypeOK, LocalsOK, Linked, NEW r \in Requests, RefreshStep(r)
    PROVE  Linked'
<1>r. req[r] \in Locals /\ req \in [Requests -> Locals] BY DEF TypeOK
<1>1. ASSUME NEW t \in Tokens, Refresh(r, t) PROVE Linked'
  <2> DEFINE l == [Idle EXCEPT !.pc = "refreshGet", !.token = t,
                               !.session = tokenSession[t]]
  <2>1. l.pc = "refreshGet" /\ l.token = t /\ l.session = tokenSession[t]
    BY DEF Idle
  <2>2. Continue(r, l) /\ OnlyRevokes
    BY <1>1 DEF Refresh, OnlyRevokes, accountVars, tokenVars
  <2> HIDE DEF l
  <2>3. req'[r] = l /\ \A q \in Requests : q # r => req'[q] = req[q]
    BY <1>r, <2>2 DEF Continue
  <2> QED BY <2>1, <2>2, <2>3, RevokingKeepsLinked
<1>2. CASE RefreshGet(r)
  <2>1. /\ To(r, "rotate").token = req[r].token
        /\ To(r, "rotate").session = req[r].session
        /\ To(r, "rotate").pc = "rotate"
    BY <1>r DEF To, Locals
  <2>2. tokenSession[req[r].token] = req[r].session
    BY <1>2 DEF RefreshGet, At, Linked, RotatesOwn
  <2>3. OnlyRevokes /\ (Continue(r, To(r, "rotate")) \/ Continue(r, Idle))
    BY <1>2 DEF RefreshGet, RedisRead, OnlyRevokes, accountVars, tokenVars
  <2>4. /\ req'[r] = To(r, "rotate") \/ req'[r] = Idle
        /\ \A q \in Requests : q # r => req'[q] = req[q]
    BY <1>r, <2>3 DEF Continue
  <2> QED BY <2>1, <2>2, <2>3, <2>4, IdleCalm, RevokingKeepsLinked
<1>3. CASE RefreshRotate(r)
  <2>1. ASSUME req[r].token \in active, NEW t \in Fresh,
               InsertToken(t, req[r].session, active \ {req[r].token}),
               Continue(r, [To(r, "cas") EXCEPT !.next = t])
        PROVE  Linked'
    <3>1. At(r, "rotate") /\ req[r].session \in Sessions
      BY <1>3 DEF RefreshRotate, At, LocalsOK, Consistent, WithSession, Steps
    <3>2. tokenSession[req[r].token] = req[r].session /\ req[r].token \in Tokens
      BY <2>1, <3>1 DEF At, Linked, RotatesOwn, TypeOK
    <3>3. req[r].session <= logins /\ req[r].session \notin barred
      BY <2>1, <3>2 DEF Linked, NumberedOK, BarredSessionsStayRevoked, SessionTokens
    <3>4. \A u \in active \ {req[r].token} : tokenSession[u] # req[r].session
      BY <2>1, <3>2 DEF Linked, OneActiveTokenPerSession
    <3>5. \A q \in Requests : At(q, "insert") => req[q].session # req[r].session
      BY <3>2 DEF Linked, InsertOwns, SessionTokens
    <3>6. Calm([To(r, "cas") EXCEPT !.next = t])
      BY <1>r DEF Locals, To, Calm
    <3>7. Calm(req'[r]) /\ \A q \in Requests : q # r => req'[q] = req[q]
      BY <1>r, <2>1, <3>6 DEF Continue
    <3> QED BY <1>3, <2>1, <3>1, <3>3, <3>4, <3>5, <3>7, InsertLinked
            DEF RefreshRotate, accountVars
  <2>2. CASE Continue(r, Idle) /\ UNCHANGED tokenVars
    BY <1>3, <2>2, IdleCalm, EitherCalm, RevokingKeepsLinked
       DEF RefreshRotate, OnlyRevokes, accountVars, tokenVars
  <2> QED BY <1>3, <2>1, <2>2 DEF RefreshRotate, RotationAllowed
<1>4. CASE RefreshCas(r)
  <2>1. Calm(CleanupOf(r))
    BY <1>r DEF CleanupOf, To, Locals, Calm
  <2>2. OnlyRevokes
    BY <1>4 DEF RefreshCas, OnlyRevokes, accountVars, tokenVars
  <2> QED BY <1>4, <2>1, <2>2, IdleCalm, EitherCalm, RevokingKeepsLinked
          DEF RefreshCas, RedisWrite, RedisRead
<1>5. CASE CleanupToken(r) \/ CleanupSession(r)
  <2>1. ASSUME NEW part, At(r, "cleanup") PROVE Calm(Settled(r, part))
    <3>1. Calm([req[r] EXCEPT !.pending = @ \ {part}])
      BY <1>r, <2>1 DEF Locals, Calm, At
    <3> QED BY <3>1, IdleCalm DEF Settled
  <2>2. OnlyRevokes
    BY <1>5 DEF CleanupToken, CleanupSession, RevokeToken, OnlyRevokes, accountVars, tokenVars
  <2> QED BY <1>5, <2>1, <2>2, EitherCalm, RevokingKeepsLinked
          DEF CleanupToken, CleanupSession, RedisWrite
<1> QED BY <1>1, <1>2, <1>3, <1>4, <1>5 DEF RefreshStep

(* The steps of a request that carries no token of its own. *)
PlainSteps == {"idle", "authorized", "rollbackDelete", "logoutSave", "logoutDelete",
               "logoutAllUpdate", "readIndex", "drop", "revoke", "revokeUpdate",
               "revokeDelete", "lookup", "prune"}

Plain(l) == l.pc \in PlainSteps

LEMMA PlainIsCalm ==
    ASSUME NEW l, Plain(l)
    PROVE  Calm(l)
BY DEF Plain, PlainSteps, Calm

LEMMA EitherPlain ==
    ASSUME TypeOK, NEW r \in Requests, NEW ok, NEW failed, Plain(ok), Plain(failed),
           Continue(r, ok) \/ Continue(r, failed)
    PROVE  \A q \in Requests : req'[q] = req[q] \/ (q = r /\ Plain(req'[q]))
BY DEF TypeOK, Continue

LEMMA ToPlain ==
    ASSUME TypeOK, NEW r \in Requests, NEW pc \in PlainSteps
    PROVE  Plain(To(r, pc))
BY DEF TypeOK, Locals, To, Plain, PlainSteps

LEMMA IdlePlain == Plain(Idle)
BY DEF Idle, Plain, PlainSteps

LEMMA GuardedPlain ==
    ASSUME TypeOK, NEW r \in Requests, GuardedStep(r)
    PROVE  /\ OnlyRevokes
           /\ Plain(req[r])
           /\ \A q \in Requests : req'[q] = req[q] \/ (q = r /\ Plain(req'[q]))
<1>r. req[r] \in Locals BY DEF TypeOK
<1>0. OnlyRevokes
  BY DEF GuardedStep, Authorize, RevokeSession, Logout, LogoutSave, LogoutDelete,
         LogoutAll, LogoutAllUpdate, ReadIndex, DropSessions, RevokeRead, RevokeUpdate,
         RevokeDelete, ListSessions, LookupSessions, PruneSession, RevokeToken,
         OnlyRevokes, accountVars, tokenVars
<1>p. Plain(req[r])
  BY DEF GuardedStep, Authorize, RevokeSession, Logout, LogoutSave, LogoutDelete,
         LogoutAll, LogoutAllUpdate, ReadIndex, DropSessions, RevokeRead, RevokeUpdate,
         RevokeDelete, ListSessions, LookupSessions, PruneSession, At, Plain, PlainSteps
<1> SUFFICES \A q \in Requests : req'[q] = req[q] \/ (q = r /\ Plain(req'[q]))
  BY <1>0, <1>p
<1>1. ASSUME NEW s \in Sessions, Authorize(r, s)
      PROVE  \A q \in Requests : req'[q] = req[q] \/ (q = r /\ Plain(req'[q]))
  <2>1. Plain([Idle EXCEPT !.pc = "authorized", !.session = s])
    BY DEF Idle, Plain, PlainSteps
  <2> QED BY <1>1, <2>1, EitherPlain DEF Authorize
<1>2. ASSUME NEW s \in Sessions, RevokeSession(r, s)
      PROVE  \A q \in Requests : req'[q] = req[q] \/ (q = r /\ Plain(req'[q]))
  <2>1. Plain([To(r, "revoke") EXCEPT !.session = s])
    BY <1>r DEF To, Locals, Plain, PlainSteps
  <2> QED BY <1>2, <2>1, EitherPlain DEF RevokeSession
<1>3. CASE Logout(r) \/ RevokeRead(r)
  <2>1. ASSUME NEW t, NEW pc \in {"logoutSave", "revokeUpdate"}
        PROVE  Plain([To(r, pc) EXCEPT !.token = t])
    BY <1>r DEF To, Locals, Plain, PlainSteps
  <2> QED BY <1>3, <2>1, IdlePlain, EitherPlain DEF Logout, RevokeRead, RedisRead
<1>4. CASE LogoutSave(r) \/ RevokeUpdate(r)
  BY <1>4, ToPlain, IdlePlain, EitherPlain DEF LogoutSave, RevokeUpdate, PlainSteps
<1>5. CASE LogoutAll(r) \/ LogoutAllUpdate(r)
  <2>1. ASSUME NEW S, NEW pc \in {"logoutAllUpdate", "readIndex"}
        PROVE  Plain([To(r, pc) EXCEPT !.snapshot = S])
    BY <1>r DEF To, Locals, Plain, PlainSteps
  <2> QED BY <1>5, <2>1, EitherPlain DEF LogoutAll, LogoutAllUpdate
<1>6. CASE ReadIndex(r) \/ ListSessions(r) \/ LookupSessions(r)
  <2>1. ASSUME NEW S, NEW pc \in {"drop", "lookup", "prune"}
        PROVE  Plain([To(r, pc) EXCEPT !.batch = S])
    BY <1>r DEF To, Locals, Plain, PlainSteps
  <2> QED BY <1>6, <2>1, IdlePlain, EitherPlain
          DEF ReadIndex, ListSessions, LookupSessions, RedisRead
<1>7. CASE PruneSession(r)
  <2>1. ASSUME NEW s PROVE Plain([req[r] EXCEPT !.batch = @ \ {s}])
    BY <1>r, <1>7 DEF PruneSession, At, Locals, Plain, PlainSteps
  <2> QED BY <1>7, <2>1, IdlePlain, EitherPlain DEF PruneSession, RedisWrite
<1>8. CASE LogoutDelete(r) \/ DropSessions(r) \/ RevokeDelete(r)
  BY <1>8, IdlePlain, EitherPlain DEF LogoutDelete, DropSessions, RevokeDelete, RedisWrite
<1> QED BY <1>1, <1>2, <1>3, <1>4, <1>5, <1>6, <1>7, <1>8 DEF GuardedStep

LEMMA AccountLinked ==
    ASSUME TypeOK, Linked, NEW r \in Requests, AccountStep(r)
    PROVE  Linked'
<1>1. ASSUME RevokeAll(r) PROVE Linked'
  <2>1. Calm([Idle EXCEPT !.pc = "readIndex"])
    BY DEF Idle, Calm
  <2>2. \A q \in Requests : req'[q] = req[q] \/ Calm(req'[q])
    BY <1>1, <2>1, EitherCalm DEF RevokeAll
  <2>3. /\ active' = {} /\ UNCHANGED <<tokenSession, logins>>
        /\ barred' = {tokenSession[t] : t \in Tokens \ Fresh}
    BY <1>1 DEF RevokeAll
  <2>4. NumberedOK' /\ ActiveInserted' /\ BarredHadTokens'
    BY <2>3 DEF Linked, NumberedOK, ActiveInserted, BarredHadTokens
  <2>5. InsertOwns' /\ RotatesOwn'
    BY <2>2, <2>3 DEF Linked, InsertOwns, RotatesOwn, Calm, At, SessionTokens
  <2>6. OneActiveTokenPerSession' /\ BarredSessionsStayRevoked'
    BY <2>3 DEF OneActiveTokenPerSession, BarredSessionsStayRevoked
  <2> QED BY <2>4, <2>5, <2>6 DEF Linked
<1>2. CASE RefuseChange(r)
  BY <1>2, IdleCalm, EitherCalm, RevokingKeepsLinked
     DEF RefuseChange, OnlyRevokes, accountVars, tokenVars
<1>3. CASE RestoreUser(r)
  BY <1>3, RevokingKeepsLinked DEF RestoreUser, OnlyRevokes, tokenVars
<1> QED
  BY <1>1, <1>2, <1>3
     DEF AccountStep, ChangePassword, ResetPassword, SoftDeleteUser, PermanentDeleteUser

LEMMA LinkedStep ==
    ASSUME TypeOK, LocalsOK, Linked, [Next]_vars
    PROVE  Linked'
<1>1. ASSUME NEW r \in Requests, LoginStep(r) PROVE Linked'
  BY <1>1, LoginLinked
<1>2. ASSUME NEW r \in Requests, RefreshStep(r) PROVE Linked'
  BY <1>2, RefreshLinked
<1>3. ASSUME NEW r \in Requests, GuardedStep(r) PROVE Linked'
  BY <1>3, GuardedPlain, PlainIsCalm, RevokingKeepsLinked
<1>4. ASSUME NEW r \in Requests, AccountStep(r) PROVE Linked'
  BY <1>4, AccountLinked
<1>5. ASSUME NEW r \in Requests, Crash(r) PROVE Linked'
  BY <1>5, IdleCalm, EitherCalm, RevokingKeepsLinked
     DEF Crash, OnlyRevokes, accountVars, tokenVars
<1>6. ASSUME NEW s \in Sessions, ExpireSession(s) PROVE Linked'
  BY <1>6, RevokingKeepsLinked DEF ExpireSession, OnlyRevokes, accountVars, tokenVars
<1>7. CASE UNCHANGED vars
  BY <1>7, RevokingKeepsLinked DEF vars, OnlyRevokes, accountVars, tokenVars
<1> QED BY <1>1, <1>2, <1>3, <1>4, <1>5, <1>6, <1>7 DEF Next

-----------------------------------------------------------------------------
(* Theorems *)

(* The initial state satisfies the inductive invariant. *)
LEMMA InitInv == Init => TypeOK /\ LocalsOK /\ Linked
<1> SUFFICES ASSUME Init PROVE TypeOK /\ LocalsOK /\ Linked
  OBVIOUS
<1>1. TypeOK /\ LocalsOK
  BY IdleType, AuthAssumption DEF Init, TypeOK, LocalsOK, NoSession, AuthAssumption
<1>2. \A r \in Requests : Calm(req[r])
  BY IdleCalm DEF Init
<1>3. Linked
  BY <1>2, AuthAssumption
     DEF Init, Linked, NumberedOK, ActiveInserted, BarredHadTokens, InsertOwns, RotatesOwn,
         OneActiveTokenPerSession, BarredSessionsStayRevoked, Calm, At, NoSession,
         AuthAssumption
<1> QED BY <1>1, <1>3

(* The inductive invariant holds in every reachable state. *)
THEOREM Invariance == Spec => [](TypeOK /\ LocalsOK /\ Linked)
<1>1. TypeOK /\ LocalsOK /\ Linked /\ [Next]_vars => (TypeOK /\ LocalsOK /\ Linked)'
  BY TypeStep, LinkedStep DEF Linked
<1> QED BY <1>1, InitInv, PTL DEF Spec

(* Every variable and every request's locals keep their types. *)
THEOREM TypeCorrect == Spec => []TypeOK
BY Invariance, PTL

(* Rotation never forks a session: refreshAccessToken, login, the cleanups
   and every revocation leave at most one active row per session.          *)
THEOREM NoForkedSession == Spec => []OneActiveTokenPerSession
<1>1. Linked => OneActiveTokenPerSession
  BY DEF Linked
<1> QED BY <1>1, Invariance, PTL

(* After a password change, reset or account deletion no session that had a
   token ever has an active one again.                                     *)
THEOREM BarredForGood == Spec => []BarredSessionsStayRevoked
<1>1. Linked => BarredSessionsStayRevoked
  BY DEF Linked
<1> QED BY <1>1, Invariance, PTL

(* Only a login opens a session key: the compare-and-set script and every
   other Redis write leave an ended session ended.                         *)
THEOREM NoRevival == Spec => DeadSessionsStayDead
<1> DEFINE Stays == \A s \in Sessions :
                       session[s] = NoToken /\ session'[s] # NoToken =>
                          \E r \in Requests : At(r, "open") /\ req[r].session = s
<1>1. ASSUME TypeOK, LocalsOK, [Next]_vars PROVE Stays
  <2>1. ASSUME NEW r \in Requests, LoginStep(r) PROVE Stays
    <3>1. CASE LoginOpen(r)
      BY <1>1, <3>1 DEF LoginOpen, RedisWrite, redisVars, TypeOK
    <3>2. CASE RollbackSession(r)
      BY <1>1, <3>2 DEF RollbackSession, RedisWrite, DeleteSession, redisVars, TypeOK
    <3>3. CASE UNCHANGED session
      BY <3>3
    <3> QED BY <2>1, <3>1, <3>2, <3>3
            DEF LoginStep, Login, LoginInsert, LoginCount, LoginPop, EvictRead, EvictDelete,
                EvictRestore, LoginFinish, RollbackToken, RedisWrite, RedisRead, redisVars
  <2>2. ASSUME NEW r \in Requests, RefreshStep(r) PROVE Stays
    <3>1. CASE RefreshCas(r)
      <4>1. req[r].token \in Tokens
        BY <1>1, <3>1 DEF RefreshCas, At, LocalsOK, Consistent, WithToken
      <4> QED BY <1>1, <3>1, <4>1, AuthAssumption
              DEF RefreshCas, CasMatches, RedisWrite, RedisRead, redisVars, TypeOK, AuthAssumption
    <3>2. CASE CleanupSession(r)
      BY <1>1, <3>2 DEF CleanupSession, RedisWrite, DeleteSession, redisVars, TypeOK
    <3>3. CASE UNCHANGED session
      BY <3>3
    <3> QED BY <2>2, <3>1, <3>2, <3>3
            DEF RefreshStep, Refresh, RefreshGet, RefreshRotate, CleanupToken, RedisRead,
                redisVars
  <2>3. ASSUME NEW r \in Requests, GuardedStep(r) PROVE Stays
    <3>1. CASE LogoutDelete(r) \/ RevokeDelete(r)
      BY <1>1, <3>1 DEF LogoutDelete, RevokeDelete, RedisWrite, DeleteSession, redisVars, TypeOK
    <3>2. CASE DropSessions(r)
      BY <1>1, <3>2 DEF DropSessions, RedisWrite, redisVars
    <3>3. CASE UNCHANGED session
      BY <3>3
    <3> QED BY <2>3, <3>1, <3>2, <3>3
            DEF GuardedStep, Authorize, RevokeSession, Logout, LogoutSave, LogoutAll,
                LogoutAllUpdate, ReadIndex, RevokeRead, RevokeUpdate, ListSessions,
                LookupSessions, PruneSession, RedisWrite, RedisRead, redisVars
  <2>4. ASSUME NEW r \in Requests, AccountStep(r) \/ Crash(r) PROVE Stays
    BY <2>4 DEF AccountStep, ChangePassword, RefuseChange, ResetPassword, SoftDeleteUser,
                PermanentDeleteUser, RestoreUser, RevokeAll, Crash, redisVars
  <2>5. ASSUME NEW s \in Sessions, ExpireSession(s) PROVE Stays
    BY <1>1, <2>5 DEF ExpireSession, TypeOK
  <2>6. CASE UNCHANGED vars
    BY <2>6 DEF vars, redisVars
  <2> QED BY <1>1, <2>1, <2>2, <2>3, <2>4, <2>5, <2>6 DEF Next
<1> QED BY <1>1, Invariance, PTL DEF DeadSessionsStayDead, Spec

-----------------------------------------------------------------------------
(* The two stores.  A request carries a token from the moment it inserts   *)
(* its row until the client has it, or the row is given up.                *)

LoginTail == {"open", "count", "pop", "evict", "evictDelete", "evictRestore",
              "rollback"}

Held(l) ==
    IF l.pc \in LoginTail THEN {l.token}
    ELSE IF l.pc = "cas" \/ (l.pc = "cleanup" /\ "token" \in l.pending) THEN {l.next}
    ELSE {}

Opening == {"insert", "open", "count"}

(* A token carried by one request is nobody else's, and the only active row *)
(* its session can have.                                                   *)
HeldApart ==
    \A r \in Requests : \A t \in Held(req[r]) :
        /\ t \in Tokens \ Fresh
        /\ t \notin issued
        /\ \A u \in active : tokenSession[u] = tokenSession[t] => u = t
        /\ \A q \in Requests : t \in Held(req[q]) => q = r

HeldOfSession ==
    \A r \in Requests :
        /\ At(r, "open") => tokenSession[req[r].token] = req[r].session
        /\ At(r, "cas") => tokenSession[req[r].next] = req[r].session

Presented ==
    \A r \in Requests : req[r].pc \in {"refreshGet", "rotate"} => req[r].token \in issued

IssuedInserted == issued \cap Fresh = {}

LoginsApart ==
    \A r \in Requests : req[r].pc \in Opening =>
        /\ req[r].session <= logins
        /\ \A q \in Requests :
              req[q].pc \in Opening /\ req[q].session = req[r].session => q = r

Unopened ==
    \A s \in Sessions :
        s > logins \/ (\E r \in Requests : At(r, "insert") /\ req[r].session = s)
            => session[s] = NoToken

Handed ==
    /\ HeldApart
    /\ HeldOfSession
    /\ Presented
    /\ IssuedInserted
    /\ LoginsApart
    /\ Unopened

(* Without failures, no active row is forgotten and the key of its session *)
(* is behind at most by the compare-and-set still to come.                 *)
Delivered == \A t \in active : t \in issued \/ \E r \in Requests : t \in Held(req[r])

KeyAgrees ==
    \A t \in active :
        \/ session[tokenSession[t]] \in {t, NoToken}
        \/ \E r \in Requests :
              /\ At(r, "cas")
              /\ req[r].next = t
              /\ session[tokenSession[t]] = req[r].token

Agreed == faults = 0 => Delivered /\ KeyAgrees

-----------------------------------------------------------------------------
(* A request that neither opens, rotates nor delivers: it may only give up *)
(* what it carries, and without failures gives up no active row.           *)

Humble(q) ==
    /\ Held(req'[q]) \subseteq Held(req[q])
    /\ req'[q].pc \notin Opening \cup {"cas"}
    /\ req'[q].pc \in {"refreshGet", "rotate"} => req'[q].token \in issued
    /\ faults' = 0 => /\ req[q].pc # "cas"
                      /\ Held(req[q]) \cap active' \subseteq Held(req'[q])

StoresFade ==
    /\ UNCHANGED <<tokenSession, logins, issued>>
    /\ active' \subseteq active
    /\ \A s \in Sessions : session'[s] \in {session[s], NoToken}
    /\ faults' = 0 => faults = 0

LEMMA FadingKeepsStores ==
    ASSUME TypeOK, LocalsOK, Linked, Handed, Agreed, StoresFade,
           \A q \in Requests : req'[q] = req[q] \/ Humble(q)
    PROVE  Handed' /\ Agreed'
<1>h. \A q \in Requests : Held(req'[q]) \subseteq Held(req[q])
  BY DEF Humble
<1>p. \A q \in Requests : req'[q].pc \in Opening \cup {"cas"} => req'[q] = req[q]
  BY DEF Humble
<1>f. Fresh' = Fresh
  BY DEF StoresFade, Fresh
<1>1. HeldApart'
  <2> SUFFICES ASSUME NEW r \in Requests, NEW t \in Held(req'[r])
               PROVE  /\ t \in Tokens \ Fresh
                      /\ t \notin issued
                      /\ \A u \in active : tokenSession[u] = tokenSession[t] => u = t
                      /\ \A q \in Requests : t \in Held(req'[q]) => q = r
    BY <1>f DEF HeldApart, StoresFade
  <2>1. t \in Held(req[r])
    BY <1>h
  <2> QED BY <1>h, <2>1 DEF Handed, HeldApart
<1>2. HeldOfSession'
  BY <1>p DEF Handed, HeldOfSession, At, StoresFade, Opening
<1>3. Presented'
  BY DEF Handed, Presented, StoresFade, Humble
<1>4. IssuedInserted'
  BY <1>f DEF Handed, IssuedInserted, StoresFade
<1>5. LoginsApart'
  BY <1>p DEF Handed, LoginsApart, StoresFade
<1>6. Unopened'
  BY <1>p DEF Handed, Unopened, StoresFade, At, Opening
<1>7. ASSUME faults' = 0 PROVE Delivered' /\ KeyAgrees'
  <2>0. faults = 0 /\ Delivered /\ KeyAgrees
    BY <1>7 DEF StoresFade, Agreed
  <2>1. Delivered'
    <3> SUFFICES ASSUME NEW t \in active'
                 PROVE  t \in issued \/ \E r \in Requests : t \in Held(req'[r])
      BY DEF Delivered, StoresFade
    <3>1. t \in active
      BY DEF StoresFade
    <3>2. ASSUME NEW r \in Requests, t \in Held(req[r]) PROVE t \in Held(req'[r])
      BY <1>7, <3>2 DEF Humble
    <3> QED BY <2>0, <3>1, <3>2 DEF Delivered
  <2>2. KeyAgrees'
    <3> SUFFICES ASSUME NEW t \in active'
                 PROVE  \/ session'[tokenSession[t]] \in {t, NoToken}
                        \/ \E r \in Requests :
                              /\ req'[r].pc = "cas"
                              /\ req'[r].next = t
                              /\ session'[tokenSession[t]] = req'[r].token
      BY DEF KeyAgrees, StoresFade, At
    <3>1. t \in active /\ tokenSession[t] \in Sessions
      BY DEF StoresFade, Linked, ActiveInserted, Fresh, TypeOK
    <3>2. session'[tokenSession[t]] \in {session[tokenSession[t]], NoToken}
      BY <3>1 DEF StoresFade
    <3>3. ASSUME NEW r \in Requests, At(r, "cas") PROVE req'[r] = req[r]
      BY <1>7, <3>3 DEF Humble, At
    <3> QED BY <2>0, <3>1, <3>2, <3>3 DEF KeyAgrees, At
  <2> QED BY <2>1, <2>2
<1> QED BY <1>1, <1>2, <1>3, <1>4, <1>5, <1>6, <1>7 DEF Handed, Agreed

LEMMA PlainHumble ==
    ASSUME NEW q \in Requests, Plain(req[q]), Plain(req'[q])
    PROVE  Humble(q)
BY DEF Plain, PlainSteps, Humble, Held, LoginTail, Opening

LEMMA FailCounts ==
    ASSUME TypeOK, Fail
    PROVE  faults' # 0
BY AuthAssumption DEF TypeOK, Fail, AuthAssumption

LEMMA DeletingFades ==
    ASSUME TypeOK, NEW s, DeleteSession(s)
    PROVE  \A o \in Sessions : session'[o] \in {session[o], NoToken}
BY DEF TypeOK, DeleteSession

LEMMA GuardedFades ==
    ASSUME TypeOK, LocalsOK, NEW r \in Requests, GuardedStep(r)
    PROVE  StoresFade /\ \A q \in Requests : req'[q] = req[q] \/ Humble(q)
<1>1. \A q \in Requests : req'[q] = req[q] \/ Humble(q)
  BY GuardedPlain, PlainHumble
<1>2. UNCHANGED <<tokenSession, logins, issued>> /\ active' \subseteq active
  BY DEF GuardedStep, Authorize, RevokeSession, Logout, LogoutSave, LogoutDelete,
         LogoutAll, LogoutAllUpdate, ReadIndex, DropSessions, RevokeRead, RevokeUpdate,
         RevokeDelete, ListSessions, LookupSessions, PruneSession, RevokeToken,
         accountVars, tokenVars, clientVars
<1>3. faults' = 0 => faults = 0
  <2>1. UNCHANGED faults \/ Fail
    BY DEF GuardedStep, Authorize, RevokeSession, Logout, LogoutSave, LogoutDelete,
           LogoutAll, LogoutAllUpdate, ReadIndex, DropSessions, RevokeRead, RevokeUpdate,
           RevokeDelete, ListSessions, LookupSessions, PruneSession, RedisRead, RedisWrite
  <2> QED BY <2>1, FailCounts
<1>4. \A s \in Sessions : session'[s] \in {session[s], NoToken}
  <2>1. CASE LogoutDelete(r) \/ RevokeDelete(r)
    BY <2>1, DeletingFades DEF LogoutDelete, RevokeDelete, RedisWrite, redisVars
  <2>2. CASE DropSessions(r)
    BY <2>2 DEF DropSessions, RedisWrite, redisVars
  <2>3. CASE UNCHANGED session
    BY <2>3
  <2> QED
    BY <2>1, <2>2, <2>3
       DEF GuardedStep, Authorize, RevokeSession, Logout, LogoutSave, LogoutAll,
           LogoutAllUpdate, ReadIndex, RevokeRead, RevokeUpdate, ListSessions,
           LookupSessions, PruneSession, RedisWrite, RedisRead, redisVars
<1> QED BY <1>1, <1>2, <1>3, <1>4 DEF StoresFade

LEMMA AccountFades ==
    ASSUME TypeOK, NEW r \in Requests, AccountStep(r)
    PROVE  StoresFade /\ \A q \in Requests : req'[q] = req[q] \/ Humble(q)
<1>1. StoresFade
  BY DEF AccountStep, ChangePassword, RefuseChange, ResetPassword, SoftDeleteUser,
         PermanentDeleteUser, RestoreUser, RevokeAll, StoresFade, accountVars, tokenVars,
         redisVars, clientVars
<1>2. Plain([Idle EXCEPT !.pc = "readIndex"])
  BY DEF Plain, PlainSteps, Idle
<1>3. \A q \in Requests : req'[q] = req[q] \/ (q = r /\ Plain(req'[q]))
  BY <1>2, IdlePlain, EitherPlain
     DEF AccountStep, ChangePassword, RefuseChange, ResetPassword, SoftDeleteUser,
         PermanentDeleteUser, RestoreUser, RevokeAll
<1>4. UNCHANGED req \/ Plain(req[r])
  BY DEF AccountStep, ChangePassword, RefuseChange, ResetPassword, SoftDeleteUser,
         PermanentDeleteUser, RestoreUser, At, Plain, PlainSteps
<1> QED BY <1>1, <1>3, <1>4, PlainHumble

LEMMA CrashFades ==
    ASSUME TypeOK, NEW r \in Requests, Crash(r)
    PROVE  StoresFade /\ \A q \in Requests : req'[q] = req[q] \/ Humble(q)
<1>1. faults' # 0
  BY FailCounts DEF Crash
<1>2. StoresFade
  BY <1>1 DEF Crash, StoresFade, accountVars, tokenVars, redisVars, clientVars
<1>3. Held(Idle) = {} /\ Idle.pc = "idle"
  BY DEF Held, Idle, LoginTail
<1>4. \A q \in Requests : req'[q] = req[q] \/ req'[q] = Idle
  BY DEF Crash, Continue, TypeOK
<1> QED BY <1>1, <1>2, <1>3, <1>4 DEF Humble, Opening

(* A login past its opening keeps the token it carries. *)
Carries(l, r) == l.pc \in LoginTail \ Opening /\ l.token = req[r].token

LEMMA EitherCarries ==
    ASSUME TypeOK, NEW r \in Requests, req[r].pc \in LoginTail,
           NEW ok, NEW failed, Carries(ok, r), Carries(failed, r),
           Continue(r, ok) \/ Continue(r, failed)
    PROVE  \A q \in Requests : req'[q] = req[q] \/ Humble(q)
<1>1. \A q \in Requests : req'[q] = req[q] \/ (q = r /\ Carries(req'[q], r))
  BY DEF TypeOK, Continue
<1>2. Held(req[r]) = {req[r].token} /\ req[r].pc # "cas"
  BY DEF Held, LoginTail
<1>3. ASSUME Carries(req'[r], r)
      PROVE  Held(req'[r]) = {req[r].token} /\ req'[r].pc \notin {"cas", "refreshGet", "rotate"}
  BY <1>3 DEF Carries, Held, LoginTail
<1> QED BY <1>1, <1>2, <1>3 DEF Humble, Carries

LEMMA ToCarries ==
    ASSUME TypeOK, NEW r \in Requests, NEW pc \in LoginTail \ Opening
    PROVE  Carries(To(r, pc), r)
BY DEF TypeOK, Locals, To, Carries

LEMMA TailFades ==
    ASSUME TypeOK, NEW r \in Requests,
           LoginCount(r) \/ LoginPop(r) \/ EvictRead(r) \/ EvictDelete(r)
             \/ EvictRestore(r) \/ RollbackToken(r) \/ RollbackSession(r)
    PROVE  StoresFade /\ \A q \in Requests : req'[q] = req[q] \/ Humble(q)
<1>r. req[r] \in Locals BY DEF TypeOK
<1>1. StoresFade
  <2>1. UNCHANGED <<tokenSession, logins, issued>> /\ active' \subseteq active
    BY DEF LoginCount, LoginPop, EvictRead, EvictDelete, EvictRestore,
           RollbackToken, RollbackSession, RevokeToken, accountVars, tokenVars, clientVars
  <2>2. UNCHANGED faults \/ Fail
    BY DEF LoginCount, LoginPop, EvictRead, EvictDelete, EvictRestore,
           RollbackToken, RollbackSession, RedisRead, RedisWrite
  <2>3. \A s \in Sessions : session'[s] \in {session[s], NoToken}
    <3>1. CASE RollbackSession(r)
      BY <3>1, DeletingFades DEF RollbackSession, RedisWrite, redisVars
    <3>2. CASE UNCHANGED session
      BY <3>2
    <3> QED
      BY <3>1, <3>2
         DEF LoginCount, LoginPop, EvictRead, EvictDelete, EvictRestore, RollbackToken,
             RedisWrite, RedisRead, redisVars
  <2> QED BY <2>1, <2>2, <2>3, FailCounts DEF StoresFade
<1> SUFFICES \A q \in Requests : req'[q] = req[q] \/ Humble(q)
  BY <1>1
<1> USE DEF LoginTail, Opening
<1>3. CASE LoginCount(r)
  <2>1. ASSUME NEW n PROVE Carries([To(r, "pop") EXCEPT !.excess = n], r)
    BY <1>r DEF To, Locals, Carries
  <2> QED BY <1>3, <2>1, ToCarries, EitherCarries DEF LoginCount, RedisRead, At
<1>4. CASE LoginPop(r)
  <2>1. ASSUME NEW n PROVE Carries([To(r, "evict") EXCEPT !.strings = n], r)
    BY <1>r DEF To, Locals, Carries
  <2> QED BY <1>4, <2>1, ToCarries, EitherCarries DEF LoginPop, RedisWrite, At
<1>5. CASE EvictRead(r)
  <2>1. ASSUME NEW c, NEW pc \in {"evictDelete", "evictRestore"}
        PROVE  Carries([To(r, pc) EXCEPT !.stray = c], r)
    BY <1>r DEF To, Locals, Carries
  <2> QED BY <1>5, <2>1, EitherCarries DEF EvictRead, RedisRead, At
<1>7. CASE EvictDelete(r) \/ EvictRestore(r)
  <2>1. Carries(Evicted(r), r)
    BY <1>r DEF Evicted, To, Locals, Carries
  <2> QED
    BY <1>7, <2>1, ToCarries, EitherCarries DEF EvictDelete, EvictRestore, RedisWrite, At
<1>8. CASE RollbackToken(r)
  <2>1. Plain(To(r, "rollbackDelete"))
    BY ToPlain DEF PlainSteps
  <2>2. \A q \in Requests : req'[q] = req[q] \/ (q = r /\ Plain(req'[q]))
    BY <1>8, <2>1, EitherPlain DEF RollbackToken
  <2>3. Held(req[r]) = {req[r].token} /\ req[r].pc # "cas" /\ req[r].token \notin active'
    BY <1>8 DEF RollbackToken, Held, At, RevokeToken
  <2>4. Plain(req'[r]) => Humble(r)
    BY <2>3 DEF Humble, Plain, PlainSteps, Held
  <2> QED BY <2>2, <2>4
<1>9. CASE RollbackSession(r)
  <2>1. \A q \in Requests : req'[q] = req[q] \/ (q = r /\ Plain(req'[q]))
    BY <1>9, IdlePlain, EitherPlain DEF RollbackSession, RedisWrite
  <2>2. Plain(req[r])
    BY <1>9 DEF RollbackSession, At, Plain, PlainSteps
  <2> QED BY <2>1, <2>2, PlainHumble
<1> QED BY <1>3, <1>4, <1>5, <1>7, <1>8, <1>9

LEMMA RefreshFades ==
    ASSUME TypeOK, Handed, NEW r \in Requests,
           (\E t \in Tokens : Refresh(r, t)) \/ RefreshGet(r) \/ CleanupToken(r)
             \/ CleanupSession(r)
    PROVE  StoresFade /\ \A q \in Requests : req'[q] = req[q] \/ Humble(q)
<1>r. req[r] \in Locals /\ req \in [Requests -> Locals] BY DEF TypeOK
<1>1. StoresFade
  <2>1. UNCHANGED <<tokenSession, logins, issued>> /\ active' \subseteq active
    BY DEF Refresh, RefreshGet, CleanupToken, CleanupSession, RevokeToken, accountVars,
           tokenVars, clientVars
  <2>2. UNCHANGED faults \/ Fail
    BY DEF Refresh, RefreshGet, CleanupToken, CleanupSession, RedisRead, RedisWrite
  <2>3. \A s \in Sessions : session'[s] \in {session[s], NoToken}
    <3>1. CASE CleanupSession(r)
      BY <3>1, DeletingFades DEF CleanupSession, RedisWrite, redisVars
    <3>2. CASE UNCHANGED session
      BY <3>2
    <3> QED BY <3>1, <3>2 DEF Refresh, RefreshGet, CleanupToken, RedisRead, redisVars
  <2> QED BY <2>1, <2>2, <2>3, FailCounts DEF StoresFade
<1> SUFFICES \A q \in Requests : req'[q] = req[q] \/ Humble(q)
  BY <1>1
<1>2. ASSUME NEW t \in Tokens, Refresh(r, t)
      PROVE  \A q \in Requests : req'[q] = req[q] \/ Humble(q)
  <2> DEFINE l == [Idle EXCEPT !.pc = "refreshGet", !.token = t,
                               !.session = tokenSession[t]]
  <2>1. l.pc = "refreshGet" /\ l.token = t
    BY DEF Idle
  <2>2. Continue(r, l) /\ At(r, "idle") /\ t \in issued
    BY <1>2 DEF Refresh
  <2> HIDE DEF l
  <2>3. \A q \in Requests : req'[q] = req[q] \/ (q = r /\ req'[q] = l)
    BY <1>r, <2>2 DEF Continue
  <2>4. Held(req[r]) = {} /\ Held(l) = {}
    BY <2>1, <2>2 DEF Held, LoginTail, At
  <2> QED BY <2>1, <2>2, <2>3, <2>4 DEF Humble, Opening, At
<1>3. CASE RefreshGet(r)
  <2>1. /\ To(r, "rotate").token = req[r].token
        /\ To(r, "rotate").pc = "rotate"
        /\ Idle.pc = "idle"
    BY <1>r DEF To, Locals, Idle
  <2>2. \A q \in Requests : \/ req'[q] = req[q]
                            \/ q = r /\ req'[q] = To(r, "rotate")
                            \/ q = r /\ req'[q] = Idle
    <3>1. PICK l \in {To(r, "rotate"), Idle} : Continue(r, l)
      BY <1>3 DEF RefreshGet, RedisRead
    <3>2. \A q \in Requests : req'[q] = req[q] \/ (q = r /\ req'[q] = l)
      BY <1>r, <3>1 DEF Continue
    <3> QED BY <3>1, <3>2
  <2>3. req[r].token \in issued /\ req[r].pc # "cas"
    BY <1>3 DEF RefreshGet, At, Handed, Presented
  <2>4. Held(req[r]) = {} /\ Held(To(r, "rotate")) = {} /\ Held(Idle) = {}
    BY <1>3, <2>1 DEF Held, LoginTail, RefreshGet, At
  <2> QED BY <2>1, <2>2, <2>3, <2>4 DEF Humble, Opening
<1>4. CASE CleanupToken(r) \/ CleanupSession(r)
  <2>1. PICK part \in {"token", "session"} : /\ Continue(r, Settled(r, part))
                                             /\ part = "token" => CleanupToken(r)
    BY <1>4 DEF CleanupToken, CleanupSession, RedisWrite
  <2>2. \A q \in Requests : req'[q] = req[q] \/ (q = r /\ req'[q] = Settled(r, part))
    BY <1>r, <2>1 DEF Continue
  <2>3. req[r].pc = "cleanup"
    BY <1>4 DEF CleanupToken, CleanupSession, At
  <2>4. \/ Settled(r, part) = Idle /\ req[r].pending = {part}
        \/ /\ Settled(r, part).pc = "cleanup"
           /\ Settled(r, part).next = req[r].next
           /\ Settled(r, part).pending = req[r].pending \ {part}
    BY <1>r, <2>3 DEF Settled, Locals
  <2>5. Idle.pc = "idle" /\ Held(Idle) = {}
    BY DEF Idle, Held, LoginTail
  <2>6. /\ Settled(r, part).pc \in {"idle", "cleanup"}
        /\ Held(Settled(r, part)) \subseteq Held(req[r])
        /\ part = "session" => Held(Settled(r, part)) = Held(req[r])
    BY <2>3, <2>4, <2>5 DEF Held, LoginTail
  <2>7. faults' = 0 /\ part = "token" => req[r].next \notin active'
    BY <2>1, FailCounts DEF CleanupToken, RevokeToken
  <2>8. Held(req[r]) \subseteq {req[r].next}
    BY <2>3 DEF Held, LoginTail
  <2> QED BY <2>2, <2>3, <2>6, <2>7, <2>8 DEF Humble, Opening
<1> QED BY <1>2, <1>3, <1>4

-----------------------------------------------------------------------------
(* The steps that hand a token on *)

LEMMA LoginHands ==
    ASSUME TypeOK, LocalsOK, Linked, Handed, Agreed, NEW r \in Requests, Login(r)
    PROVE  Handed' /\ Agreed'
<1> DEFINE l == [Idle EXCEPT !.pc = "insert", !.session = logins + 1]
<1>1. l.pc = "insert" /\ l.session = logins + 1
  BY DEF Idle
<1>2. /\ Continue(r, l)
      /\ UNCHANGED <<tokenSession, active, issued, session, faults>>
      /\ logins' = logins + 1
      /\ At(r, "idle")
  BY DEF Login, tokenVars, redisVars, clientVars
<1> HIDE DEF l
<1>3. req'[r] = l /\ \A q \in Requests : q # r => req'[q] = req[q]
  BY <1>2 DEF Continue, TypeOK
<1>4. Held(req[r]) = {} /\ Held(l) = {}
  BY <1>1, <1>2 DEF Held, LoginTail, At
<1>h. \A q \in Requests : Held(req'[q]) = Held(req[q])
  BY <1>3, <1>4
<1>p. /\ \A q \in Requests : req'[q].pc \notin {"insert", "count"} =>
             req'[q] = req[q] \/ req'[q].pc \notin {"open", "cas", "refreshGet", "rotate"}
      /\ \A q \in Requests : req[q].pc = "cas" => req'[q] = req[q]
  BY <1>1, <1>2, <1>3 DEF At
<1>n. logins \in Nat
  BY AuthAssumption DEF TypeOK, AuthAssumption
<1>f. Fresh' = Fresh
  BY <1>2 DEF Fresh
<1>5. HeldApart'
  <2> SUFFICES ASSUME NEW q \in Requests, NEW t \in Held(req[q])
               PROVE  /\ t \in Tokens \ Fresh
                      /\ t \notin issued
                      /\ \A u \in active : tokenSession[u] = tokenSession[t] => u = t
                      /\ \A o \in Requests : t \in Held(req[o]) => o = q
    BY <1>2, <1>f, <1>h DEF HeldApart
  <2> QED BY DEF Handed, HeldApart
<1>6. HeldOfSession' /\ Presented' /\ IssuedInserted'
  BY <1>2, <1>f, <1>p DEF Handed, HeldOfSession, Presented, IssuedInserted, At
<1>7. LoginsApart'
  <2>1. \A q \in Requests : req[q].pc \in Opening => req[q].session \in Sessions
    BY DEF LocalsOK, Consistent, WithSession, Steps, Opening
  <2>2. \A q \in Requests : req[q].pc \in Opening =>
           req[q].session <= logins + 1 /\ req[q].session # logins + 1
    BY <1>n, <2>1 DEF Handed, LoginsApart, Sessions
  <2>3. \A q \in Requests : req'[q].pc \in Opening =>
           q = r \/ (req'[q] = req[q] /\ req[q].pc \in Opening)
    BY <1>3
  <2> QED BY <1>1, <1>2, <1>3, <1>n, <2>2, <2>3 DEF Handed, LoginsApart
<1>8. Unopened'
  <2>1. \A s \in Sessions : s > logins + 1 => s > logins
    BY <1>n DEF Sessions
  <2>2. \A s \in Sessions : s = logins + 1 => s > logins
    BY <1>n DEF Sessions
  <2> QED BY <1>1, <1>2, <1>3, <2>1, <2>2 DEF Handed, Unopened, At
<1>9. Agreed'
  <2>1. Delivered => Delivered'
    BY <1>2, <1>h DEF Delivered
  <2>2. KeyAgrees => KeyAgrees'
    BY <1>2, <1>p DEF KeyAgrees, At
  <2> QED BY <1>2, <2>1, <2>2 DEF Agreed
<1> QED BY <1>5, <1>6, <1>7, <1>8, <1>9 DEF Handed

(* A request that inserts a row carries it from then on; no other request  *)
(* carries a token of that session, and no other row of it stays active.   *)
LEMMA InsertHands ==
    ASSUME TypeOK, LocalsOK, Linked, Handed, Agreed,
           NEW r \in Requests, NEW t \in Fresh, NEW s \in Sessions,
           NEW rest \in SUBSET active,
           \A u \in rest : tokenSession[u] # s,
           \A q \in Requests : \A u \in Held(req[q]) : tokenSession[u] # s,
           InsertToken(t, s, rest),
           UNCHANGED <<logins, issued, session, faults>>,
           \A q \in Requests : q # r => req'[q] = req[q],
           req[r].pc \in {"insert", "rotate"},
           Held(req'[r]) = {t},
           req'[r].session = s,
           \/ req'[r].pc = "open" /\ req'[r].token = t /\ req[r].pc = "insert"
                /\ req[r].session = s
           \/ req'[r].pc = "cas" /\ req'[r].next = t,
           faults = 0 => \/ session[s] = NoToken
                         \/ req'[r].pc = "cas" /\ session[s] = req'[r].token
    PROVE  Handed' /\ Agreed'
<1>1. /\ t \in Tokens /\ tokenSession[t] = 0 /\ s # 0
      /\ tokenSession'[t] = s
      /\ \A u \in Tokens : u # t => tokenSession'[u] = tokenSession[u]
      /\ active' = rest \cup {t}
  BY DEF Fresh, InsertToken, NoSession, Sessions, TypeOK
<1>2. Fresh' = Fresh \ {t}
  BY <1>1 DEF Fresh, NoSession
<1>3. Held(req[r]) = {}
  BY DEF Held, LoginTail
<1>4. t \notin issued /\ t \notin active
  BY DEF Handed, IssuedInserted, Linked, ActiveInserted
<1>5. \A q \in Requests : \A u \in Held(req[q]) :
          u # t /\ u \in Tokens /\ tokenSession'[u] = tokenSession[u]
  BY <1>1 DEF Handed, HeldApart
<1>6. \A u \in rest : u # t /\ u \in Tokens /\ tokenSession'[u] = tokenSession[u]
  BY <1>1, <1>4 DEF TypeOK
<1>7. HeldApart'
  <2>1. ASSUME NEW q \in Requests, q # r, NEW u \in Held(req'[q])
        PROVE  /\ u \in Tokens \ Fresh'
               /\ u \notin issued'
               /\ \A v \in active' : tokenSession'[v] = tokenSession'[u] => v = u
               /\ \A o \in Requests : u \in Held(req'[o]) => o = q
    <3>1. u \in Held(req[q]) /\ u # t /\ u \in Tokens /\ tokenSession'[u] = tokenSession[u]
      BY <1>5, <2>1
    <3>2. /\ u \notin Fresh /\ u \notin issued
          /\ \A v \in active : tokenSession[v] = tokenSession[u] => v = u
          /\ \A o \in Requests : u \in Held(req[o]) => o = q
      BY <3>1 DEF Handed, HeldApart
    <3>3. tokenSession[u] # s
      BY <3>1
    <3>4. \A v \in active' : tokenSession'[v] = tokenSession'[u] => v = u
      BY <1>1, <1>6, <3>1, <3>2, <3>3
    <3>5. \A o \in Requests : u \in Held(req'[o]) => o = q
      BY <3>1, <3>2
    <3> QED BY <1>2, <3>1, <3>2, <3>4, <3>5
  <2>2. /\ t \in Tokens \ Fresh'
        /\ t \notin issued'
        /\ \A v \in active' : tokenSession'[v] = tokenSession'[t] => v = t
        /\ \A o \in Requests : t \in Held(req'[o]) => o = r
    BY <1>1, <1>2, <1>4, <1>5, <1>6
  <2> QED BY <2>1, <2>2 DEF HeldApart
<1>8. HeldOfSession'
  <2>1. ASSUME NEW q \in Requests, q # r, req[q].pc = "open"
        PROVE  tokenSession'[req'[q].token] = req'[q].session
    <3>1. req[q].token \in Held(req[q]) /\ tokenSession[req[q].token] = req[q].session
      BY <2>1 DEF Held, LoginTail, Handed, HeldOfSession, At
    <3> QED BY <1>5, <2>1, <3>1
  <2>2. ASSUME NEW q \in Requests, q # r, req[q].pc = "cas"
        PROVE  tokenSession'[req'[q].next] = req'[q].session
    <3>1. req[q].next \in Held(req[q]) /\ tokenSession[req[q].next] = req[q].session
      BY <2>2 DEF Held, LoginTail, Handed, HeldOfSession, At
    <3> QED BY <1>5, <2>2, <3>1
  <2> QED BY <1>1, <2>1, <2>2 DEF HeldOfSession, At
<1>9. Presented' /\ IssuedInserted'
  BY <1>2 DEF Handed, Presented, IssuedInserted
<1>10. LoginsApart'
  BY DEF Handed, LoginsApart, Opening
<1>11. Unopened'
  BY DEF Handed, Unopened, At
<1>12. Agreed'
  <2>1. ASSUME Delivered PROVE Delivered'
    <3>1. ASSUME NEW u \in rest
          PROVE  u \in issued' \/ \E q \in Requests : u \in Held(req'[q])
      BY <1>3, <2>1 DEF Delivered
    <3> QED BY <1>1, <3>1 DEF Delivered
  <2>2. ASSUME faults = 0, KeyAgrees PROVE KeyAgrees'
    <3>1. ASSUME NEW u \in rest
          PROVE  \/ session'[tokenSession'[u]] \in {u, NoToken}
                 \/ \E q \in Requests : /\ req'[q].pc = "cas"
                                        /\ req'[q].next = u
                                        /\ session'[tokenSession'[u]] = req'[q].token
      BY <1>6, <2>2 DEF KeyAgrees, At
    <3> QED BY <1>1, <2>2, <3>1 DEF KeyAgrees, At
  <2> QED BY <2>1, <2>2 DEF Agreed
<1> QED BY <1>7, <1>8, <1>9, <1>10, <1>11, <1>12 DEF Handed

LEMMA LoginInsertHands ==
    ASSUME TypeOK, LocalsOK, Linked, Handed, Agreed, NEW r \in Requests, LoginInsert(r)
    PROVE  Handed' /\ Agreed'
<1>r. req[r] \in Locals /\ req \in [Requests -> Locals] BY DEF TypeOK
<1> DEFINE s == req[r].session
<1>1. ASSUME NEW t \in Fresh, InsertToken(t, s, active),
             Continue(r, [To(r, "open") EXCEPT !.token = t])
      PROVE  Handed' /\ Agreed'
  <2> DEFINE l == [To(r, "open") EXCEPT !.token = t]
  <2>1. l.pc = "open" /\ l.token = t /\ l.session = s
    BY <1>r DEF To, Locals
  <2> HIDE DEF l
  <2>2. req'[r] = l /\ \A q \in Requests : q # r => req'[q] = req[q]
    BY <1>1, <1>r DEF Continue, l
  <2>3. Held(l) = {t}
    BY <2>1 DEF Held, LoginTail
  <2>4. s \in Sessions /\ req[r].pc = "insert" /\ SessionTokens({s}) = {}
    BY DEF LoginInsert, LocalsOK, Consistent, WithSession, Steps, At, Linked, InsertOwns
  <2>5. \A u \in Tokens : tokenSession[u] # s
    BY <2>4 DEF SessionTokens
  <2>6. /\ \A u \in active : tokenSession[u] # s
        /\ \A q \in Requests : \A u \in Held(req[q]) : tokenSession[u] # s
    BY <2>5 DEF TypeOK, Handed, HeldApart
  <2>7. session[s] = NoToken
    BY <2>4 DEF Handed, Unopened, At
  <2>8. UNCHANGED <<logins, issued, session, faults>>
    BY DEF LoginInsert, accountVars, redisVars, clientVars
  <2>9. s \in Sessions /\ active \in SUBSET active
    BY <2>4
  <2> HIDE DEF s
  <2> QED BY <1>1, <2>1, <2>2, <2>3, <2>4, <2>6, <2>7, <2>8, <2>9, InsertHands DEF s
<1>2. CASE Continue(r, Idle) /\ UNCHANGED tokenVars
  <2>1. StoresFade
    BY <1>2 DEF LoginInsert, StoresFade, tokenVars, accountVars, redisVars, clientVars
  <2>2. Held(req[r]) = {} /\ Held(Idle) = {} /\ Idle.pc = "idle" /\ req[r].pc # "cas"
    BY DEF Held, Idle, LoginTail, LoginInsert, At
  <2>3. \A q \in Requests : req'[q] = req[q] \/ (q = r /\ req'[q] = Idle)
    BY <1>2, <1>r DEF Continue
  <2>4. \A q \in Requests : req'[q] = req[q] \/ Humble(q)
    BY <2>2, <2>3 DEF Humble, Opening
  <2> QED BY <2>1, <2>4, FadingKeepsStores
<1> QED BY <1>1, <1>2 DEF LoginInsert

LEMMA RotateHands ==
    ASSUME TypeOK, LocalsOK, Linked, Handed, Agreed, NEW r \in Requests, RefreshRotate(r)
    PROVE  Handed' /\ Agreed'
<1>r. req[r] \in Locals /\ req \in [Requests -> Locals] BY DEF TypeOK
<1> DEFINE s == req[r].session
           o == req[r].token
<1>1. ASSUME o \in active, NEW t \in Fresh, InsertToken(t, s, active \ {o}),
             Continue(r, [To(r, "cas") EXCEPT !.next = t])
      PROVE  Handed' /\ Agreed'
  <2> DEFINE l == [To(r, "cas") EXCEPT !.next = t]
  <2>1. l.pc = "cas" /\ l.next = t /\ l.session = s /\ l.token = o
    BY <1>r DEF To, Locals
  <2> HIDE DEF l
  <2>2. req'[r] = l /\ \A q \in Requests : q # r => req'[q] = req[q]
    BY <1>1, <1>r DEF Continue, l
  <2>3. Held(l) = {t}
    BY <2>1 DEF Held, LoginTail
  <2>4. s \in Sessions /\ req[r].pc = "rotate" /\ tokenSession[o] = s /\ o \in issued
    BY DEF RefreshRotate, LocalsOK, Consistent, WithSession, Steps, At, Linked, RotatesOwn,
           Handed, Presented
  <2>5. \A u \in active \ {o} : tokenSession[u] # s
    BY <1>1, <2>4 DEF Linked, OneActiveTokenPerSession
  <2>6. ASSUME NEW q \in Requests, NEW u \in Held(req[q]) PROVE tokenSession[u] # s
    <3>1. /\ u \notin issued
          /\ tokenSession[o] = tokenSession[u] => o = u
      BY <1>1 DEF Handed, HeldApart
    <3> QED BY <2>4, <3>1
  <2>7. ASSUME faults = 0 PROVE session[s] = NoToken \/ session[s] = o
    <3>1. \/ session[s] \in {o, NoToken}
          \/ \E q \in Requests : At(q, "cas") /\ req[q].next = o
      BY <1>1, <2>4, <2>7 DEF Agreed, KeyAgrees
    <3>2. \A q \in Requests : At(q, "cas") => req[q].next # o
      BY <2>4 DEF Handed, HeldApart, Held, LoginTail, At
    <3> QED BY <3>1, <3>2
  <2>8. UNCHANGED <<logins, issued, session, faults>>
    BY DEF RefreshRotate, accountVars, redisVars, clientVars
  <2>9. s \in Sessions /\ active \ {o} \in SUBSET active
    BY <2>4
  <2> HIDE DEF s, o
  <2> QED
    BY <1>1, <2>1, <2>2, <2>3, <2>4, <2>5, <2>6, <2>7, <2>8, <2>9, InsertHands
<1>2. CASE Continue(r, Idle) /\ UNCHANGED tokenVars
  <2>1. StoresFade
    BY <1>2 DEF RefreshRotate, StoresFade, tokenVars, accountVars, redisVars, clientVars
  <2>2. Held(req[r]) = {} /\ Held(Idle) = {} /\ Idle.pc = "idle" /\ req[r].pc # "cas"
    BY DEF Held, Idle, LoginTail, RefreshRotate, At
  <2>3. \A q \in Requests : req'[q] = req[q] \/ (q = r /\ req'[q] = Idle)
    BY <1>2, <1>r DEF Continue
  <2>4. \A q \in Requests : req'[q] = req[q] \/ Humble(q)
    BY <2>2, <2>3 DEF Humble, Opening
  <2> QED BY <2>1, <2>4, FadingKeepsStores
<1> QED BY <1>1, <1>2 DEF RefreshRotate, RotationAllowed

LEMMA OpenHands ==
    ASSUME TypeOK, LocalsOK, Linked, Handed, Agreed, NEW r \in Requests, LoginOpen(r)
    PROVE  Handed' /\ Agreed'
<1>r. req[r] \in Locals /\ req \in [Requests -> Locals] BY DEF TypeOK
<1> DEFINE s == req[r].session
           t == req[r].token
<1>1. PICK l : /\ Continue(r, l)
               /\ l.token = t
               /\ l.session = s
               /\ \/ l.pc = "count" /\ session' = [session EXCEPT ![s] = t] /\ UNCHANGED faults
                  \/ /\ l.pc = "rollback"
                     /\ session' = [session EXCEPT ![s] = t] \/ UNCHANGED session
                     /\ Fail
  <2>1. /\ To(r, "count").token = t /\ To(r, "count").session = s
        /\ To(r, "count").pc = "count"
        /\ To(r, "rollback").token = t /\ To(r, "rollback").session = s
        /\ To(r, "rollback").pc = "rollback"
    BY <1>r DEF To, Locals
  <2> QED BY <2>1 DEF LoginOpen, RedisWrite, redisVars
<1>2. /\ req[r].pc = "open" /\ s \in Sessions /\ t \in Tokens /\ tokenSession[t] = s
      /\ UNCHANGED <<tokenSession, active, logins, issued>>
  BY DEF LoginOpen, LocalsOK, Consistent, WithSession, WithToken, Steps, At, Handed,
         HeldOfSession, accountVars, tokenVars, clientVars
<1>3. req'[r] = l /\ \A q \in Requests : q # r => req'[q] = req[q]
  BY <1>1, <1>r DEF Continue
<1>4. Held(req[r]) = {t} /\ Held(l) = {t}
  BY <1>1, <1>2 DEF Held, LoginTail
<1>h. \A q \in Requests : Held(req'[q]) = Held(req[q])
  BY <1>3, <1>4
<1>o. \A q \in Sessions : q # s => session'[q] = session[q]
  BY <1>1, <1>2 DEF TypeOK
<1>s. l.pc = "count" => session'[s] = t
  BY <1>1, <1>2 DEF TypeOK
<1>a. t \in Held(req[r]) /\ \A u \in active : tokenSession[u] = s => u = t
  BY <1>2, <1>4 DEF Handed, HeldApart
<1> HIDE DEF s, t
<1>f. Fresh' = Fresh
  BY <1>2 DEF Fresh
<1>5. HeldApart'
  <2> SUFFICES ASSUME NEW q \in Requests, NEW u \in Held(req[q])
               PROVE  /\ u \in Tokens \ Fresh
                      /\ u \notin issued
                      /\ \A v \in active : tokenSession[v] = tokenSession[u] => v = u
                      /\ \A o \in Requests : u \in Held(req[o]) => o = q
    BY <1>2, <1>f, <1>h DEF HeldApart
  <2> QED BY DEF Handed, HeldApart
<1>6. HeldOfSession' /\ Presented' /\ IssuedInserted'
  BY <1>1, <1>2, <1>3, <1>f DEF Handed, HeldOfSession, Presented, IssuedInserted, At
<1>7. LoginsApart'
  <2>1. \A q \in Requests : req'[q].pc \in Opening =>
           req[q].pc \in Opening /\ req'[q].session = req[q].session
    BY <1>1, <1>2, <1>3 DEF Opening, s
  <2> QED BY <1>2, <2>1 DEF Handed, LoginsApart
<1>8. Unopened'
  <2>1. s <= logins /\ \A q \in Requests : At(q, "insert") => req[q].session # s
    BY <1>2 DEF Handed, LoginsApart, Opening, At, s
  <2>2. logins \in Nat /\ ~(s > logins)
    BY <1>2, <2>1, AuthAssumption DEF TypeOK, Sessions, AuthAssumption
  <2>3. \A q \in Requests : req'[q].pc = "insert" => req'[q] = req[q]
    BY <1>1, <1>3
  <2>4. \A n \in Sessions : n = s => ~(n > logins)
    BY <2>2
  <2> QED BY <1>2, <1>o, <2>1, <2>3, <2>4 DEF Handed, Unopened, At
<1>9. Agreed'
  <2> SUFFICES ASSUME faults' = 0 PROVE Delivered' /\ KeyAgrees'
    BY DEF Agreed
  <2>1. l.pc = "count" /\ faults = 0
    BY <1>1, FailCounts
  <2>2. Delivered'
    BY <1>2, <1>h, <2>1 DEF Agreed, Delivered
  <2>3. ASSUME NEW u \in active
        PROVE  \/ session'[tokenSession[u]] \in {u, NoToken}
               \/ \E q \in Requests : /\ req'[q].pc = "cas"
                                      /\ req'[q].next = u
                                      /\ session'[tokenSession[u]] = req'[q].token
    <3>1. tokenSession[u] \in Sessions
      BY DEF Linked, ActiveInserted, Fresh, TypeOK
    <3>2. CASE tokenSession[u] = s
      BY <1>a, <1>s, <2>1, <3>2
    <3>3. CASE tokenSession[u] # s
      BY <1>2, <1>3, <1>o, <2>1, <3>1, <3>3 DEF Agreed, KeyAgrees, At
    <3> QED BY <3>2, <3>3
  <2> QED BY <1>2, <2>2, <2>3 DEF KeyAgrees, At
<1> QED BY <1>5, <1>6, <1>7, <1>8, <1>9 DEF Handed

LEMMA FinishHands ==
    ASSUME TypeOK, LocalsOK, Linked, Handed, Agreed, NEW r \in Requests, LoginFinish(r)
    PROVE  Handed' /\ Agreed'
<1> DEFINE t == req[r].token
<1>1. req[r].pc = "evict" /\ issued' = issued \cup {t}
      /\ UNCHANGED <<tokenSession, active, logins, session, faults>>
  BY DEF LoginFinish, At, accountVars, tokenVars, redisVars
<1>2. req'[r] = Idle /\ \A q \in Requests : q # r => req'[q] = req[q]
  BY DEF LoginFinish, Continue, TypeOK
<1>3. Held(req[r]) = {t} /\ Held(Idle) = {} /\ Idle.pc = "idle"
  BY <1>1 DEF Held, LoginTail, Idle
<1> HIDE DEF t
<1>f. Fresh' = Fresh
  BY <1>1 DEF Fresh
<1>4. HeldApart'
  <2> SUFFICES ASSUME NEW q \in Requests, NEW u \in Held(req'[q])
               PROVE  /\ u \in Tokens \ Fresh
                      /\ u \notin issued'
                      /\ \A v \in active : tokenSession[v] = tokenSession[u] => v = u
                      /\ \A o \in Requests : u \in Held(req'[o]) => o = q
    BY <1>1, <1>f DEF HeldApart
  <2>1. q # r /\ u \in Held(req[q])
    BY <1>2, <1>3
  <2>2. u # t
    BY <1>3, <2>1 DEF Handed, HeldApart
  <2>3. \A o \in Requests : u \in Held(req'[o]) => u \in Held(req[o])
    BY <1>2, <1>3
  <2> QED BY <1>1, <2>1, <2>2, <2>3 DEF Handed, HeldApart
<1>5. HeldOfSession' /\ Presented'
  BY <1>1, <1>2, <1>3 DEF Handed, HeldOfSession, Presented, At
<1>6. IssuedInserted'
  <2>1. t \notin Fresh
    BY <1>3 DEF Handed, HeldApart
  <2> QED BY <1>1, <1>f, <2>1 DEF Handed, IssuedInserted
<1>7. LoginsApart' /\ Unopened'
  BY <1>1, <1>2, <1>3 DEF Handed, LoginsApart, Unopened, Opening, At
<1>8. Agreed'
  <2>1. Delivered => Delivered'
    BY <1>1, <1>2, <1>3 DEF Delivered
  <2>2. KeyAgrees => KeyAgrees'
    BY <1>1, <1>2 DEF KeyAgrees, At
  <2> QED BY <1>1, <2>1, <2>2 DEF Agreed
<1> QED BY <1>4, <1>5, <1>6, <1>7, <1>8 DEF Handed

LEMMA CasHands ==
    ASSUME TypeOK, LocalsOK, Linked, Handed, Agreed, NEW r \in Requests, RefreshCas(r)
    PROVE  Handed' /\ Agreed'
<1>r. req[r] \in Locals /\ req \in [Requests -> Locals] BY DEF TypeOK
<1> DEFINE s == req[r].session
           o == req[r].token
           t == req[r].next
<1>0. /\ CleanupOf(r).pc = "cleanup" /\ CleanupOf(r).next = t
      /\ CleanupOf(r).pending = {"token", "session"}
      /\ Idle.pc = "idle"
      /\ CleanupOf(r) # Idle
  BY <1>r DEF CleanupOf, To, Locals, Idle
<1>1. PICK l \in {Idle, CleanupOf(r)} :
         /\ Continue(r, l)
         /\ \/ session' = [session EXCEPT ![s] = t] /\ session[s] = o
            \/ UNCHANGED session
         /\ l = Idle => session' = [session EXCEPT ![s] = t] /\ UNCHANGED faults
         /\ l # Idle => Fail \/ (UNCHANGED faults /\ session[s] # o)
  <2> DEFINE Goal(l) ==
         /\ Continue(r, l)
         /\ \/ session' = [session EXCEPT ![s] = t] /\ session[s] = o
            \/ UNCHANGED session
         /\ l = Idle => session' = [session EXCEPT ![s] = t] /\ UNCHANGED faults
         /\ l # Idle => Fail \/ (UNCHANGED faults /\ session[s] # o)
  <2>1. CASE CasMatches(r) /\ Continue(r, Idle)
               /\ session' = [session EXCEPT ![s] = t] /\ UNCHANGED faults
    <3>1. Goal(Idle)
      BY <2>1 DEF CasMatches
    <3> QED BY <3>1
  <2>2. CASE /\ Continue(r, CleanupOf(r))
             /\ \/ CasMatches(r) /\ session' = [session EXCEPT ![s] = t] /\ Fail
                \/ UNCHANGED session /\ Fail
                \/ UNCHANGED session /\ UNCHANGED faults /\ ~CasMatches(r)
    <3>1. Goal(CleanupOf(r))
      BY <1>0, <2>2 DEF CasMatches
    <3> QED BY <3>1
  <2> QED BY <2>1, <2>2 DEF RefreshCas, RedisWrite, RedisRead, redisVars
<1>2. /\ req[r].pc = "cas" /\ s \in Sessions /\ o \in Tokens /\ t \in Tokens
      /\ tokenSession[t] = s
      /\ UNCHANGED <<tokenSession, active, logins>>
  BY DEF RefreshCas, LocalsOK, Consistent, WithSession, WithToken, Steps, At, Handed,
         HeldOfSession, accountVars, tokenVars
<1>3. req'[r] = l /\ \A q \in Requests : q # r => req'[q] = req[q]
  BY <1>1, <1>r DEF Continue
<1>i. issued' = IF l = Idle THEN issued \cup {t} ELSE issued
  BY <1>3 DEF RefreshCas, clientVars
<1>4. /\ Held(req[r]) = {t}
      /\ Held(l) = IF l = Idle THEN {} ELSE {t}
      /\ l.pc \in {"idle", "cleanup"}
  BY <1>0, <1>1, <1>2 DEF Held, LoginTail
<1>n. \A n \in Sessions : n # s => session'[n] = session[n]
  BY <1>1, <1>2 DEF TypeOK
<1>s. /\ session'[s] \in {t, session[s]}
      /\ l = Idle => session'[s] = t
      /\ session[s] = NoToken => session'[s] = NoToken
  BY <1>1, <1>2, AuthAssumption DEF TypeOK, AuthAssumption
<1>a. \A u \in active : tokenSession[u] = s => u = t
  BY <1>2, <1>4 DEF Handed, HeldApart
<1>b. \A q \in Requests : t \in Held(req[q]) => q = r
  BY <1>4 DEF Handed, HeldApart
<1> HIDE DEF s, o, t
<1>f. Fresh' = Fresh
  BY <1>2 DEF Fresh
<1>5. HeldApart'
  <2> SUFFICES ASSUME NEW q \in Requests, NEW u \in Held(req'[q])
               PROVE  /\ u \in Tokens \ Fresh
                      /\ u \notin issued'
                      /\ \A v \in active : tokenSession[v] = tokenSession[u] => v = u
                      /\ \A p \in Requests : u \in Held(req'[p]) => p = q
    BY <1>2, <1>f DEF HeldApart
  <2>1. \A p \in Requests : u \in Held(req'[p]) => u \in Held(req[p])
    BY <1>3, <1>4
  <2>2. u \notin issued'
    BY <1>3, <1>4, <1>b, <1>i, <2>1 DEF Handed, HeldApart
  <2> QED BY <2>1, <2>2 DEF Handed, HeldApart
<1>6. HeldOfSession' /\ Presented'
  BY <1>2, <1>3, <1>4, <1>i DEF Handed, HeldOfSession, Presented, At
<1>7. IssuedInserted'
  <2>1. t \notin Fresh
    BY <1>4 DEF Handed, HeldApart
  <2> QED BY <1>i, <1>f, <2>1 DEF Handed, IssuedInserted
<1>8. LoginsApart'
  BY <1>2, <1>3, <1>4 DEF Handed, LoginsApart, Opening
<1>9. Unopened'
  <2>1. \A n \in Sessions : session[n] = NoToken => session'[n] = NoToken
    BY <1>n, <1>s
  <2>2. \A q \in Requests : req'[q].pc = "insert" => req'[q] = req[q]
    BY <1>3, <1>4
  <2> QED BY <1>2, <2>1, <2>2 DEF Handed, Unopened, At
<1>10. Agreed'
  <2> SUFFICES ASSUME faults' = 0 PROVE Delivered' /\ KeyAgrees'
    BY DEF Agreed
  <2>1. faults = 0 /\ (l # Idle => session[s] # o /\ UNCHANGED session)
    BY <1>1, FailCounts
  <2>2. Delivered'
    <3> SUFFICES ASSUME NEW u \in active
                 PROVE  u \in issued' \/ \E q \in Requests : u \in Held(req'[q])
      BY <1>2 DEF Delivered
    <3>1. u \in issued \/ \E q \in Requests : u \in Held(req[q])
      BY <2>1 DEF Agreed, Delivered
    <3> QED BY <1>3, <1>4, <1>i, <3>1
  <2>3. ASSUME NEW u \in active
        PROVE  \/ session'[tokenSession[u]] \in {u, NoToken}
               \/ \E q \in Requests : /\ req'[q].pc = "cas"
                                      /\ req'[q].next = u
                                      /\ session'[tokenSession[u]] = req'[q].token
    <3>0. \/ session[tokenSession[u]] \in {u, NoToken}
          \/ \E q \in Requests : /\ req[q].pc = "cas"
                                 /\ req[q].next = u
                                 /\ session[tokenSession[u]] = req[q].token
      BY <2>1 DEF Agreed, KeyAgrees, At
    <3>1. tokenSession[u] \in Sessions
      BY DEF Linked, ActiveInserted, Fresh, TypeOK
    <3>2. CASE tokenSession[u] = s
      <4>1. u = t
        BY <1>a, <3>2
      <4>2. CASE l = Idle
        BY <1>s, <3>2, <4>1, <4>2
      <4>3. CASE l # Idle
        <5>1. \A q \in Requests : req[q].pc = "cas" /\ req[q].next = t => q = r
          BY <1>b DEF Held, LoginTail
        <5>2. session[s] \in {t, NoToken}
          BY <2>1, <3>0, <3>2, <4>1, <4>3, <5>1 DEF o
        <5> QED BY <2>1, <3>2, <4>1, <4>3, <5>2
      <4> QED BY <4>2, <4>3
    <3>3. CASE tokenSession[u] # s
      <4>1. u # t
        BY <1>2, <3>3
      <4>2. \A q \in Requests : req[q].next = u => q # r
        BY <4>1 DEF t
      <4> QED BY <1>3, <1>n, <3>0, <3>1, <3>3, <4>2
    <3> QED BY <3>2, <3>3
  <2> QED BY <1>2, <2>2, <2>3 DEF KeyAgrees, At
<1> QED BY <1>5, <1>6, <1>7, <1>8, <1>9, <1>10 DEF Handed

LEMMA HandedStep ==
    ASSUME TypeOK, LocalsOK, Linked, Handed, Agreed, [Next]_vars
    PROVE  Handed' /\ Agreed'
<1>1. ASSUME NEW r \in Requests, LoginStep(r) PROVE Handed' /\ Agreed'
  <2>1. CASE Login(r)
    BY <2>1, LoginHands
  <2>2. CASE LoginInsert(r)
    BY <2>2, LoginInsertHands
  <2>3. CASE LoginOpen(r)
    BY <2>3, OpenHands
  <2>4. CASE LoginFinish(r)
    BY <2>4, FinishHands
  <2> QED BY <1>1, <2>1, <2>2, <2>3, <2>4, TailFades, FadingKeepsStores DEF LoginStep
<1>2. ASSUME NEW r \in Requests, RefreshStep(r) PROVE Handed' /\ Agreed'
  <2>1. CASE RefreshRotate(r)
    BY <2>1, RotateHands
  <2>2. CASE RefreshCas(r)
    BY <2>2, CasHands
  <2> QED BY <1>2, <2>1, <2>2, RefreshFades, FadingKeepsStores DEF RefreshStep
<1>3. ASSUME NEW r \in Requests, GuardedStep(r) PROVE Handed' /\ Agreed'
  BY <1>3, GuardedFades, FadingKeepsStores
<1>4. ASSUME NEW r \in Requests, AccountStep(r) PROVE Handed' /\ Agreed'
  BY <1>4, AccountFades, FadingKeepsStores
<1>5. ASSUME NEW r \in Requests, Crash(r) PROVE Handed' /\ Agreed'
  BY <1>5, CrashFades, FadingKeepsStores
<1>6. ASSUME NEW s \in Sessions, ExpireSession(s) PROVE Handed' /\ Agreed'
  <2>1. StoresFade /\ \A q \in Requests : req'[q] = req[q]
    BY <1>6 DEF ExpireSession, StoresFade, accountVars, tokenVars, clientVars, TypeOK
  <2> QED BY <2>1, FadingKeepsStores
<1>7. CASE UNCHANGED vars
  <2>1. StoresFade /\ \A q \in Requests : req'[q] = req[q]
    BY <1>7 DEF vars, StoresFade, accountVars, tokenVars, redisVars, clientVars
  <2> QED BY <2>1, FadingKeepsStores
<1> QED BY <1>1, <1>2, <1>3, <1>4, <1>5, <1>6, <1>7 DEF Next

LEMMA InitHanded == Init => Handed /\ Agreed
<1> SUFFICES ASSUME Init PROVE Handed /\ Agreed
  OBVIOUS
<1>1. \A r \in Requests : req[r].pc = "idle" /\ Held(req[r]) = {}
  BY DEF Init, Idle, Held, LoginTail
<1>2. HeldApart /\ HeldOfSession /\ Presented /\ LoginsApart
  BY <1>1 DEF HeldApart, HeldOfSession, Presented, LoginsApart, Opening, At
<1>3. IssuedInserted /\ Unopened /\ Agreed
  BY DEF Init, IssuedInserted, Unopened, Agreed, Delivered, KeyAgrees
<1> QED BY <1>2, <1>3 DEF Handed

LEMMA Agreement == Spec => [](Handed /\ Agreed)
<1> DEFINE Inv == TypeOK /\ LocalsOK /\ Linked
<1>1. Inv /\ Handed /\ Agreed /\ [Next]_vars => (Handed /\ Agreed)'
  BY HandedStep
<1>2. Spec => []Inv
  BY Invariance
<1> HIDE DEF Inv
<1> QED BY <1>1, <1>2, InitHanded, PTL DEF Spec

(* PostgreSQL and Redis agree once the requests are over and no call has   *)
(* failed: every active row has reached the client, and the key of its     *)
(* session, if it lives, holds that token.                                 *)
THEOREM StoresAgreeAtRest == Spec => []StoresAgree
<1>1. Agreed => StoresAgree
  <2> SUFFICES ASSUME Agreed, Quiet, faults = 0, NEW t \in active
               PROVE  t \in issued /\ session[tokenSession[t]] \in {t, NoToken}
    BY DEF StoresAgree
  <2>1. \A r \in Requests : Held(req[r]) = {} /\ ~At(r, "cas")
    BY DEF Quiet, Idle, Held, LoginTail, At
  <2> QED BY <2>1 DEF Agreed, Delivered, KeyAgrees
<1> QED BY <1>1, Agreement, PTL

-----------------------------------------------------------------------------
(* The session limit *)

(* What is left of n members when the k oldest are popped: n - k or none.  *)
LEMMA OldestLeaves ==
    ASSUME NEW S \in SUBSET Members, NEW k \in Nat
    PROVE  LET left == Cardinality(S \ Oldest(S, k))
           IN  /\ left \in Nat
               /\ left = 0 \/ left <= Cardinality(S) - k
<1> DEFINE rest == S \ Oldest(S, k)
           Before(s) == {o \in S : o < s}
           n == Cardinality(S)
           rank == [s \in rest |-> Cardinality(Before(s))]
<1>1. IsFiniteSet(S) /\ n \in Nat /\ S \subseteq Int
  BY MembersFinite, AuthAssumption, FS_CardinalityType
<1>2. \A s \in S : /\ IsFiniteSet(Before(s))
                   /\ Cardinality(Before(s)) \in Nat
  BY <1>1, FS_Subset, FS_CardinalityType
<1>3. ASSUME NEW s \in S PROVE Cardinality(Before(s)) <= n - 1
  <2>1. Before(s) \in SUBSET (S \ {s})
    BY <1>1
  <2>2. IsFiniteSet(S \ {s}) /\ Cardinality(S \ {s}) = n - 1
    BY <1>1, FS_RemoveElement
  <2> HIDE DEF Before
  <2> QED BY <2>1, <2>2, FS_Subset
<1>4. ASSUME NEW s \in S, NEW o \in S, o < s
      PROVE  Cardinality(Before(o)) # Cardinality(Before(s))
  <2>0. o \in Before(s) /\ o \notin Before(o) /\ \A x \in Before(o) : x \in Before(s)
    BY <1>1, <1>4
  <2>1. Before(o) \cup {o} \in SUBSET Before(s) /\ o \notin Before(o)
    BY <2>0
  <2> HIDE DEF Before
  <2>2. Cardinality(Before(o) \cup {o}) = Cardinality(Before(o)) + 1
    BY <1>2, <2>1, FS_AddElement
  <2>3. Cardinality(Before(o) \cup {o}) <= Cardinality(Before(s))
    BY <1>2, <2>1, FS_Subset
  <2> QED BY <1>2, <2>2, <2>3
<1>5. rest \subseteq S /\ \A s \in rest : Cardinality(Before(s)) >= k
  BY <1>2 DEF Oldest
<1> HIDE DEF Before, n
<1>6. \A s \in rest : Cardinality(Before(s)) \in k .. n - 1
  BY <1>1, <1>2, <1>3, <1>5
<1>7. \A s, o \in rest : Cardinality(Before(s)) = Cardinality(Before(o)) => s = o
  <2>1. \A s, o \in S : s = o \/ s < o \/ o < s
    BY <1>1
  <2> QED BY <1>4, <1>5, <2>1
<1> HIDE DEF rest
<1>8. rank \in Injection(rest, k .. n - 1)
  BY <1>6, <1>7 DEF Injection, IsInjective
<1>9. IsFiniteSet(k .. n - 1)
      /\ Cardinality(k .. n - 1) = IF k > n - 1 THEN 0 ELSE n - k
  BY <1>1, FS_Interval
<1>10. IsFiniteSet(rest) /\ Cardinality(rest) <= Cardinality(k .. n - 1)
  BY <1>8, <1>9, FS_Injection
<1>11. Cardinality(rest) \in Nat
  BY <1>10, FS_CardinalityType
<1> QED BY <1>1, <1>9, <1>10, <1>11 DEF n, rest

(* While no call has failed, a login that has not counted yet may add one  *)
(* session over the limit, and one about to pop takes what it counted.     *)
Uncounted == {req[r].session : r \in {q \in Requests : At(q, "count")}}

Crowd(n) == Cardinality(index) <= SessionLimit + Cardinality(Uncounted) + n

Crowded ==
    faults = 0 =>
        /\ \A r \in Requests : ~At(r, "evictRestore")
        /\ Crowd(0) \/ \E r \in Requests : At(r, "pop") /\ Crowd(req[r].excess)

LEMMA CrowdTypes ==
    ASSUME TypeOK, LocalsOK
    PROVE  /\ IsFiniteSet(index) /\ Cardinality(index) \in Nat
           /\ Uncounted \subseteq Sessions
           /\ IsFiniteSet(Uncounted) /\ Cardinality(Uncounted) \in Nat
           /\ SessionLimit \in Nat
           /\ \A r \in Requests : req[r].excess \in Nat
<1>1. IsFiniteSet(Sessions)
  BY FS_Interval, AuthAssumption DEF Sessions, AuthAssumption
<1>2. Uncounted \subseteq Sessions
  BY DEF LocalsOK, Consistent, WithSession, Steps, At, Uncounted
<1>3. index \subseteq Members /\ \A r \in Requests : req[r].excess \in Nat
  BY AuthAssumption DEF TypeOK, Locals, AuthAssumption
<1>4. IsFiniteSet(index)
  BY <1>3, MembersFinite, AuthAssumption
<1> QED BY <1>1, <1>2, <1>3, <1>4, FS_Subset, FS_CardinalityType, AuthAssumption DEF AuthAssumption

Counting == {"count", "pop", "evictRestore"}

(* A step that does not concern the limit: the index only shrinks.         *)
LEMMA UncrowdingKeeps ==
    ASSUME TypeOK, LocalsOK, Crowded,
           faults' = 0 => /\ faults = 0
                          /\ index' \subseteq index
                          /\ \A q \in Requests :
                                \/ req'[q] = req[q]
                                \/ {req[q].pc, req'[q].pc} \cap Counting = {}
    PROVE  Crowded'
<1> SUFFICES ASSUME faults' = 0
             PROVE  /\ \A r \in Requests : ~At(r, "evictRestore")'
                    /\ Crowd(0)' \/ \E r \in Requests : At(r, "pop")' /\ Crowd(req[r].excess)'
  BY DEF Crowded
<1>1. \A q \in Requests : \/ req'[q] = req[q]
                          \/ {req[q].pc, req'[q].pc} \cap Counting = {}
  OBVIOUS
<1>2. Uncounted' = Uncounted
  BY <1>1 DEF Uncounted, At, Counting
<1>3. /\ Cardinality(index') <= Cardinality(index)
      /\ Cardinality(index') \in Nat
  BY CrowdTypes, FS_Subset, FS_CardinalityType
<1>4. \A n \in Nat : Cardinality(index) <= SessionLimit + Cardinality(Uncounted) + n
                       => Cardinality(index') <= SessionLimit + Cardinality(Uncounted') + n
  BY <1>2, <1>3, CrowdTypes
<1>5. \A r \in Requests : ~At(r, "evictRestore")'
  BY <1>1 DEF Crowded, At, Counting
<1>6. CASE Crowd(0)
  BY <1>4, <1>5, <1>6 DEF Crowd
<1>7. ASSUME NEW r \in Requests, At(r, "pop"), Crowd(req[r].excess)
      PROVE  At(r, "pop")' /\ Crowd(req[r].excess)'
  <2>1. req'[r] = req[r]
    BY <1>1, <1>7 DEF At, Counting
  <2> QED BY <1>4, <1>7, <2>1, CrowdTypes DEF At, Crowd
<1> QED BY <1>5, <1>6, <1>7 DEF Crowded

Off(l) == l.pc \notin Counting

LEMMA EitherOff ==
    ASSUME TypeOK, NEW r \in Requests, Off(req[r]), NEW ok, NEW failed,
           Off(ok), Off(failed), Continue(r, ok) \/ Continue(r, failed)
    PROVE  \A q \in Requests : \/ req'[q] = req[q]
                               \/ {req[q].pc, req'[q].pc} \cap Counting = {}
BY DEF TypeOK, Continue, Off

LEMMA ToOff ==
    ASSUME TypeOK, NEW r \in Requests, NEW pc \in Steps \ Counting
    PROVE  Off(To(r, pc))
BY DEF TypeOK, Locals, To, Off

LEMMA PlainIsOff ==
    ASSUME NEW l, Plain(l)
    PROVE  Off(l)
BY DEF Plain, PlainSteps, Off, Counting

LEMMA PlainUncrowds ==
    ASSUME TypeOK, LocalsOK, Crowded, NEW r \in Requests,
           faults' = 0 => faults = 0 /\ index' \subseteq index,
           Plain(req[r]),
           \A q \in Requests : req'[q] = req[q] \/ (q = r /\ Plain(req'[q]))
    PROVE  Crowded'
<1>1. \A q \in Requests : \/ req'[q] = req[q]
                          \/ {req[q].pc, req'[q].pc} \cap Counting = {}
  BY PlainIsOff DEF Off
<1> QED BY <1>1, UncrowdingKeeps

LEMMA GuardedUncrowds ==
    ASSUME TypeOK, LocalsOK, Crowded, NEW r \in Requests, GuardedStep(r)
    PROVE  Crowded'
<1>1. index' \subseteq index
  <2>1. CASE LogoutDelete(r) \/ RevokeDelete(r)
    BY <2>1 DEF LogoutDelete, RevokeDelete, RedisWrite, DeleteSession, redisVars
  <2>2. CASE DropSessions(r) \/ PruneSession(r)
    BY <2>2 DEF DropSessions, PruneSession, RedisWrite, redisVars
  <2>3. CASE UNCHANGED index
    BY <2>3
  <2> QED
    BY <2>1, <2>2, <2>3
       DEF GuardedStep, Authorize, RevokeSession, Logout, LogoutSave, LogoutAll,
           LogoutAllUpdate, ReadIndex, RevokeRead, RevokeUpdate, ListSessions,
           LookupSessions, RedisRead, redisVars
<1> QED BY <1>1, GuardedFades, GuardedPlain, PlainUncrowds DEF StoresFade

LEMMA AccountUncrowds ==
    ASSUME TypeOK, LocalsOK, Crowded, NEW r \in Requests, AccountStep(r)
    PROVE  Crowded'
<1>1. UNCHANGED <<index, faults>>
  BY DEF AccountStep, ChangePassword, RefuseChange, ResetPassword, SoftDeleteUser,
         PermanentDeleteUser, RestoreUser, RevokeAll, redisVars
<1>2. Off([Idle EXCEPT !.pc = "readIndex"]) /\ Off(Idle)
  BY DEF Off, Idle, Counting
<1>3. CASE RestoreUser(r)
  BY <1>1, <1>3, UncrowdingKeeps DEF RestoreUser
<1>4. CASE ~RestoreUser(r)
  <2>1. Off(req[r])
    BY <1>4 DEF AccountStep, ChangePassword, RefuseChange, ResetPassword, SoftDeleteUser,
                PermanentDeleteUser, At, Off, Counting
  <2>2. Continue(r, [Idle EXCEPT !.pc = "readIndex"]) \/ Continue(r, Idle)
    BY <1>4 DEF AccountStep, ChangePassword, RefuseChange, ResetPassword, SoftDeleteUser,
                PermanentDeleteUser, RevokeAll
  <2> QED BY <1>1, <1>2, <2>1, <2>2, EitherOff, UncrowdingKeeps
<1> QED BY <1>3, <1>4

LEMMA RefreshUncrowds ==
    ASSUME TypeOK, LocalsOK, Crowded, NEW r \in Requests, RefreshStep(r)
    PROVE  Crowded'
<1>r. req[r] \in Locals BY DEF TypeOK
<1>1. index' \subseteq index
  BY DEF RefreshStep, Refresh, RefreshGet, RefreshRotate, RefreshCas, CleanupToken,
         CleanupSession, RedisRead, RedisWrite, DeleteSession, redisVars
<1>2. faults' = 0 => faults = 0
  <2>1. UNCHANGED faults \/ Fail
    BY DEF RefreshStep, Refresh, RefreshGet, RefreshRotate, RefreshCas, CleanupToken,
           CleanupSession, RedisRead, RedisWrite
  <2> QED BY <2>1, FailCounts
<1>3. Off(req[r])
  BY DEF RefreshStep, Refresh, RefreshGet, RefreshRotate, RefreshCas, CleanupToken,
         CleanupSession, At, Off, Counting
<1>i. Off(Idle)
  BY DEF Off, Idle, Counting
<1> SUFFICES \A q \in Requests : \/ req'[q] = req[q]
                                 \/ {req[q].pc, req'[q].pc} \cap Counting = {}
  BY <1>1, <1>2, UncrowdingKeeps
<1>4. ASSUME NEW t \in Tokens, Refresh(r, t)
      PROVE  \A q \in Requests : \/ req'[q] = req[q]
                                 \/ {req[q].pc, req'[q].pc} \cap Counting = {}
  <2>1. Off([Idle EXCEPT !.pc = "refreshGet", !.token = t, !.session = tokenSession[t]])
    BY DEF Off, Idle, Counting
  <2> QED BY <1>3, <1>4, <2>1, EitherOff DEF Refresh
<1>5. CASE RefreshGet(r)
  <2>1. Off(To(r, "rotate"))
    BY ToOff DEF Steps, Counting
  <2> QED BY <1>3, <1>5, <1>i, <2>1, EitherOff DEF RefreshGet, RedisRead
<1>6. CASE RefreshRotate(r)
  <2>1. ASSUME NEW t PROVE Off([To(r, "cas") EXCEPT !.next = t])
    BY <1>r DEF To, Locals, Off, Counting
  <2> QED BY <1>3, <1>6, <1>i, <2>1, EitherOff DEF RefreshRotate
<1>7. CASE RefreshCas(r)
  <2>1. Off(CleanupOf(r))
    BY <1>r DEF CleanupOf, To, Locals, Off, Counting
  <2> QED BY <1>3, <1>7, <1>i, <2>1, EitherOff DEF RefreshCas, RedisRead, RedisWrite
<1>8. CASE CleanupToken(r) \/ CleanupSession(r)
  <2>1. ASSUME NEW part PROVE Off(Settled(r, part))
    <3>1. Off([req[r] EXCEPT !.pending = @ \ {part}])
      BY <1>r, <1>3 DEF Locals, Off
    <3> QED BY <1>i, <3>1 DEF Settled
  <2> QED BY <1>3, <1>8, <2>1, EitherOff DEF CleanupToken, CleanupSession, RedisWrite
<1> QED BY <1>4, <1>5, <1>6, <1>7, <1>8 DEF RefreshStep

LEMMA LoginUncrowds ==
    ASSUME TypeOK, LocalsOK, Crowded, NEW r \in Requests,
           Login(r) \/ LoginInsert(r) \/ EvictRead(r) \/ EvictDelete(r)
             \/ LoginFinish(r) \/ RollbackToken(r) \/ RollbackSession(r)
    PROVE  Crowded'
<1>r. req[r] \in Locals BY DEF TypeOK
<1>i. Off(Idle)
  BY DEF Off, Idle, Counting
<1> SUFFICES ASSUME faults' = 0
             PROVE  /\ faults = 0
                    /\ index' \subseteq index
                    /\ \A q \in Requests :
                          \/ req'[q] = req[q]
                          \/ {req[q].pc, req'[q].pc} \cap Counting = {}
  BY UncrowdingKeeps
<1>1. ~Fail
  BY FailCounts
<1>2. faults = 0
  BY <1>1 DEF Login, LoginInsert, EvictRead, EvictDelete, LoginFinish,
              RollbackToken, RollbackSession, RedisRead, RedisWrite
<1>3. index' \subseteq index
  BY <1>1 DEF Login, LoginInsert, EvictRead, EvictDelete, LoginFinish,
              RollbackToken, RollbackSession, RedisRead, RedisWrite, DeleteSession, redisVars
<1>4. Off(req[r])
  BY DEF Login, LoginInsert, EvictRead, EvictDelete, LoginFinish,
         RollbackToken, RollbackSession, At, Off, Counting
<1> SUFFICES \A q \in Requests : \/ req'[q] = req[q]
                                 \/ {req[q].pc, req'[q].pc} \cap Counting = {}
  BY <1>2, <1>3
<1>5. CASE Login(r)
  <2>1. Off([Idle EXCEPT !.pc = "insert", !.session = logins + 1])
    BY DEF Off, Idle, Counting
  <2> QED BY <1>4, <1>5, <2>1, EitherOff DEF Login
<1>6. CASE LoginInsert(r)
  <2>1. ASSUME NEW t PROVE Off([To(r, "open") EXCEPT !.token = t])
    BY <1>r DEF To, Locals, Off, Counting
  <2> QED BY <1>4, <1>6, <1>i, <2>1, EitherOff DEF LoginInsert
<1>7. CASE EvictRead(r)
  <2>1. ASSUME NEW c PROVE Off([To(r, "evictDelete") EXCEPT !.stray = c])
    BY <1>r DEF To, Locals, Off, Counting
  <2> QED BY <1>1, <1>4, <1>7, <2>1, EitherOff DEF EvictRead, RedisRead
<1>9. CASE EvictDelete(r)
  <2>1. Off(Evicted(r))
    BY <1>r DEF Evicted, To, Locals, Off, Counting
  <2> QED BY <1>1, <1>4, <1>9, <2>1, EitherOff DEF EvictDelete, RedisWrite
<1>10. CASE LoginFinish(r) \/ RollbackSession(r)
  BY <1>i, <1>4, <1>10, EitherOff DEF LoginFinish, RollbackSession, RedisWrite
<1>11. CASE RollbackToken(r)
  <2>1. Off(To(r, "rollbackDelete"))
    BY ToOff DEF Steps, Counting
  <2> QED BY <1>4, <1>11, <2>1, EitherOff DEF RollbackToken
<1> QED BY <1>5, <1>6, <1>7, <1>9, <1>10, <1>11

(* The session opened is one more in the index and one more uncounted.     *)
LEMMA OpenCrowds ==
    ASSUME TypeOK, LocalsOK, Handed, Crowded, NEW r \in Requests, LoginOpen(r)
    PROVE  Crowded'
<1> SUFFICES ASSUME faults' = 0 PROVE Crowded'
  BY DEF Crowded
<1> DEFINE s == req[r].session
           l == To(r, "count")
<1>1. Continue(r, l) /\ index' = index \cup {s} /\ faults = 0 /\ req[r].pc = "open"
  BY FailCounts DEF LoginOpen, RedisWrite, At
<1>2. l.pc = "count" /\ l.session = s
  BY DEF To, TypeOK, Locals
<1> HIDE DEF l
<1>3. req'[r] = l /\ \A q \in Requests : q # r => req'[q] = req[q]
  BY <1>1 DEF Continue, TypeOK
<1>4. Uncounted' = Uncounted \cup {s}
  BY <1>1, <1>2, <1>3 DEF Uncounted, At
<1>5. s \notin Uncounted
  BY <1>1 DEF Handed, LoginsApart, Opening, Uncounted, At
<1> HIDE DEF s
<1>6. /\ Cardinality(index') \in Nat
      /\ Cardinality(index') <= Cardinality(index) + 1
      /\ Cardinality(Uncounted') = Cardinality(Uncounted) + 1
  <2>1. IsFiniteSet(index) /\ IsFiniteSet(Uncounted)
    BY CrowdTypes
  <2>2. /\ IsFiniteSet(index')
        /\ Cardinality(index') =
              IF s \in index THEN Cardinality(index) ELSE Cardinality(index) + 1
    BY <1>1, <2>1, FS_AddElement
  <2>3. Cardinality(Uncounted') = Cardinality(Uncounted) + 1
    BY <1>4, <1>5, <2>1, FS_AddElement
  <2>4. Cardinality(index) \in Nat /\ Cardinality(index') \in Nat
    BY <2>1, <2>2, FS_CardinalityType
  <2> QED BY <2>2, <2>3, <2>4
<1>7. \A n \in Nat : Cardinality(index) <= SessionLimit + Cardinality(Uncounted) + n
                       => Cardinality(index') <= SessionLimit + Cardinality(Uncounted') + n
  BY <1>6, CrowdTypes
<1>8. \A q \in Requests : ~At(q, "evictRestore")'
  BY <1>1, <1>2, <1>3 DEF Crowded, At
<1>9. CASE Crowd(0)
  BY <1>7, <1>8, <1>9 DEF Crowded, Crowd
<1>10. ASSUME NEW q \in Requests, At(q, "pop"), Crowd(req[q].excess)
       PROVE  At(q, "pop")' /\ Crowd(req[q].excess)'
  BY <1>1, <1>3, <1>7, <1>10, CrowdTypes DEF At, Crowd
<1> QED BY <1>1, <1>8, <1>9, <1>10 DEF Crowded

(* What a login counts is all there is over the limit.                     *)
LEMMA CountCrowds ==
    ASSUME TypeOK, LocalsOK, Crowded, NEW r \in Requests, LoginCount(r)
    PROVE  Crowded'
<1> SUFFICES ASSUME faults' = 0 PROVE Crowded'
  BY DEF Crowded
<1> DEFINE over == Cardinality(index) - SessionLimit
           l == IF over <= 0 THEN To(r, "evict") ELSE [To(r, "pop") EXCEPT !.excess = over]
<1>1. Continue(r, l) /\ index' = index /\ faults = 0
  BY FailCounts DEF LoginCount, RedisRead, redisVars
<1>2. /\ over <= 0 => l.pc = "evict"
      /\ ~(over <= 0) => l.pc = "pop" /\ l.excess = over
  BY DEF To, TypeOK, Locals
<1> HIDE DEF l
<1>3. req'[r] = l /\ \A q \in Requests : q # r => req'[q] = req[q]
  BY <1>1 DEF Continue, TypeOK
<1>4. Cardinality(Uncounted') \in Nat /\ Cardinality(index) \in Nat /\ SessionLimit \in Nat
  <2>1. Uncounted' \in SUBSET Uncounted
    BY <1>2, <1>3 DEF Uncounted, At
  <2> QED BY <2>1, CrowdTypes, FS_Subset, FS_CardinalityType
<1>5. \A q \in Requests : ~At(q, "evictRestore")'
  BY <1>1, <1>2, <1>3 DEF Crowded, At
<1>6. CASE over <= 0
  <2>1. Crowd(0)'
    BY <1>1, <1>4, <1>6 DEF Crowd
  <2> QED BY <1>5, <2>1 DEF Crowded
<1>7. CASE ~(over <= 0)
  <2>1. At(r, "pop")' /\ Crowd(req[r].excess)'
    BY <1>1, <1>2, <1>3, <1>4, <1>7 DEF Crowd, At
  <2> QED BY <1>5, <2>1 DEF Crowded
<1> QED BY <1>6, <1>7

(* Popping as many as were counted leaves no more than the limit and those *)
(* not counted.                                                            *)
LEMMA PopCrowds ==
    ASSUME TypeOK, LocalsOK, Crowded, NEW r \in Requests, LoginPop(r)
    PROVE  Crowded'
<1> SUFFICES ASSUME faults' = 0 PROVE Crowded'
  BY DEF Crowded
<1> DEFINE k == req[r].excess
           l == [To(r, "evict") EXCEPT !.strings = 2 * Cardinality(Oldest(index, k))]
<1>1. Continue(r, l) /\ index' = index \ Oldest(index, k) /\ faults = 0 /\ req[r].pc = "pop"
  BY FailCounts DEF LoginPop, RedisWrite, At
<1>2. l.pc = "evict"
  BY DEF To, TypeOK, Locals
<1> HIDE DEF l
<1>3. req'[r] = l /\ \A q \in Requests : q # r => req'[q] = req[q]
  BY <1>1 DEF Continue, TypeOK
<1>4. Uncounted' = Uncounted
  BY <1>1, <1>2, <1>3 DEF Uncounted, At
<1>5. k \in Nat
  BY CrowdTypes
<1>6. /\ Cardinality(index') \in Nat
      /\ Cardinality(index') = 0 \/ Cardinality(index') <= Cardinality(index) - k
  BY <1>1, <1>5, OldestLeaves DEF TypeOK
<1>7. \A n \in Nat : Cardinality(index) <= SessionLimit + Cardinality(Uncounted) + n
                       => Cardinality(index') <= SessionLimit + Cardinality(Uncounted') + n
  BY <1>4, <1>5, <1>6, CrowdTypes
<1>8. \A q \in Requests : ~At(q, "evictRestore")'
  BY <1>1, <1>2, <1>3 DEF Crowded, At
<1>9. CASE Crowd(0)
  BY <1>7, <1>8, <1>9 DEF Crowded, Crowd
<1>10. CASE Crowd(k)
  <2>1. Crowd(0)'
    BY <1>4, <1>5, <1>6, <1>10, CrowdTypes DEF Crowd
  <2> QED BY <1>8, <2>1 DEF Crowded
<1>11. ASSUME NEW q \in Requests, q # r, At(q, "pop"), Crowd(req[q].excess)
       PROVE  At(q, "pop")' /\ Crowd(req[q].excess)'
  BY <1>3, <1>7, <1>11, CrowdTypes DEF At, Crowd
<1> QED BY <1>1, <1>8, <1>9, <1>10, <1>11 DEF Crowded

LEMMA CrowdedStep ==
    ASSUME TypeOK, LocalsOK, Handed, Crowded, [Next]_vars
    PROVE  Crowded'
<1>1. ASSUME NEW r \in Requests, LoginStep(r) PROVE Crowded'
  <2>1. CASE EvictRestore(r)
    BY <2>1, FailCounts DEF EvictRestore, RedisWrite, Crowded, At
  <2> QED
    BY <1>1, <2>1, LoginUncrowds, OpenCrowds, CountCrowds, PopCrowds DEF LoginStep
<1>2. ASSUME NEW r \in Requests, RefreshStep(r) PROVE Crowded'
  BY <1>2, RefreshUncrowds
<1>3. ASSUME NEW r \in Requests, GuardedStep(r) PROVE Crowded'
  BY <1>3, GuardedUncrowds
<1>4. ASSUME NEW r \in Requests, AccountStep(r) PROVE Crowded'
  BY <1>4, AccountUncrowds
<1>5. ASSUME NEW r \in Requests, Crash(r) PROVE Crowded'
  BY <1>5, FailCounts DEF Crash, Crowded
<1>6. ASSUME NEW s \in Sessions, ExpireSession(s) PROVE Crowded'
  BY <1>6, UncrowdingKeeps DEF ExpireSession
<1>7. CASE UNCHANGED vars
  BY <1>7, UncrowdingKeeps DEF vars, redisVars
<1> QED BY <1>1, <1>2, <1>3, <1>4, <1>5, <1>6, <1>7 DEF Next

LEMMA InitCrowded == Init => Crowded
<1> SUFFICES ASSUME Init PROVE Crowded
  OBVIOUS
<1>1. \A r \in Requests : ~At(r, "evictRestore")
  BY DEF Init, Idle, At
<1>2. Cardinality(index) = 0
  BY FS_EmptySet DEF Init
<1>3. Cardinality(Uncounted) \in Nat /\ SessionLimit \in Nat
  BY InitInv, CrowdTypes
<1>4. Crowd(0)
  BY <1>2, <1>3 DEF Crowd
<1> QED BY <1>1, <1>4 DEF Crowded

(* Without failures the limit of auth.sessions.max holds between requests, *)
(* however many logins counted and popped at once.                         *)
THEOREM LimitHolds == Spec => []IndexWithinLimit
<1> DEFINE Inv == TypeOK /\ LocalsOK /\ Linked
<1>1. Inv /\ Handed /\ Agreed /\ Crowded /\ [Next]_vars => Crowded'
  BY CrowdedStep
<1>2. ASSUME Inv, Crowded PROVE IndexWithinLimit
  <2> SUFFICES ASSUME Quiet, faults = 0 PROVE Cardinality(index) <= SessionLimit
    BY DEF IndexWithinLimit
  <2>1. \A r \in Requests : ~At(r, "pop") /\ ~At(r, "count")
    BY DEF Quiet, Idle, At
  <2>2. Uncounted = {}
    BY <2>1 DEF Uncounted
  <2>3. Crowd(0)
    BY <1>2, <2>1 DEF Crowded
  <2> QED BY <1>2, <2>2, <2>3, FS_EmptySet, CrowdTypes DEF Crowd
<1>3. Spec => []Inv
  BY Invariance
<1> HIDE DEF Inv
<1> QED BY <1>1, <1>2, <1>3, Agreement, InitCrowded, PTL DEF Spec

-----------------------------------------------------------------------------
(* The ledger.  An offer belongs to the request that makes it, and no two  *)
(* requests make the same one, as each carries a token of its own.         *)

Offering(l) == l.pc \in {"open", "cas"}

OfferOf(l) ==
    IF l.pc = "open" THEN [session |-> l.session, old |-> NoToken, new |-> l.token]
                     ELSE [session |-> l.session, old |-> l.token, new |-> l.next]

(* The key of a login's session is not there until the login opens it. *)
Closed == \A r \in Requests : At(r, "open") => session[req[r].session] = NoToken

LEMMA OffersOf ==
    Offers = {OfferOf(req[r]) : r \in {q \in Requests : Offering(req[q])}}
BY DEF Offers, OfferOf, Offering, At

LEMMA OffersOfNext ==
    Offers' = {OfferOf(req'[r]) : r \in {q \in Requests : Offering(req'[q])}}
BY DEF Offers, OfferOf, Offering, At

LEMMA OfferFields ==
    ASSUME NEW l, Offering(l)
    PROVE  /\ OfferOf(l).session = l.session
           /\ OfferOf(l).old = IF l.pc = "open" THEN NoToken ELSE l.token
           /\ OfferOf(l).new = IF l.pc = "open" THEN l.token ELSE l.next
BY DEF Offering, OfferOf

LEMMA OffersApart ==
    ASSUME Handed, NEW r \in Requests, NEW q \in Requests,
           Offering(req[r]), Offering(req[q]), OfferOf(req[q]) = OfferOf(req[r])
    PROVE  q = r
<1>1. OfferOf(req[r]).new \in Held(req[r]) /\ OfferOf(req[q]).new \in Held(req[q])
  BY OfferFields DEF Offering, Held, LoginTail
<1> QED BY <1>1 DEF Handed, HeldApart

(* Steps of requests that neither make nor had made an offer. *)
Aside == \A q \in Requests :
            req'[q] = req[q] \/ (~Offering(req[q]) /\ ~Offering(req'[q]))

LEMMA OffersStay ==
    ASSUME Aside
    PROVE  UNCHANGED Offers
<1>1. \A q \in Requests : /\ Offering(req[q]) <=> Offering(req'[q])
                          /\ Offering(req[q]) => req'[q] = req[q]
  BY DEF Aside, Offering
<1> QED BY <1>1, OffersOf, OffersOfNext

(* The step of a request that drops its offer, or puts one forward. *)
LEMMA OfferLeaves ==
    ASSUME Handed, NEW r \in Requests, Offering(req[r]), ~Offering(req'[r]),
           \A q \in Requests : q # r => req'[q] = req[q]
    PROVE  OfferOf(req[r]) \in Offers /\ Offers' = Offers \ {OfferOf(req[r])}
<1>1. OfferOf(req[r]) \in Offers
  BY OffersOf
<1>2. ASSUME NEW o \in Offers' PROVE o \in Offers /\ o # OfferOf(req[r])
  <2>1. PICK q \in Requests : Offering(req'[q]) /\ o = OfferOf(req'[q])
    BY <1>2, OffersOfNext
  <2>2. q # r /\ req'[q] = req[q]
    BY <2>1
  <2>3. Offering(req[q]) /\ o = OfferOf(req[q])
    BY <2>1, <2>2
  <2> QED BY <2>2, <2>3, OffersOf, OffersApart
<1>3. ASSUME NEW o \in Offers, o # OfferOf(req[r]) PROVE o \in Offers'
  <2>1. PICK q \in Requests : Offering(req[q]) /\ o = OfferOf(req[q])
    BY OffersOf
  <2>2. q # r /\ req'[q] = req[q]
    BY <1>3, <2>1
  <2>3. Offering(req'[q]) /\ o = OfferOf(req'[q])
    BY <2>1, <2>2
  <2> QED BY <2>3, OffersOfNext
<1> QED BY <1>1, <1>2, <1>3

LEMMA OfferComes ==
    ASSUME NEW r \in Requests, ~Offering(req[r]), Offering(req'[r]),
           \A q \in Requests : q # r => req'[q] = req[q]
    PROVE  Offers' = Offers \cup {OfferOf(req'[r])}
<1>1. \A q \in Requests : Offering(req'[q]) <=> q = r \/ Offering(req[q])
  OBVIOUS
<1>2. \A q \in Requests : Offering(req[q]) => q # r /\ req'[q] = req[q]
  OBVIOUS
<1>3. ASSUME NEW o \in Offers' PROVE o \in Offers \cup {OfferOf(req'[r])}
  <2>1. PICK q \in Requests : Offering(req'[q]) /\ o = OfferOf(req'[q])
    BY <1>3, OffersOfNext
  <2> QED BY <1>1, <1>2, <2>1, OffersOf
<1>4. ASSUME NEW o \in Offers PROVE o \in Offers'
  <2>1. PICK q \in Requests : Offering(req[q]) /\ o = OfferOf(req[q])
    BY OffersOf
  <2>2. Offering(req'[q]) /\ o = OfferOf(req'[q])
    BY <1>2, <2>1
  <2> QED BY <2>2, OffersOfNext
<1>5. OfferOf(req'[r]) \in Offers'
  BY OffersOfNext
<1> QED BY <1>3, <1>4, <1>5

(* What a step that grants and offers nothing does to the two stores. *)
Revoked == active' \subseteq active /\ UNCHANGED <<tokenSession, session>>

Ended == /\ UNCHANGED <<tokenSession, active>>
         /\ \A s \in Sessions : session'[s] \in {session[s], NoToken}

Lets == Aside /\ (Revoked \/ Ended)

LEMMA LetsKeep ==
    ASSUME TypeOK, LocalsOK, TypeOK', Closed, Lets
    PROVE  [Ledger!LedgerNext]_Ledger!ledgerVars /\ Closed'
<1>0. UNCHANGED Offers
  BY OffersStay DEF Lets
<1>1. ASSUME Revoked PROVE Ledger!LedgerNext
  <2>1. active \ active' \in SUBSET Tokens /\ active' = active \ (active \ active')
    BY <1>1 DEF Revoked, TypeOK
  <2>2. Ledger!Revoke(active \ active')
    BY <1>0, <1>1, <2>1 DEF Revoked, Ledger!Revoke
  <2>3. \E T \in SUBSET Tokens : Ledger!Revoke(T)
    BY <2>1, <2>2
  <2>4. Ledger!LedgerNext
    BY <2>3 DEF Ledger!LedgerNext
  <2> QED BY <2>4
<1>2. ASSUME Ended PROVE Ledger!LedgerNext
  <2> DEFINE S == {s \in Sessions : session'[s] = NoToken}
  <2>1. session' = [s \in Sessions |-> IF s \in S THEN NoToken ELSE session[s]]
    BY <1>2 DEF Ended, TypeOK
  <2>2. S \in SUBSET Sessions
    OBVIOUS
  <2>3. Ledger!Close(S)
    BY <1>0, <1>2, <2>1 DEF Ended, Ledger!Close
  <2> HIDE DEF S
  <2>4. \E T \in SUBSET Sessions : Ledger!Close(T)
    BY <2>2, <2>3
  <2>5. Ledger!LedgerNext
    BY <2>4 DEF Ledger!LedgerNext
  <2> QED BY <2>5
<1>3. [Ledger!LedgerNext]_Ledger!ledgerVars
  BY <1>1, <1>2 DEF Lets
<1>4. Closed'
  <2> SUFFICES ASSUME NEW q \in Requests, At(q, "open")'
               PROVE  session'[req'[q].session] = NoToken
    BY DEF Closed
  <2>1. req'[q] = req[q]
    BY DEF Lets, Aside, Offering, At
  <2>2. session[req[q].session] = NoToken
    BY <2>1 DEF Closed, At
  <2>3. req[q].session \in Sessions
    BY <2>1 DEF LocalsOK, Consistent, WithSession, Steps, At
  <2> QED BY <2>1, <2>2, <2>3 DEF Lets, Revoked, Ended
<1> QED BY <1>3, <1>4

LEMMA EitherAside ==
    ASSUME TypeOK, NEW r \in Requests, ~Offering(req[r]), NEW ok, NEW failed,
           ~Offering(ok), ~Offering(failed), Continue(r, ok) \/ Continue(r, failed)
    PROVE  Aside
BY DEF TypeOK, Continue, Aside

LEMMA ToAside ==
    ASSUME TypeOK, NEW r \in Requests, NEW pc \in Steps \ {"open", "cas"}
    PROVE  ~Offering(To(r, pc))
BY DEF TypeOK, Locals, To, Offering

LEMMA IdleAside == ~Offering(Idle)
BY DEF Idle, Offering

(* A login lets the ledger be, but for its insert and its opening. *)
LEMMA LoginLets ==
    ASSUME TypeOK, LocalsOK, NEW r \in Requests, LoginStep(r),
           ~LoginInsert(r), ~LoginOpen(r)
    PROVE  Lets
<1>r. req[r] \in Locals BY DEF TypeOK
<1>1. Revoked \/ Ended
  <2>1. CASE RollbackToken(r)
    BY <2>1 DEF RollbackToken, RevokeToken, Revoked, Ended, redisVars,
                tokenVars
  <2>2. CASE RollbackSession(r)
    BY <2>2 DEF RollbackSession, RedisWrite, DeleteSession, Ended, TypeOK,
                redisVars, tokenVars
  <2> QED BY <2>1, <2>2
      DEF LoginStep, Login, LoginCount, LoginPop, EvictRead, EvictDelete, EvictRestore,
          LoginFinish, RedisWrite, RedisRead, Ended, redisVars, tokenVars
<1>p. ~Offering(req[r])
  BY DEF LoginStep, Login, LoginCount, LoginPop, EvictRead, EvictDelete,
         EvictRestore, LoginFinish, RollbackToken, RollbackSession, At, Offering
<1>2. Aside
  <2>1. CASE Login(r)
    <3>1. ~Offering([Idle EXCEPT !.pc = "insert", !.session = logins + 1])
      BY DEF Idle, Offering
    <3> QED BY <1>p, <2>1, <3>1, EitherAside DEF Login
  <2>2. CASE LoginCount(r)
    <3>1. ASSUME NEW n PROVE ~Offering([To(r, "pop") EXCEPT !.excess = n])
      BY <1>r DEF To, Locals, Offering
    <3> QED BY <1>p, <2>2, <3>1, ToAside, EitherAside DEF LoginCount, RedisRead, Steps
  <2>3. CASE LoginPop(r)
    <3>1. ASSUME NEW n PROVE ~Offering([To(r, "evict") EXCEPT !.strings = n])
      BY <1>r DEF To, Locals, Offering
    <3> QED BY <1>p, <2>3, <3>1, ToAside, EitherAside DEF LoginPop, RedisWrite, Steps
  <2>4. CASE EvictRead(r)
    <3>1. ASSUME NEW c, NEW pc \in {"evictDelete", "evictRestore"}
          PROVE  ~Offering([To(r, pc) EXCEPT !.stray = c])
      BY <1>r DEF To, Locals, Offering
    <3> QED BY <1>p, <2>4, <3>1, EitherAside DEF EvictRead, RedisRead
  <2>5. CASE RollbackToken(r)
    BY <1>p, <2>5, ToAside, EitherAside DEF RollbackToken, Steps
  <2>6. CASE EvictDelete(r) \/ EvictRestore(r)
    <3>1. ~Offering(Evicted(r))
      BY <1>r DEF Evicted, To, Locals, Offering
    <3> QED BY <1>p, <2>6, <3>1, ToAside, EitherAside
            DEF EvictDelete, EvictRestore, RedisWrite, Steps
  <2>7. CASE LoginFinish(r) \/ RollbackSession(r)
    BY <1>p, <2>7, IdleAside, EitherAside DEF LoginFinish, RollbackSession, RedisWrite
  <2> QED BY <2>1, <2>2, <2>3, <2>4, <2>5, <2>6, <2>7 DEF LoginStep
<1> QED BY <1>1, <1>2 DEF Lets

(* A refresh lets the ledger be, but for its rotation and its compare-and-set. *)
LEMMA RefreshLets ==
    ASSUME TypeOK, LocalsOK, NEW r \in Requests, RefreshStep(r),
           ~RefreshRotate(r), ~RefreshCas(r)
    PROVE  Lets
<1>r. req[r] \in Locals BY DEF TypeOK
<1>1. ASSUME NEW t \in Tokens, Refresh(r, t) PROVE Lets
  <2>1. ~Offering([Idle EXCEPT !.pc = "refreshGet", !.token = t, !.session = tokenSession[t]])
    BY DEF Idle, Offering
  <2>2. Aside
    BY <1>1, <2>1, EitherAside DEF Refresh, At, Offering
  <2> QED BY <1>1, <2>2 DEF Refresh, Lets, Ended, tokenVars, redisVars
<1>2. CASE RefreshGet(r)
  <2>1. Aside
    BY <1>2, ToAside, IdleAside, EitherAside DEF RefreshGet, RedisRead, Steps, At, Offering
  <2> QED BY <1>2, <2>1 DEF RefreshGet, RedisRead, Lets, Ended, tokenVars, redisVars
<1>3. CASE CleanupToken(r) \/ CleanupSession(r)
  <2>1. ASSUME NEW part PROVE ~Offering(Settled(r, part))
    BY <1>r, <1>3, IdleAside
       DEF CleanupToken, CleanupSession, Settled, At, Locals, Offering
  <2>2. Aside
    BY <1>3, <2>1, EitherAside DEF CleanupToken, CleanupSession, RedisWrite, At, Offering
  <2>3. Revoked \/ Ended
    BY <1>3 DEF CleanupToken, CleanupSession, RedisWrite, RevokeToken, DeleteSession, TypeOK,
                Revoked, Ended, tokenVars, redisVars
  <2> QED BY <2>2, <2>3 DEF Lets
<1> QED BY <1>1, <1>2, <1>3 DEF RefreshStep

LEMMA GuardedLets ==
    ASSUME TypeOK, NEW r \in Requests, GuardedStep(r)
    PROVE  Lets
<1>1. Aside
  BY GuardedPlain DEF Plain, PlainSteps, Aside, Offering
<1>2. CASE LogoutSave(r) \/ RevokeUpdate(r) \/ LogoutAllUpdate(r)
  BY <1>1, <1>2 DEF LogoutSave, RevokeUpdate, LogoutAllUpdate, RevokeToken, Lets, Revoked,
                    redisVars
<1>3. CASE LogoutDelete(r) \/ DropSessions(r) \/ RevokeDelete(r)
  <2>1. Ended
    BY <1>3 DEF LogoutDelete, DropSessions, RevokeDelete, RedisWrite, DeleteSession, TypeOK,
                Ended, tokenVars, redisVars
  <2> QED BY <1>1, <2>1 DEF Lets
<1> QED
  BY <1>1, <1>2, <1>3
     DEF GuardedStep, Authorize, RevokeSession, Logout, LogoutAll, ReadIndex, RevokeRead,
         ListSessions, LookupSessions, PruneSession, RedisWrite, RedisRead, Lets, Ended,
         tokenVars, redisVars

LEMMA AccountLets ==
    ASSUME TypeOK, NEW r \in Requests, AccountStep(r)
    PROVE  Lets
<1>1. ASSUME RevokeAll(r), At(r, "idle") \/ At(r, "authorized") PROVE Lets
  <2>1. ~Offering([Idle EXCEPT !.pc = "readIndex"])
    BY DEF Idle, Offering
  <2>2. Aside
    BY <1>1, <2>1, EitherAside DEF RevokeAll, At, Offering
  <2> QED BY <1>1, <2>2 DEF RevokeAll, Lets, Revoked, redisVars
<1>2. CASE RefuseChange(r)
  <2>1. Aside
    BY <1>2, IdleAside, EitherAside DEF RefuseChange, At, Offering
  <2> QED BY <1>2, <2>1 DEF RefuseChange, Lets, Ended, tokenVars, redisVars
<1>3. CASE RestoreUser(r)
  BY <1>3 DEF RestoreUser, Lets, Aside, Ended, tokenVars, redisVars
<1> QED
  BY <1>1, <1>2, <1>3
     DEF AccountStep, ChangePassword, ResetPassword, SoftDeleteUser, PermanentDeleteUser

(* The step is one of the ledger, or leaves it alone. *)
Kept == [Ledger!LedgerNext]_Ledger!ledgerVars /\ Closed'

LEMMA OthersClosed ==
    ASSUME Closed, UNCHANGED session, NEW r \in Requests, ~At(r, "open")',
           \A q \in Requests : q # r => req'[q] = req[q]
    PROVE  Closed'
BY DEF Closed, At

(* A login's insert begins its session and offers the first token. *)
LEMMA InsertBegins ==
    ASSUME TypeOK, LocalsOK, TypeOK', Linked, Handed, Closed, NEW r \in Requests,
           LoginInsert(r)
    PROVE  Kept
<1>r. req[r] \in Locals /\ req \in [Requests -> Locals] BY DEF TypeOK
<1>0. req[r].pc = "insert" /\ ~Offering(req[r]) /\ req[r].session \in Sessions
  BY DEF LoginInsert, At, Offering, LocalsOK, Consistent, WithSession, Steps
<1>1. CASE UNCHANGED tokenVars /\ Continue(r, Idle)
  <2>1. Aside
    BY <1>0, <1>1, IdleAside, EitherAside
  <2>2. Lets
    BY <1>1, <2>1 DEF LoginInsert, Lets, Ended, tokenVars, redisVars
  <2> QED BY <2>2, LetsKeep DEF Kept
<1>2. ASSUME NEW t \in Fresh, InsertToken(t, req[r].session, active),
             Continue(r, [To(r, "open") EXCEPT !.token = t])
      PROVE  Kept
  <2> DEFINE s == req[r].session
             l == [To(r, "open") EXCEPT !.token = t]
  <2>1. l.pc = "open" /\ l.session = s /\ l.token = t
    BY <1>r DEF To, Locals
  <2>2. req'[r] = l /\ \A q \in Requests : q # r => req'[q] = req[q]
    BY <1>r, <1>2 DEF Continue
  <2>3. OfferOf(l) = [session |-> s, old |-> NoToken, new |-> t]
    BY <2>1 DEF OfferOf
  <2>4. Offers' = Offers \cup {[session |-> s, old |-> NoToken, new |-> t]}
    BY <1>0, <2>1, <2>2, <2>3, OfferComes DEF Offering
  <2>5. UNCHANGED session
    BY DEF LoginInsert, redisVars
  <2>6. s \in Sessions /\ t \in Tokens /\ tokenSession[t] = NoSession
    BY <1>0 DEF Fresh
  <2>7. \A u \in Tokens : tokenSession[u] # s
    BY <1>0 DEF Linked, InsertOwns, SessionTokens, At
  <2>8. Ledger!Begin(s, t)
    <3> HIDE DEF s, l
    <3>1. tokenSession' = [tokenSession EXCEPT ![t] = s] /\ active' = (active \ {}) \cup {t}
      BY <1>2 DEF InsertToken, s
    <3> QED BY <2>4, <2>5, <2>6, <2>7, <3>1
            DEF Ledger!Begin, Ledger!Begun, Ledger!Grant, Ledger!Offer
  <2>9. Ledger!LedgerNext
    <3>1. \E a \in Sessions, u \in Tokens : Ledger!Begin(a, u)
      BY <2>6, <2>8
    <3> QED BY <3>1 DEF Ledger!LedgerNext
  <2>10. session[s] = NoToken
    BY <1>0 DEF Handed, Unopened, At
  <2>11. Closed'
    BY <2>1, <2>2, <2>5, <2>10 DEF Closed, At
  <2> QED BY <2>9, <2>11 DEF Kept
<1> QED BY <1>1, <1>2 DEF LoginInsert

(* The rotation replaces the token presented, and offers the new one. *)
LEMMA RotationRotates ==
    ASSUME TypeOK, LocalsOK, TypeOK', Linked, Handed, Closed, NEW r \in Requests,
           RefreshRotate(r)
    PROVE  Kept
<1>r. req[r] \in Locals /\ req \in [Requests -> Locals] BY DEF TypeOK
<1>0. /\ req[r].pc = "rotate" /\ ~Offering(req[r])
      /\ tokenSession[req[r].token] = req[r].session
  BY DEF RefreshRotate, At, Offering, Linked, RotatesOwn
<1>1. CASE UNCHANGED tokenVars /\ Continue(r, Idle)
  <2>1. Aside
    BY <1>0, <1>1, IdleAside, EitherAside
  <2>2. Lets
    BY <1>1, <2>1 DEF RefreshRotate, Lets, Ended, tokenVars, redisVars
  <2> QED BY <2>2, LetsKeep DEF Kept
<1>2. ASSUME NEW t \in Fresh, RotationAllowed(r),
             InsertToken(t, req[r].session, active \ {req[r].token}),
             Continue(r, [To(r, "cas") EXCEPT !.next = t])
      PROVE  Kept
  <2> DEFINE s == req[r].session
             o == req[r].token
             l == [To(r, "cas") EXCEPT !.next = t]
  <2>1. l.pc = "cas" /\ l.session = s /\ l.token = o /\ l.next = t
    BY <1>r DEF To, Locals
  <2>2. req'[r] = l /\ \A q \in Requests : q # r => req'[q] = req[q]
    BY <1>r, <1>2 DEF Continue
  <2>3. OfferOf(l) = [session |-> s, old |-> o, new |-> t]
    BY <2>1 DEF OfferOf
  <2>4. Offers' = Offers \cup {[session |-> s, old |-> o, new |-> t]}
    BY <1>0, <2>1, <2>2, <2>3, OfferComes DEF Offering
  <2>5. UNCHANGED session
    BY DEF RefreshRotate, redisVars
  <2>6. o \in active /\ o \in Tokens /\ t \in Tokens /\ tokenSession[t] = NoSession
    BY <1>2 DEF RotationAllowed, TypeOK, Fresh
  <2>7. Ledger!Rotate(o, t)
    <3> HIDE DEF l
    <3>1. tokenSession' = [tokenSession EXCEPT ![t] = s] /\ active' = (active \ {o}) \cup {t}
      BY <1>2 DEF InsertToken
    <3>2. tokenSession[o] = s
      BY <1>0
    <3> HIDE DEF s, o
    <3> QED BY <2>4, <2>5, <2>6, <3>1, <3>2
            DEF Ledger!Rotate, Ledger!Grant, Ledger!Offer
  <2>8. Ledger!LedgerNext
    <3>1. \E old, new \in Tokens : Ledger!Rotate(old, new)
      BY <2>6, <2>7
    <3> QED BY <3>1 DEF Ledger!LedgerNext
  <2>9. Closed'
    BY <2>1, <2>2, <2>5, OthersClosed DEF At
  <2> QED BY <2>8, <2>9 DEF Kept
<1> QED BY <1>1, <1>2 DEF RefreshRotate

(* A request that drops its offer withdraws it. *)
LEMMA Withdrawing ==
    ASSUME Handed, Closed, NEW r \in Requests, Offering(req[r]), ~Offering(req'[r]),
           \A q \in Requests : q # r => req'[q] = req[q],
           UNCHANGED <<tokenSession, active, session>>
    PROVE  Kept
<1>1. OfferOf(req[r]) \in Offers /\ Offers' = Offers \ {OfferOf(req[r])}
  BY OfferLeaves
<1>2. Ledger!Withdraw(OfferOf(req[r]))
  BY <1>1 DEF Ledger!Withdraw
<1>3. \E o \in Offers : Ledger!Take(o) \/ Ledger!Withdraw(o)
  BY <1>1, <1>2
<1>4. Ledger!LedgerNext
  BY <1>3 DEF Ledger!LedgerNext
<1>5. Closed'
  BY OthersClosed DEF At, Offering
<1> QED BY <1>4, <1>5 DEF Kept

(* A request whose offer the key accepts takes it. *)
LEMMA Taking ==
    ASSUME TypeOK, Handed, NEW r \in Requests, Offering(req[r]), ~Offering(req'[r]),
           \A q \in Requests : q # r => req'[q] = req[q],
           UNCHANGED <<tokenSession, active>>,
           session[req[r].session] = OfferOf(req[r]).old,
           session' = [session EXCEPT ![req[r].session] = OfferOf(req[r]).new]
    PROVE  Ledger!LedgerNext
<1>1. OfferOf(req[r]) \in Offers /\ Offers' = Offers \ {OfferOf(req[r])}
  BY OfferLeaves
<1>2. OfferOf(req[r]).session = req[r].session
  BY OfferFields
<1>3. Ledger!Take(OfferOf(req[r]))
  BY <1>1, <1>2 DEF Ledger!Take
<1>4. \E o \in Offers : Ledger!Take(o) \/ Ledger!Withdraw(o)
  BY <1>1, <1>3
<1> QED BY <1>4 DEF Ledger!LedgerNext

(* The first write of a login's key is not behind any other. *)
LEMMA OpeningTakes ==
    ASSUME TypeOK, LocalsOK, Linked, Handed, Closed, NEW r \in Requests, LoginOpen(r)
    PROVE  Kept
<1>r. req[r] \in Locals /\ req \in [Requests -> Locals] BY DEF TypeOK
<1> DEFINE s == req[r].session
           t == req[r].token
<1>0. /\ req[r].pc = "open" /\ Offering(req[r]) /\ s \in Sessions
      /\ UNCHANGED <<tokenSession, active>>
  BY DEF LoginOpen, At, Offering, LocalsOK, Consistent, WithSession, Steps, tokenVars
<1>1. /\ ~Offering(req'[r]) /\ ~At(r, "open")'
      /\ \A q \in Requests : q # r => req'[q] = req[q]
      /\ session' = [session EXCEPT ![s] = t] \/ UNCHANGED session
  <2>1. ~Offering(To(r, "count")) /\ ~Offering(To(r, "rollback"))
    BY ToAside DEF Steps
  <2>2. /\ Continue(r, To(r, "count")) \/ Continue(r, To(r, "rollback"))
        /\ session' = [session EXCEPT ![s] = t] \/ UNCHANGED session
    BY DEF LoginOpen, RedisWrite, redisVars
  <2>3. /\ req'[r] = To(r, "count") \/ req'[r] = To(r, "rollback")
        /\ \A q \in Requests : q # r => req'[q] = req[q]
    BY <1>r, <2>2 DEF Continue
  <2> QED BY <2>1, <2>2, <2>3 DEF At, Offering
<1>2. CASE UNCHANGED session
  BY <1>0, <1>1, <1>2, Withdrawing
<1>3. CASE session' = [session EXCEPT ![s] = t]
  <2>1. OfferOf(req[r]).old = NoToken /\ OfferOf(req[r]).new = t
    BY <1>0, OfferFields
  <2>2. session[s] = NoToken
    BY <1>0 DEF Closed, At
  <2>3. Ledger!LedgerNext
    BY <1>0, <1>1, <1>3, <2>1, <2>2, Taking
  <2>4. Closed'
    <3> SUFFICES ASSUME NEW q \in Requests, At(q, "open")'
                 PROVE  session'[req'[q].session] = NoToken
      BY DEF Closed
    <3>1. q # r /\ req'[q] = req[q] /\ req[q].pc = "open"
      BY <1>1 DEF At
    <3>2. req[q].session # s
      BY <1>0, <3>1 DEF Handed, LoginsApart, Opening
    <3>3. req[q].session \in Sessions /\ session[req[q].session] = NoToken
      BY <3>1 DEF Closed, At, LocalsOK, Consistent, WithSession, Steps
    <3> QED BY <1>3, <3>1, <3>2, <3>3 DEF TypeOK
  <2> QED BY <2>3, <2>4 DEF Kept
<1> QED BY <1>1, <1>2, <1>3

(* The compare-and-set takes the offer or drops it. *)
LEMMA CasTakes ==
    ASSUME TypeOK, LocalsOK, Linked, Handed, Closed, NEW r \in Requests, RefreshCas(r)
    PROVE  Kept
<1>r. req[r] \in Locals /\ req \in [Requests -> Locals] BY DEF TypeOK
<1> DEFINE s == req[r].session
           t == req[r].next
<1>0. /\ req[r].pc = "cas" /\ Offering(req[r]) /\ s \in Sessions
      /\ req[r].token \in Tokens
      /\ UNCHANGED <<tokenSession, active>>
  BY DEF RefreshCas, At, Offering, LocalsOK, Consistent, WithSession, WithToken, Steps,
         tokenVars
<1>1. /\ ~Offering(req'[r])
      /\ \A q \in Requests : q # r => req'[q] = req[q]
      /\ \/ CasMatches(r) /\ session' = [session EXCEPT ![s] = t]
         \/ UNCHANGED session
  <2>1. ~Offering(CleanupOf(r))
    BY <1>r, <1>0 DEF CleanupOf, To, Locals, Offering
  <2>2. /\ Continue(r, Idle) \/ Continue(r, CleanupOf(r))
        /\ \/ CasMatches(r) /\ session' = [session EXCEPT ![s] = t]
           \/ UNCHANGED session
    BY DEF RefreshCas, RedisWrite, RedisRead, redisVars
  <2>3. /\ req'[r] = Idle \/ req'[r] = CleanupOf(r)
        /\ \A q \in Requests : q # r => req'[q] = req[q]
    BY <1>r, <2>2 DEF Continue
  <2> QED BY <2>1, <2>2, <2>3, IdleAside
<1>2. CASE UNCHANGED session
  BY <1>0, <1>1, <1>2, Withdrawing
<1>3. CASE CasMatches(r) /\ session' = [session EXCEPT ![s] = t]
  <2>1. OfferOf(req[r]).old = req[r].token /\ OfferOf(req[r]).new = t
    BY <1>0, OfferFields
  <2>2. session[s] = req[r].token
    BY <1>3 DEF CasMatches
  <2>3. Ledger!LedgerNext
    BY <1>0, <1>1, <1>3, <2>1, <2>2, Taking
  <2>4. Closed'
    <3> SUFFICES ASSUME NEW q \in Requests, At(q, "open")'
                 PROVE  session'[req'[q].session] = NoToken
      BY DEF Closed
    <3>1. q # r /\ req'[q] = req[q] /\ req[q].pc = "open"
      BY <1>1 DEF At, Offering
    <3>2. req[q].session \in Sessions /\ session[req[q].session] = NoToken
      BY <3>1 DEF Closed, At, LocalsOK, Consistent, WithSession, Steps
    <3>3. req[q].session # s
      BY <1>0, <2>2, <3>2, AuthAssumption DEF AuthAssumption
    <3> QED BY <1>3, <3>1, <3>2, <3>3 DEF TypeOK
  <2> QED BY <2>3, <2>4 DEF Kept
<1> QED BY <1>1, <1>2, <1>3

(* A dying request withdraws what it was offering. *)
LEMMA CrashWithdraws ==
    ASSUME TypeOK, LocalsOK, TypeOK', Handed, Closed, NEW r \in Requests, Crash(r)
    PROVE  Kept
<1>1. /\ req'[r] = Idle /\ \A q \in Requests : q # r => req'[q] = req[q]
      /\ UNCHANGED <<tokenSession, active, session>>
  BY DEF Crash, Continue, TypeOK, tokenVars, redisVars
<1>2. CASE Offering(req[r])
  BY <1>1, <1>2, IdleAside, Withdrawing
<1>3. CASE ~Offering(req[r])
  <2>1. Lets
    BY <1>1, <1>3, IdleAside DEF Lets, Aside, Ended
  <2> QED BY <2>1, LetsKeep DEF Kept
<1> QED BY <1>2, <1>3

LEMMA LedgerStep ==
    ASSUME TypeOK, LocalsOK, TypeOK', Linked, Handed, Closed, [Next]_vars
    PROVE  Kept
<1>1. ASSUME NEW r \in Requests, LoginStep(r) PROVE Kept
  BY <1>1, InsertBegins, OpeningTakes, LoginLets, LetsKeep DEF Kept
<1>2. ASSUME NEW r \in Requests, RefreshStep(r) PROVE Kept
  BY <1>2, RotationRotates, CasTakes, RefreshLets, LetsKeep DEF Kept
<1>3. ASSUME NEW r \in Requests, GuardedStep(r) PROVE Kept
  BY <1>3, GuardedLets, LetsKeep DEF Kept
<1>4. ASSUME NEW r \in Requests, AccountStep(r) PROVE Kept
  BY <1>4, AccountLets, LetsKeep DEF Kept
<1>5. ASSUME NEW r \in Requests, Crash(r) PROVE Kept
  BY <1>5, CrashWithdraws
<1>6. ASSUME NEW s \in Sessions, ExpireSession(s) PROVE Kept
  <2>1. Lets
    BY <1>6 DEF ExpireSession, TypeOK, Lets, Aside, Ended, tokenVars
  <2> QED BY <2>1, LetsKeep DEF Kept
<1>7. CASE UNCHANGED vars
  <2>1. Lets
    BY <1>7 DEF vars, Lets, Aside, Ended, tokenVars, redisVars
  <2> QED BY <2>1, LetsKeep DEF Kept
<1> QED BY <1>1, <1>2, <1>3, <1>4, <1>5, <1>6, <1>7 DEF Next

LEMMA InitLedger == Init => Ledger!LedgerInit /\ Closed
<1> SUFFICES ASSUME Init PROVE Ledger!LedgerInit /\ Closed
  OBVIOUS
<1>1. \A r \in Requests : ~Offering(req[r]) /\ ~At(r, "open")
  BY IdleAside DEF Init, At, Idle
<1>2. Offers = {}
  BY <1>1, OffersOf
<1> QED BY <1>1, <1>2 DEF Init, Ledger!LedgerInit, Closed

(* The two stores keep the promised ledger, whatever requests, limits and  *)
(* failures.                                                               *)
THEOREM LedgerIsKept == Spec => KeepsLedger
<1> DEFINE Inv == TypeOK /\ LocalsOK /\ Linked /\ Handed /\ Agreed
           Step == [Ledger!LedgerNext]_Ledger!ledgerVars
<1>1. Inv /\ Inv' /\ Closed /\ [Next]_vars => Step /\ Closed'
  BY LedgerStep DEF Kept
<1>2. Spec => []Inv
  BY Invariance, Agreement, PTL
<1>3. Init => Ledger!LedgerInit /\ Closed
  BY InitLedger
<1> HIDE DEF Inv
<1> QED BY <1>1, <1>2, <1>3, PTL DEF Spec, KeepsLedger, Ledger!LedgerSpec
=============================================================================
