-------------------------- MODULE UserAccountProofs --------------------------
(***************************************************************************)
(* Proofs about UserAccount, for every set of requests and every bound.    *)
(* The invariant (Inv) says where a request of each kind may be (Placed),  *)
(* that the one transaction past its SELECT ... FOR UPDATE has the row as  *)
(* it is (Located, Current), what each kind has checked of it (Checked),   *)
(* and what forgotPassword's entity may hold (Drafted).  Of the tokens: no *)
(* two requests hold one (HeldApart), a sweep has every active token       *)
(* before or behind it (Seen), and visits them in order (Ascends).         *)
(*                                                                         *)
(* MoveKeeps is the step all actions share: one request's locals change.   *)
(***************************************************************************)
EXTENDS UserAccount, FiniteSetTheorems, WellFoundedInduction, TLAPS

Locals == [op : Ops, pc : Pcs, id : 0 .. MaxUsers, guess : Passwords,
           known : Passwords, link : Links \cup {NoLink}, copy : Users,
           diff : SUBSET Insert, scan : SUBSET Tokens, held : SUBSET Tokens,
           token : 0 .. Cardinality(Tokens)]

LockOps == Sweepers \cup {"login", "restore"}

HasLock(x) == x.op # "logoutAll" /\ x.pc \in {"decide", "update", "commit"}

(* The link an entity of forgotPassword carries, with its hour.            *)
Asks(u, time) == u.link \in Links /\ \E t \in 0 .. time : u.linkUntil = t + LinkTime

Withdraws(u) == u.link = NoLink /\ u.linkUntil = 0

(* What a request's step tells about its local variables. *)
Placed(x) ==
    /\ x.pc \in {"lock", "decide"} => x.op \in LockOps
    /\ x.pc \in {"update", "commit"} => x.op \in Sweepers \cup {"logoutAll"}
    /\ x.pc \in {"token", "insert"} => x.op = "refresh" /\ x.token \in Tokens
    /\ x.op = "reset" => x.link \in Links
    /\ x.held # {} => x.pc \in {"update", "commit", "insert"}
    /\ x.pc = "insert" => x.held = {x.token}

(* What a transaction that revokes every token found when it began to. *)
Checked(x) ==
    HasLock(x) /\ x.pc # "decide" =>
        /\ Exists(x.copy)
        /\ x.op # "remove" => ~x.copy.deleted
        /\ x.op = "remove" => x.copy.deleted
        /\ x.op = "change" => x.guess # x.copy.password
        /\ x.op = "reset" => x.copy.link = x.link

(* What forgotPassword's entity says, and the columns its save will write. *)
Drafted(x, time) ==
    /\ x.pc \in {"load", "save", "mail", "clear", "saveClear"} => Exists(x.copy)
    /\ x.pc \in {"load", "save", "mail", "clear"} => Asks(x.copy, time)
    /\ x.pc = "saveClear" => Withdraws(x.copy)
    /\ x.pc \in {"save", "saveClear"} =>
        /\ x.diff = Insert \/ x.diff \subseteq Columns
        /\ "link" \in x.diff <=> "linkUntil" \in x.diff

(* An UPDATE holds only tokens that come before those it has still to visit. *)
Ascends(x) == x.pc = "update" => \A t \in x.held, o \in x.scan : t < o

Proper(x, time) == Placed(x) /\ Checked(x) /\ Drafted(x, time) /\ Ascends(x)

AllProper == \A r \in Requests : Proper(req[r], now)

(* The lock is with the one transaction that is past taking it. *)
Located ==
    /\ \A r \in Requests : HasLock(req[r]) => userLock = r
    /\ userLock # Nobody => HasLock(req[userLock])

(* What the holder of the lock has read is what the row still says. *)
Current ==
    \A r \in Requests :
        HasLock(req[r]) /\ Exists(req[r].copy) => req[r].copy = row

(* A request inserts one token at most, and ends with it. *)
Counted ==
    /\ OldTokens <= issued
    /\ issued <= OldTokens + Cardinality({r \in Requests : At(r, "end")})

(* Two requests never hold one token, and a token about to be rotated lives. *)
HeldApart ==
    /\ \A r \in Requests : At(r, "insert") => req[r].token \in live
    /\ \A r, q \in Requests : r # q => req[r].held \cap req[q].held = {}

(* What a sweep has not reached yet is before it: no active token escapes. *)
Seen ==
    \A r \in Requests : HasLock(req[r]) =>
        /\ At(r, "update") => live \subseteq req[r].scan \cup req[r].held
        /\ At(r, "commit") => live \subseteq req[r].held

Inv == /\ TypeOK /\ AllProper /\ Located /\ Current /\ Counted
       /\ HeldApart /\ Seen /\ SweptTokensStayDead

-----------------------------------------------------------------------------
(* Constants, and the account's changes *)

LEMMA ConstantFacts ==
    /\ Cardinality(Tokens) = OldTokens + Cardinality(Requests)
    /\ Cardinality(Requests) \in Nat
    /\ Tokens = 1 .. Cardinality(Tokens)
    /\ Nobody \notin Requests
    /\ NoLink \notin Links
    /\ Requests \subseteq Links
    /\ OldLink \in Links
<1>1. Cardinality(Requests) \in Nat
  BY FS_CardinalityType, AccountAssumption DEF AccountAssumption
<1>2. Cardinality(Tokens) = OldTokens + Cardinality(Requests)
  BY <1>1, FS_Interval, AccountAssumption DEF Tokens, AccountAssumption
<1> QED
  BY <1>1, <1>2, AccountAssumption, LedgerAssumption
     DEF AccountAssumption, LedgerAssumption, Nobody, NoLink, Tokens

LEMMA NewUserType ==
    ASSUME NEW id \in 0 .. MaxUsers, NEW p \in Passwords
    PROVE  NewUser(id, p) \in Users
BY LedgerAssumption DEF LedgerAssumption, NewUser, Users, NoLink

LEMMA NoUserType ==
    /\ NoUser \in Users
    /\ NoUser.password \in Passwords
    /\ NoUser.id = 0
<1>1. (CHOOSE p \in Passwords : TRUE) \in Passwords
  BY LedgerAssumption DEF LedgerAssumption
<1> QED BY <1>1, NewUserType, LedgerAssumption DEF LedgerAssumption, NoUser, NewUser

(* Every change of the ledger keeps a row a row. *)
LEMMA LedgerTypes ==
    ASSUME NEW u \in Users, NEW p \in Passwords, NEW l \in Links \cup {NoLink},
           now \in 0 .. MaxTime
    PROVE  /\ IncrementFailedAttempts(u) \in Users
           /\ ResetFailedAttempts(u) \in Users
           /\ SetResetToken(u, l) \in Users
           /\ ClearResetToken(u) \in Users
           /\ SetPassword(u, p) \in Users
           /\ SetPasswordByLink(u, p) \in Users
           /\ SoftDeleted(u) \in Users
           /\ Restored(u) \in Users
<1>1. /\ 0 \in 0 .. MaxAttempts - 1
      /\ 0 \in 0 .. MaxTime + LockTime /\ now + LockTime \in 0 .. MaxTime + LockTime
      /\ 0 \in 0 .. MaxTime + LinkTime /\ now + LinkTime \in 0 .. MaxTime + LinkTime
  BY LedgerAssumption DEF LedgerAssumption
<1>2. u.failed + 1 < MaxAttempts => u.failed + 1 \in 0 .. MaxAttempts - 1
  BY LedgerAssumption DEF LedgerAssumption, Users
<1>3. MaxAttempts \in Int /\ u.failed \in Int
  BY LedgerAssumption DEF LedgerAssumption, Users
<1>4. IncrementFailedAttempts(u) \in Users
  <2>1. CASE u.failed + 1 >= MaxAttempts
    BY <1>1, <2>1 DEF IncrementFailedAttempts, LockAccount, Users
  <2>2. CASE ~(u.failed + 1 >= MaxAttempts)
    <3>1. u.failed + 1 \in 0 .. MaxAttempts - 1
      BY <1>2, <1>3, <2>2
    <3> QED BY <2>2, <3>1 DEF IncrementFailedAttempts, Users
  <2> QED BY <2>1, <2>2
<1>5. ResetFailedAttempts(u) \in Users
  BY <1>1 DEF ResetFailedAttempts, Users
<1>6. SetResetToken(u, l) \in Users
  BY <1>1 DEF SetResetToken, Users
<1>7. \A v \in Users : ClearResetToken(v) \in Users
  BY <1>1 DEF ClearResetToken, Users
<1>8. SetPassword(u, p) \in Users
  BY <1>5 DEF SetPassword, Users
<1>9. SetPasswordByLink(u, p) \in Users
  BY <1>7, <1>8 DEF SetPasswordByLink
<1>10. SoftDeleted(u) \in Users /\ Restored(u) \in Users
  BY DEF SoftDeleted, Restored, Users
<1> QED BY <1>4, <1>5, <1>6, <1>7, <1>8, <1>9, <1>10

(* A save writes some columns of an entity into a row, and leaves a row. *)
LEMMA MixType ==
    ASSUME NEW u \in Users, NEW e \in Users, NEW D
    PROVE  [c \in DOMAIN u |-> IF c \in D THEN e[c] ELSE u[c]] \in Users
<1> DEFINE m == [c \in DOMAIN u |-> IF c \in D THEN e[c] ELSE u[c]]
<1>1. DOMAIN u = Insert /\ DOMAIN e = Insert
  BY DEF Users, Insert, Columns
<1>2. \A c \in Insert : m[c] = u[c] \/ m[c] = e[c]
  BY <1>1
<1>3. /\ m.id \in 0 .. MaxUsers /\ m.password \in Passwords
      /\ m.failed \in 0 .. MaxAttempts - 1 /\ m.lockedUntil \in 0 .. MaxTime + LockTime
      /\ m.link \in Links \cup {NoLink} /\ m.linkUntil \in 0 .. MaxTime + LinkTime
      /\ m.deleted \in BOOLEAN
  BY <1>2 DEF Users, Insert, Columns
<1>4. m = [id |-> m.id, password |-> m.password, failed |-> m.failed,
           lockedUntil |-> m.lockedUntil, link |-> m.link,
           linkUntil |-> m.linkUntil, deleted |-> m.deleted]
  <2>1. DOMAIN m = {"id", "password", "failed", "lockedUntil", "link", "linkUntil", "deleted"}
    BY <1>1 DEF Insert, Columns
  <2> QED BY <2>1
<1> HIDE DEF m
<1> QED BY <1>3, <1>4 DEF Users

-----------------------------------------------------------------------------
(* Natural numbers *)

LEMMA Smallest ==
    ASSUME NEW S, S \subseteq Nat, S # {}
    PROVE  \E t \in S : \A o \in S : t <= o
<1> DEFINE Less == OpToRel(<, Nat)
<1>1. IsWellFoundedOn(Less, Nat)
  BY NatLessThanWellFounded
<1>2. \A x, y \in Nat : y < x => <<y, x>> \in Less
  BY DEF OpToRel
<1> HIDE DEF Less
<1>3. PICK x \in S : \A y \in S : ~(<<y, x>> \in Less)
  BY <1>1, WFMin
<1>4. \A y \in S : ~(y < x)
  BY <1>2, <1>3
<1> QED BY <1>3, <1>4

LEMMA Largest ==
    ASSUME NEW n \in Nat, NEW S, S \subseteq 0 .. n, S # {}
    PROVE  \E t \in S : \A o \in S : o <= t
<1> DEFINE D == {n - t : t \in S}
<1>1. D \subseteq Nat
  OBVIOUS
<1>0. D # {}
  OBVIOUS
<1>2. PICK d \in D : \A o \in D : d <= o
  BY <1>0, <1>1, Smallest
<1>3. PICK t \in S : d = n - t
  BY <1>2
<1>4. \A o \in S : n - t <= n - o
  BY <1>2, <1>3
<1> QED BY <1>4
-----------------------------------------------------------------------------
(* One request moves on, from its locals to x *)

LEMMA LocalsType == TypeOK <=>
    /\ row \in Users /\ now \in 0 .. MaxTime /\ req \in [Requests -> Locals]
    /\ userLock \in Requests \cup {Nobody}
    /\ live \subseteq Tokens /\ issued \in 0 .. Cardinality(Tokens)
    /\ chain \in [Tokens -> Nat] /\ sweeps \in Nat /\ mailed \subseteq Links
BY DEF TypeOK, Locals

(* The users row is locked, kept or given back. *)
LockMoves(r, x) ==
    \/ userLock' = userLock /\ (HasLock(x) <=> HasLock(req[r]))
    \/ Release(r) /\ ~HasLock(x)
    \/ userLock = Nobody /\ userLock' = r /\ HasLock(x)

(* Who writes the row lets no other transaction hold its lock, or finds no row. *)
RowMoves(r, x) ==
    /\ row' = row \/ UserFreeFor(r) \/ ~Exists(row)
    /\ HasLock(x) => /\ row' = row
                     /\ x.copy = row \/ (HasLock(req[r]) /\ x.copy = req[r].copy)

TokenCountMoves(r, x) ==
    \/ issued' = issued
    \/ issued' = issued + 1 /\ x.pc = "end"

(* A request revokes only what it holds, and takes only what is free. *)
HeldMoves(r, x) ==
    /\ \A t \in x.held : t \in req[r].held \/ TokenFreeFor(r, t)
    /\ live \ req[r].held \subseteq live'
    /\ x.pc = "insert" => x.token \in live'

(* No token appears while another transaction holds the lock. *)
SeenMoves(r, x) ==
    /\ live' \subseteq live \/ UserFreeFor(r)
    /\ HasLock(x) => /\ x.pc = "update" => live' \subseteq x.scan \cup x.held
                     /\ x.pc = "commit" => live' \subseteq x.held

Becomes(r, x) ==
    /\ req' \in [Requests -> Locals]
    /\ req'[r] = x
    /\ \A q \in Requests : q # r => req'[q] = req[q]

LEMMA Becoming ==
    ASSUME TypeOK, NEW r \in Requests, NEW x \in Locals, req' = [req EXCEPT ![r] = x]
    PROVE  Becomes(r, x)
BY LocalsType DEF Becomes

LEMMA LocatedKeeps ==
    ASSUME TypeOK, Located, NEW r \in Requests, NEW x, Becomes(r, x), LockMoves(r, x)
    PROVE  Located' /\ userLock' \in Requests \cup {Nobody}
BY ConstantFacts, LocalsType DEF Located, Becomes, LockMoves, Release

LEMMA CurrentKeeps ==
    ASSUME TypeOK, Located, Current, NEW r \in Requests, NEW x, Becomes(r, x), RowMoves(r, x)
    PROVE  Current'
<1> SUFFICES ASSUME NEW q \in Requests, HasLock(req'[q]), Exists(req'[q].copy)
             PROVE  req'[q].copy = row'
  BY DEF Current
<1>1. CASE q = r
  BY <1>1 DEF Becomes, RowMoves, Current
<1>2. CASE q # r
  <2>1. req'[q] = req[q] /\ userLock = q /\ req[q].copy = row
    BY <1>2 DEF Becomes, Current, Located
  <2>2. ~UserFreeFor(r) /\ Exists(row)
    BY <1>2, <2>1, ConstantFacts DEF UserFreeFor
  <2> QED BY <2>1, <2>2 DEF RowMoves
<1> QED BY <1>1, <1>2

LEMMA CountedKeeps ==
    ASSUME TypeOK, Counted, NEW r \in Requests, NEW x, Becomes(r, x),
           req[r].pc # "end", TokenCountMoves(r, x)
    PROVE  Counted' /\ issued' \in 0 .. Cardinality(Tokens)
<1> DEFINE E == {q \in Requests : At(q, "end")}
           F == {q \in Requests : req'[q].pc = "end"}
<1>1. IsFiniteSet(E) /\ IsFiniteSet(F)
  BY FS_Subset, AccountAssumption DEF AccountAssumption
<1>2. Cardinality(E) \in Nat /\ Cardinality(F) \in Nat
  BY <1>1, FS_CardinalityType
<1>3. E \subseteq F
  BY DEF Becomes, At
<1>4. Cardinality(E) <= Cardinality(F)
  BY <1>1, <1>3, FS_Subset
<1>5. x.pc = "end" => Cardinality(E) + 1 <= Cardinality(F)
  <2> SUFFICES ASSUME x.pc = "end" PROVE Cardinality(E) + 1 <= Cardinality(F)
    OBVIOUS
  <2>1. E \cup {r} \subseteq F /\ r \notin E
    BY <1>3 DEF Becomes, At
  <2>2. Cardinality(E \cup {r}) = Cardinality(E) + 1
    BY <1>1, <2>1, FS_AddElement
  <2>3. Cardinality(E \cup {r}) <= Cardinality(F)
    BY <1>1, <2>1, FS_Subset
  <2> QED BY <2>2, <2>3
<1>6. Cardinality(F) <= Cardinality(Requests)
  BY FS_Subset, AccountAssumption DEF AccountAssumption
<1>7. issued \in Nat /\ OldTokens \in Nat
  BY AccountAssumption, ConstantFacts DEF AccountAssumption, TypeOK
<1>8. OldTokens <= issued /\ issued <= OldTokens + Cardinality(E)
  BY DEF Counted
<1>9. OldTokens <= issued' /\ issued' <= OldTokens + Cardinality(F) /\ issued' \in Nat
  <2> HIDE DEF E, F
  <2> QED BY <1>2, <1>4, <1>5, <1>7, <1>8 DEF TokenCountMoves
<1>10. Counted'
  BY <1>9 DEF Counted, At
<1>11. issued' \in 0 .. Cardinality(Tokens)
  <2> HIDE DEF E, F
  <2> QED BY <1>2, <1>6, <1>7, <1>9, ConstantFacts
<1> QED BY <1>10, <1>11

LEMMA HeldKeeps ==
    ASSUME TypeOK, AllProper, HeldApart, NEW r \in Requests, NEW x, Becomes(r, x),
           HeldMoves(r, x)
    PROVE  HeldApart'
<1>1. ASSUME NEW q \in Requests, req'[q].pc = "insert"
      PROVE  req'[q].token \in live'
  <2>1. CASE q = r
    BY <1>1, <2>1 DEF Becomes, HeldMoves
  <2>2. CASE q # r
    <3>1. req'[q] = req[q] /\ req[q].token \in live /\ req[q].held = {req[q].token}
      BY <1>1, <2>2 DEF Becomes, HeldApart, At, AllProper, Proper, Placed
    <3>2. req[q].token \notin req[r].held
      BY <2>2, <3>1 DEF HeldApart
    <3> QED BY <3>1, <3>2 DEF HeldMoves
  <2> QED BY <2>1, <2>2
<1>2. \A q \in Requests : q # r => x.held \cap req[q].held = {}
  BY DEF HeldMoves, HeldApart, TokenFreeFor
<1>3. \A p, q \in Requests : p # q => req'[p].held \cap req'[q].held = {}
  BY <1>2 DEF Becomes, HeldApart
<1> QED BY <1>1, <1>3 DEF HeldApart, At

LEMMA SeenKeeps ==
    ASSUME TypeOK, Located, Seen, NEW r \in Requests, NEW x, Becomes(r, x), SeenMoves(r, x)
    PROVE  Seen'
<1> SUFFICES ASSUME NEW q \in Requests, HasLock(req'[q])
             PROVE  /\ req'[q].pc = "update" => live' \subseteq req'[q].scan \cup req'[q].held
                    /\ req'[q].pc = "commit" => live' \subseteq req'[q].held
  BY DEF Seen, At
<1>1. CASE q = r
  BY <1>1 DEF Becomes, SeenMoves
<1>2. CASE q # r
  <2>1. req'[q] = req[q] /\ userLock = q
    BY <1>2 DEF Becomes, Located
  <2>2. ~UserFreeFor(r)
    BY <1>2, <2>1, ConstantFacts DEF UserFreeFor
  <2> QED BY <2>1, <2>2 DEF SeenMoves, Seen, At
<1> QED BY <1>1, <1>2

LEMMA MoveKeeps ==
    ASSUME Inv, NEW r \in Requests, NEW x \in Locals, req' = [req EXCEPT ![r] = x],
           req[r].pc # "end", now' = now, Proper(x, now), row' \in Users,
           live' \subseteq Tokens, chain' \in [Tokens -> Nat], sweeps' \in Nat,
           mailed' \subseteq Links,
           LockMoves(r, x), RowMoves(r, x), TokenCountMoves(r, x), HeldMoves(r, x),
           SeenMoves(r, x), \A t \in live' : chain'[t] = sweeps'
    PROVE  Inv'
<1>1. Becomes(r, x)
  BY Becoming DEF Inv
<1>2. AllProper'
  BY <1>1 DEF Inv, AllProper, Becomes
<1>3. Located' /\ userLock' \in Requests \cup {Nobody}
  BY <1>1, LocatedKeeps DEF Inv
<1>4. Current'
  BY <1>1, CurrentKeeps DEF Inv
<1>5. Counted' /\ issued' \in 0 .. Cardinality(Tokens)
  BY <1>1, CountedKeeps DEF Inv
<1>6. HeldApart'
  BY <1>1, HeldKeeps DEF Inv
<1>7. Seen'
  BY <1>1, SeenKeeps DEF Inv
<1>8. TypeOK'
  BY <1>1, <1>3, <1>5 DEF Inv, TypeOK, Becomes, Locals
<1>9. SweptTokensStayDead'
  BY DEF SweptTokensStayDead
<1> QED BY <1>2, <1>3, <1>4, <1>5, <1>6, <1>7, <1>8, <1>9 DEF Inv

(* A request that has not begun, and one that is done, hold nothing. *)
LEMMA IdleType ==
    /\ Idle \in Locals /\ Ended \in Locals
    /\ Ended.pc = "end" /\ Ended.held = {} /\ ~HasLock(Ended)
    /\ \A time \in Int : Proper(Ended, time)
<1>1. NoUser \in Users /\ NoUser.password \in Passwords
  BY NoUserType
<1>2. 0 \in 0 .. MaxUsers /\ 0 \in 0 .. Cardinality(Tokens)
  BY ConstantFacts, AccountAssumption, LedgerAssumption DEF AccountAssumption, LedgerAssumption
<1>3. Idle \in Locals
  BY <1>1, <1>2 DEF Idle, Locals, Ops, Pcs, Sweepers
<1>4. Ended \in Locals
  BY <1>3 DEF Ended, Locals, Pcs
<1>5. Ended.pc = "end" /\ Ended.held = {} /\ Ended.op = "none"
  BY DEF Ended, Idle
<1>6. ~HasLock(Ended)
  BY <1>5 DEF HasLock
<1>7. \A time \in Int : Proper(Ended, time)
  BY <1>5 DEF Proper, Placed, Checked, Drafted, Ascends, HasLock
<1> QED BY <1>3, <1>4, <1>5, <1>6, <1>7

LEMMA NowType == TypeOK => now \in Int
BY LedgerAssumption DEF TypeOK, LedgerAssumption

LEMMA EndKeeps ==
    ASSUME Inv, NEW r \in Requests, End(r), req[r].pc # "end", now' = now, row' \in Users,
           live' \subseteq Tokens, chain' \in [Tokens -> Nat], sweeps' \in Nat,
           mailed' \subseteq Links,
           row' = row \/ UserFreeFor(r) \/ ~Exists(row),
           issued' = issued \/ issued' = issued + 1,
           live \ req[r].held \subseteq live', live' \subseteq live \/ UserFreeFor(r),
           \A t \in live' : chain'[t] = sweeps'
    PROVE  Inv'
<1>1. req' = [req EXCEPT ![r] = Ended] /\ Release(r)
  BY DEF End
<1>2. Proper(Ended, now)
  BY IdleType, NowType DEF Inv
<1>3. LockMoves(r, Ended) /\ RowMoves(r, Ended)
  BY <1>1, IdleType DEF LockMoves, RowMoves
<1>4. TokenCountMoves(r, Ended) /\ HeldMoves(r, Ended) /\ SeenMoves(r, Ended)
  BY IdleType DEF TokenCountMoves, HeldMoves, SeenMoves
<1> QED BY <1>1, <1>2, <1>3, <1>4, IdleType, MoveKeeps

LEMMA RefuseKeeps ==
    ASSUME Inv, NEW r \in Requests, req[r].pc # "end", Refuse(r)
    PROVE  Inv'
<1>1. /\ End(r) /\ row' = row /\ now' = now /\ mailed' = mailed
      /\ live' = live /\ issued' = issued /\ chain' = chain /\ sweeps' = sweeps
  BY DEF Refuse, tokenVars
<1>2. row \in Users /\ live \subseteq Tokens /\ chain \in [Tokens -> Nat] /\ sweeps \in Nat
      /\ mailed \subseteq Links
  BY DEF Inv, TypeOK
<1>3. \A t \in live : chain[t] = sweeps
  BY DEF Inv, SweptTokensStayDead
<1> QED BY <1>1, <1>2, <1>3, EndKeeps

(* A request that moves on and leaves the tokens and the mail as they are. *)
LEMMA QuietKeeps ==
    ASSUME Inv, NEW r \in Requests, NEW x \in Locals, req' = [req EXCEPT ![r] = x],
           req[r].pc # "end", now' = now, Proper(x, now), row' \in Users,
           live' = live, issued' = issued, chain' = chain, sweeps' = sweeps,
           mailed' \subseteq Links, LockMoves(r, x), RowMoves(r, x), HeldMoves(r, x),
           SeenMoves(r, x)
    PROVE  Inv'
<1>1. live \subseteq Tokens /\ chain \in [Tokens -> Nat] /\ sweeps \in Nat
  BY DEF Inv, TypeOK
<1>2. \A t \in live : chain[t] = sweeps
  BY DEF Inv, SweptTokensStayDead
<1>3. TokenCountMoves(r, x)
  BY DEF TokenCountMoves
<1> QED BY <1>1, <1>2, <1>3, MoveKeeps

(* ... and holds no token that it did not hold, and takes no part in a sweep. *)
LEMMA PlainKeeps ==
    ASSUME Inv, NEW r \in Requests, NEW x \in Locals, req' = [req EXCEPT ![r] = x],
           req[r].pc # "end", now' = now, Proper(x, now), row' \in Users,
           live' = live, issued' = issued, chain' = chain, sweeps' = sweeps,
           mailed' \subseteq Links, LockMoves(r, x), RowMoves(r, x),
           x.held \subseteq req[r].held, x.pc # "insert", ~HasLock(x) \/ x.pc = "decide"
    PROVE  Inv'
<1>1. HeldMoves(r, x) /\ SeenMoves(r, x)
  BY DEF HeldMoves, SeenMoves
<1> QED BY <1>1, QuietKeeps

LEMMA BeginKeeps ==
    ASSUME Inv, NEW r \in Requests, NEW x \in Locals, Begin(r, x), Proper(x, now),
           x.held = {}, x.pc # "insert", ~HasLock(x)
    PROVE  Inv'
<1>1. /\ req[r].pc = "ready" /\ req' = [req EXCEPT ![r] = x]
      /\ row' = row /\ now' = now /\ userLock' = userLock /\ mailed' = mailed
      /\ live' = live /\ issued' = issued /\ chain' = chain /\ sweeps' = sweeps
  BY DEF Begin, At, tokenVars
<1>2. row \in Users /\ mailed \subseteq Links
  BY DEF Inv, TypeOK
<1>3. LockMoves(r, x) /\ RowMoves(r, x)
  BY <1>1 DEF LockMoves, RowMoves, HasLock
<1> QED BY <1>1, <1>2, <1>3, PlainKeeps

LEMMA TickKeeps ==
    ASSUME Inv, Tick
    PROVE  Inv'
<1>1. /\ now' = now + 1 /\ now < MaxTime /\ row' = row /\ req' = req
      /\ userLock' = userLock /\ mailed' = mailed
      /\ live' = live /\ issued' = issued /\ chain' = chain /\ sweeps' = sweeps
  BY DEF Tick, tokenVars
<1>2. now \in Int /\ now \in 0 .. MaxTime /\ MaxTime \in Nat
  BY NowType, LedgerAssumption DEF Inv, TypeOK, LedgerAssumption
<1>3. \A x : Proper(x, now) => Proper(x, now + 1)
  BY <1>2 DEF Proper, Drafted, Asks
<1>4. AllProper'
  BY <1>1, <1>3 DEF Inv, AllProper
<1>5. TypeOK'
  BY <1>1, <1>2 DEF Inv, TypeOK
<1>6. Located' /\ Current' /\ Counted' /\ HeldApart' /\ Seen' /\ SweptTokensStayDead'
  BY <1>1 DEF Inv, Located, Current, Counted, HeldApart, Seen, SweptTokensStayDead, At
<1> QED BY <1>4, <1>5, <1>6 DEF Inv

-----------------------------------------------------------------------------
(* Each action keeps the invariant *)

LEMMA RequestType ==
    ASSUME TypeOK, NEW op \in Ops, NEW pc \in Pcs
    PROVE  /\ Request(op, pc) \in Locals
           /\ Request(op, pc).op = op /\ Request(op, pc).pc = pc
           /\ Request(op, pc).held = {}
<1>1. row.id \in 0 .. MaxUsers
  BY DEF TypeOK, Users
<1>2. /\ Idle \in Locals
      /\ Idle.held = {}
  BY IdleType DEF Idle
<1> QED BY <1>1, <1>2 DEF Request, Locals

(* A request for the row's lock. *)
LEMMA LockRequest ==
    ASSUME Inv, NEW r \in Requests, NEW x \in Locals, Begin(r, x), x.pc = "lock",
           x.op \in LockOps, x.op = "reset" => x.link \in Links, x.held = {}
    PROVE  Inv'
<1>1. Proper(x, now) /\ ~HasLock(x)
  BY DEF Proper, Placed, Checked, Drafted, Ascends, HasLock
<1> QED BY <1>1, BeginKeeps

LEMMA StartKeeps ==
    ASSUME Inv, NEW r \in Requests, StartAny(r)
    PROVE  Inv'
<1>t. TypeOK /\ row \in Users /\ live \subseteq Tokens /\ mailed \subseteq Links
  BY DEF Inv, TypeOK
<1>o. /\ {"login", "change", "reset", "softDelete", "restore", "remove", "refresh",
          "logoutAll", "forgot", "register"} \subseteq Ops
      /\ {"lock", "token", "update", "load", "register"} \subseteq Pcs
  BY DEF Ops, Sweepers, Pcs
<1>1. CASE StartLogin(r)
  <2>1. PICK p \in Passwords : Begin(r, [Request("login", "lock") EXCEPT !.guess = p])
    BY <1>1 DEF StartLogin
  <2> DEFINE x == [Request("login", "lock") EXCEPT !.guess = p]
  <2>2. x \in Locals /\ x.op = "login" /\ x.pc = "lock" /\ x.held = {}
    BY <1>t, <1>o, RequestType DEF Locals
  <2> HIDE DEF x
  <2> QED BY <2>1, <2>2, LockRequest DEF LockOps, x
<1>2. CASE StartChange(r)
  <2>1. PICK p \in Passwords :
           Begin(r, [Request("change", "lock") EXCEPT !.guess = p, !.known = row.password])
    BY <1>2 DEF StartChange
  <2> DEFINE x == [Request("change", "lock") EXCEPT !.guess = p, !.known = row.password]
  <2>2. x \in Locals /\ x.op = "change" /\ x.pc = "lock" /\ x.held = {}
    <3> DEFINE y == Request("change", "lock")
    <3>1. y \in Locals /\ y.op = "change" /\ y.pc = "lock" /\ y.held = {}
      BY <1>t, <1>o, RequestType
    <3>2. row.password \in Passwords
      BY <1>t DEF Users
    <3> HIDE DEF y
    <3>3. [y EXCEPT !.guess = p, !.known = row.password] \in Locals
      BY <3>1, <3>2 DEF Locals
    <3> QED BY <3>1, <3>3 DEF y, Locals
  <2> HIDE DEF x
  <2> QED BY <2>1, <2>2, LockRequest DEF LockOps, Sweepers, x
<1>3. CASE StartReset(r)
  <2>1. PICK l \in mailed, p \in Passwords :
           Begin(r, [Request("reset", "lock") EXCEPT !.link = l, !.guess = p])
    BY <1>3 DEF StartReset
  <2> DEFINE x == [Request("reset", "lock") EXCEPT !.link = l, !.guess = p]
  <2>2. x \in Locals /\ x.op = "reset" /\ x.pc = "lock" /\ x.held = {} /\ x.link = l
    <3> DEFINE y == Request("reset", "lock")
    <3>1. y \in Locals /\ y.op = "reset" /\ y.pc = "lock" /\ y.held = {}
      BY <1>t, <1>o, RequestType
    <3>2. l \in Links \cup {NoLink}
      BY <1>t
    <3> HIDE DEF y
    <3> QED BY <3>1, <3>2 DEF y, Locals
  <2> HIDE DEF x
  <2> QED BY <1>t, <2>1, <2>2, LockRequest DEF LockOps, Sweepers, x
<1>4. CASE StartAdmin(r)
  <2>1. PICK op \in {"softDelete", "restore", "remove"} : Begin(r, Request(op, "lock"))
    BY <1>4 DEF StartAdmin
  <2> DEFINE x == Request(op, "lock")
  <2>2. x \in Locals /\ x.op = op /\ x.pc = "lock" /\ x.held = {}
    BY <1>t, <1>o, RequestType
  <2> HIDE DEF x
  <2>3. op \in LockOps /\ op # "reset"
    BY DEF LockOps, Sweepers
  <2> QED BY <2>1, <2>2, <2>3, LockRequest DEF x
<1>5. CASE StartRefresh(r)
  <2>1. PICK t \in live : Begin(r, [Request("refresh", "token") EXCEPT !.token = t])
    BY <1>5 DEF StartRefresh
  <2> DEFINE x == [Request("refresh", "token") EXCEPT !.token = t]
  <2>2. t \in Tokens /\ t \in 0 .. Cardinality(Tokens)
    BY <1>t, ConstantFacts
  <2>3. /\ x \in Locals /\ x.op = "refresh" /\ x.pc = "token" /\ x.held = {}
        /\ x.token = t
    BY <1>t, <1>o, <2>2, RequestType DEF Locals
  <2> HIDE DEF x
  <2>4. Proper(x, now) /\ ~HasLock(x)
    BY <2>2, <2>3 DEF Proper, Placed, Checked, Drafted, Ascends, HasLock
  <2> QED BY <2>1, <2>3, <2>4, BeginKeeps DEF x
<1>6. CASE StartLogoutAll(r)
  <2> DEFINE x == [Request("logoutAll", "update") EXCEPT !.scan = live]
  <2>1. Begin(r, x)
    BY <1>6 DEF StartLogoutAll
  <2>2. x \in Locals /\ x.op = "logoutAll" /\ x.pc = "update" /\ x.held = {}
    BY <1>t, <1>o, RequestType DEF Locals
  <2> HIDE DEF x
  <2>3. Proper(x, now) /\ ~HasLock(x)
    BY <2>2 DEF Proper, Placed, Checked, Drafted, Ascends, HasLock
  <2> QED BY <2>1, <2>2, <2>3, BeginKeeps
<1>7. CASE StartForgot(r)
  <2> DEFINE c == SetResetToken(row, r)
             x == [Request("forgot", "load") EXCEPT !.copy = c]
  <2>1. Begin(r, x) /\ Exists(row)
    BY <1>7 DEF StartForgot, Available
  <2>2. now \in 0 .. MaxTime /\ now \in 0 .. now
    BY NowType, LedgerAssumption DEF Inv, TypeOK, LedgerAssumption
  <2>3. c \in Users
    BY <1>t, <2>2, LedgerTypes, ConstantFacts, LedgerAssumption DEF LedgerAssumption
  <2>4. c.id = row.id /\ c.link = r /\ c.linkUntil = now + LinkTime
    BY <1>t DEF SetResetToken, Users
  <2>5. Exists(c) /\ Asks(c, now)
    BY <2>1, <2>2, <2>4, ConstantFacts DEF Exists, Asks
  <2> HIDE DEF c
  <2>6. x \in Locals /\ x.op = "forgot" /\ x.pc = "load" /\ x.held = {} /\ x.copy = c
    BY <1>t, <1>o, <2>3, RequestType DEF Locals
  <2> HIDE DEF x
  <2>7. Proper(x, now) /\ ~HasLock(x)
    BY <2>5, <2>6 DEF Proper, Placed, Checked, Drafted, Ascends, HasLock
  <2> QED BY <2>1, <2>6, <2>7, BeginKeeps
<1>8. CASE StartRegister(r)
  <2>1. PICK p \in Passwords : Begin(r, [Request("register", "register") EXCEPT !.guess = p])
    BY <1>8 DEF StartRegister
  <2> DEFINE x == [Request("register", "register") EXCEPT !.guess = p]
  <2>2. x \in Locals /\ x.op = "register" /\ x.pc = "register" /\ x.held = {}
    BY <1>t, <1>o, RequestType DEF Locals
  <2> HIDE DEF x
  <2>3. Proper(x, now) /\ ~HasLock(x)
    BY <2>2 DEF Proper, Placed, Checked, Drafted, Ascends, HasLock
  <2> QED BY <2>1, <2>2, <2>3, BeginKeeps DEF x
<1> QED BY <1>1, <1>2, <1>3, <1>4, <1>5, <1>6, <1>7, <1>8 DEF StartAny

(* A request's locals, and what they become when only its step changes. *)
LEMMA LocalFacts ==
    ASSUME Inv, NEW r \in Requests
    PROVE  /\ req[r] \in Locals /\ Proper(req[r], now)
           /\ req[r].copy \in Users /\ req[r].guess \in Passwords
           /\ req[r].scan \subseteq Tokens /\ req[r].held \subseteq Tokens
           /\ row \in Users /\ now \in 0 .. MaxTime
           /\ HasLock(req[r]) => userLock = r /\ UserFreeFor(r)
<1>1. req[r] \in Locals /\ row \in Users /\ now \in 0 .. MaxTime
  BY LocalsType DEF Inv
<1>2. Proper(req[r], now)
  BY DEF Inv, AllProper
<1>3. HasLock(req[r]) => userLock = r /\ UserFreeFor(r)
  BY DEF Inv, Located, UserFreeFor
<1> QED BY <1>1, <1>2, <1>3 DEF Locals

LEMMA StepFields ==
    ASSUME NEW l \in Locals, NEW pc \in Pcs, NEW x, x = [l EXCEPT !.pc = pc]
    PROVE  /\ x \in Locals /\ x.pc = pc /\ x.op = l.op /\ x.copy = l.copy
           /\ x.held = l.held /\ x.scan = l.scan /\ x.link = l.link
           /\ x.guess = l.guess /\ x.token = l.token /\ x.diff = l.diff
BY DEF Locals

LEMMA LockUserKeeps ==
    ASSUME Inv, NEW r \in Requests, LockUser(r)
    PROVE  Inv'
<1> DEFINE l == req[r]
           x == [l EXCEPT !.pc = "decide", !.copy = row]
<1>1. /\ l.pc = "lock" /\ userLock = Nobody /\ userLock' = r /\ req' = [req EXCEPT ![r] = x]
      /\ row' = row /\ now' = now /\ mailed' = mailed
      /\ live' = live /\ issued' = issued /\ chain' = chain /\ sweeps' = sweeps
  <2>1. [req EXCEPT ![r].pc = "decide", ![r].copy = row] = [req EXCEPT ![r] = x]
    BY LocalsType DEF Inv, Locals
  <2> QED BY <2>1 DEF LockUser, At, tokenVars
<1>2. l \in Locals /\ Proper(l, now) /\ row \in Users /\ mailed \subseteq Links
  BY LocalFacts DEF Inv, TypeOK
<1> HIDE DEF l
<1>3. /\ x \in Locals /\ x.pc = "decide" /\ x.op = l.op /\ x.copy = row
      /\ x.held = l.held /\ x.link = l.link
  BY <1>2 DEF Locals, Pcs
<1> HIDE DEF x
<1>4. Placed(x) /\ HasLock(x)
  BY <1>1, <1>2, <1>3 DEF Proper, Placed, HasLock, LockOps, Sweepers
<1>5. Proper(x, now)
  BY <1>3, <1>4 DEF Proper, Checked, Drafted, Ascends
<1>6. LockMoves(r, x) /\ RowMoves(r, x)
  BY <1>1, <1>3, <1>4 DEF LockMoves, RowMoves
<1> QED BY <1>1, <1>2, <1>3, <1>5, <1>6, PlainKeeps DEF l

LEMMA CommitKeeps ==
    ASSUME Inv, NEW r \in Requests, NEW u \in Users, Decide(r), Commit(r, u, Ended)
    PROVE  Inv'
<1>1. /\ End(r) /\ row' = u /\ now' = now /\ mailed' = mailed
      /\ live' = live /\ issued' = issued /\ chain' = chain /\ sweeps' = sweeps
  BY DEF Commit, End, tokenVars
<1>2. live \subseteq Tokens /\ chain \in [Tokens -> Nat] /\ sweeps \in Nat
      /\ mailed \subseteq Links
  BY DEF Inv, TypeOK
<1>3. \A t \in live : chain[t] = sweeps
  BY DEF Inv, SweptTokensStayDead
<1>4. req[r].pc = "decide" /\ UserFreeFor(r)
  BY LocalFacts DEF Decide, At, HasLock, Proper, Placed, LockOps, Sweepers
<1> QED BY <1>1, <1>2, <1>3, <1>4, EndKeeps

LEMMA LoginCommitKeeps ==
    ASSUME Inv, NEW r \in Requests, LoginCommit(r)
    PROVE  Inv'
<1> DEFINE l == req[r]
           x == [l EXCEPT !.pc = "issue"]
           u == ResetFailedAttempts(l.copy)
<1>1. /\ l.pc = "decide" /\ Release(r) /\ req' = [req EXCEPT ![r] = x]
      /\ l.op = "login" /\ row' = u /\ now' = now /\ mailed' = mailed
      /\ live' = live /\ issued' = issued /\ chain' = chain /\ sweeps' = sweeps
  BY DEF LoginCommit, Commit, Decide, At, tokenVars
<1>2. l \in Locals /\ Proper(l, now) /\ UserFreeFor(r) /\ mailed \subseteq Links
  BY <1>1, LocalFacts DEF HasLock, Inv, TypeOK
<1>3. u \in Users
  BY LocalFacts, LedgerTypes
<1> HIDE DEF l, u
<1>4. x \in Locals /\ x.pc = "issue" /\ x.op = "login" /\ x.held = l.held
  BY <1>1, <1>2, StepFields DEF Pcs
<1> HIDE DEF x
<1>5. Proper(x, now) /\ ~HasLock(x)
  BY <1>1, <1>2, <1>4 DEF Proper, Placed, Checked, Drafted, Ascends, HasLock
<1>6. LockMoves(r, x) /\ RowMoves(r, x)
  BY <1>1, <1>2, <1>5 DEF LockMoves, RowMoves
<1> QED BY <1>1, <1>2, <1>3, <1>4, <1>5, <1>6, PlainKeeps DEF l

(* The next token's number is one of Tokens while a request is left. *)
LEMMA NextToken ==
    ASSUME Inv, NEW r \in Requests, End(r), req[r].pc # "end", issued' = issued + 1
    PROVE  issued + 1 \in Tokens
<1>1. Becomes(r, Ended)
  BY IdleType, Becoming DEF End, Inv
<1>2. Counted' /\ issued' \in 0 .. Cardinality(Tokens)
  BY <1>1, IdleType, CountedKeeps DEF Inv, TokenCountMoves
<1>3. issued \in 0 .. Cardinality(Tokens)
  BY DEF Inv, TypeOK
<1> QED BY <1>2, <1>3, ConstantFacts

(* A token is inserted whose login comes after every sweep. *)
LEMMA InsertKeeps ==
    ASSUME Inv, NEW r \in Requests, req[r].pc # "end", UserFreeFor(r), InsertToken(sweeps),
           NEW gone, gone \subseteq req[r].held,
           live' = (live \ gone) \cup {issued + 1}, End(r),
           row' = row, now' = now, mailed' = mailed
    PROVE  Inv'
<1>1. issued' = issued + 1 /\ chain' = [chain EXCEPT ![issued + 1] = sweeps] /\ sweeps' = sweeps
  BY DEF InsertToken
<1>2. issued + 1 \in Tokens
  BY <1>1, NextToken
<1>3. row \in Users /\ live \subseteq Tokens /\ chain \in [Tokens -> Nat] /\ sweeps \in Nat
      /\ mailed \subseteq Links /\ \A t \in live : chain[t] = sweeps
  BY DEF Inv, TypeOK, SweptTokensStayDead
<1>4. chain' \in [Tokens -> Nat] /\ live' \subseteq Tokens
  BY <1>1, <1>2, <1>3
<1>5. \A t \in live' : chain'[t] = sweeps'
  BY <1>1, <1>2, <1>3
<1>6. live \ req[r].held \subseteq live'
  OBVIOUS
<1> QED BY <1>1, <1>3, <1>4, <1>5, <1>6, EndKeeps

LEMMA LoginIssueKeeps ==
    ASSUME Inv, NEW r \in Requests, LoginIssue(r)
    PROVE  Inv'
<1> DEFINE gone == {}
<1>1. /\ gone \subseteq req[r].held /\ live' = (live \ gone) \cup {issued + 1}
      /\ req[r].pc # "end" /\ UserFreeFor(r) /\ InsertToken(sweeps) /\ End(r)
      /\ row' = row /\ now' = now /\ mailed' = mailed
  BY DEF LoginIssue, At
<1> HIDE DEF gone
<1> QED BY <1>1, InsertKeeps

LEMMA RefreshInsertKeeps ==
    ASSUME Inv, NEW r \in Requests, RefreshInsert(r)
    PROVE  Inv'
<1>1. req[r].token \in live /\ req[r].held = {req[r].token}
  BY LocalFacts DEF RefreshInsert, At, Inv, HeldApart, Proper, Placed
<1>2. chain[req[r].token] = sweeps
  BY <1>1 DEF Inv, SweptTokensStayDead
<1> QED BY <1>1, <1>2, InsertKeeps DEF RefreshInsert, At

LEMMA SweepBeginKeeps ==
    ASSUME Inv, NEW r \in Requests, SweepBegin(r)
    PROVE  Inv'
<1> DEFINE l == req[r]
           x == [l EXCEPT !.pc = "update", !.scan = live]
<1>1. /\ l.pc = "decide" /\ l.op \in Sweepers /\ Allowed(r)
      /\ row' = row /\ now' = now /\ userLock' = userLock /\ mailed' = mailed
      /\ live' = live /\ issued' = issued /\ chain' = chain /\ sweeps' = sweeps
  BY DEF SweepBegin, Decide, At, tokenVars
<1>2. req' = [req EXCEPT ![r] = x]
  BY LocalsType DEF SweepBegin, Inv, Locals
<1>3. l \in Locals /\ Proper(l, now) /\ row \in Users /\ live \subseteq Tokens /\ mailed \subseteq Links
  BY LocalFacts DEF Inv, TypeOK
<1>4. Checked(x)
  <2>1. /\ x.op = l.op /\ x.copy = l.copy /\ x.guess = l.guess /\ x.link = l.link
    BY <1>3 DEF Locals
  <2>2. Exists(l.copy)
    BY <1>1 DEF Allowed, Found
  <2>3. l.op = "change" => ~l.copy.deleted /\ l.guess # l.copy.password
    BY <1>1 DEF Allowed
  <2>4. l.op = "reset" => ~l.copy.deleted /\ l.copy.link = l.link
    BY <1>1 DEF Allowed, Found
  <2>5. l.op = "softDelete" => ~l.copy.deleted
    BY <1>1 DEF Allowed
  <2>6. l.op = "remove" => l.copy.deleted
    BY <1>1 DEF Allowed
  <2> HIDE DEF x, l
  <2> QED BY <1>1, <2>1, <2>2, <2>3, <2>4, <2>5, <2>6 DEF Checked, Sweepers
<1> HIDE DEF l
<1>5. /\ x \in Locals /\ x.pc = "update" /\ x.op = l.op /\ x.scan = live /\ x.copy = l.copy
      /\ x.held = l.held /\ x.link = l.link
  BY <1>3 DEF Locals, Pcs
<1> HIDE DEF x
<1>6. l.held = {} /\ HasLock(l) /\ HasLock(x)
  BY <1>1, <1>3, <1>5 DEF Proper, Placed, HasLock, Sweepers
<1>7. Proper(x, now)
  BY <1>1, <1>3, <1>4, <1>5, <1>6 DEF Proper, Placed, Drafted, Ascends
<1>8. LockMoves(r, x) /\ RowMoves(r, x)
  BY <1>1, <1>5, <1>6 DEF LockMoves, RowMoves, l
<1>9. HeldMoves(r, x) /\ SeenMoves(r, x)
  BY <1>1, <1>5, <1>6 DEF HeldMoves, SeenMoves
<1> QED BY <1>1, <1>2, <1>3, <1>5, <1>7, <1>8, <1>9, QuietKeeps DEF l

(* The token an UPDATE comes to next is the first of those it has to visit. *)
LEMMA FirstOfScan ==
    ASSUME Inv, NEW r \in Requests, req[r].scan # {}, NEW t,
           t = CHOOSE s \in req[r].scan : \A o \in req[r].scan : s <= o
    PROVE  t \in req[r].scan /\ t \in Tokens /\ \A o \in req[r].scan : t <= o
<1>1. req[r].scan \subseteq Tokens /\ Tokens \subseteq Nat
  BY LocalFacts, ConstantFacts
<1>2. \E s \in req[r].scan : \A o \in req[r].scan : s <= o
  BY <1>1, Smallest
<1> QED BY <1>1, <1>2

LEMMA SweepNextKeeps ==
    ASSUME Inv, NEW r \in Requests, SweepNext(r)
    PROVE  Inv'
<1> DEFINE l == req[r]
           t == CHOOSE t \in l.scan : \A o \in l.scan : t <= o
           rest == l.scan \ {t}
           got == IF t \in live THEN l.held \cup {t} ELSE l.held
           x == [l EXCEPT !.scan = rest, !.held = got]
<1>1. /\ l.pc = "update" /\ l.scan # {} /\ TokenFreeFor(r, t)
      /\ row' = row /\ now' = now /\ userLock' = userLock /\ mailed' = mailed
      /\ live' = live /\ issued' = issued /\ chain' = chain /\ sweeps' = sweeps
  BY DEF SweepNext, At, tokenVars
<1>2. req' = [req EXCEPT ![r] = x]
  BY LocalsType DEF SweepNext, Inv, Locals
<1>3. /\ l \in Locals /\ Proper(l, now) /\ l.scan \subseteq Tokens /\ l.held \subseteq Tokens
      /\ row \in Users /\ live \subseteq Tokens /\ mailed \subseteq Links
  BY LocalFacts DEF Inv, TypeOK
<1>4. t \in l.scan /\ t \in Tokens /\ \A o \in l.scan : t <= o
  BY <1>1, FirstOfScan
<1>5. HasLock(l) => live \subseteq l.scan \cup l.held
  BY <1>1 DEF Inv, Seen, At
<1> HIDE DEF l, t
<1>6. rest \subseteq Tokens /\ got \subseteq Tokens /\ \A s \in got : s \in l.held \/ s = t
  BY <1>3, <1>4
<1>7. live \subseteq l.scan \cup l.held => live \subseteq rest \cup got
  OBVIOUS
<1>8. \A s \in got, o \in rest : s < o
  BY <1>1, <1>3, <1>4, ConstantFacts DEF Proper, Ascends
<1> HIDE DEF rest, got
<1>9. /\ x \in Locals /\ x.pc = "update" /\ x.op = l.op /\ x.scan = rest /\ x.copy = l.copy
      /\ x.held = got /\ x.link = l.link /\ x.guess = l.guess
  BY <1>1, <1>3, <1>6 DEF Locals
<1> HIDE DEF x
<1>10. HasLock(x) <=> HasLock(l)
  BY <1>1, <1>9 DEF HasLock
<1>11. Proper(x, now)
  BY <1>1, <1>3, <1>8, <1>9, <1>10 DEF Proper, Placed, Checked, Drafted, Ascends
<1>12. LockMoves(r, x) /\ RowMoves(r, x)
  BY <1>1, <1>9, <1>10 DEF LockMoves, RowMoves, l
<1>13. HeldMoves(r, x)
  BY <1>1, <1>6, <1>9 DEF HeldMoves, l
<1>14. SeenMoves(r, x)
  BY <1>1, <1>5, <1>7, <1>9, <1>10 DEF SeenMoves
<1> QED BY <1>1, <1>2, <1>3, <1>9, <1>11, <1>12, <1>13, <1>14, QuietKeeps DEF l

LEMMA SweepDoneKeeps ==
    ASSUME Inv, NEW r \in Requests, SweepDone(r)
    PROVE  Inv'
<1> DEFINE l == req[r]
           x == [l EXCEPT !.pc = "commit"]
<1>1. /\ l.pc = "update" /\ l.scan = {} /\ req' = [req EXCEPT ![r] = x]
      /\ row' = row /\ now' = now /\ userLock' = userLock /\ mailed' = mailed
      /\ live' = live /\ issued' = issued /\ chain' = chain /\ sweeps' = sweeps
  BY DEF SweepDone, At, To, AfterUpdate, tokenVars
<1>2. l \in Locals /\ Proper(l, now) /\ row \in Users /\ mailed \subseteq Links
  BY LocalFacts DEF Inv, TypeOK
<1>3. HasLock(l) => live \subseteq l.scan \cup l.held
  BY <1>1 DEF Inv, Seen, At
<1> HIDE DEF l
<1>4. /\ x \in Locals /\ x.pc = "commit" /\ x.op = l.op /\ x.copy = l.copy
      /\ x.held = l.held /\ x.link = l.link /\ x.guess = l.guess
  BY <1>2, StepFields DEF Pcs
<1> HIDE DEF x
<1>5. HasLock(x) <=> HasLock(l)
  BY <1>1, <1>4 DEF HasLock
<1>6. Proper(x, now)
  BY <1>1, <1>2, <1>4, <1>5 DEF Proper, Placed, Checked, Drafted, Ascends
<1>7. LockMoves(r, x) /\ RowMoves(r, x)
  BY <1>1, <1>4, <1>5 DEF LockMoves, RowMoves, l
<1>8. HeldMoves(r, x) /\ SeenMoves(r, x)
  BY <1>1, <1>3, <1>4, <1>5 DEF HeldMoves, SeenMoves, l
<1> QED BY <1>1, <1>2, <1>4, <1>6, <1>7, <1>8, QuietKeeps DEF l

LEMMA SweptRowType ==
    ASSUME Inv, NEW r \in Requests, req[r].op \in Sweepers
    PROVE  SweptRow(r) \in Users
<1>1. /\ SetPassword(req[r].copy, req[r].guess) \in Users
      /\ SetPasswordByLink(req[r].copy, req[r].guess) \in Users
      /\ SoftDeleted(req[r].copy) \in Users
  BY LocalFacts, LedgerTypes
<1>2. NoUser \in Users
  BY NoUserType
<1> QED BY <1>1, <1>2 DEF SweptRow, Sweepers

LEMMA SweepCommitKeeps ==
    ASSUME Inv, NEW r \in Requests, SweepCommit(r)
    PROVE  Inv'
<1>1. /\ req[r].pc = "commit" /\ req[r].op \in Sweepers /\ row' = SweptRow(r)
      /\ live' = live \ req[r].held /\ sweeps' = sweeps + 1 /\ End(r)
      /\ now' = now /\ issued' = issued /\ chain' = chain /\ mailed' = mailed
  BY DEF SweepCommit, At
<1>2. HasLock(req[r])
  BY <1>1 DEF HasLock, Sweepers
<1>3. live' = {} /\ UserFreeFor(r)
  BY <1>1, <1>2, LocalFacts DEF Inv, Seen, At
<1>4. row' \in Users
  BY <1>1, SweptRowType
<1>5. chain \in [Tokens -> Nat] /\ sweeps \in Nat /\ mailed \subseteq Links
  BY DEF Inv, TypeOK
<1> QED BY <1>1, <1>3, <1>4, <1>5, EndKeeps

LEMMA LogoutAllCommitKeeps ==
    ASSUME Inv, NEW r \in Requests, LogoutAllCommit(r)
    PROVE  Inv'
<1>1. /\ req[r].pc = "commit" /\ row' = row
      /\ live' = live \ req[r].held /\ sweeps' = sweeps /\ End(r)
      /\ now' = now /\ issued' = issued /\ chain' = chain /\ mailed' = mailed
  BY DEF LogoutAllCommit, At
<1>2. row \in Users /\ live \subseteq Tokens /\ chain \in [Tokens -> Nat] /\ sweeps \in Nat
      /\ mailed \subseteq Links /\ \A t \in live : chain[t] = sweeps
  BY DEF Inv, TypeOK, SweptTokensStayDead
<1>3. live' \subseteq live
  BY <1>1
<1> QED BY <1>1, <1>2, <1>3, EndKeeps

LEMMA RefreshLockKeeps ==
    ASSUME Inv, NEW r \in Requests, RefreshLock(r)
    PROVE  Inv'
<1> DEFINE l == req[r]
           one == {l.token}
           x == [l EXCEPT !.pc = "insert", !.held = one]
<1>1. /\ l.pc = "token" /\ TokenFreeFor(r, l.token) /\ l.token \in live
      /\ row' = row /\ now' = now /\ userLock' = userLock /\ mailed' = mailed
      /\ live' = live /\ issued' = issued /\ chain' = chain /\ sweeps' = sweeps
  BY DEF RefreshLock, RotationAllowed, At, tokenVars
<1>2. req' = [req EXCEPT ![r] = x]
  BY LocalsType DEF RefreshLock, Inv, Locals
<1>3. /\ l \in Locals /\ Proper(l, now) /\ row \in Users /\ live \subseteq Tokens
      /\ mailed \subseteq Links
  BY LocalFacts DEF Inv, TypeOK
<1> HIDE DEF l
<1>4. one \subseteq Tokens /\ one = {l.token}
  BY <1>1, <1>3
<1> HIDE DEF one
<1>5. /\ x \in Locals /\ x.pc = "insert" /\ x.op = l.op /\ x.token = l.token
      /\ x.held = one /\ x.link = l.link
  BY <1>3, <1>4 DEF Locals, Pcs
<1> HIDE DEF x
<1>6. ~HasLock(x) /\ ~HasLock(l)
  BY <1>1, <1>5 DEF HasLock
<1>7. Proper(x, now)
  BY <1>1, <1>3, <1>4, <1>5, <1>6 DEF Proper, Placed, Checked, Drafted, Ascends
<1>8. LockMoves(r, x) /\ RowMoves(r, x)
  BY <1>1, <1>6 DEF LockMoves, RowMoves, l
<1>9. HeldMoves(r, x) /\ SeenMoves(r, x)
  BY <1>1, <1>4, <1>5, <1>6 DEF HeldMoves, SeenMoves
<1> QED BY <1>1, <1>2, <1>3, <1>5, <1>7, <1>8, <1>9, QuietKeeps DEF l

(* The columns a save will write: the link and its hour go together. *)
LEMMA DifferenceFacts ==
    ASSUME NEW e
    PROVE  /\ Difference(e) = Insert \/ Difference(e) \subseteq Columns
           /\ Difference(e) \subseteq Insert
           /\ "link" \in Difference(e) <=> "linkUntil" \in Difference(e)
<1>1. CASE row.id = e.id
  <2>1. Difference(e) = {c \in Columns : Differs(e, c)}
    BY <1>1 DEF Difference
  <2>2. {"link", "linkUntil"} \subseteq Columns /\ Columns \subseteq Insert
    BY DEF Columns, Insert
  <2>3. Differs(e, "link") <=> Differs(e, "linkUntil")
    BY DEF Differs
  <2> QED BY <2>1, <2>2, <2>3
<1>2. CASE row.id # e.id
  <2>1. Difference(e) = Insert
    BY <1>2 DEF Difference
  <2>2. {"link", "linkUntil"} \subseteq Insert
    BY DEF Columns, Insert
  <2> QED BY <2>1, <2>2
<1> QED BY <1>1, <1>2

LEMMA LoadKeeps ==
    ASSUME Inv, NEW r \in Requests, NEW e \in Users, NEW pc \in {"save", "saveClear"},
           Load(r, e, pc), req[r].pc \in {"load", "clear"}, Exists(e),
           pc = "save" => Asks(e, now), pc = "saveClear" => Withdraws(e)
    PROVE  Inv'
<1> DEFINE l == req[r]
           d == Difference(e)
           x == [l EXCEPT !.pc = pc, !.copy = e, !.diff = d]
<1>1. /\ row' = row /\ now' = now /\ userLock' = userLock /\ mailed' = mailed
      /\ live' = live /\ issued' = issued /\ chain' = chain /\ sweeps' = sweeps
  BY DEF Load, tokenVars
<1>2. req' = [req EXCEPT ![r] = x]
  BY LocalsType DEF Load, Inv, Locals
<1>3. l \in Locals /\ Proper(l, now) /\ row \in Users /\ mailed \subseteq Links
  BY LocalFacts DEF Inv, TypeOK
<1>4. /\ d = Insert \/ d \subseteq Columns
      /\ d \subseteq Insert
      /\ "link" \in d <=> "linkUntil" \in d
  BY DifferenceFacts
<1>5. l.pc \in {"load", "clear"}
  OBVIOUS
<1> HIDE DEF l, d
<1>6. x \in Locals
  BY <1>3, <1>4 DEF Locals, Pcs
<1>7. /\ x.pc = pc /\ x.op = l.op /\ x.copy = e
      /\ x.held = l.held /\ x.link = l.link /\ x.diff = d
  BY <1>3 DEF Locals
<1> HIDE DEF x
<1>8. ~HasLock(x) /\ ~HasLock(l)
  BY <1>5, <1>7 DEF HasLock
<1>9. Proper(x, now)
  <2>1. Placed(x)
    BY <1>3, <1>5, <1>7 DEF Proper, Placed
  <2>2. Checked(x) /\ Ascends(x)
    BY <1>7, <1>8 DEF Checked, Ascends
  <2>3. Drafted(x, now)
    BY <1>4, <1>7 DEF Drafted
  <2> QED BY <2>1, <2>2, <2>3 DEF Proper
<1>10. LockMoves(r, x) /\ RowMoves(r, x)
  BY <1>1, <1>8 DEF LockMoves, RowMoves, l
<1> QED BY <1>1, <1>2, <1>3, <1>5, <1>6, <1>7, <1>8, <1>10, <1>9, PlainKeeps DEF l

LEMMA ForgotLoadKeeps ==
    ASSUME Inv, NEW r \in Requests, ForgotLoad(r)
    PROVE  Inv'
<1>1. req[r].pc = "load" /\ Load(r, req[r].copy, "save")
  BY DEF ForgotLoad, At
<1>2. req[r].copy \in Users /\ Exists(req[r].copy) /\ Asks(req[r].copy, now)
  BY <1>1, LocalFacts DEF Proper, Drafted
<1> QED BY <1>1, <1>2, LoadKeeps

LEMMA ForgotClearKeeps ==
    ASSUME Inv, NEW r \in Requests, ForgotClear(r)
    PROVE  Inv'
<1> DEFINE e == ClearResetToken(req[r].copy)
<1>1. req[r].pc = "clear" /\ Load(r, e, "saveClear")
  BY DEF ForgotClear, At
<1>2. req[r].copy \in Users /\ Exists(req[r].copy)
  BY <1>1, LocalFacts DEF Proper, Drafted
<1>3. e \in Users
  BY <1>2, LocalFacts, LedgerTypes
<1>4. Exists(e) /\ Withdraws(e)
  BY <1>2 DEF Exists, Withdraws, ClearResetToken, Users
<1> HIDE DEF e
<1> QED BY <1>1, <1>3, <1>4, LoadKeeps

LEMMA WrittenType ==
    ASSUME Inv, NEW r \in Requests
    PROVE  Written(r) \in Users
BY LocalFacts, MixType DEF Written

LEMMA ForgotSaveKeeps ==
    ASSUME Inv, NEW r \in Requests, ForgotSave(r)
    PROVE  Inv'
<1> DEFINE l == req[r]
           x == [l EXCEPT !.pc = "mail"]
<1>1. /\ l.pc = "save" /\ UserFreeFor(r) /\ row' = Written(r) /\ req' = [req EXCEPT ![r] = x]
      /\ now' = now /\ userLock' = userLock /\ mailed' = mailed
      /\ live' = live /\ issued' = issued /\ chain' = chain /\ sweeps' = sweeps
  BY DEF ForgotSave, Save, At, To, tokenVars
<1>2. l \in Locals /\ Proper(l, now) /\ row' \in Users /\ mailed \subseteq Links
  BY <1>1, LocalFacts, WrittenType DEF Inv, TypeOK
<1> HIDE DEF l
<1>3. /\ x \in Locals /\ x.pc = "mail" /\ x.op = l.op /\ x.copy = l.copy
      /\ x.held = l.held /\ x.link = l.link
  BY <1>2, StepFields DEF Pcs
<1> HIDE DEF x
<1>4. ~HasLock(x) /\ ~HasLock(l)
  BY <1>1, <1>3 DEF HasLock
<1>5. Proper(x, now)
  BY <1>1, <1>2, <1>3, <1>4 DEF Proper, Placed, Checked, Drafted, Ascends
<1>6. LockMoves(r, x) /\ RowMoves(r, x)
  BY <1>1, <1>4 DEF LockMoves, RowMoves, l
<1> QED BY <1>1, <1>2, <1>3, <1>4, <1>5, <1>6, PlainKeeps DEF l

LEMMA MailFailsKeeps ==
    ASSUME Inv, NEW r \in Requests, MailFails(r)
    PROVE  Inv'
<1> DEFINE l == req[r]
           x == [l EXCEPT !.pc = "clear"]
<1>1. /\ l.pc = "mail" /\ row' = row /\ req' = [req EXCEPT ![r] = x]
      /\ now' = now /\ userLock' = userLock /\ mailed' \subseteq mailed \cup {l.copy.link}
      /\ live' = live /\ issued' = issued /\ chain' = chain /\ sweeps' = sweeps
  BY DEF MailFails, At, To, tokenVars
<1>2. l \in Locals /\ Proper(l, now) /\ row \in Users /\ mailed \subseteq Links
  BY LocalFacts DEF Inv, TypeOK
<1> HIDE DEF l
<1>3. /\ x \in Locals /\ x.pc = "clear" /\ x.op = l.op /\ x.copy = l.copy
      /\ x.held = l.held /\ x.link = l.link
  BY <1>2, StepFields DEF Pcs
<1> HIDE DEF x
<1>4. ~HasLock(x) /\ ~HasLock(l)
  BY <1>1, <1>3 DEF HasLock
<1>5. Proper(x, now) /\ l.copy.link \in Links
  BY <1>1, <1>2, <1>3, <1>4 DEF Proper, Placed, Checked, Drafted, Ascends, Asks
<1>6. LockMoves(r, x) /\ RowMoves(r, x)
  BY <1>1, <1>4 DEF LockMoves, RowMoves, l
<1>7. mailed' \subseteq Links
  BY <1>1, <1>2, <1>5
<1> QED BY <1>1, <1>2, <1>3, <1>4, <1>5, <1>6, <1>7, PlainKeeps DEF l

(* A request that ends and leaves the tokens as they are. *)
LEMMA LastKeeps ==
    ASSUME Inv, NEW r \in Requests, End(r), req[r].pc # "end", now' = now, row' \in Users,
           UNCHANGED tokenVars, mailed' \subseteq Links,
           row' = row \/ UserFreeFor(r) \/ ~Exists(row)
    PROVE  Inv'
<1>1. live' = live /\ issued' = issued /\ chain' = chain /\ sweeps' = sweeps
  BY DEF tokenVars
<1>2. live \subseteq Tokens /\ chain \in [Tokens -> Nat] /\ sweeps \in Nat
      /\ \A t \in live : chain[t] = sweeps
  BY DEF Inv, TypeOK, SweptTokensStayDead
<1> QED BY <1>1, <1>2, EndKeeps

LEMMA MailSentKeeps ==
    ASSUME Inv, NEW r \in Requests, MailSent(r)
    PROVE  Inv'
<1>1. /\ req[r].pc = "mail" /\ End(r) /\ row' = row /\ now' = now /\ UNCHANGED tokenVars
      /\ mailed' = mailed \cup {req[r].copy.link}
  BY DEF MailSent, At
<1>2. req[r].copy.link \in Links /\ row \in Users /\ mailed \subseteq Links
  BY <1>1, LocalFacts DEF Proper, Drafted, Asks, Inv, TypeOK
<1>3. mailed' \subseteq Links
  BY <1>1, <1>2
<1> QED BY <1>1, <1>2, <1>3, LastKeeps

LEMMA ForgotSaveClearKeeps ==
    ASSUME Inv, NEW r \in Requests, ForgotSaveClear(r)
    PROVE  Inv'
<1>1. /\ req[r].pc = "saveClear" /\ End(r) /\ row' = Written(r) /\ UserFreeFor(r)
      /\ now' = now /\ UNCHANGED tokenVars /\ mailed' = mailed
  BY DEF ForgotSaveClear, Save, At
<1>2. row' \in Users /\ mailed' \subseteq Links
  BY <1>1, WrittenType DEF Inv, TypeOK
<1> QED BY <1>1, <1>2, LastKeeps

LEMMA RegisterInsertKeeps ==
    ASSUME Inv, NEW r \in Requests, RegisterInsert(r)
    PROVE  Inv'
<1>1. /\ req[r].pc = "register" /\ End(r) /\ ~Exists(row)
      /\ now' = now /\ UNCHANGED tokenVars /\ mailed' = mailed
  BY DEF RegisterInsert, At
<1>2. PICK id \in 1 .. MaxUsers : row' = NewUser(id, req[r].guess)
  BY DEF RegisterInsert
<1>3. id \in 0 .. MaxUsers
  BY LedgerAssumption DEF LedgerAssumption
<1>4. row' \in Users /\ mailed' \subseteq Links
  BY <1>1, <1>2, <1>3, LocalFacts, NewUserType DEF Inv, TypeOK
<1> QED BY <1>1, <1>4, LastKeeps

-----------------------------------------------------------------------------
(* The invariant *)

LEMMA Start == Init => Inv
<1> SUFFICES ASSUME Init PROVE Inv
  OBVIOUS
<1>1. \A r \in Requests : r \in Links
  BY ConstantFacts
<1>2. 0 \in 0 .. MaxTime /\ 0 \in 0 .. MaxTime + LockTime
      /\ LinkTime \in 0 .. MaxTime + LinkTime /\ 0 \in 0 .. MaxUsers /\ 1 \in 0 .. MaxUsers
      /\ 0 \in 0 .. MaxAttempts - 1 /\ 0 \in 0 .. MaxTime + LinkTime
      /\ LinkTime = 0 + LinkTime
  BY LedgerAssumption DEF LedgerAssumption
<1>3. NoUser.password \in Passwords /\ NoUser \in Users
  BY NoUserType
<1>4. NewUser(1, NoUser.password) \in Users
  BY <1>2, <1>3, NewUserType
<1>5. row \in Users
  <2>1. \A f \in 0 .. MaxAttempts - 1, d \in BOOLEAN : Registered(f, d) \in Users
    BY <1>2, <1>4, ConstantFacts DEF Registered, Users
  <2> QED BY <1>3, <2>1 DEF Init
<1>6. \A r \in Requests :
         /\ ForgotPurged(r) \in Locals /\ ForgotPurged(r).pc = "load"
         /\ ForgotPurged(r).op = "forgot" /\ ForgotPurged(r).held = {}
         /\ Exists(ForgotPurged(r).copy) /\ Asks(ForgotPurged(r).copy, 0)
  <2> TAKE r \in Requests
  <2> DEFINE n == NewUser(1, NoUser.password)
             c == [n EXCEPT !.link = r, !.linkUntil = LinkTime]
  <2>1. n \in Users /\ n.id = 1
    BY <1>4 DEF NewUser
  <2> HIDE DEF n
  <2>2. c \in Users /\ c.id = 1 /\ c.link = r /\ c.linkUntil = LinkTime
    BY <1>1, <1>2, <2>1 DEF Users
  <2>3. Exists(c) /\ Asks(c, 0)
    BY <1>1, <1>2, <2>2 DEF Exists, Asks
  <2>4. ForgotPurged(r) = [Idle EXCEPT !.op = "forgot", !.pc = "load", !.id = 1, !.copy = c]
    BY DEF ForgotPurged, n
  <2> HIDE DEF c
  <2>5. Idle \in Locals /\ Idle.held = {}
    BY IdleType DEF Idle
  <2>6. {"forgot"} \subseteq Ops /\ {"load"} \subseteq Pcs
    BY DEF Ops, Pcs
  <2>7. ForgotPurged(r) \in Locals
    BY <1>2, <2>2, <2>4, <2>5, <2>6 DEF Locals
  <2>8. /\ ForgotPurged(r).pc = "load" /\ ForgotPurged(r).op = "forgot"
        /\ ForgotPurged(r).held = {} /\ ForgotPurged(r).copy = c
    BY <2>4, <2>5 DEF Locals
  <2> QED BY <2>3, <2>7, <2>8
<1>7. Idle \in Locals /\ Idle.pc = "ready" /\ Idle.op = "none" /\ Idle.held = {}
  BY IdleType DEF Idle
<1>8. req = AllIdle \/ req = FirstIsForgotPurged
  BY DEF Init
<1>i. \A r \in Requests : req[r] = Idle \/ req[r] = ForgotPurged(r)
  BY <1>8 DEF AllIdle, FirstIsForgotPurged
<1>9. req \in [Requests -> Locals]
  BY <1>6, <1>7, <1>8 DEF AllIdle, FirstIsForgotPurged
<1>10. \A r \in Requests :
          /\ req[r].pc \in {"ready", "load"} /\ req[r].op \in {"none", "forgot"}
          /\ req[r].held = {}
          /\ req[r].pc = "load" => Exists(req[r].copy) /\ Asks(req[r].copy, 0)
  BY <1>6, <1>7, <1>i
<1>11. now = 0 /\ userLock = Nobody /\ issued = OldTokens /\ sweeps = 0 /\ mailed = {OldLink}
       /\ chain = [t \in Tokens |-> 0] /\ live \subseteq 1 .. OldTokens
  BY DEF Init
<1>12. OldTokens \in 0 .. Cardinality(Tokens) /\ 1 .. OldTokens \subseteq Tokens
  BY ConstantFacts, AccountAssumption DEF AccountAssumption
<1>13. TypeOK
  BY <1>2, <1>5, <1>9, <1>11, <1>12, ConstantFacts, LocalsType
<1>14. AllProper
  BY <1>10, <1>11 DEF AllProper, Proper, Placed, Checked, Drafted, Ascends, HasLock
<1>15. Located /\ Current /\ Seen
  BY <1>10, <1>11 DEF Located, Current, Seen, HasLock, At
<1>16. Counted
  <2>1. {r \in Requests : At(r, "end")} = {}
    BY <1>10 DEF At
  <2> QED BY <1>11, <2>1, FS_EmptySet, AccountAssumption DEF Counted, AccountAssumption
<1>17. HeldApart
  BY <1>10 DEF HeldApart, At
<1>18. SweptTokensStayDead
  BY <1>11, <1>12 DEF SweptTokensStayDead
<1> QED BY <1>13, <1>14, <1>15, <1>16, <1>17, <1>18 DEF Inv

LEMMA StepKeeps ==
    ASSUME Inv, NEW r \in Requests, Step(r)
    PROVE  Inv'
<1>1. CASE LockUser(r) \/ SweepBegin(r) \/ SweepNext(r) \/ SweepDone(r)
  BY <1>1, LockUserKeeps, SweepBeginKeeps, SweepNextKeeps, SweepDoneKeeps
<1>2. CASE FailLoginCommit(r)
  BY <1>2, LocalFacts, LedgerTypes, CommitKeeps DEF FailLoginCommit
<1>3. CASE RestoreCommit(r)
  BY <1>3, LocalFacts, LedgerTypes, CommitKeeps DEF RestoreCommit
<1>4. CASE LoginCommit(r) \/ LoginIssue(r) \/ RefreshLock(r) \/ RefreshInsert(r)
  BY <1>4, LoginCommitKeeps, LoginIssueKeeps, RefreshLockKeeps, RefreshInsertKeeps
<1>5. CASE SweepCommit(r) \/ LogoutAllCommit(r)
  BY <1>5, SweepCommitKeeps, LogoutAllCommitKeeps
<1>6. CASE ForgotLoad(r) \/ ForgotSave(r) \/ ForgotClear(r) \/ ForgotSaveClear(r)
  BY <1>6, ForgotLoadKeeps, ForgotSaveKeeps, ForgotClearKeeps, ForgotSaveClearKeeps
<1>7. CASE MailSent(r) \/ MailFails(r) \/ RegisterInsert(r)
  BY <1>7, MailSentKeeps, MailFailsKeeps, RegisterInsertKeeps
<1>8. CASE \/ RefuseLocked(r) \/ LoginIssueFails(r) \/ RefreshRefused(r)
           \/ SaveRefused(r) \/ RegisterConflict(r)
  <2>1. req[r].pc # "end" /\ Refuse(r)
    BY <1>8 DEF RefuseLocked, LoginIssueFails, RefreshRefused, SaveRefused, RegisterConflict, At
  <2> QED BY <2>1, RefuseKeeps
<1>9. CASE DeadlockVictim(r)
  <2>1. \E q : Waiting(r, q)
    BY <1>9 DEF DeadlockVictim, Cycles
  <2>2. req[r].pc # "end"
    BY <2>1 DEF Waiting, At
  <2> QED BY <1>9, <2>2, RefuseKeeps DEF DeadlockVictim
<1> QED BY <1>1, <1>2, <1>3, <1>4, <1>5, <1>6, <1>7, <1>8, <1>9 DEF Step

LEMMA Inductive == Spec => []Inv
<1>1. Inv /\ [Next]_vars => Inv'
  <2> SUFFICES ASSUME Inv, [Next]_vars PROVE Inv'
    OBVIOUS
  <2>1. ASSUME NEW r \in Requests, StartAny(r) PROVE Inv'
    BY <2>1, StartKeeps
  <2>2. ASSUME NEW r \in Requests, Step(r) PROVE Inv'
    BY <2>2, StepKeeps
  <2>3. ASSUME NEW r \in Requests, Fail(r) PROVE Inv'
    BY <2>3, RefuseKeeps DEF Fail
  <2>4. CASE Tick
    BY <2>4, TickKeeps
  <2>5. CASE UNCHANGED vars
    <3>1. /\ now' = now /\ row' = row /\ req' = req /\ userLock' = userLock
          /\ mailed' = mailed /\ live' = live /\ issued' = issued
          /\ chain' = chain /\ sweeps' = sweeps
      BY <2>5 DEF vars, tokenVars
    <3>2. AllProper' /\ TypeOK'
      BY <3>1 DEF Inv, AllProper, TypeOK
    <3>3. Located' /\ Current' /\ Counted' /\ HeldApart' /\ Seen' /\ SweptTokensStayDead'
      BY <3>1 DEF Inv, Located, Current, Counted, HeldApart, Seen, SweptTokensStayDead, At
    <3> QED BY <3>2, <3>3 DEF Inv
  <2> QED BY <2>1, <2>2, <2>3, <2>4, <2>5 DEF Next
<1> QED BY <1>1, Start, PTL DEF Spec

-----------------------------------------------------------------------------
(* Theorems *)

(* Every reachable state is one the model can be in: no more tokens than the
   requests can insert, no count of failed attempts past the lock.         *)
THEOREM TypeCorrect == Spec => []TypeOK
<1>1. Inv => TypeOK
  BY DEF Inv
<1> QED BY <1>1, Inductive, PTL

(* However rotations and logins run beside it, a sweep leaves no token alive
   whose login it could see.                                               *)
THEOREM SweepsAreFinal == Spec => []SweptTokensStayDead
<1>1. Inv => SweptTokensStayDead
  BY DEF Inv
<1> QED BY <1>1, Inductive, PTL

LEMMA SameUser ==
    ASSUME NEW u \in Users, NEW v \in Users, \A c \in Insert : u[c] = v[c]
    PROVE  u = v
<1>1. /\ u.id = v.id /\ u.password = v.password /\ u.failed = v.failed
      /\ u.lockedUntil = v.lockedUntil /\ u.link = v.link /\ u.linkUntil = v.linkUntil
      /\ u.deleted = v.deleted
  BY DEF Insert, Columns
<1> QED BY <1>1 DEF Users

(* A save of forgotPassword's entity that nobody overtook writes its link or nothing. *)
LEMMA DraftWritten ==
    ASSUME Inv, NEW r \in Requests, req[r].pc \in {"save", "saveClear"}, Save(r), ~Overtaken(r)
    PROVE  /\ Exists(row)
           /\ \/ row' = row
              \/ row' = [row EXCEPT !.link = req[r].copy.link,
                                    !.linkUntil = req[r].copy.linkUntil]
<1> DEFINE e == req[r].copy
           d == req[r].diff
           m == [c \in DOMAIN row |-> IF c \in d THEN e[c] ELSE row[c]]
           w == [row EXCEPT !.link = e.link, !.linkUntil = e.linkUntil]
<1>1. /\ e \in Users /\ row \in Users /\ Exists(e)
      /\ d = Insert \/ d \subseteq Columns
      /\ "link" \in d <=> "linkUntil" \in d
  BY LocalFacts DEF Proper, Drafted
<1>2. \A c \in {"password", "failed", "lockedUntil", "deleted", "id"} : e[c] = row[c]
  BY DEF Overtaken
<1>3. e.id = row.id /\ Exists(row)
  BY <1>1, <1>2 DEF Exists
<1>4. d # Insert
  BY <1>3 DEF Save
<1>5. row' = m
  BY <1>3, <1>4 DEF Save, Written
<1>6. DOMAIN row = Insert
  BY <1>1 DEF Users, Insert, Columns
<1>7. m \in Users
  BY <1>1, MixType
<1>8. w \in Users
  BY <1>1 DEF Users
<1>9. CASE "link" \in d
  <2>1. \A c \in Insert : m[c] = w[c]
    <3>1. \A c \in Insert \ {"link", "linkUntil"} : m[c] = row[c]
      BY <1>2, <1>6 DEF Insert, Columns
    <3>2. m.link = e.link /\ m.linkUntil = e.linkUntil
      BY <1>1, <1>6, <1>9 DEF Insert, Columns
    <3>3. \A c \in Insert \ {"link", "linkUntil"} : w[c] = row[c]
      BY <1>1, <1>6
    <3>4. w.link = e.link /\ w.linkUntil = e.linkUntil
      BY <1>6 DEF Insert, Columns
    <3> QED BY <3>1, <3>2, <3>3, <3>4
  <2>2. m = w
    <3> HIDE DEF m, w
    <3> QED BY <1>7, <1>8, <2>1, SameUser
  <2> QED BY <1>3, <1>5, <2>2
<1>10. CASE "link" \notin d
  <2>1. \A c \in Insert : m[c] = row[c]
    BY <1>1, <1>2, <1>6, <1>10 DEF Insert, Columns
  <2>2. m = row
    <3> HIDE DEF m
    <3> QED BY <1>1, <1>7, <2>1, SameUser
  <2> QED BY <1>3, <1>5, <2>2
<1> QED BY <1>9, <1>10

(* What a transaction that has the lock has read is the row. *)
LEMMA HolderReads ==
    ASSUME Inv, NEW r \in Requests
    PROVE  /\ Decide(r) => Exists(row) /\ req[r].copy = row
           /\ At(r, "commit") /\ req[r].op \in Sweepers =>
                 Checked(req[r]) /\ Exists(row) /\ req[r].copy = row
<1>1. ASSUME Decide(r) PROVE Exists(row) /\ req[r].copy = row
  <2>1. HasLock(req[r]) /\ Exists(req[r].copy)
    BY <1>1, LocalFacts
       DEF Decide, Allowed, Found, At, HasLock, Proper, Placed, LockOps, Sweepers
  <2> QED BY <2>1 DEF Inv, Current
<1>2. ASSUME At(r, "commit"), req[r].op \in Sweepers
      PROVE  Checked(req[r]) /\ Exists(row) /\ req[r].copy = row
  <2>1. HasLock(req[r]) /\ Checked(req[r]) /\ req[r].pc = "commit"
    BY <1>2, LocalFacts DEF At, HasLock, Proper, Sweepers
  <2>2. Exists(req[r].copy)
    BY <2>1 DEF Checked
  <2> QED BY <2>1, <2>2 DEF Inv, Current
<1> QED BY <1>1, <1>2

Follows == row' = row \/ Change \/ \E r \in Requests : Overtaken(r)

LEMMA SweepFollows ==
    ASSUME Inv, NEW r \in Requests, SweepCommit(r)
    PROVE  Change
<1> DEFINE l == req[r]
<1>1. l.op \in Sweepers /\ row' = SweptRow(r) /\ Checked(l) /\ Exists(row) /\ l.copy = row
      /\ HasLock(l) /\ l.pc = "commit"
  BY HolderReads DEF SweepCommit, At, HasLock, Sweepers
<1>2. l.guess \in Passwords /\ Placed(l)
  BY LocalFacts DEF Proper
<1>3. CASE l.op = "change"
  <2>1. row' = SetPassword(row, l.guess) /\ ~row.deleted /\ l.guess # row.password
    BY <1>1, <1>3 DEF SweptRow, Checked
  <2>2. ChangePassword
    BY <1>1, <1>2, <2>1 DEF ChangePassword, Available
  <2> QED BY <2>2 DEF Change
<1>4. CASE l.op = "reset"
  <2>1. row' = SetPasswordByLink(row, l.guess) /\ ~row.deleted /\ row.link = l.link
    BY <1>1, <1>4 DEF SweptRow, Checked
  <2>2. row.link # NoLink
    BY <1>2, <1>4, <2>1, ConstantFacts DEF Placed
  <2>3. ResetPassword
    BY <1>1, <1>2, <2>1, <2>2 DEF ResetPassword, Available
  <2> QED BY <2>3 DEF Change
<1>5. CASE l.op = "softDelete"
  <2>1. row' = SoftDeleted(row) /\ ~row.deleted
    BY <1>1, <1>5 DEF SweptRow, Checked
  <2>2. SoftDelete
    BY <1>1, <2>1 DEF SoftDelete, Available
  <2> QED BY <2>2 DEF Change
<1>6. CASE l.op = "remove"
  <2>1. row' = NoUser /\ row.deleted
    BY <1>1, <1>6 DEF SweptRow, Checked
  <2>2. Remove
    BY <1>1, <2>1 DEF Remove
  <2> QED BY <2>2 DEF Change
<1> QED BY <1>1, <1>3, <1>4, <1>5, <1>6 DEF Sweepers

LEMMA SaveFollows ==
    ASSUME Inv, NEW r \in Requests, ForgotSave(r) \/ ForgotSaveClear(r), ~Overtaken(r)
    PROVE  row' = row \/ Change
<1>1. req[r].pc \in {"save", "saveClear"} /\ Save(r)
  BY DEF ForgotSave, ForgotSaveClear, At
<1>2. /\ Exists(row)
      /\ \/ row' = row
         \/ row' = [row EXCEPT !.link = req[r].copy.link, !.linkUntil = req[r].copy.linkUntil]
  BY <1>1, DraftWritten
<1>3. CASE row' # row /\ req[r].pc = "save"
  <2>1. PICK t \in 0 .. now : req[r].copy.linkUntil = t + LinkTime
    BY <1>3, LocalFacts DEF Proper, Drafted, Asks
  <2>2. req[r].copy.link \in Links
    BY <1>3, LocalFacts DEF Proper, Drafted, Asks
  <2>3. row' = [row EXCEPT !.link = req[r].copy.link, !.linkUntil = t + LinkTime]
    BY <1>2, <1>3, <2>1
  <2>4. AskLink
    BY <1>2, <2>2, <2>3 DEF AskLink
  <2> QED BY <2>4 DEF Change
<1>4. CASE row' # row /\ req[r].pc = "saveClear"
  <2>1. req[r].copy.link = NoLink /\ req[r].copy.linkUntil = 0
    BY <1>4, LocalFacts DEF Proper, Drafted, Withdraws
  <2>2. row' = [row EXCEPT !.link = NoLink, !.linkUntil = 0]
    BY <1>2, <1>4, <2>1
  <2>3. WithdrawLink
    BY <1>2, <2>2 DEF WithdrawLink, ClearResetToken
  <2> QED BY <2>3 DEF Change
<1> QED BY <1>1, <1>3, <1>4

LEMMA StepFollows ==
    ASSUME Inv, NEW r \in Requests, Step(r)
    PROVE  Follows
<1>1. CASE FailLoginCommit(r) \/ LoginCommit(r) \/ RestoreCommit(r)
  <2>1. Decide(r) /\ Exists(row) /\ req[r].copy = row
    BY <1>1, HolderReads DEF FailLoginCommit, LoginCommit, RestoreCommit
  <2>2. CASE FailLoginCommit(r)
    <3>1. ~row.deleted /\ ~IsLocked(row) /\ row' = IncrementFailedAttempts(row)
      BY <2>1, <2>2 DEF FailLoginCommit, Commit, Decide, Allowed
    <3>2. FailLogin
      BY <2>1, <3>1 DEF FailLogin, Available
    <3> QED BY <3>2 DEF Follows, Change
  <2>3. CASE LoginCommit(r)
    <3>1. ~row.deleted /\ ~IsLocked(row) /\ row' = ResetFailedAttempts(row)
      BY <2>1, <2>3 DEF LoginCommit, Commit, Decide, Allowed
    <3>2. Login
      BY <2>1, <3>1 DEF Login, Available
    <3> QED BY <3>2 DEF Follows, Change
  <2>4. CASE RestoreCommit(r)
    <3>1. row.deleted /\ row' = Restored(row)
      BY <2>1, <2>4 DEF RestoreCommit, Commit, Decide, Allowed
    <3>2. Restore
      BY <2>1, <3>1 DEF Restore
    <3> QED BY <3>2 DEF Follows, Change
  <2> QED BY <1>1, <2>2, <2>3, <2>4
<1>2. CASE SweepCommit(r)
  BY <1>2, SweepFollows DEF Follows
<1>3. CASE ForgotSave(r) \/ ForgotSaveClear(r)
  BY <1>3, SaveFollows DEF Follows
<1>4. CASE RegisterInsert(r)
  <2>1. ~Exists(row) /\ req[r].guess \in Passwords
    BY <1>4, LocalFacts DEF RegisterInsert
  <2>2. PICK id \in 1 .. MaxUsers : row' = NewUser(id, req[r].guess)
    BY <1>4 DEF RegisterInsert
  <2>3. Register
    BY <2>1, <2>2 DEF Register
  <2> QED BY <2>3 DEF Follows, Change
<1>5. CASE row' = row
  BY <1>5 DEF Follows
<1>6. CASE LockUser(r) \/ LoginIssue(r) \/ SweepBegin(r) \/ SweepNext(r) \/ SweepDone(r)
  BY <1>5, <1>6 DEF LockUser, LoginIssue, SweepBegin, SweepNext, SweepDone
<1>7. CASE LogoutAllCommit(r) \/ RefreshLock(r) \/ RefreshInsert(r) \/ ForgotLoad(r)
           \/ ForgotClear(r) \/ MailSent(r) \/ MailFails(r)
  BY <1>5, <1>7
     DEF LogoutAllCommit, RefreshLock, RefreshInsert, ForgotLoad, ForgotClear, Load,
         MailSent, MailFails
<1>8. CASE \/ RefuseLocked(r) \/ LoginIssueFails(r) \/ RefreshRefused(r)
           \/ SaveRefused(r) \/ RegisterConflict(r) \/ DeadlockVictim(r)
  BY <1>5, <1>8
     DEF RefuseLocked, LoginIssueFails, RefreshRefused, SaveRefused, RegisterConflict,
         DeadlockVictim, Refuse
<1> QED BY <1>1, <1>2, <1>3, <1>4, <1>6, <1>7, <1>8 DEF Step

(* Whatever the interleaving, each commit changes the row as one operation of
   the account changes it, but for a forgotPassword that was overtaken.     *)
THEOREM LedgerKept == Spec => RowFollowsLedger
<1>1. Inv /\ [Next]_vars => Follows
  <2> SUFFICES ASSUME Inv, [Next]_vars PROVE Follows
    OBVIOUS
  <2>1. ASSUME NEW r \in Requests, StartAny(r) PROVE row' = row
    BY <2>1 DEF StartAny, StartLogin, StartChange, StartReset, StartAdmin, StartRefresh,
                StartLogoutAll, StartForgot, StartRegister, Begin
  <2>2. ASSUME NEW r \in Requests, Step(r) PROVE Follows
    BY <2>2, StepFollows
  <2>3. ASSUME NEW r \in Requests, Fail(r) PROVE row' = row
    BY <2>3 DEF Fail, Refuse
  <2>4. CASE Tick
    BY <2>4 DEF Tick, Follows
  <2>5. CASE UNCHANGED vars
    BY <2>5 DEF vars, Follows
  <2> QED BY <2>1, <2>2, <2>3, <2>4, <2>5 DEF Next, Follows
<1>2. Follows => [Change \/ \E r \in Requests : Overtaken(r)]_row
  BY DEF Follows
<1>3. Inv /\ [Next]_vars => [Change \/ \E r \in Requests : Overtaken(r)]_row
  BY <1>1, <1>2
<1> QED BY <1>3, Inductive, PTL DEF Spec, RowFollowsLedger

-----------------------------------------------------------------------------
(* Waiting *)

Rotating(r) == req[r].op = "refresh" /\ At(r, "insert")

(* Who waits, waits for a request that holds something; unless that one is
   rotating or done waiting, it is an UPDATE on its way to a later token.   *)
LEMMA WaitedFor ==
    ASSUME Inv, NEW r \in Requests, NEW q \in Requests, NEW p, Waiting(r, q), Waiting(q, p),
           ~Rotating(r), ~Rotating(q)
    PROVE  At(q, "update") /\ req[q].scan # {}
<1>1. Placed(req[r]) /\ Placed(req[q])
  BY LocalFacts DEF Proper
<1>2. req[q].pc \in {"lock", "issue", "insert", "save", "saveClear", "token", "update"}
  BY DEF Waiting, At
<1>3. req[q].pc # "insert"
  BY <1>1 DEF Placed, Rotating, At
<1>4. req[q].pc = "update" \/ req[q].held # {} \/ userLock = q
  BY DEF Waiting
<1>5. userLock = q => req[q].pc \in {"decide", "update", "commit"}
  BY ConstantFacts DEF Inv, Located, HasLock
<1>6. req[q].held # {} => req[q].pc \in {"update", "commit", "insert"}
  BY <1>1 DEF Placed
<1>7. req[q].pc = "update"
  BY <1>2, <1>3, <1>4, <1>5, <1>6
<1> QED BY <1>7 DEF Waiting, At

(* An UPDATE that waits for another has come less far in the tokens. *)
LEMMA WaitsAhead ==
    ASSUME Inv, NEW r \in Requests, NEW q \in Requests, At(r, "update"), At(q, "update"),
           Waiting(r, q), NEW s \in req[r].scan, \A o \in req[r].scan : s <= o,
           NEW t \in req[q].scan
    PROVE  s < t
<1>1. PICK h \in req[r].scan \cap req[q].held : \A o \in req[r].scan : h <= o
  BY DEF Waiting, At
<1>2. req[r].scan \subseteq Nat /\ req[q].scan \subseteq Nat
  BY LocalFacts, ConstantFacts
<1>3. s = h
  BY <1>1, <1>2
<1>4. h < t
  BY <1>1, LocalFacts DEF Proper, Ascends, At
<1> QED BY <1>3, <1>4

(* Two requests that wait for one another never both took the account's row
   first: in every circle there is a rotation that holds its token.         *)
THEOREM RotationsAlone == Spec => []DeadlocksNeedRefresh
<1>1. ASSUME Inv PROVE DeadlocksNeedRefresh
  <2> SUFFICES ASSUME NEW C \in Cycles, \A r \in C : ~Rotating(r)
               PROVE  FALSE
    BY DEF DeadlocksNeedRefresh, Rotating
  <2>1. C \subseteq Requests /\ C # {} /\ \A r \in C : \E q \in C : Waiting(r, q)
    BY DEF Cycles
  <2> DEFINE M == {r \in C : At(r, "update") /\ req[r].scan # {}}
             First(r, s) == s \in req[r].scan /\ \A o \in req[r].scan : s <= o
             F == {s \in Tokens : \E r \in M : First(r, s)}
  <2>2. \A r \in C : \E q \in M : Waiting(r, q)
    <3> TAKE r \in C
    <3>1. PICK q \in C : Waiting(r, q)
      BY <2>1
    <3>2. PICK p \in C : Waiting(q, p)
      BY <2>1
    <3>3. At(q, "update") /\ req[q].scan # {}
      BY <1>1, <2>1, <3>1, <3>2, WaitedFor
    <3> QED BY <3>1, <3>3
  <2>3. \A r \in M : \E s \in F : First(r, s)
    <3> TAKE r \in M
    <3>1. req[r].scan \subseteq Tokens /\ req[r].scan # {} /\ Tokens \subseteq Nat
      BY <1>1, <2>1, LocalFacts, ConstantFacts
    <3>2. \E s \in req[r].scan : \A o \in req[r].scan : s <= o
      BY <3>1, Smallest
    <3> QED BY <3>1, <3>2
  <2>4. F # {} /\ F \subseteq 0 .. Cardinality(Tokens) /\ Cardinality(Tokens) \in Nat
    <3>1. Cardinality(Tokens) \in Nat
      BY ConstantFacts, AccountAssumption DEF AccountAssumption
    <3>2. F \subseteq 0 .. Cardinality(Tokens)
      BY <3>1, ConstantFacts
    <3> HIDE DEF F
    <3> QED BY <2>1, <2>2, <2>3, <3>1, <3>2
  <2>5. PICK s \in F : \A o \in F : o <= s
    <3> HIDE DEF F
    <3> QED BY <2>4, Largest
  <2>6. PICK r \in M : First(r, s)
    OBVIOUS
  <2>7. PICK q \in M : Waiting(r, q)
    BY <2>2
  <2>8. PICK t \in F : First(q, t)
    BY <2>3
  <2>9. s < t
    BY <1>1, <2>1, <2>6, <2>7, <2>8, WaitsAhead
  <2>10. t <= s /\ s \in Nat /\ t \in Nat
    BY <2>4, <2>5
  <2> QED BY <2>9, <2>10
<1> QED BY <1>1, Inductive, PTL
=============================================================================
