--------------------------- MODULE SessionLedger ---------------------------
(***************************************************************************)
(* What auth.service.ts promises about the refresh tokens of a user's      *)
(* sessions, without requests, limits or failures.                         *)
(*                                                                         *)
(* A session begins once, with one token, and from then on has at most one *)
(* that PostgreSQL takes: a rotation replaces it, and once it is revoked   *)
(* the session never has another.  Redis is told of each new token by an   *)
(* offer made together with its row.  An offer is taken at most once, and  *)
(* only while the key still holds what the new token replaced; the first   *)
(* one opens the key, and a key that was closed stays closed.              *)
(***************************************************************************)
CONSTANTS Sessions, NoSession, Tokens, NoToken

VARIABLES
    tokenSession,  \* the session of each token, NoSession if never used
    active,        \* tokens that PostgreSQL takes
    session,       \* the token each session's key in Redis holds
    offers         \* changes of keys that are under way

ledgerVars == <<tokenSession, active, session, offers>>

Offer(s, old, new) == [session |-> s, old |-> old, new |-> new]

Begun(s) == \E t \in Tokens : tokenSession[t] = s

LedgerInit ==
    /\ tokenSession = [t \in Tokens |-> NoSession]
    /\ active = {}
    /\ session = [s \in Sessions |-> NoToken]
    /\ offers = {}

(* A new token t of session s, in place of those of the set given. *)
Grant(s, t, replaced) ==
    /\ tokenSession[t] = NoSession
    /\ tokenSession' = [tokenSession EXCEPT ![t] = s]
    /\ active' = (active \ replaced) \cup {t}

Begin(s, t) ==
    /\ ~Begun(s)
    /\ Grant(s, t, {})
    /\ offers' = offers \cup {Offer(s, NoToken, t)}
    /\ UNCHANGED session

Rotate(old, new) ==
    /\ old \in active
    /\ Grant(tokenSession[old], new, {old})
    /\ offers' = offers \cup {Offer(tokenSession[old], old, new)}
    /\ UNCHANGED session

Revoke(T) ==
    /\ active' = active \ T
    /\ UNCHANGED <<tokenSession, session, offers>>

Take(o) ==
    /\ session[o.session] = o.old
    /\ session' = [session EXCEPT ![o.session] = o.new]
    /\ offers' = offers \ {o}
    /\ UNCHANGED <<tokenSession, active>>

Withdraw(o) ==
    /\ offers' = offers \ {o}
    /\ UNCHANGED <<tokenSession, active, session>>

(* Sessions end, or their keys expire. *)
Close(S) ==
    /\ session' = [s \in Sessions |-> IF s \in S THEN NoToken ELSE session[s]]
    /\ UNCHANGED <<tokenSession, active, offers>>

LedgerNext ==
    \/ \E s \in Sessions, t \in Tokens : Begin(s, t)
    \/ \E old, new \in Tokens : Rotate(old, new)
    \/ \E T \in SUBSET Tokens : Revoke(T)
    \/ \E o \in offers : Take(o) \/ Withdraw(o)
    \/ \E S \in SUBSET Sessions : Close(S)

LedgerSpec == LedgerInit /\ [][LedgerNext]_ledgerVars
=============================================================================
