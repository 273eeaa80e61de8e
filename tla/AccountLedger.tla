---------------------------- MODULE AccountLedger ----------------------------
(***************************************************************************)
(* One account (one e-mail address) as the users table should keep it: the *)
(* User entity's methods, and the changes an account may go through, each  *)
(* one atomic and made to the row as it is at that moment.  UserAccount    *)
(* shows which of the service's transactions live up to it.                *)
(***************************************************************************)
EXTENDS Integers

CONSTANTS Passwords,   \* passwords, standing for their hashes
          Links,       \* reset tokens
          MaxUsers,    \* bound: users registered with the address, one by one
          MaxAttempts, \* auth.rateLimit.loginAttempts
          LockTime,    \* auth.rateLimit.blockDuration, in clock ticks
          LinkTime,    \* life of a reset token (one hour), in clock ticks
          MaxTime      \* bound on the clock

ASSUME LedgerAssumption ==
    /\ Passwords # {}
    /\ 0 \notin Links
    /\ MaxUsers \in Nat \ {0}
    /\ MaxAttempts \in Nat \ {0}
    /\ LockTime \in Nat \ {0}
    /\ LinkTime \in Nat \ {0}
    /\ MaxTime \in Nat

VARIABLES row,  \* the account's row
          now   \* the clock

NoLink == 0

(* A null lockedUntil or resetPasswordExpires is the time 0.               *)
Users == [id : 0 .. MaxUsers,
          password : Passwords,
          failed : 0 .. MaxAttempts - 1,
          lockedUntil : 0 .. MaxTime + LockTime,
          link : Links \cup {NoLink},
          linkUntil : 0 .. MaxTime + LinkTime,
          deleted : BOOLEAN]

NewUser(id, password) ==
    [id |-> id, password |-> password, failed |-> 0, lockedUntil |-> 0,
     link |-> NoLink, linkUntil |-> 0, deleted |-> FALSE]

(* No row: the id 0, which no user has.                                    *)
NoUser == NewUser(0, CHOOSE p \in Passwords : TRUE)

Exists(u) == u.id # 0
Available(u) == Exists(u) /\ ~u.deleted

-----------------------------------------------------------------------------
(* User's methods *)

IsLocked(u) == u.lockedUntil > now

LockAccountKeepingCount(u) ==
    [u EXCEPT !.lockedUntil = now + LockTime, !.failed = @ + 1]

LockAccount(u) == [u EXCEPT !.lockedUntil = now + LockTime, !.failed = 0]

IncrementFailedAttempts(u) ==
    IF u.failed + 1 >= MaxAttempts
    THEN LockAccount(u)
    ELSE [u EXCEPT !.failed = @ + 1]

ResetFailedAttempts(u) == [u EXCEPT !.failed = 0, !.lockedUntil = 0]

SetResetToken(u, l) == [u EXCEPT !.link = l, !.linkUntil = now + LinkTime]

ClearResetToken(u) == [u EXCEPT !.link = NoLink, !.linkUntil = 0]

IsResetTokenValid(u, l) == u.link = l /\ u.linkUntil > now

SetPassword(u, p) == [ResetFailedAttempts(u) EXCEPT !.password = p]

SetPasswordByLink(u, p) == ClearResetToken(SetPassword(u, p))

SoftDeleted(u) == [u EXCEPT !.deleted = TRUE]

Restored(u) == [u EXCEPT !.deleted = FALSE]

-----------------------------------------------------------------------------
(* The changes an account may go through *)

Register ==
    ~Exists(row) /\ \E id \in 1 .. MaxUsers, p \in Passwords : row' = NewUser(id, p)

FailLogin == Available(row) /\ ~IsLocked(row) /\ row' = IncrementFailedAttempts(row)

Login == Available(row) /\ ~IsLocked(row) /\ row' = ResetFailedAttempts(row)

ChangePassword ==
    /\ Available(row)
    /\ \E p \in Passwords \ {row.password} : row' = SetPassword(row, p)

(* The link's hour begins when the request made it, before it was saved.   *)
AskLink ==
    /\ Exists(row)
    /\ \E l \in Links, t \in 0 .. now :
        row' = [row EXCEPT !.link = l, !.linkUntil = t + LinkTime]

WithdrawLink == Exists(row) /\ row' = ClearResetToken(row)

(* The link was valid when the row was locked; it may expire before commit. *)
ResetPassword ==
    /\ Available(row)
    /\ row.link # NoLink
    /\ \E p \in Passwords : row' = SetPasswordByLink(row, p)

SoftDelete == Available(row) /\ row' = SoftDeleted(row)

Restore == Exists(row) /\ row.deleted /\ row' = Restored(row)

Remove == Exists(row) /\ row.deleted /\ row' = NoUser

Change ==
    \/ Register
    \/ FailLogin
    \/ Login
    \/ ChangePassword
    \/ AskLink
    \/ WithdrawLink
    \/ ResetPassword
    \/ SoftDelete
    \/ Restore
    \/ Remove

=============================================================================
