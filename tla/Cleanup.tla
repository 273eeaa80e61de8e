------------------------------ MODULE Cleanup ------------------------------
(***************************************************************************)
(* The nightly job of cleanup.service.ts on several replicas, with the     *)
(* batch loops of containers.service.ts and items.service.ts it calls,     *)
(* beside users who delete and restore containers and items.               *)
(*                                                                         *)
(* A job holds a PostgreSQL advisory lock on one connection and works on   *)
(* others, so losing that connection frees the lock and not the job.  It   *)
(* reads a batch of expired rows, then purges them one transaction each:   *)
(* between the read and a purge anybody may change the row.                *)
(*                                                                         *)
(* Times are PostgreSQL timestamps (microseconds); Fine of them make one   *)
(* millisecond, the resolution of a JavaScript Date: a deletedAt that goes *)
(* through the program comes back rounded down to the millisecond.         *)
(***************************************************************************)
EXTENDS Integers, FiniteSets

CONSTANTS Replicas,
          NoReplica,
          Containers,  \* container ids, in the order the database sorts them
          Items,       \* item ids, likewise
          Home,        \* Home[i]: the container of item i
          BatchSize,   \* rows read at once
          Fine,        \* database time units in a millisecond
          Retention,   \* both retention periods, in time units
          MaxTime,     \* bound: the last instant
          MaxFaults,   \* bound: failed statements, lost connections, crashes
          Broken       \* containers whose DELETE exceeds statement_timeout

ASSUME CleanupAssumption ==
    /\ NoReplica \notin Replicas
    /\ IsFiniteSet(Containers) /\ Containers \subseteq Nat \ {0}
    /\ IsFiniteSet(Items) /\ Items \subseteq Nat \ {0}
    /\ Home \in [Items -> Containers]
    /\ BatchSize \in Nat \ {0}
    /\ Fine \in Nat \ {0}
    /\ Retention \in Nat \ {0}
    /\ MaxTime \in Nat
    /\ MaxFaults \in Nat
    /\ Broken \subseteq Containers

VARIABLES
    now,             \* the clock of the database and of the replicas
    containerState,  \* "live", "deleted" or "purged"
    containerAt,     \* Container.deletedAt
    itemState,       \* "live", "deleted" or "purged"
    itemAt,          \* Item.deletedAt
    flagged,         \* items with deletedByContainer = true
    lock,            \* the replica whose connection holds the advisory lock
    pooled,          \* that connection went back to the pool with the lock
    job,             \* local state of the job of each replica
    faults,          \* failures so far
    lost             \* history: a job lost the connection of its lock

rowVars == <<containerState, containerAt, itemState, itemAt, flagged>>
lockVars == <<lock, pooled, lost>>
vars == <<now, rowVars, lockVars, job, faults>>

Times == 0 .. MaxTime
RowStates == {"live", "deleted", "purged"}
Steps == {"off", "lock", "containers", "purgeContainers",
          "items", "purgeItems", "unlock"}

Keys(ids) == Times \X ids
NoCursor == <<-1, 0>>  \* before every row
NoCutoff == -Retention - Fine

Jobs == [pc : Steps,
         cutoff : Int,
         batch : SUBSET (Keys(Containers) \cup Keys(Items)),
         cursor : Keys(Containers) \cup {NoCursor},
         purged : BOOLEAN,          \* deletedInBatch > 0
         tried : SUBSET Containers]  \* history: containers this run went over

Off == [pc |-> "off", cutoff |-> NoCutoff, batch |-> {}, cursor |-> NoCursor,
        purged |-> FALSE, tried |-> {}]

TypeOK ==
    /\ now \in Times
    /\ containerState \in [Containers -> RowStates]
    /\ containerAt \in [Containers -> Times]
    /\ itemState \in [Items -> RowStates]
    /\ itemAt \in [Items -> Times]
    /\ flagged \subseteq Items
    /\ lock \in Replicas \cup {NoReplica}
    /\ pooled \in BOOLEAN
    /\ job \in [Replicas -> Jobs]
    /\ faults \in 0 .. MaxFaults
    /\ lost \in BOOLEAN

Init ==
    /\ now = 0
    /\ containerState = [c \in Containers |-> "live"]
    /\ containerAt = [c \in Containers |-> 0]
    /\ itemState = [i \in Items |-> "live"]
    /\ itemAt = [i \in Items |-> 0]
    /\ flagged = {}
    /\ lock = NoReplica
    /\ pooled = FALSE
    /\ job = [p \in Replicas |-> Off]
    /\ faults = 0
    /\ lost = FALSE

-----------------------------------------------------------------------------
(* The requests of users: one transaction each (see Inventory) *)

Contents(c, state) == {i \in Items : Home[i] = c /\ itemState[i] = state}

SoftDeleteContainer(c) ==
    /\ containerState[c] = "live"
    /\ containerState' = [containerState EXCEPT ![c] = "deleted"]
    /\ containerAt' = [containerAt EXCEPT ![c] = now]
    /\ itemState' = [i \in Items |-> IF i \in Contents(c, "live") THEN "deleted"
                                                                ELSE itemState[i]]
    /\ itemAt' = [i \in Items |-> IF i \in Contents(c, "live") THEN now
                                                             ELSE itemAt[i]]
    /\ flagged' = flagged \cup Contents(c, "live")

RestoreContainer(c) ==
    LET back == Contents(c, "deleted") \cap flagged IN
    /\ containerState[c] = "deleted"
    /\ containerState' = [containerState EXCEPT ![c] = "live"]
    /\ containerAt' = [containerAt EXCEPT ![c] = 0]
    /\ itemState' = [i \in Items |-> IF i \in back THEN "live" ELSE itemState[i]]
    /\ itemAt' = [i \in Items |-> IF i \in back THEN 0 ELSE itemAt[i]]
    /\ flagged' = flagged \ back

SoftDeleteItem(i) ==
    /\ itemState[i] = "live"
    /\ itemState' = [itemState EXCEPT ![i] = "deleted"]
    /\ itemAt' = [itemAt EXCEPT ![i] = now]
    /\ flagged' = flagged \ {i}
    /\ UNCHANGED <<containerState, containerAt>>

RestoreItem(i) ==
    /\ itemState[i] = "deleted"
    /\ i \notin flagged
    /\ containerState[Home[i]] = "live"
    /\ itemState' = [itemState EXCEPT ![i] = "live"]
    /\ itemAt' = [itemAt EXCEPT ![i] = 0]
    /\ UNCHANGED <<containerState, containerAt, flagged>>

(* Mutant: the row is not looked at again under its lock. *)
ContainerPurgeableBlind(c) == containerState[c] # "purged"

(* What permanentDelete requires of the locked row. *)
ContainerPurgeable(c) == containerState[c] = "deleted"
ItemPurgeable(i) == itemState[i] = "deleted" /\ i \notin flagged

(* permanentDelete of a container takes its item rows with it. *)
DropContainer(c) ==
    LET rows == Contents(c, "live") \cup Contents(c, "deleted") IN
    /\ containerState' = [containerState EXCEPT ![c] = "purged"]
    /\ containerAt' = [containerAt EXCEPT ![c] = 0]
    /\ itemState' = [i \in Items |-> IF i \in rows THEN "purged" ELSE itemState[i]]
    /\ itemAt' = [i \in Items |-> IF i \in rows THEN 0 ELSE itemAt[i]]
    /\ flagged' = flagged \ rows

DropItem(i) ==
    /\ itemState' = [itemState EXCEPT ![i] = "purged"]
    /\ itemAt' = [itemAt EXCEPT ![i] = 0]
    /\ UNCHANGED <<containerState, containerAt, flagged>>

UserStep ==
    /\ \/ \E c \in Containers :
             \/ SoftDeleteContainer(c)
             \/ RestoreContainer(c)
             \/ ContainerPurgeable(c) /\ c \notin Broken /\ DropContainer(c)
       \/ \E i \in Items :
             \/ SoftDeleteItem(i)
             \/ RestoreItem(i)
             \/ ItemPurgeable(i) /\ DropItem(i)
    /\ UNCHANGED <<now, lockVars, job, faults>>

-----------------------------------------------------------------------------
(* The job *)

At(p, pc) == job[p].pc = pc
To(p, pc) == [job[p] EXCEPT !.pc = pc]
Continue(p, locals) == job' = [job EXCEPT ![p] = locals]
Fail == faults < MaxFaults /\ faults' = faults + 1

Millis(t) == t - (t % Fine)
Cutoff == Millis(now) - Retention

(* ORDER BY deletedAt, id; take the first n. *)
Precedes(k, l) == k[1] < l[1] \/ (k[1] = l[1] /\ k[2] < l[2])
FirstKeys(S, n) == {k \in S : Cardinality({l \in S : Precedes(l, k)}) < n}
Foremost(S, k) == k \in S /\ \A l \in S : ~Precedes(l, k)

(* Mutant: the cursor is the time alone. *)
BeyondTime(k, cursor) == k[1] > cursor[1]

Beyond(k, cursor) == Precedes(cursor, k)

ExpiredContainers(cutoff) ==
    {k \in Keys(Containers) : /\ containerState[k[2]] = "deleted"
                              /\ containerAt[k[2]] = k[1]
                              /\ k[1] < cutoff}

ExpiredItems(cutoff) ==
    {k \in Keys(Items) : /\ itemState[k[2]] = "deleted"
                         /\ k[2] \notin flagged
                         /\ itemAt[k[2]] = k[1]
                         /\ k[1] < cutoff}

(* The schedule fires; a replica whose job still runs skips it. *)
Trigger(p) ==
    /\ At(p, "off")
    /\ Continue(p, [Off EXCEPT !.pc = "lock"])
    /\ UNCHANGED <<now, rowVars, lockVars, faults>>

(* Mutant: the answer of pg_try_advisory_lock is not looked at. *)
TryLockBlind(p) ==
    /\ At(p, "lock")
    /\ lock' = IF lock = NoReplica THEN p ELSE lock
    /\ Continue(p, [To(p, "containers") EXCEPT !.cutoff = Cutoff])
    /\ UNCHANGED <<now, rowVars, pooled, lost, faults>>

(* pg_try_advisory_lock.  A connection that took the lock back to the pool
   may be the one this job was given; then the lock nests.  A query that times
   out may have taken the lock: the connection goes back to the pool with it. *)
TryLock(p) ==
    /\ At(p, "lock")
    /\ \/ /\ lock = NoReplica \/ (lock = p /\ pooled)
          /\ lock' = p
          /\ Continue(p, [To(p, "containers") EXCEPT !.cutoff = Cutoff])
          /\ UNCHANGED <<pooled, faults>>
       \/ /\ lock # NoReplica
          /\ Continue(p, Off)
          /\ UNCHANGED <<lock, pooled, faults>>
       \/ Continue(p, Off) /\ Fail /\ UNCHANGED <<lock, pooled>>
       \/ /\ lock = NoReplica
          /\ lock' = p
          /\ pooled' = TRUE
          /\ Continue(p, Off)
          /\ Fail
    /\ UNCHANGED <<now, rowVars, lost>>

StartItems(p) ==
    Continue(p, [To(p, "items") EXCEPT !.cutoff = Cutoff, !.cursor = NoCursor])

(* cleanupExpiredContainers: the next batch, or the end of the loop.  A query
   that fails ends the loop too.                                           *)
ReadContainers(p) ==
    LET rows == {k \in ExpiredContainers(job[p].cutoff) : Beyond(k, job[p].cursor)}
    IN  /\ At(p, "containers")
        /\ \/ /\ rows = {}
              /\ StartItems(p)
              /\ UNCHANGED faults
           \/ /\ rows # {}
              /\ Continue(p, [To(p, "purgeContainers")
                                 EXCEPT !.batch = FirstKeys(rows, BatchSize)])
              /\ UNCHANGED faults
           \/ StartItems(p) /\ Fail
        /\ UNCHANGED <<now, rowVars, lockVars>>

(* Mutant: a row that may not be purged is tried again. *)
AfterTryRetrying(p, k) ==
    IF ~ContainerPurgeable(k[2]) THEN job[p]
    ELSE [job[p] EXCEPT !.pc = IF job[p].batch = {k} THEN "containers" ELSE @,
                        !.batch = @ \ {k},
                        !.cursor = <<Millis(k[1]), k[2]>>,
                        !.tried = @ \cup {k[2]}]

(* The cursor is the deletedAt and id of the last row of the batch, as a
   Date and a string.                                                      *)
AfterTry(p, k) ==
    [job[p] EXCEPT !.pc = IF job[p].batch = {k} THEN "containers" ELSE @,
                   !.batch = @ \ {k},
                   !.cursor = <<Millis(k[1]), k[2]>>,
                   !.tried = @ \cup {k[2]}]

(* permanentDelete of the next row; one that throws is counted and skipped,
   also when only the answer to its COMMIT was lost.                       *)
PurgeContainer(p) ==
    /\ At(p, "purgeContainers")
    /\ \E k \in Keys(Containers) :
          /\ Foremost(job[p].batch, k)
          /\ \/ /\ ContainerPurgeable(k[2])
                /\ k[2] \notin Broken
                /\ DropContainer(k[2])
                /\ UNCHANGED faults \/ Fail
             \/ /\ ~ContainerPurgeable(k[2]) \/ k[2] \in Broken
                /\ UNCHANGED <<rowVars, faults>>
             \/ Fail /\ UNCHANGED rowVars
          /\ Continue(p, AfterTry(p, k))
    /\ UNCHANGED <<now, lockVars>>

(* cleanupExpiredItems: no cursor; a batch of which nothing could be deleted
   ends the loop.                                                          *)
ReadItems(p) ==
    LET rows == ExpiredItems(job[p].cutoff) IN
    /\ At(p, "items")
    /\ \/ rows = {} /\ Continue(p, To(p, "unlock")) /\ UNCHANGED faults
       \/ /\ rows # {}
          /\ Continue(p, [To(p, "purgeItems") EXCEPT !.purged = FALSE,
                             !.batch = FirstKeys(rows, BatchSize)])
          /\ UNCHANGED faults
       \/ Continue(p, To(p, "unlock")) /\ Fail
    /\ UNCHANGED <<now, rowVars, lockVars>>

AfterBatch(purged) == IF purged THEN "items" ELSE "unlock"

PurgeItem(p) ==
    /\ At(p, "purgeItems")
    /\ \E k \in Keys(Items), gone \in BOOLEAN :
          /\ Foremost(job[p].batch, k)
          /\ \/ gone /\ ItemPurgeable(k[2]) /\ DropItem(k[2]) /\ UNCHANGED faults
             \/ ~gone /\ ~ItemPurgeable(k[2]) /\ UNCHANGED <<rowVars, faults>>
             \/ ~gone /\ Fail /\ UNCHANGED rowVars
             \/ ~gone /\ Fail /\ ItemPurgeable(k[2]) /\ DropItem(k[2])
          /\ Continue(p,
                [job[p] EXCEPT
                    !.pc = IF job[p].batch = {k}
                             THEN AfterBatch(job[p].purged \/ gone) ELSE @,
                    !.batch = @ \ {k},
                    !.purged = @ \/ gone])
    /\ UNCHANGED <<now, lockVars>>

(* Mutant: the connection is released, the lock is not. *)
UnlockForgotten(p) ==
    /\ At(p, "unlock")
    /\ Continue(p, Off)
    /\ UNCHANGED <<now, rowVars, lockVars, faults>>

(* The finally blocks: pg_advisory_unlock, then release of the connection.
   An unlock that fails leaves the lock with a connection of the pool.     *)
Unlock(p) ==
    /\ At(p, "unlock")
    /\ \/ /\ lock' = IF lock = p /\ ~pooled THEN NoReplica ELSE lock
          /\ UNCHANGED <<pooled, faults>>
       \/ /\ lock = p
          /\ pooled' = TRUE
          /\ Fail
          /\ UNCHANGED lock
    /\ Continue(p, Off)
    /\ UNCHANGED <<now, rowVars, lost>>

JobStep(p) ==
    \/ TryLock(p) \/ ReadContainers(p) \/ PurgeContainer(p)
    \/ ReadItems(p) \/ PurgeItem(p) \/ Unlock(p)

-----------------------------------------------------------------------------
(* The environment *)

Running(p) == job[p].pc \notin {"off", "lock"}

Tick ==
    /\ now < MaxTime
    /\ now' = now + 1
    /\ UNCHANGED <<rowVars, lockVars, job, faults>>

(* The connection of the lock ends and the server frees it: while the job
   runs, or once it idles in the pool.                                     *)
LoseConnection(p) ==
    /\ lock = p
    /\ Running(p)
    /\ Fail
    /\ lock' = NoReplica
    /\ pooled' = FALSE
    /\ lost' = TRUE
    /\ UNCHANGED <<now, rowVars, job>>

IdleTimeout ==
    /\ lock # NoReplica
    /\ pooled
    /\ ~Running(lock)
    /\ lock' = NoReplica
    /\ pooled' = FALSE
    /\ UNCHANGED <<now, rowVars, lost, job, faults>>

(* The process of a replica dies and starts again. *)
Crash(p) ==
    /\ Fail
    /\ Continue(p, Off)
    /\ lock' = IF lock = p THEN NoReplica ELSE lock
    /\ pooled' = (pooled /\ lock # p)
    /\ UNCHANGED <<now, rowVars, lost>>

Next ==
    \/ UserStep
    \/ \E p \in Replicas : Trigger(p) \/ JobStep(p) \/ LoseConnection(p) \/ Crash(p)
    \/ IdleTimeout
    \/ Tick

Spec == Init /\ [][Next]_vars

(* The event loop runs a job that waits for an answer, the schedule fires
   every night, time passes, and the pool closes connections that idle.    *)
Fairness ==
    /\ \A p \in Replicas : WF_vars(JobStep(p)) /\ WF_vars(Trigger(p))
    /\ WF_vars(IdleTimeout)
    /\ WF_vars(Tick)

FairSpec == Spec /\ Fairness
-----------------------------------------------------------------------------
(* Properties *)

(* The advisory lock does its work as long as its connections live: a job
   past the lock holds it, so two replicas never clean up at once
   (cleanup.service.ts, tryAcquireCleanupLock).                            *)
RunsHoldTheLock == ~lost => \A p \in Replicas : Running(p) => lock = p

(* A live row is never purged, neither by itself nor with its container,
   even when it was restored after a job read it as expired
   (permanentDelete looks again under the row lock).                       *)
LiveRowsSurvive ==
    [][/\ \A c \in Containers :
             containerState[c] = "live" => containerState'[c] # "purged"
       /\ \A i \in Items : itemState[i] = "live" => itemState'[i] # "purged"]_vars

(* The cursor skips nothing: when the container loop of a run ends because
   a batch was empty, every container still expired has been tried in this
   run, whatever was deleted, restored or purged meanwhile
   (containers.service.ts, cleanupExpiredContainers).                      *)
NoneSkipped ==
    \A p \in Replicas :
        LET expired == ExpiredContainers(job[p].cutoff) IN
        At(p, "containers") /\ (\A k \in expired : ~Beyond(k, job[p].cursor)) =>
            \A k \in expired : k[2] \in job[p].tried

(* Every run ends, and so gives the lock back before the next night. *)
RunsEnd == \A p \in Replicas : Running(p) ~> ~Running(p)

(* Retention is enforced: no container stays expired for ever, and no item
   that was deleted on its own, whatever jobs fail, overlap or die.        *)
NothingStaysExpired ==
    /\ \A c \in Containers :
          ~<>[](\E k \in ExpiredContainers(Cutoff) : k[2] = c)
    /\ \A i \in Items : ~<>[](\E k \in ExpiredItems(Cutoff) : k[2] = i)

(* containers.service.spec.ts, "queries containers older than the retention
   cutoff": what the job purges by itself is older than its cutoff.  The code
   falls short of it (README, known gaps): no run checks it.               *)
OnlyExpiredPurged ==
    [][\A p \in Replicas : \A k \in Keys(Containers) :
          /\ At(p, "purgeContainers") /\ Foremost(job[p].batch, k)
          /\ job'[p] # job[p] /\ job'[p] # Off
          /\ containerState'[k[2]] # containerState[k[2]]
          => containerAt[k[2]] < job[p].cutoff]_vars
=============================================================================
