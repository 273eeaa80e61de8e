--------------------------- MODULE CleanupProofs ---------------------------
(***************************************************************************)
(* Proofs about Cleanup, for every set of replicas, containers and items,  *)
(* any batch size, clock resolution and retention, and any rows that can   *)
(* never be deleted.                                                       *)
(***************************************************************************)
EXTENDS Cleanup, FiniteSetTheorems, TLAPS

USE CleanupAssumption

(* The live items of a container that is not live do not exist: the purge of
   a deleted container takes deleted items only.                           *)
LiveItemsAtHome ==
    \A i \in Items : itemState[i] = "live" => containerState[Home[i]] = "live"

Looping(p) == job[p].pc \in {"containers", "purgeContainers"}

(* What the cursor has passed has been tried. *)
PassedTried(p) ==
    \A k \in ExpiredContainers(job[p].cutoff) :
        ~Beyond(k, job[p].cursor) => k[2] \in job[p].tried

(* So has what comes before a row of the batch and is not in it. *)
BatchCloses(p) ==
    \A k \in ExpiredContainers(job[p].cutoff), l \in job[p].batch :
        Precedes(k, l) /\ k \notin job[p].batch => k[2] \in job[p].tried

LoopOK(p) ==
    /\ At(p, "lock") => job[p].cursor = NoCursor
    /\ Looping(p) => job[p].cutoff <= now /\ PassedTried(p)
    /\ At(p, "purgeContainers") =>
           BatchCloses(p) /\ job[p].batch \subseteq Keys(Containers)

-----------------------------------------------------------------------------
(* Types *)

LEMMA MillisType ==
    ASSUME NEW t \in Times
    PROVE  Millis(t) \in Times /\ Millis(t) <= t
<1> DEFINE rest == t % Fine
<1>1. t \in Nat /\ t <= MaxTime
  BY DEF Times
<1>2. rest \in Nat /\ rest <= t
  BY <1>1
<1> QED
  BY <1>1, <1>2 DEF Millis, Times

LEMMA CutoffType ==
    ASSUME TypeOK
    PROVE  Cutoff \in Int /\ Cutoff <= now
BY MillisType DEF TypeOK, Cutoff, Times

LEMMA OffType == Off \in Jobs
BY DEF Off, Jobs, Steps, NoCutoff

(* A job that moves to a legal record of locals keeps the type. *)
LEMMA MoveType ==
    ASSUME TypeOK, NEW p \in Replicas, NEW l \in Jobs, Continue(p, l)
    PROVE  job' \in [Replicas -> Jobs]
BY DEF TypeOK, Continue

RowsOK ==
    /\ containerState \in [Containers -> RowStates]
    /\ containerAt \in [Containers -> Times]
    /\ itemState \in [Items -> RowStates]
    /\ itemAt \in [Items -> Times]
    /\ flagged \subseteq Items

(* The row changes of users and of jobs. *)
RowChange ==
    \/ \E c \in Containers :
          \/ SoftDeleteContainer(c) \/ RestoreContainer(c)
          \/ ContainerPurgeable(c) /\ DropContainer(c)
    \/ \E i \in Items :
          \/ SoftDeleteItem(i) \/ RestoreItem(i)
          \/ ItemPurgeable(i) /\ DropItem(i)
    \/ UNCHANGED rowVars

(* A step of a job leaves the clock alone and changes the rows, if at all, by
   a purge; a step of a user leaves the jobs alone.                        *)
LEMMA StepShape ==
    ASSUME [Next]_vars
    PROVE  RowChange
<1>1. CASE UserStep
  BY <1>1 DEF UserStep, RowChange
<1>2. ASSUME NEW p \in Replicas,
             Trigger(p) \/ JobStep(p) \/ LoseConnection(p) \/ Crash(p)
      PROVE  RowChange
  <2>1. CASE PurgeContainer(p)
    BY <2>1 DEF PurgeContainer, RowChange, Keys
  <2>2. CASE PurgeItem(p)
    BY <2>2 DEF PurgeItem, RowChange, Keys
  <2> QED
    BY <1>2, <2>1, <2>2 DEF Trigger, JobStep, LoseConnection, Crash, TryLock,
         ReadContainers, ReadItems, Unlock, RowChange
<1>3. CASE IdleTimeout \/ Tick \/ UNCHANGED vars
  BY <1>3 DEF IdleTimeout, Tick, vars, RowChange
<1> QED
  BY <1>1, <1>2, <1>3 DEF Next

LEMMA RowsType ==
    ASSUME TypeOK, RowChange
    PROVE  RowsOK'
<1> USE DEF TypeOK, RowStates, RowsOK
<1>0. 0 \in Times
  BY DEF Times
<1>1. ASSUME NEW c \in Containers, SoftDeleteContainer(c)
      PROVE  RowsOK'
  BY <1>1 DEF SoftDeleteContainer, Contents
<1>2. ASSUME NEW c \in Containers, RestoreContainer(c)
      PROVE  RowsOK'
  BY <1>0, <1>2 DEF RestoreContainer, Contents
<1>3. ASSUME NEW c \in Containers, DropContainer(c)
      PROVE  RowsOK'
  BY <1>0, <1>3 DEF DropContainer, Contents
<1>4. ASSUME NEW i \in Items, SoftDeleteItem(i) \/ RestoreItem(i) \/ DropItem(i)
      PROVE  RowsOK'
  BY <1>0, <1>4 DEF SoftDeleteItem, RestoreItem, DropItem
<1>5. CASE UNCHANGED rowVars
  <2>1. /\ containerState' = containerState /\ containerAt' = containerAt
        /\ itemState' = itemState /\ itemAt' = itemAt /\ flagged' = flagged
    BY <1>5 DEF rowVars
  <2> QED BY <2>1
<1> QED
  BY <1>1, <1>2, <1>3, <1>4, <1>5 DEF RowChange

(* The job of p moves to legal locals, if it moves at all. *)
Moves(p) == \E l \in Jobs : Continue(p, l)

LEMMA JobMoves ==
    ASSUME TypeOK, NEW p \in Replicas,
           Trigger(p) \/ JobStep(p) \/ Crash(p)
    PROVE  Moves(p)
<1> USE DEF Moves
<1>0. job[p] \in Jobs
  BY DEF TypeOK
<1>1. CASE Trigger(p)
  BY <1>1, OffType DEF Trigger, Jobs, Off, Steps
<1>2. CASE TryLock(p)
  <2>1. [To(p, "containers") EXCEPT !.cutoff = Cutoff] \in Jobs
    BY <1>0, CutoffType DEF To, Jobs, Steps
  <2> QED BY <1>2, <2>1, OffType DEF TryLock
<1>3. CASE ReadContainers(p)
  <2>1. [To(p, "items") EXCEPT !.cutoff = Cutoff, !.cursor = NoCursor] \in Jobs
    BY <1>0, CutoffType DEF To, Jobs, Steps
  <2>2. ASSUME NEW S \in SUBSET Keys(Containers)
        PROVE  [To(p, "purgeContainers") EXCEPT !.batch = S] \in Jobs
    BY <1>0 DEF To, Jobs, Steps
  <2>3. FirstKeys({k \in ExpiredContainers(job[p].cutoff) : Beyond(k, job[p].cursor)},
                  BatchSize) \in SUBSET Keys(Containers)
    BY DEF FirstKeys, ExpiredContainers
  <2> QED
    BY <1>3, <2>1, <2>2, <2>3 DEF ReadContainers, StartItems
<1>4. CASE PurgeContainer(p)
  <2>1. ASSUME NEW k \in Keys(Containers)
        PROVE  AfterTry(p, k) \in Jobs
    <3>1. Millis(k[1]) \in Times /\ k[2] \in Containers
      BY MillisType DEF Keys
    <3> QED BY <1>0, <3>1 DEF AfterTry, Jobs, Steps, Keys
  <2> QED BY <1>4, <2>1 DEF PurgeContainer
<1>5. CASE ReadItems(p)
  <2>1. To(p, "unlock") \in Jobs
    BY <1>0 DEF To, Jobs, Steps
  <2>2. ASSUME NEW S \in SUBSET Keys(Items)
        PROVE  [To(p, "purgeItems") EXCEPT !.purged = FALSE, !.batch = S] \in Jobs
    BY <1>0 DEF To, Jobs, Steps
  <2>3. FirstKeys(ExpiredItems(job[p].cutoff), BatchSize) \in SUBSET Keys(Items)
    BY DEF FirstKeys, ExpiredItems
  <2> QED BY <1>5, <2>1, <2>2, <2>3 DEF ReadItems
<1>6. CASE PurgeItem(p)
  <2>1. ASSUME NEW k \in Keys(Items), NEW gone \in BOOLEAN
        PROVE  [job[p] EXCEPT
                    !.pc = IF job[p].batch = {k}
                             THEN AfterBatch(job[p].purged \/ gone) ELSE @,
                    !.batch = @ \ {k},
                    !.purged = @ \/ gone] \in Jobs
    BY <1>0 DEF Jobs, Steps, AfterBatch
  <2> QED BY <1>6, <2>1 DEF PurgeItem
<1>7. CASE Unlock(p) \/ Crash(p)
  BY <1>7, OffType DEF Unlock, Crash
<1> QED
  BY <1>1, <1>2, <1>3, <1>4, <1>5, <1>6, <1>7 DEF JobStep

LEMMA TypeInit == Init => TypeOK
<1> SUFFICES ASSUME Init PROVE TypeOK
  OBVIOUS
<1>1. 0 \in Times
  BY DEF Times
<1>2. /\ containerState \in [Containers -> RowStates]
      /\ itemState \in [Items -> RowStates]
  BY DEF Init, RowStates
<1>3. /\ containerAt \in [Containers -> Times]
      /\ itemAt \in [Items -> Times]
      /\ now \in Times
  BY <1>1 DEF Init
<1>4. job \in [Replicas -> Jobs]
  BY OffType DEF Init
<1>5. pooled \in BOOLEAN /\ lost \in BOOLEAN
  BY Zenon DEF Init
<1>6. /\ faults \in 0 .. MaxFaults
      /\ lock \in Replicas \cup {NoReplica}
      /\ flagged \subseteq Items
  BY DEF Init
<1> QED
  BY <1>2, <1>3, <1>4, <1>5, <1>6, Zenon DEF TypeOK

ScalarsOK ==
    /\ now \in Times
    /\ lock \in Replicas \cup {NoReplica}
    /\ faults \in 0 .. MaxFaults

FlagsOK == pooled \in BOOLEAN /\ lost \in BOOLEAN

LEMMA TypeStep ==
    ASSUME TypeOK, [Next]_vars
    PROVE  TypeOK'
<1>1. RowsOK'
  BY StepShape, RowsType
<1>2. job' \in [Replicas -> Jobs]
  <2>1. ASSUME NEW p \in Replicas, Trigger(p) \/ JobStep(p) \/ Crash(p)
        PROVE  job' \in [Replicas -> Jobs]
    BY <2>1, JobMoves, MoveType DEF Moves
  <2> QED
    BY <2>1 DEF Next, UserStep, LoseConnection, IdleTimeout, Tick, vars, TypeOK
<1>3. ScalarsOK'
  <2> USE DEF TypeOK, ScalarsOK, Times, lockVars
  <2>1. ASSUME NEW p \in Replicas, Trigger(p) \/ LoseConnection(p) \/ Crash(p)
        PROVE  ScalarsOK'
    BY <2>1 DEF Trigger, LoseConnection, Crash, Fail
  <2>2. ASSUME NEW p \in Replicas, TryLock(p) \/ Unlock(p)
        PROVE  ScalarsOK'
    <3>1. CASE TryLock(p)
      BY <3>1 DEF TryLock, Fail
    <3>2. CASE Unlock(p)
      BY <3>2 DEF Unlock, Fail
    <3> QED BY <2>2, <3>1, <3>2
  <2>4. ASSUME NEW p \in Replicas, ReadContainers(p) \/ ReadItems(p)
        PROVE  ScalarsOK'
    BY <2>4 DEF ReadContainers, ReadItems, Fail
  <2>5. ASSUME NEW p \in Replicas, PurgeContainer(p) \/ PurgeItem(p)
        PROVE  ScalarsOK'
    <3>1. now' = now /\ lock' = lock /\ (faults' = faults \/ Fail)
      BY <2>5 DEF PurgeContainer, PurgeItem
    <3> QED BY <3>1 DEF Fail
  <2>3. CASE UserStep \/ IdleTimeout \/ Tick \/ UNCHANGED vars
    BY <2>3 DEF UserStep, IdleTimeout, Tick, vars
  <2> QED
    BY <2>1, <2>2, <2>3, <2>4, <2>5 DEF Next, JobStep
<1>4. FlagsOK'
  <2> USE DEF TypeOK, FlagsOK, lockVars
  <2>1. ASSUME NEW p \in Replicas, Trigger(p) \/ LoseConnection(p) \/ Crash(p)
        PROVE  FlagsOK'
    BY <2>1, Zenon DEF Trigger, LoseConnection, Crash
  <2>2. ASSUME NEW p \in Replicas, JobStep(p)
        PROVE  FlagsOK'
    BY <2>2, Zenon DEF JobStep, TryLock, ReadContainers, PurgeContainer, ReadItems,
                       PurgeItem, Unlock
  <2>3. CASE UserStep \/ IdleTimeout \/ Tick \/ UNCHANGED vars
    BY <2>3, Zenon DEF UserStep, IdleTimeout, Tick, vars
  <2> QED
    BY <2>1, <2>2, <2>3 DEF Next
<1> QED
  BY <1>1, <1>2, <1>3, <1>4, Zenon DEF TypeOK, RowsOK, ScalarsOK, FlagsOK

(* The types, for any instance. *)
THEOREM TypeCorrect == Spec => []TypeOK
<1>1. TypeOK /\ [Next]_vars => TypeOK'
  BY TypeStep
<1> QED
  BY <1>1, TypeInit, PTL DEF Spec

-----------------------------------------------------------------------------
(* The lock *)

(* A step changes the job of one replica at most: what runs afterwards ran
   before, or has just taken the lock.                                     *)
LEMMA LockStep ==
    ASSUME TypeOK, RunsHoldTheLock, [Next]_vars
    PROVE  RunsHoldTheLock'
<1> SUFFICES ASSUME ~lost', NEW q \in Replicas, Running(q)'
             PROVE  lock' = q
  BY DEF RunsHoldTheLock
<1> USE DEF TypeOK, Running, RunsHoldTheLock, lockVars
<1>1. CASE UserStep \/ Tick \/ UNCHANGED vars
  BY <1>1 DEF UserStep, Tick, vars
<1>2. CASE IdleTimeout
  BY <1>2 DEF IdleTimeout
<1>3. ASSUME NEW p \in Replicas, Trigger(p) \/ Crash(p) \/ LoseConnection(p)
      PROVE  lock' = q
  <2>1. CASE Trigger(p)
    BY <2>1 DEF Trigger, Continue, Off
  <2>2. CASE Crash(p)
    BY <2>2 DEF Crash, Continue, Off
  <2>3. CASE LoseConnection(p)
    BY <2>3 DEF LoseConnection
  <2> QED BY <1>3, <2>1, <2>2, <2>3
<1>4. ASSUME NEW p \in Replicas, TryLock(p)
      PROVE  lock' = q
  <2>1. lost' = lost /\ (p # q => job'[q] = job[q])
    BY <1>4 DEF TryLock, Continue
  <2>2. CASE /\ lock = NoReplica \/ (lock = p /\ pooled)
             /\ lock' = p
    BY <2>1, <2>2
  <2>3. CASE Continue(p, Off) /\ lock' = lock
    BY <2>1, <2>3 DEF Continue, Off
  <2>4. CASE Continue(p, Off) /\ lock = NoReplica
    BY <2>1, <2>4 DEF Continue, Off
  <2> QED BY <1>4, <2>2, <2>3, <2>4 DEF TryLock
<1>5. ASSUME NEW p \in Replicas,
             ReadContainers(p) \/ PurgeContainer(p) \/ ReadItems(p) \/ PurgeItem(p)
      PROVE  lock' = q
  <2>1. lock' = lock /\ lost' = lost
    BY <1>5 DEF ReadContainers, PurgeContainer, ReadItems, PurgeItem
  <2>2. Running(p)
    BY <1>5 DEF ReadContainers, PurgeContainer, ReadItems, PurgeItem, At
  <2>3. p # q => job'[q] = job[q]
    BY <1>5 DEF ReadContainers, StartItems, PurgeContainer, ReadItems, PurgeItem,
                Continue
  <2> QED BY <2>1, <2>2, <2>3
<1>6. ASSUME NEW p \in Replicas, Unlock(p)
      PROVE  lock' = q
  <2>1. p # q /\ job'[q] = job[q] /\ lost' = lost /\ Running(p)
    BY <1>6 DEF Unlock, At, Continue, Off
  <2> QED BY <2>1
<1> QED
  BY <1>1, <1>2, <1>3, <1>4, <1>5, <1>6 DEF Next, JobStep

(* While no job loses the connection of its lock, a job past the lock holds
   it: two replicas never clean up at once.                                *)
THEOREM LockProtects == Spec => []RunsHoldTheLock
<1>1. Init => RunsHoldTheLock
  BY DEF Init, RunsHoldTheLock, Running, Off
<1>2. TypeOK /\ RunsHoldTheLock /\ [Next]_vars => RunsHoldTheLock'
  BY LockStep
<1> QED
  BY <1>1, <1>2, TypeCorrect, PTL DEF Spec

-----------------------------------------------------------------------------
(* Live rows *)

LEMMA LiveStep ==
    ASSUME TypeOK, LiveItemsAtHome, RowChange
    PROVE  /\ LiveItemsAtHome'
           /\ \A c \in Containers :
                 containerState[c] = "live" => containerState'[c] # "purged"
           /\ \A i \in Items : itemState[i] = "live" => itemState'[i] # "purged"
<1> USE DEF TypeOK, RowStates, LiveItemsAtHome
<1>1. ASSUME NEW c \in Containers, SoftDeleteContainer(c)
      PROVE  LiveItemsAtHome' /\ \A i \in Items : itemState'[i] # "purged" \/ itemState[i] = "purged"
  BY <1>1 DEF SoftDeleteContainer, Contents
<1>2. ASSUME NEW c \in Containers, RestoreContainer(c)
      PROVE  LiveItemsAtHome' /\ \A i \in Items : itemState'[i] # "purged" \/ itemState[i] = "purged"
  BY <1>2 DEF RestoreContainer, Contents
<1>3. ASSUME NEW c \in Containers, ContainerPurgeable(c), DropContainer(c)
      PROVE  LiveItemsAtHome' /\ \A i \in Items : itemState[i] = "live" => itemState'[i] = "live"
  BY <1>3 DEF DropContainer, ContainerPurgeable, Contents
<1>4. ASSUME NEW i \in Items,
             SoftDeleteItem(i) \/ RestoreItem(i) \/ (ItemPurgeable(i) /\ DropItem(i))
      PROVE  /\ LiveItemsAtHome'
             /\ \A j \in Items : itemState[j] = "live" => itemState'[j] # "purged"
             /\ containerState' = containerState
  BY <1>4 DEF SoftDeleteItem, RestoreItem, ItemPurgeable, DropItem
<1>5. ASSUME NEW c \in Containers,
             \/ SoftDeleteContainer(c) \/ RestoreContainer(c)
             \/ ContainerPurgeable(c) /\ DropContainer(c)
      PROVE  \A d \in Containers :
                 containerState[d] = "live" => containerState'[d] # "purged"
  BY <1>5 DEF SoftDeleteContainer, RestoreContainer, ContainerPurgeable, DropContainer
<1>6. CASE UNCHANGED rowVars
  BY <1>6 DEF rowVars
<1> QED
  BY <1>1, <1>2, <1>3, <1>4, <1>5, <1>6 DEF RowChange

(* A live row is never purged, whatever jobs and users do between the read
   and the purge of a batch.                                               *)
THEOREM LiveRowsCorrect == Spec => LiveRowsSurvive
<1>1. Init => LiveItemsAtHome
  BY CleanupAssumption DEF Init, LiveItemsAtHome
<1>2. TypeOK /\ LiveItemsAtHome /\ [Next]_vars => LiveItemsAtHome'
  BY StepShape, LiveStep
<1>3. TypeOK /\ LiveItemsAtHome /\ [Next]_vars =>
        [/\ \A c \in Containers :
               containerState[c] = "live" => containerState'[c] # "purged"
         /\ \A i \in Items : itemState[i] = "live" => itemState'[i] # "purged"]_vars
  BY StepShape, LiveStep
<1> QED
  BY <1>1, <1>2, <1>3, TypeCorrect, PTL DEF Spec, LiveRowsSurvive

-----------------------------------------------------------------------------
(* The cursor *)

LEMMA PrecedesOrder ==
    ASSUME NEW k \in Int \X Int, NEW l \in Int \X Int
    PROVE  /\ Precedes(k, l) \/ Precedes(l, k) \/ k = l
           /\ \A m \in Int \X Int : Precedes(m, k) /\ Precedes(k, l) => Precedes(m, l)
BY DEF Precedes

LEMMA KeysFinite ==
    /\ IsFiniteSet(Keys(Containers))
    /\ Keys(Containers) \subseteq Int \X Int
<1>1. IsFiniteSet(Times)
  BY FS_Interval DEF Times
<1>2. IsFiniteSet(Times \X Containers)
  BY <1>1, FS_Product
<1>3. Times \subseteq Int /\ Containers \subseteq Int
  BY DEF Times
<1> QED
  BY <1>2, <1>3 DEF Keys

(* LIMIT takes a prefix: what comes before a row it takes is taken too. *)
LEMMA FirstKeysClosed ==
    ASSUME NEW S \in SUBSET Keys(Containers), NEW n \in Nat,
           NEW k \in S, NEW l \in FirstKeys(S, n), Precedes(k, l)
    PROVE  k \in FirstKeys(S, n)
<1> DEFINE Before(x) == {m \in S : Precedes(m, x)}
<1>1. S \subseteq Int \X Int /\ IsFiniteSet(S)
  BY KeysFinite, FS_Subset
<1>2. l \in S /\ Cardinality(Before(l)) < n
  BY DEF FirstKeys
<1>3. Before(k) \subseteq Before(l)
  <2>1. k \in Int \X Int /\ l \in Int \X Int
    BY <1>1, <1>2
  <2>2. ASSUME NEW m \in S, Precedes(m, k)
        PROVE  Precedes(m, l)
    BY <1>1, <2>1, <2>2, PrecedesOrder
  <2> QED BY <2>2
<1>4. IsFiniteSet(Before(l)) /\ IsFiniteSet(Before(k))
  BY <1>1, FS_Subset
<1>5. Cardinality(Before(k)) <= Cardinality(Before(l))
  BY <1>3, <1>4, FS_Subset
<1>6. Cardinality(Before(k)) \in Nat /\ Cardinality(Before(l)) \in Nat
  BY <1>4, FS_CardinalityType
<1>7. Cardinality(Before(k)) < n
  BY <1>2, <1>5, <1>6
<1> QED
  BY <1>7 DEF FirstKeys

(* Nothing becomes expired for a cutoff that is past: deletions are stamped
   with the present.                                                       *)
LEMMA ExpiredShrinks ==
    ASSUME TypeOK, RowChange, NEW x \in Int, x <= now,
           NEW k \in Keys(Containers),
           containerState'[k[2]] = "deleted", containerAt'[k[2]] = k[1], k[1] < x
    PROVE  k \in ExpiredContainers(x)
<1> USE DEF TypeOK, Keys, Times, ExpiredContainers
<1>1. ASSUME NEW c \in Containers, SoftDeleteContainer(c)
      PROVE  k \in ExpiredContainers(x)
  BY <1>1 DEF SoftDeleteContainer
<1>2. ASSUME NEW c \in Containers, RestoreContainer(c) \/ DropContainer(c)
      PROVE  k \in ExpiredContainers(x)
  BY <1>2 DEF RestoreContainer, DropContainer
<1>3. CASE containerState' = containerState /\ containerAt' = containerAt
  BY <1>3
<1>4. ASSUME NEW i \in Items, SoftDeleteItem(i) \/ RestoreItem(i) \/ DropItem(i)
      PROVE  k \in ExpiredContainers(x)
  BY <1>3, <1>4 DEF SoftDeleteItem, RestoreItem, DropItem
<1> QED
  BY <1>1, <1>2, <1>3, <1>4 DEF RowChange, rowVars

LEMMA ClockStep ==
    ASSUME TypeOK, [Next]_vars
    PROVE  now' \in Int /\ now <= now'
<1>1. now \in Int
  BY DEF TypeOK, Times
<1>2. CASE Tick
  BY <1>1, <1>2 DEF Tick
<1>3. CASE now' = now
  BY <1>1, <1>3
<1> QED
  BY <1>2, <1>3 DEF Next, UserStep, Trigger, JobStep, TryLock, ReadContainers,
       PurgeContainer, ReadItems, PurgeItem, Unlock, LoseConnection, IdleTimeout,
       Crash, vars

(* What a step can do to the job of q. *)
LEMMA JobOf ==
    ASSUME TypeOK, [Next]_vars, NEW q \in Replicas
    PROVE  \/ job'[q] = job[q]
           \/ job'[q] = Off
           \/ Trigger(q) \/ TryLock(q) \/ ReadContainers(q) \/ PurgeContainer(q)
           \/ ReadItems(q) \/ PurgeItem(q)
<1> USE DEF TypeOK, Continue
<1>1. ASSUME NEW p \in Replicas, p # q, Trigger(p) \/ JobStep(p) \/ Crash(p)
      PROVE  job'[q] = job[q]
  BY <1>1, JobMoves DEF Moves
<1>2. CASE Unlock(q) \/ Crash(q)
  BY <1>2 DEF Unlock, Crash
<1>3. ASSUME NEW p \in Replicas, LoseConnection(p)
      PROVE  job'[q] = job[q]
  BY <1>3 DEF LoseConnection
<1>4. CASE UserStep \/ IdleTimeout \/ Tick \/ UNCHANGED vars
  BY <1>4 DEF UserStep, IdleTimeout, Tick, vars
<1> QED
  BY <1>1, <1>2, <1>3, <1>4 DEF Next, JobStep

LEMMA LoopStep ==
    ASSUME TypeOK, [Next]_vars, NEW q \in Replicas, LoopOK(q)
    PROVE  LoopOK(q)'
<1>a. RowChange /\ now' \in Int /\ now \in Int /\ now <= now'
  BY StepShape, ClockStep DEF TypeOK, Times
<1>b. /\ job[q] \in Jobs /\ job[q].cutoff \in Int
      /\ job[q].cursor \in Int \X Int
      /\ job \in [Replicas -> Jobs]
  <2>1. job \in [Replicas -> Jobs] /\ job[q] \in Jobs
    BY DEF TypeOK
  <2>2. job[q].cutoff \in Int /\ job[q].cursor \in Keys(Containers) \cup {NoCursor}
    BY <2>1 DEF Jobs
  <2>3. NoCursor \in Int \X Int
    BY DEF NoCursor
  <2> QED BY <2>1, <2>2, <2>3, KeysFinite
<1>c. ASSUME Looping(q), NEW k \in Keys(Containers),
             containerState'[k[2]] = "deleted", containerAt'[k[2]] = k[1],
             k[1] < job[q].cutoff
      PROVE  k \in ExpiredContainers(job[q].cutoff)
  BY <1>a, <1>b, <1>c, ExpiredShrinks DEF LoopOK
<1>1. CASE job'[q] = job[q]
  BY <1>1, <1>a, <1>b, <1>c
     DEF LoopOK, At, Looping, PassedTried, BatchCloses, ExpiredContainers
<1>2. CASE job'[q] = Off \/ Trigger(q)
  BY <1>2 DEF LoopOK, At, Looping, Trigger, Continue, Off, TypeOK
<1>3. CASE TryLock(q)
  <2>1. CASE job'[q] = Off
    BY <2>1, <1>2
  <2>2. CASE job'[q] = [To(q, "containers") EXCEPT !.cutoff = Cutoff]
    <3>1. /\ job'[q].pc = "containers" /\ job'[q].cutoff = Cutoff
          /\ job'[q].cursor = NoCursor
      BY <1>3, <1>b, <2>2 DEF TryLock, At, To, Jobs, LoopOK
    <3>2. Cutoff <= now /\ now' = now /\ Cutoff \in Int
      BY <1>3, CutoffType DEF TryLock
    <3>3. ASSUME NEW k \in Keys(Containers)
          PROVE  Precedes(NoCursor, k)
      BY DEF Precedes, NoCursor, Keys, Times
    <3> QED
      BY <3>1, <3>2, <3>3
         DEF LoopOK, At, Looping, PassedTried, Beyond, ExpiredContainers
  <2> QED BY <1>3, <1>b, <2>1, <2>2 DEF TryLock, Continue
<1>4. CASE ReadContainers(q)
  <2> DEFINE rows == {k \in ExpiredContainers(job[q].cutoff) :
                        Beyond(k, job[q].cursor)}
             batch == FirstKeys(rows, BatchSize)
  <2>1. CASE StartItems(q)
    BY <2>1, <1>b DEF StartItems, To, Continue, Jobs, LoopOK, At, Looping
  <2>2. CASE Continue(q, [To(q, "purgeContainers") EXCEPT !.batch = batch])
    <3>1. /\ job'[q].pc = "purgeContainers" /\ job'[q].batch = batch
          /\ job'[q].cutoff = job[q].cutoff /\ job'[q].cursor = job[q].cursor
          /\ job'[q].tried = job[q].tried
      BY <2>2, <1>b DEF Continue, To, Jobs
    <3>2. Looping(q) /\ PassedTried(q) /\ job[q].cutoff <= now /\ now' = now
          /\ containerState' = containerState /\ containerAt' = containerAt
      BY <1>4 DEF ReadContainers, LoopOK, At, Looping, rowVars
    <3>3. rows \in SUBSET Keys(Containers) /\ batch \subseteq rows
      BY DEF ExpiredContainers, FirstKeys
    <3>4. ASSUME NEW k \in ExpiredContainers(job[q].cutoff), NEW l \in batch,
                 Precedes(k, l), k \notin batch
          PROVE  k[2] \in job[q].tried
      <4>1. k \notin rows
        BY <3>3, <3>4, FirstKeysClosed
      <4> QED BY <4>1, <3>2 DEF PassedTried
    <3> HIDE DEF batch, rows
    <3> QED
      BY <3>1, <3>2, <3>3, <3>4
         DEF LoopOK, At, Looping, PassedTried, BatchCloses, ExpiredContainers
  <2> QED BY <1>4, <2>1, <2>2 DEF ReadContainers
<1>5. CASE PurgeContainer(q)
  <2>1. PICK k \in Keys(Containers) :
            Foremost(job[q].batch, k) /\ Continue(q, AfterTry(q, k))
    BY <1>5 DEF PurgeContainer
  <2>2. /\ job'[q].pc \in {"containers", "purgeContainers"}
        /\ job'[q].batch = job[q].batch \ {k}
        /\ job'[q].cutoff = job[q].cutoff
        /\ job'[q].cursor = <<Millis(k[1]), k[2]>>
        /\ job'[q].tried = job[q].tried \cup {k[2]}
    BY <1>5, <1>b, <2>1 DEF PurgeContainer, At, Continue, AfterTry, Jobs
  <2>3. /\ Looping(q) /\ job[q].cutoff <= now /\ BatchCloses(q)
        /\ job[q].batch \subseteq Keys(Containers) /\ now' = now
    BY <1>5 DEF PurgeContainer, LoopOK, At, Looping
  <2>4. k \in Int \X Int /\ Millis(k[1]) \in Int /\ Millis(k[1]) <= k[1]
    BY KeysFinite, MillisType DEF Keys, Times
  <2>5. ASSUME NEW m \in ExpiredContainers(job[q].cutoff), m # k,
               ~Precedes(k, m)
        PROVE  m[2] \in job[q].tried
    <3>1. m \in Int \X Int
      BY KeysFinite DEF ExpiredContainers
    <3>2. Precedes(m, k)
      BY <2>4, <2>5, <3>1, PrecedesOrder
    <3> QED BY <2>1, <2>3, <2>5, <3>2 DEF Foremost, BatchCloses
  <2>6. ASSUME NEW m \in ExpiredContainers(job[q].cutoff),
               ~Beyond(m, job'[q].cursor)
        PROVE  m[2] \in job'[q].tried
    <3>1. m \in Int \X Int
      BY KeysFinite DEF ExpiredContainers
    <3>2. ~Precedes(k, m)
      BY <2>2, <2>4, <2>6, <3>1 DEF Beyond, Precedes
    <3> QED BY <2>2, <2>5, <3>2
  <2>7. ASSUME NEW m \in ExpiredContainers(job[q].cutoff), NEW l \in job'[q].batch,
               Precedes(m, l), m \notin job'[q].batch
        PROVE  m[2] \in job'[q].tried
    BY <2>2, <2>3, <2>7 DEF BatchCloses
  <2>8. ASSUME NEW m, m \in ExpiredContainers(job[q].cutoff)'
        PROVE  m \in ExpiredContainers(job[q].cutoff)
    BY <1>c, <2>2, <2>3, <2>8 DEF ExpiredContainers
  <2>9. PassedTried(q)'
    BY <2>6, <2>8, <2>2 DEF PassedTried
  <2>10. BatchCloses(q)'
    BY <2>7, <2>8, <2>2 DEF BatchCloses
  <2> QED
    BY <2>2, <2>3, <2>9, <2>10 DEF LoopOK, At, Looping
<1>6. CASE ReadItems(q) \/ PurgeItem(q)
  <2>1. CASE ReadItems(q)
    <3> DEFINE batch == FirstKeys(ExpiredItems(job[q].cutoff), BatchSize)
    <3>a. ASSUME Continue(q, To(q, "unlock"))
          PROVE  job'[q].pc = "unlock"
      BY <1>b, <3>a DEF To, Continue, Jobs
    <3>b. ASSUME Continue(q, [To(q, "purgeItems") EXCEPT !.purged = FALSE,
                                                         !.batch = batch])
          PROVE  job'[q].pc = "purgeItems"
      <4> HIDE DEF batch
      <4> QED BY <1>b, <3>b DEF To, Continue, Jobs
    <3>2. job'[q].pc \in {"purgeItems", "unlock"}
      BY <2>1, <3>a, <3>b DEF ReadItems
    <3> QED BY <3>2 DEF LoopOK, At, Looping
  <2>2. CASE PurgeItem(q)
    <3>1. PICK k \in Keys(Items), gone \in BOOLEAN :
             Continue(q, [job[q] EXCEPT
                    !.pc = IF job[q].batch = {k}
                             THEN AfterBatch(job[q].purged \/ gone) ELSE @,
                    !.batch = @ \ {k},
                    !.purged = @ \/ gone])
      BY <2>2 DEF PurgeItem
    <3>2. job[q].pc = "purgeItems"
      BY <2>2 DEF PurgeItem, At
    <3>3. job'[q].pc \in {"purgeItems", "items", "unlock"}
      BY <1>b, <3>1, <3>2 DEF Continue, Jobs, AfterBatch
    <3> QED BY <3>3 DEF LoopOK, At, Looping
  <2> QED BY <1>6, <2>1, <2>2
<1> QED
  BY <1>1, <1>2, <1>3, <1>4, <1>5, <1>6, JobOf

(* The container loop tries every container still expired before it ends,
   whatever is deleted, restored or purged meanwhile.                      *)
THEOREM CursorSkipsNothing == Spec => []NoneSkipped
<1> DEFINE AllLoopOK == \A p \in Replicas : LoopOK(p)
<1>1. Init => AllLoopOK
  BY DEF Init, LoopOK, At, Looping, Off
<1>2. TypeOK /\ AllLoopOK /\ [Next]_vars => AllLoopOK'
  BY LoopStep
<1>3. AllLoopOK => NoneSkipped
  BY DEF LoopOK, NoneSkipped, At, Looping, PassedTried
<1> QED
  BY <1>1, <1>2, <1>3, TypeCorrect, PTL DEF Spec
=============================================================================
