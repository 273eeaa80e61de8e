----------------------------- MODULE Inventory -----------------------------
(***************************************************************************)
(* Containers and items: containers.service.ts and items.service.ts over   *)
(* the PostgreSQL tables "containers" and "items".                         *)
(*                                                                         *)
(* Every operation that writes runs in one transaction that first takes    *)
(* the container row with SELECT ... FOR UPDATE, so a transaction on a     *)
(* container is one action.  The item operations that start from an item   *)
(* id read that item WITHOUT a lock to learn its container                 *)
(* (findItemReference), wait for the container lock, and only then read    *)
(* the item again under its own lock: that window is modelled, the         *)
(* reference read and the locked part being separate actions of a worker.  *)
(* A transaction that fails at any point rolls back (Abort).               *)
(*                                                                         *)
(* Identifiers are UUIDs and never come back: a row goes from "absent" to  *)
(* "live" (deletedAt IS NULL), "deleted" (deletedAt set) and "purged".     *)
(***************************************************************************)
EXTENDS Volumes

CONSTANTS Containers,    \* container ids
          Items,         \* item ids
          Workers,       \* requests that may be in flight at once
          NoContainer,   \* container id of a row that does not exist
          NoRef,         \* a worker that holds no item reference
          TotalVolumes,  \* totals a client may ask for, in fine units
          ItemVolumes,   \* packageQuantity * volume of an item, in fine units
          RepairCalled   \* whether anything calls updateUsedVolume

ASSUME InventoryAssumption ==
    /\ IsFiniteSet(Items)
    /\ NoContainer \notin Containers
    /\ TotalVolumes \subseteq Nat \ {0}
    /\ \A t \in TotalVolumes : Round2(t) = t   \* DTO: at most two decimals
    /\ ItemVolumes \subseteq Nat \ {0}
    /\ RepairCalled \in BOOLEAN

VARIABLES
    containerState,      \* life cycle of each container row
    status,              \* Container.status
    totalVolume,         \* Container.totalVolume
    usedVolume,          \* Container.usedVolume, the denormalised sum
    itemState,           \* life cycle of each item row
    containerId,         \* Item.containerId
    itemVolume,          \* Item.totalVolume
    deletedByContainer,  \* Item.deletedByContainer
    ref                  \* unlocked references held by the workers

containerVars == <<containerState, status, totalVolume, usedVolume>>
itemVars == <<itemState, containerId, itemVolume, deletedByContainer>>
vars == <<containerVars, itemVars, ref>>

RowStates == {"absent", "live", "deleted", "purged"}
Statuses == {"active", "shipped", "archived"}
Operations == {"update", "softDelete", "restore", "permanentDelete"}
Refs == [op : Operations, item : Items, container : Containers]

ASSUME NoRefAssumption == NoRef \notin Refs

TypeOK ==
    /\ containerState \in [Containers -> RowStates]
    /\ status \in [Containers -> Statuses]
    /\ totalVolume \in [Containers -> Nat]
    /\ usedVolume \in [Containers -> Nat]
    /\ itemState \in [Items -> RowStates]
    /\ containerId \in [Items -> Containers \cup {NoContainer}]
    /\ itemVolume \in [Items -> Nat]
    /\ deletedByContainer \in [Items -> BOOLEAN]
    /\ ref \in [Workers -> Refs \cup {NoRef}]

-----------------------------------------------------------------------------
(* Queries *)

RowsOf(c) == {i \in Items : containerId[i] = c
                            /\ itemState[i] \in {"live", "deleted"}}

LiveItems(c) == {i \in Items : containerId[i] = c /\ itemState[i] = "live"}

(* Mutant: the rows of the container that are deleted, for whatever reason. *)
DeletedItems(c) == {i \in Items : containerId[i] = c /\ itemState[i] = "deleted"}

(* The rows a restore of the container brings back. *)
CarriedItems(c) == {i \in Items : /\ containerId[i] = c
                                  /\ itemState[i] = "deleted"
                                  /\ deletedByContainer[i]}

(* getActiveVolume, without and with excludeItemId *)
ActiveVolume(c) == SumVolume(itemVolume, LiveItems(c))
ActiveVolumeExcept(c, i) == SumVolume(itemVolume, LiveItems(c) \ {i})

(* CHK_containers_used_volume: a statement that breaks it is rejected and
   its transaction rolls back.                                             *)
UsedVolumeCheck(used, total) == used <= total

-----------------------------------------------------------------------------
Init ==
    /\ containerState = [c \in Containers |-> "absent"]
    /\ status = [c \in Containers |-> "active"]
    /\ totalVolume = [c \in Containers |-> 0]
    /\ usedVolume = [c \in Containers |-> 0]
    /\ itemState = [i \in Items |-> "absent"]
    /\ containerId = [i \in Items |-> NoContainer]
    /\ itemVolume = [i \in Items |-> 0]
    /\ deletedByContainer = [i \in Items |-> FALSE]
    /\ ref = [w \in Workers |-> NoRef]

(* ContainersService *)

CreateContainer(c, total) ==
    /\ containerState[c] = "absent"
    /\ containerState' = [containerState EXCEPT ![c] = "live"]
    /\ status' = [status EXCEPT ![c] = "active"]
    /\ totalVolume' = [totalVolume EXCEPT ![c] = total]
    /\ usedVolume' = [usedVolume EXCEPT ![c] = 0]
    /\ UNCHANGED <<itemVars, ref>>

(* update compares the new total with the ROUNDED used volume. *)
UpdateContainer(c, total) ==
    /\ containerState[c] = "live"
    /\ Round2(usedVolume[c]) <= total
    /\ UsedVolumeCheck(usedVolume[c], total)
    /\ totalVolume' = [totalVolume EXCEPT ![c] = total]
    /\ UNCHANGED <<containerState, status, usedVolume, itemVars, ref>>

UpdateStatus(c, s) ==
    /\ containerState[c] = "live"
    /\ status[c] # s
    /\ status' = [status EXCEPT ![c] = s]
    /\ UNCHANGED <<containerState, totalVolume, usedVolume, itemVars, ref>>

(* Flags the active items, soft deletes them, then the container; the used
   volume keeps its last value.                                            *)
SoftDeleteContainer(c) ==
    /\ containerState[c] = "live"
    /\ deletedByContainer' =
           [i \in Items |-> i \in LiveItems(c) \/ deletedByContainer[i]]
    /\ itemState' =
           [i \in Items |-> IF i \in LiveItems(c) THEN "deleted" ELSE itemState[i]]
    /\ containerState' = [containerState EXCEPT ![c] = "deleted"]
    /\ UNCHANGED <<status, totalVolume, usedVolume, containerId, itemVolume, ref>>

(* Restores the flagged items only, clears their flag and stores their sum
   rounded to two decimals.                                                *)
RestoreContainer(c) ==
    LET used == Round2(SumVolume(itemVolume, CarriedItems(c))) IN
    /\ containerState[c] = "deleted"
    /\ LiveItems(c) = {}
    /\ used <= Round2(totalVolume[c])
    /\ UsedVolumeCheck(used, totalVolume[c])
    /\ containerState' = [containerState EXCEPT ![c] = "live"]
    /\ itemState' =
           [i \in Items |-> IF i \in CarriedItems(c) THEN "live" ELSE itemState[i]]
    /\ deletedByContainer' =
           [i \in Items |-> i \notin CarriedItems(c) /\ deletedByContainer[i]]
    /\ usedVolume' = [usedVolume EXCEPT ![c] = used]
    /\ UNCHANGED <<status, totalVolume, containerId, itemVolume, ref>>

(* Deletes every item row of the container, then the container row. *)
PermanentDeleteContainer(c) ==
    /\ containerState[c] = "deleted"
    /\ containerState' = [containerState EXCEPT ![c] = "purged"]
    /\ itemState' =
           [i \in Items |-> IF i \in RowsOf(c) THEN "purged" ELSE itemState[i]]
    /\ deletedByContainer' =
           [i \in Items |-> i \notin RowsOf(c) /\ deletedByContainer[i]]
    /\ UNCHANGED <<status, totalVolume, usedVolume, containerId, itemVolume, ref>>

(* updateUsedVolume, a repair operation of the service that no controller or
   scheduled task calls at this commit.                                    *)
UpdateUsedVolume(c) ==
    LET used == Round2(ActiveVolume(c)) IN
    /\ RepairCalled
    /\ containerState[c] = "live"
    /\ used <= Round2(totalVolume[c])
    /\ UsedVolumeCheck(used, totalVolume[c])
    /\ usedVolume' = [usedVolume EXCEPT ![c] = used]
    /\ UNCHANGED <<containerState, status, totalVolume, itemVars, ref>>

-----------------------------------------------------------------------------
(* ItemsService *)

(* recalculateUsedVolume, after the item row changed: an exact SUM. *)
RecalculateUsedVolume(c, newState, newVolume) ==
    LET rows == {i \in Items : containerId[i] = c /\ newState[i] = "live"}
        used == SumVolume(newVolume, rows)
    IN  /\ UsedVolumeCheck(used, totalVolume[c])
        /\ usedVolume' = [usedVolume EXCEPT ![c] = used]

(* Mutant: create leaves container.usedVolume as it was. *)
CreateItemUncounted(i, c, volume) ==
    /\ itemState[i] = "absent"
    /\ containerState[c] = "live"
    /\ status[c] = "active"
    /\ volume <= totalVolume[c] - usedVolume[c]
    /\ itemState' = [itemState EXCEPT ![i] = "live"]
    /\ containerId' = [containerId EXCEPT ![i] = c]
    /\ itemVolume' = [itemVolume EXCEPT ![i] = volume]
    /\ deletedByContainer' = [deletedByContainer EXCEPT ![i] = FALSE]
    /\ UNCHANGED <<containerVars, ref>>

(* create trusts container.usedVolume instead of summing the items. *)
CreateItem(i, c, volume) ==
    /\ itemState[i] = "absent"
    /\ containerState[c] = "live"
    /\ status[c] = "active"
    /\ volume <= totalVolume[c] - usedVolume[c]
    /\ itemState' = [itemState EXCEPT ![i] = "live"]
    /\ containerId' = [containerId EXCEPT ![i] = c]
    /\ itemVolume' = [itemVolume EXCEPT ![i] = volume]
    /\ deletedByContainer' = [deletedByContainer EXCEPT ![i] = FALSE]
    /\ usedVolume' = [usedVolume EXCEPT ![c] = @ + volume]
    /\ UNCHANGED <<containerState, status, totalVolume, ref>>

(* What findItemReference and the checks on its result let through. *)
ReferenceAllows(op, i) ==
    IF op \in {"update", "softDelete"}
      THEN itemState[i] = "live"
      ELSE itemState[i] = "deleted" /\ ~deletedByContainer[i]

FindItemReference(w, op, i) ==
    /\ ref[w] = NoRef
    /\ ReferenceAllows(op, i)
    /\ ref' = [ref EXCEPT ![w] = [op |-> op, item |-> i,
                                  container |-> containerId[i]]]
    /\ UNCHANGED <<containerVars, itemVars>>

(* lockContainer(withDeleted) then lockItem, and the check that the item is
   still in the container that was locked.                                 *)
Locked(w, op, states) ==
    /\ ref[w] # NoRef
    /\ ref[w].op = op
    /\ containerState[ref[w].container] \in {"live", "deleted"}
    /\ itemState[ref[w].item] \in states
    /\ containerId[ref[w].item] = ref[w].container

Release(w) == ref' = [ref EXCEPT ![w] = NoRef]

UpdateItem(w, volume) ==
    LET i == ref[w].item
        c == ref[w].container
        newVolume == [itemVolume EXCEPT ![i] = volume]
    IN  /\ Locked(w, "update", {"live"})
        /\ containerState[c] = "live"
        /\ status[c] = "active"
        /\ ActiveVolumeExcept(c, i) + volume <= totalVolume[c]
        /\ itemVolume' = newVolume
        /\ RecalculateUsedVolume(c, itemState, newVolume)
        /\ Release(w)
        /\ UNCHANGED <<containerState, status, totalVolume,
                       itemState, containerId, deletedByContainer>>

SoftDeleteItem(w) ==
    LET i == ref[w].item
        c == ref[w].container
        newState == [itemState EXCEPT ![i] = "deleted"]
    IN  /\ Locked(w, "softDelete", {"live"})
        /\ deletedByContainer' = [deletedByContainer EXCEPT ![i] = FALSE]
        /\ itemState' = newState
        /\ RecalculateUsedVolume(c, newState, itemVolume)
        /\ Release(w)
        /\ UNCHANGED <<containerState, status, totalVolume,
                       containerId, itemVolume>>

(* Mutant: the container, read before the lock, is not looked at again. *)
RestoreAllowedUnlocked(i, c) == ~deletedByContainer[i] /\ itemVolume[i] > 0

(* The checks under the locks. *)
RestoreAllowed(i, c) ==
    /\ containerState[c] # "deleted"
    /\ ~deletedByContainer[i]
    /\ itemVolume[i] > 0

RestoreItem(w) ==
    LET i == ref[w].item
        c == ref[w].container
        newState == [itemState EXCEPT ![i] = "live"]
    IN  /\ Locked(w, "restore", {"deleted"})
        /\ RestoreAllowed(i, c)
        /\ ActiveVolume(c) + itemVolume[i] <= totalVolume[c]
        /\ itemState' = newState
        /\ deletedByContainer' = [deletedByContainer EXCEPT ![i] = FALSE]
        /\ RecalculateUsedVolume(c, newState, itemVolume)
        /\ Release(w)
        /\ UNCHANGED <<containerState, status, totalVolume,
                       containerId, itemVolume>>

(* Mutant: the flag, read before the lock, is not looked at again. *)
PurgeAllowedUnlocked(i) == itemState[i] = "deleted"

PurgeAllowed(i) == ~deletedByContainer[i]

PermanentDeleteItem(w) ==
    LET i == ref[w].item
        c == ref[w].container
        newState == [itemState EXCEPT ![i] = "purged"]
    IN  /\ Locked(w, "permanentDelete", {"deleted"})
        /\ PurgeAllowed(i)
        /\ itemState' = newState
        /\ RecalculateUsedVolume(c, newState, itemVolume)
        /\ Release(w)
        /\ UNCHANGED <<containerState, status, totalVolume,
                       containerId, itemVolume, deletedByContainer>>

(* A check after the reference read fails, a row is gone, or the database
   is lost: the transaction rolls back and the request ends.               *)
Abort(w) ==
    /\ ref[w] # NoRef
    /\ Release(w)
    /\ UNCHANGED <<containerVars, itemVars>>

-----------------------------------------------------------------------------
ContainerStep(c) ==
    \/ \E t \in TotalVolumes : CreateContainer(c, t) \/ UpdateContainer(c, t)
    \/ \E s \in Statuses : UpdateStatus(c, s)
    \/ SoftDeleteContainer(c)
    \/ RestoreContainer(c)
    \/ PermanentDeleteContainer(c)
    \/ UpdateUsedVolume(c)

ItemRequest ==
    \/ \E i \in Items, c \in Containers, v \in ItemVolumes : CreateItem(i, c, v)
    \/ \E w \in Workers, op \in Operations, i \in Items : FindItemReference(w, op, i)

WorkerStep(w) ==
    \/ \E v \in ItemVolumes : UpdateItem(w, v)
    \/ SoftDeleteItem(w)
    \/ RestoreItem(w)
    \/ PermanentDeleteItem(w)
    \/ Abort(w)

Next ==
    \/ \E c \in Containers : ContainerStep(c)
    \/ ItemRequest
    \/ \E w \in Workers : WorkerStep(w)

Spec == Init /\ [][Next]_vars
-----------------------------------------------------------------------------
(* Properties *)

(* The soft-delete protocol of containers and items.  A live item is in a
   live container; the deletedByContainer flag is on only for a deleted item
   of a deleted container; a row exists only while its container row does.
   So no interleaving of the two services leaves an item that neither restore
   path can bring back (items.service.ts restore refuses a flagged item,
   containers.service.ts restore refuses a container with active items).   *)
LiveItemsHaveLiveContainer ==
    \A i \in Items : itemState[i] = "live" =>
        containerId[i] \in Containers /\ containerState[containerId[i]] = "live"

FlaggedItemsAwaitTheirContainer ==
    \A i \in Items : deletedByContainer[i] =>
        /\ itemState[i] = "deleted"
        /\ containerId[i] \in Containers
        /\ containerState[containerId[i]] = "deleted"

ItemRowsHaveContainerRow ==
    \A i \in Items : itemState[i] \in {"live", "deleted"} =>
        /\ containerId[i] \in Containers
        /\ containerState[containerId[i]] \in {"live", "deleted"}

DeletionProtocol ==
    /\ LiveItemsHaveLiveContainer
    /\ FlaggedItemsAwaitTheirContainer
    /\ ItemRowsHaveContainerRow

(* The denormalised Container.usedVolume of a live container never drifts
   more than half a hundredth from the SUM of its active items, however the
   two services interleave: items.service.ts create adds to it without a SUM,
   containers.service.ts restore overwrites it with a rounded SUM, and errors
   do not add up.  With Scale = 1 (volumes of two decimals) it is exact.   *)
UsedVolumeDriftBounded ==
    \A c \in Containers : containerState[c] = "live" =>
        /\ 2 * (usedVolume[c] - ActiveVolume(c)) <= Scale
        /\ 2 * (ActiveVolume(c) - usedVolume[c]) <= Scale

(* A live container never holds more than its total volume plus half a
   hundredth, whatever sequence of creations, edits, restores and changes of
   the total led there.  With Scale = 1 it never holds more than its total. *)
CapacityWithinHalf ==
    \A c \in Containers : containerState[c] = "live" =>
        2 * (ActiveVolume(c) - totalVolume[c]) <= Scale

(* An item that was soft deleted on its own comes back only alone: the step
   that revives it changes no container's life cycle, so restoring the
   container later never resurrects it (containers.service.ts restore brings
   back the rows with deletedByContainer only).                            *)
IndividuallyDeletedComesBackAlone ==
    [][\A i \in Items :
          /\ itemState[i] = "deleted" /\ ~deletedByContainer[i]
          /\ itemState'[i] = "live"
          => UNCHANGED containerState]_vars

(* What the code's own texts say and the rounding of restore breaks.
   items.service.ts create: a container never holds more than it has room
   for.                                                                    *)
CapacityRespected ==
    \A c \in Containers : containerState[c] = "live" =>
        ActiveVolume(c) <= totalVolume[c]

(* items.service.ts softDelete: whatever the history, the recalculation that
   follows the deletion of a live item passes the database's check, so a user
   can always delete an item.  The code falls short of it with volumes finer
   than a hundredth (README, known gaps): no run checks it.                *)
LiveItemsCanBeDeleted ==
    \A i \in Items : itemState[i] = "live" =>
        ActiveVolumeExcept(containerId[i], i) <= totalVolume[containerId[i]]

(* The abstract promise.  An archived container's content is its flagged
   items: softDelete seals them and no item operation, not even one whose
   unlocked reference was read before the container was deleted, takes one
   out or puts one in before restore brings all of them back.              *)
PhaseOf == [absent |-> "none", live |-> "open",
            deleted |-> "archived", purged |-> "gone"]

StoragePhase == [c \in Containers |-> PhaseOf[containerState[c]]]

StorageContent == [c \in Containers |-> LiveItems(c) \cup CarriedItems(c)]

StorageBin ==
    [c \in Containers |->
        {i \in Items : /\ containerId[i] = c
                       /\ itemState[i] = "deleted"
                       /\ ~deletedByContainer[i]}]

FitsWithinHalf(volume, S, total) ==
    2 * (SumVolume(volume, S) - total) <= Scale

Storage == INSTANCE ContainerStorage
             WITH phase <- StoragePhase, capacity <- totalVolume,
                  content <- StorageContent, bin <- StorageBin,
                  size <- itemVolume, Fits <- FitsWithinHalf

(* The two services together implement ContainerStorage. *)
ImplementsStorage == Storage!StorageSpec
=============================================================================
