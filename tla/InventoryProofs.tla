-------------------------- MODULE InventoryProofs --------------------------
(***************************************************************************)
(* Theorems about Inventory for any finite set of items, any sets of       *)
(* containers and workers, any volumes and any Scale.                      *)
(*                                                                         *)
(* The inductive invariant Inv adds two facts to the properties: rows that *)
(* do not exist yet belong to no container, and the stored used volume of  *)
(* a live container is within its total (what the database's check and the *)
(* guard of create keep).  Capacity follows from that and the drift bound, *)
(* and with it that Inventory implements ContainerStorage.                 *)
(***************************************************************************)
EXTENDS Inventory, FiniteSetTheorems, TLAPS

-----------------------------------------------------------------------------
(* The volume arithmetic: what rounding to two decimals can change, and    *)
(* how a sum of volumes changes when one row comes or goes.                *)

(* roundDecimal moves a volume by at most half a hundredth. *)
LEMMA Round2Near ==
    ASSUME NEW v \in Nat
    PROVE  /\ Round2(v) \in Nat
           /\ 2 * (Round2(v) - v) <= Scale
           /\ 2 * (v - Round2(v)) <= Scale
<1> DEFINE half == Scale \div 2
           rest == (v + half) % Scale
<1>1. Scale \in Nat /\ Scale > 0
  BY ScaleAssumption
<1>2. half \in Nat /\ 2 * half <= Scale /\ Scale <= 2 * half + 1
  BY <1>1
<1>3. rest \in Nat /\ rest < Scale /\ rest <= v + half
  BY <1>1, <1>2
<1>4. Round2(v) = v + half - rest
  BY <1>1, <1>2, <1>3 DEF Round2
<1> QED
  BY <1>1, <1>2, <1>3, <1>4

LEMMA CellsMember ==
    ASSUME NEW volume, NEW S, NEW x
    PROVE  x \in Cells(volume, S) <=> \E i \in S : x \in {i} \X (1 .. volume[i])
BY DEF Cells

(* Rows outside S do not count. *)
LEMMA SumAgree ==
    ASSUME NEW volume, NEW other, NEW S, \A i \in S : volume[i] = other[i]
    PROVE  SumVolume(volume, S) = SumVolume(other, S)
<1>1. Cells(volume, S) = Cells(other, S)
  BY DEF Cells
<1> QED
  BY <1>1 DEF SumVolume

(* The cells of one item. *)
LEMMA OneItem ==
    ASSUME NEW i, NEW n \in Nat
    PROVE  IsFiniteSet({i} \X (1 .. n)) /\ Cardinality({i} \X (1 .. n)) = n
<1>1. IsFiniteSet({i}) /\ Cardinality({i}) = 1
  BY FS_Singleton, Zenon
<1>2. IsFiniteSet(1 .. n) /\ Cardinality(1 .. n) = n
  BY FS_Interval
<1>3. /\ IsFiniteSet({i} \X (1 .. n))
      /\ Cardinality({i} \X (1 .. n)) = Cardinality({i}) * Cardinality(1 .. n)
  BY <1>1, <1>2, FS_Product, Zenon
<1>4. Cardinality({i} \X (1 .. n)) = 1 * n
  BY <1>1, <1>2, <1>3, Zenon
<1> QED
  BY <1>3, <1>4

LEMMA SumType ==
    ASSUME NEW Rows, NEW volume \in [Rows -> Nat],
           NEW S \in SUBSET Rows, IsFiniteSet(S)
    PROVE  IsFiniteSet(Cells(volume, S)) /\ SumVolume(volume, S) \in Nat
<1> DEFINE family == {{i} \X (1 .. volume[i]) : i \in S}
           f == [i \in S |-> {i} \X (1 .. volume[i])]
<1>1. f \in Surjection(S, family)
  BY DEF Surjection
<1>2. IsFiniteSet(family)
  <2> HIDE DEF family, f
  <2> QED BY <1>1, FS_Surjection
<1>3. \A T \in family : IsFiniteSet(T)
  <2> TAKE T \in family
  <2>1. PICK i \in S : T = {i} \X (1 .. volume[i])
    OBVIOUS
  <2>2. volume[i] \in Nat
    OBVIOUS
  <2> QED
    BY <2>1, <2>2, OneItem
<1>4. IsFiniteSet(UNION family)
  <2> HIDE DEF family
  <2> QED BY <1>2, <1>3, FS_UNION
<1>5. Cells(volume, S) = UNION family
  BY DEF Cells
<1> QED
  BY <1>4, <1>5, FS_CardinalityType DEF SumVolume

LEMMA SumEmpty ==
    ASSUME NEW volume
    PROVE  SumVolume(volume, {}) = 0
<1>1. Cells(volume, {}) = {}
  BY DEF Cells
<1> QED
  BY <1>1, FS_EmptySet DEF SumVolume

(* One row more: INSERT, or an item that comes back. *)
LEMMA SumAdd ==
    ASSUME NEW Rows, NEW volume \in [Rows -> Nat],
           NEW S \in SUBSET Rows, IsFiniteSet(S),
           NEW i \in Rows, i \notin S
    PROVE  SumVolume(volume, S \cup {i}) = SumVolume(volume, S) + volume[i]
<1> DEFINE old == Cells(volume, S)
           new == {i} \X (1 .. volume[i])
<1>1. Cells(volume, S \cup {i}) = old \cup new
  BY DEF Cells
<1>2. old \cap new = {}
  <2>1. \A x \in old : \E j \in S : x \in {j} \X (1 .. volume[j])
    BY DEF Cells
  <2>2. \A x \in old : x[1] \in S
    BY <2>1
  <2>3. \A x \in new : x[1] = i
    OBVIOUS
  <2> QED
    BY <2>2, <2>3
<1>3. volume[i] \in Nat
  OBVIOUS
<1>4. IsFiniteSet(old) /\ Cardinality(old) \in Nat
  BY SumType DEF SumVolume
<1>5. IsFiniteSet(new) /\ Cardinality(new) = volume[i]
  BY <1>3, OneItem
<1>6. Cardinality(old \cup new)
        = Cardinality(old) + Cardinality(new) - Cardinality(old \cap new)
  <2> HIDE DEF old, new
  <2> QED BY <1>4, <1>5, FS_Union
<1>7. Cardinality(old \cap new) = 0
  BY <1>2, FS_EmptySet
<1> QED
  <2>1. SumVolume(volume, S \cup {i}) = Cardinality(old \cup new)
    BY <1>1 DEF SumVolume
  <2>2. SumVolume(volume, S) = Cardinality(old)
    BY DEF SumVolume
  <2> HIDE DEF old, new
  <2> QED BY <2>1, <2>2, <1>3, <1>4, <1>5, <1>6, <1>7

(* One row fewer: DELETE, a soft delete, or excludeItemId. *)
LEMMA SumRemove ==
    ASSUME NEW Rows, NEW volume \in [Rows -> Nat],
           NEW S \in SUBSET Rows, IsFiniteSet(S),
           NEW i \in S
    PROVE  SumVolume(volume, S) = SumVolume(volume, S \ {i}) + volume[i]
<1>1. IsFiniteSet(S \ {i})
  BY FS_RemoveElement
<1>2. S = (S \ {i}) \cup {i}
  OBVIOUS
<1>3. SumVolume(volume, (S \ {i}) \cup {i})
        = SumVolume(volume, S \ {i}) + volume[i]
  BY <1>1, SumAdd
<1> QED
  BY <1>2, <1>3

-----------------------------------------------------------------------------
(* The inductive invariant *)

AbsentItemsAreNowhere ==
    \A i \in Items : itemState[i] = "absent" =>
        containerId[i] = NoContainer /\ ~deletedByContainer[i]

UsedWithinTotal ==
    \A c \in Containers : containerState[c] = "live" =>
        usedVolume[c] <= totalVolume[c]

Inv ==
    /\ TypeOK
    /\ DeletionProtocol
    /\ AbsentItemsAreNowhere
    /\ UsedWithinTotal
    /\ UsedVolumeDriftBounded

-----------------------------------------------------------------------------
(* Live rows and their sum *)

LEMMA LiveItemsFinite ==
    ASSUME NEW c
    PROVE  LiveItems(c) \in SUBSET Items /\ IsFiniteSet(LiveItems(c))
<1>1. LiveItems(c) \in SUBSET Items
  BY DEF LiveItems
<1> QED
  BY <1>1, FS_Subset, InventoryAssumption

LEMMA ActiveVolumeType ==
    ASSUME TypeOK, NEW c
    PROVE  ActiveVolume(c) \in Nat
BY LiveItemsFinite, SumType DEF TypeOK, ActiveVolume

LEMMA CarriedVolumeType ==
    ASSUME TypeOK, NEW c
    PROVE  SumVolume(itemVolume, CarriedItems(c)) \in Nat
<1>1. CarriedItems(c) \in SUBSET Items
  BY DEF CarriedItems
<1>2. IsFiniteSet(CarriedItems(c))
  BY <1>1, FS_Subset, InventoryAssumption
<1> QED
  BY <1>1, <1>2, SumType DEF TypeOK

(* A step that leaves the live rows of a container and their volumes alone
   leaves their sum alone.                                                 *)
LEMMA ActiveVolumeFrame ==
    ASSUME NEW c,
           LiveItems(c)' = LiveItems(c),
           \A i \in LiveItems(c) : itemVolume'[i] = itemVolume[i]
    PROVE  ActiveVolume(c)' = ActiveVolume(c)
<1>1. SumVolume(itemVolume, LiveItems(c)) = SumVolume(itemVolume', LiveItems(c))
  BY SumAgree
<1> QED
  BY <1>1 DEF ActiveVolume

(* recalculateUsedVolume stores the exact sum of the rows after the step. *)
LEMMA RecalculatedSum ==
    ASSUME NEW c \in Containers, TypeOK, TypeOK',
           RecalculateUsedVolume(c, itemState', itemVolume'),
           containerId' = containerId, totalVolume' = totalVolume
    PROVE  /\ usedVolume'[c] = ActiveVolume(c)'
           /\ usedVolume'[c] <= totalVolume'[c]
           /\ \A d \in Containers \ {c} : usedVolume'[d] = usedVolume[d]
<1>1. LiveItems(c)' = {i \in Items : containerId[i] = c /\ itemState'[i] = "live"}
  BY DEF LiveItems
<1> QED
  BY <1>1 DEF RecalculateUsedVolume, ActiveVolume, UsedVolumeCheck, TypeOK

-----------------------------------------------------------------------------
(* Types *)

LEMMA TypeStep ==
    ASSUME Inv, [Next]_vars
    PROVE  TypeOK'
<1> USE DEF Inv, TypeOK, RowStates, Statuses
<1>1. ASSUME NEW c \in Containers, NEW t \in TotalVolumes, CreateContainer(c, t)
      PROVE  TypeOK'
  BY <1>1, InventoryAssumption DEF CreateContainer, itemVars
<1>2. ASSUME NEW c \in Containers, NEW t \in TotalVolumes, UpdateContainer(c, t)
      PROVE  TypeOK'
  BY <1>2, InventoryAssumption DEF UpdateContainer, itemVars
<1>3. ASSUME NEW c \in Containers, NEW s \in Statuses, UpdateStatus(c, s)
      PROVE  TypeOK'
  BY <1>3 DEF UpdateStatus, itemVars
<1>4. ASSUME NEW c \in Containers, SoftDeleteContainer(c)
      PROVE  TypeOK'
  BY <1>4 DEF SoftDeleteContainer
<1>5. ASSUME NEW c \in Containers, RestoreContainer(c)
      PROVE  TypeOK'
  <2>1. Round2(SumVolume(itemVolume, CarriedItems(c))) \in Nat
    BY CarriedVolumeType, Round2Near
  <2> QED
    BY <1>5, <2>1 DEF RestoreContainer
<1>6. ASSUME NEW c \in Containers, PermanentDeleteContainer(c)
      PROVE  TypeOK'
  BY <1>6 DEF PermanentDeleteContainer
<1>7. ASSUME NEW c \in Containers, UpdateUsedVolume(c)
      PROVE  TypeOK'
  <2>1. Round2(ActiveVolume(c)) \in Nat
    BY ActiveVolumeType, Round2Near
  <2> QED
    BY <1>7, <2>1 DEF UpdateUsedVolume, itemVars
<1>8. ASSUME NEW i \in Items, NEW c \in Containers, NEW v \in ItemVolumes,
             CreateItem(i, c, v)
      PROVE  TypeOK'
  <2>1. v \in Nat /\ usedVolume[c] + v \in Nat
    BY InventoryAssumption
  <2> QED
    BY <1>8, <2>1 DEF CreateItem
<1>9. ASSUME NEW w \in Workers, NEW op \in Operations, NEW i \in Items,
             FindItemReference(w, op, i)
      PROVE  TypeOK'
  <2>1. containerId[i] \in Containers
    BY <1>9 DEF FindItemReference, ReferenceAllows, DeletionProtocol,
                ItemRowsHaveContainerRow
  <2>2. [op |-> op, item |-> i, container |-> containerId[i]] \in Refs
    BY <2>1 DEF Refs
  <2> QED
    BY <1>9, <2>2 DEF FindItemReference, containerVars, itemVars
<1>10. ASSUME NEW w \in Workers, ref[w] # NoRef
       PROVE  ref[w].item \in Items /\ ref[w].container \in Containers
  BY <1>10 DEF Refs
<1>11. ASSUME NEW c \in Containers, NEW newState \in [Items -> RowStates],
              NEW newVolume \in [Items -> Nat],
              RecalculateUsedVolume(c, newState, newVolume)
       PROVE  usedVolume' \in [Containers -> Nat]
  <2> DEFINE rows == {i \in Items : containerId[i] = c /\ newState[i] = "live"}
  <2>1. rows \in SUBSET Items /\ IsFiniteSet(rows)
    BY FS_Subset, InventoryAssumption
  <2>2. SumVolume(newVolume, rows) \in Nat
    BY <2>1, SumType
  <2>3. usedVolume' = [usedVolume EXCEPT ![c] = SumVolume(newVolume, rows)]
    BY <1>11 DEF RecalculateUsedVolume
  <2> HIDE DEF rows
  <2> QED
    BY <2>2, <2>3
<1>12. ASSUME NEW w \in Workers, NEW v \in ItemVolumes, UpdateItem(w, v)
       PROVE  TypeOK'
  <2>1. ref[w].item \in Items /\ ref[w].container \in Containers
    BY <1>10, <1>12 DEF UpdateItem, Locked
  <2>2. itemVolume' \in [Items -> Nat]
    BY <1>12, <2>1, InventoryAssumption DEF UpdateItem
  <2>3. usedVolume' \in [Containers -> Nat]
    BY <1>11, <1>12, <2>1, <2>2 DEF UpdateItem
  <2> QED
    BY <1>12, <2>2, <2>3 DEF UpdateItem, Release
<1>13. ASSUME NEW w \in Workers, SoftDeleteItem(w)
       PROVE  TypeOK'
  <2>1. ref[w].item \in Items /\ ref[w].container \in Containers
    BY <1>10, <1>13 DEF SoftDeleteItem, Locked
  <2>2. itemState' \in [Items -> RowStates]
    BY <1>13, <2>1 DEF SoftDeleteItem
  <2>3. usedVolume' \in [Containers -> Nat]
    BY <1>11, <1>13, <2>1, <2>2 DEF SoftDeleteItem
  <2> QED
    BY <1>13, <2>2, <2>3 DEF SoftDeleteItem, Release
<1>14. ASSUME NEW w \in Workers, RestoreItem(w)
       PROVE  TypeOK'
  <2>1. ref[w].item \in Items /\ ref[w].container \in Containers
    BY <1>10, <1>14 DEF RestoreItem, Locked
  <2>2. itemState' \in [Items -> RowStates]
    BY <1>14, <2>1 DEF RestoreItem
  <2>3. usedVolume' \in [Containers -> Nat]
    BY <1>11, <1>14, <2>1, <2>2 DEF RestoreItem
  <2> QED
    BY <1>14, <2>2, <2>3 DEF RestoreItem, Release
<1>15. ASSUME NEW w \in Workers, PermanentDeleteItem(w)
       PROVE  TypeOK'
  <2>1. ref[w].item \in Items /\ ref[w].container \in Containers
    BY <1>10, <1>15 DEF PermanentDeleteItem, Locked
  <2>2. itemState' \in [Items -> RowStates]
    BY <1>15, <2>1 DEF PermanentDeleteItem
  <2>3. usedVolume' \in [Containers -> Nat]
    BY <1>11, <1>15, <2>1, <2>2 DEF PermanentDeleteItem
  <2> QED
    BY <1>15, <2>2, <2>3 DEF PermanentDeleteItem, Release
<1>16. ASSUME NEW w \in Workers, Abort(w)
       PROVE  TypeOK'
  BY <1>16 DEF Abort, Release, containerVars, itemVars
<1>17. CASE UNCHANGED vars
  BY <1>17 DEF vars, containerVars, itemVars
<1> QED
  BY <1>1, <1>2, <1>3, <1>4, <1>5, <1>6, <1>7, <1>8, <1>9, <1>12, <1>13, <1>14,
     <1>15, <1>16, <1>17
     DEF Next, ContainerStep, ItemRequest, WorkerStep

(* A worker's reference names an item and a container. *)
LEMMA RefType ==
    ASSUME TypeOK, NEW w \in Workers, ref[w] # NoRef
    PROVE  ref[w].item \in Items /\ ref[w].container \in Containers
BY DEF TypeOK, Refs

-----------------------------------------------------------------------------
(* Deletion protocol *)

LEMMA DeletionStep ==
    ASSUME Inv, [Next]_vars
    PROVE  DeletionProtocol' /\ AbsentItemsAreNowhere'
<1> USE DEF Inv, DeletionProtocol, LiveItemsHaveLiveContainer,
            FlaggedItemsAwaitTheirContainer, ItemRowsHaveContainerRow,
            AbsentItemsAreNowhere
<1> DEFINE Goal == DeletionProtocol' /\ AbsentItemsAreNowhere'
<1>0. TypeOK
  OBVIOUS
<1>1. ASSUME NEW c \in Containers, NEW t \in TotalVolumes, CreateContainer(c, t)
      PROVE  Goal
  BY <1>1, <1>0 DEF CreateContainer, itemVars, TypeOK
<1>2. ASSUME NEW c \in Containers, NEW t \in TotalVolumes, UpdateContainer(c, t)
      PROVE  Goal
  BY <1>2 DEF UpdateContainer, itemVars
<1>3. ASSUME NEW c \in Containers, NEW s \in Statuses, UpdateStatus(c, s)
      PROVE  Goal
  BY <1>3 DEF UpdateStatus, itemVars
<1>4. ASSUME NEW c \in Containers, SoftDeleteContainer(c)
      PROVE  Goal
  BY <1>4, <1>0 DEF SoftDeleteContainer, LiveItems, TypeOK
<1>5. ASSUME NEW c \in Containers, RestoreContainer(c)
      PROVE  Goal
  BY <1>5, <1>0 DEF RestoreContainer, CarriedItems, LiveItems, TypeOK
<1>6. ASSUME NEW c \in Containers, PermanentDeleteContainer(c)
      PROVE  Goal
  BY <1>6, <1>0 DEF PermanentDeleteContainer, RowsOf, TypeOK
<1>7. ASSUME NEW c \in Containers, UpdateUsedVolume(c)
      PROVE  Goal
  BY <1>7 DEF UpdateUsedVolume, itemVars
<1>8. ASSUME NEW i \in Items, NEW c \in Containers, NEW v \in ItemVolumes,
             CreateItem(i, c, v)
      PROVE  Goal
  BY <1>8, <1>0 DEF CreateItem, TypeOK
<1>9. ASSUME NEW w \in Workers, NEW op \in Operations, NEW i \in Items,
             FindItemReference(w, op, i)
      PROVE  Goal
  BY <1>9 DEF FindItemReference, containerVars, itemVars
<1>10. ASSUME NEW w \in Workers, NEW v \in ItemVolumes, UpdateItem(w, v)
       PROVE  Goal
  BY <1>10 DEF UpdateItem
<1>11. ASSUME NEW w \in Workers, SoftDeleteItem(w)
       PROVE  Goal
  BY <1>11, <1>0, RefType DEF SoftDeleteItem, Locked, TypeOK
<1>12. ASSUME NEW w \in Workers, RestoreItem(w)
       PROVE  Goal
  BY <1>12, <1>0, RefType DEF RestoreItem, RestoreAllowed, Locked, TypeOK
<1>13. ASSUME NEW w \in Workers, PermanentDeleteItem(w)
       PROVE  Goal
  BY <1>13, <1>0, RefType DEF PermanentDeleteItem, PurgeAllowed, Locked, TypeOK
<1>14. ASSUME NEW w \in Workers, Abort(w)
       PROVE  Goal
  BY <1>14 DEF Abort, containerVars, itemVars
<1>15. CASE UNCHANGED vars
  BY <1>15 DEF vars, containerVars, itemVars
<1> QED
  BY <1>1, <1>2, <1>3, <1>4, <1>5, <1>6, <1>7, <1>8, <1>9, <1>10, <1>11, <1>12,
     <1>13, <1>14, <1>15
     DEF Next, ContainerStep, ItemRequest, WorkerStep

-----------------------------------------------------------------------------
(* Used volume *)

(* An item operation that recalculates: the container it locked becomes
   exact, the live rows of every other container are untouched.            *)
LEMMA RecalculationStep ==
    ASSUME Inv, TypeOK', NEW i \in Items, NEW c \in Containers,
           containerId[i] = c,
           RecalculateUsedVolume(c, itemState', itemVolume'),
           UNCHANGED <<containerState, totalVolume, containerId>>,
           \A j \in Items \ {i} : itemState'[j] = itemState[j]
                                  /\ itemVolume'[j] = itemVolume[j]
    PROVE  UsedWithinTotal' /\ UsedVolumeDriftBounded'
<1>1. /\ usedVolume'[c] = ActiveVolume(c)'
      /\ usedVolume'[c] <= totalVolume'[c]
      /\ \A d \in Containers \ {c} : usedVolume'[d] = usedVolume[d]
  BY RecalculatedSum DEF Inv
<1>2. \A d \in Containers \ {c} : ActiveVolume(d)' = ActiveVolume(d)
  <2> TAKE d \in Containers \ {c}
  <2>1. LiveItems(d)' = LiveItems(d)
    BY DEF LiveItems
  <2>2. \A j \in LiveItems(d) : itemVolume'[j] = itemVolume[j]
    BY DEF LiveItems
  <2> QED
    BY <2>1, <2>2, ActiveVolumeFrame
<1>3. ActiveVolume(c)' \in Nat
  BY <1>1 DEF TypeOK
<1>4. UsedWithinTotal'
  BY <1>1 DEF UsedWithinTotal, Inv
<1>5. UsedVolumeDriftBounded'
  BY <1>1, <1>2, <1>3, ScaleAssumption DEF UsedVolumeDriftBounded, Inv
<1> QED
  BY <1>4, <1>5

LEMMA VolumeStep ==
    ASSUME Inv, [Next]_vars, TypeOK'
    PROVE  UsedWithinTotal' /\ UsedVolumeDriftBounded'
<1> DEFINE Goal == UsedWithinTotal' /\ UsedVolumeDriftBounded'
<1>0. TypeOK /\ DeletionProtocol /\ UsedWithinTotal /\ UsedVolumeDriftBounded
  BY DEF Inv
(* Steps that leave the item rows alone leave every sum alone. *)
<1>1. ASSUME UNCHANGED itemVars
      PROVE  \A d \in Containers : ActiveVolume(d)' = ActiveVolume(d)
  BY <1>1 DEF itemVars, ActiveVolume, LiveItems
<1>2. ASSUME NEW c \in Containers, NEW t \in TotalVolumes, CreateContainer(c, t)
      PROVE  Goal
  <2>1. LiveItems(c)' = {}
    BY <1>0, <1>2 DEF CreateContainer, LiveItems, itemVars, DeletionProtocol,
                      LiveItemsHaveLiveContainer
  <2>2. ActiveVolume(c)' = 0
    BY <2>1, SumEmpty DEF ActiveVolume
  <2>3. \A d \in Containers : ActiveVolume(d)' = ActiveVolume(d)
    BY <1>1, <1>2 DEF CreateContainer
  <2>4. t \in Nat /\ Scale \in Nat
    BY InventoryAssumption, ScaleAssumption
  <2> QED
    BY <1>0, <1>2, <2>2, <2>3, <2>4
       DEF CreateContainer, UsedWithinTotal, UsedVolumeDriftBounded, TypeOK
<1>3. ASSUME NEW c \in Containers, NEW t \in TotalVolumes, UpdateContainer(c, t)
      PROVE  Goal
  <2>1. \A d \in Containers : ActiveVolume(d)' = ActiveVolume(d)
    BY <1>1, <1>3 DEF UpdateContainer
  <2> QED
    BY <1>0, <1>3, <2>1 DEF UpdateContainer, UsedVolumeCheck, UsedWithinTotal,
                            UsedVolumeDriftBounded, TypeOK
<1>4. ASSUME NEW c \in Containers, NEW s \in Statuses, UpdateStatus(c, s)
      PROVE  Goal
  <2>1. \A d \in Containers : ActiveVolume(d)' = ActiveVolume(d)
    BY <1>1, <1>4 DEF UpdateStatus
  <2> QED
    BY <1>0, <1>4, <2>1 DEF UpdateStatus, UsedWithinTotal, UsedVolumeDriftBounded
<1>5. ASSUME NEW c \in Containers, SoftDeleteContainer(c)
      PROVE  Goal
  <2>1. \A d \in Containers \ {c} : LiveItems(d)' = LiveItems(d)
    BY <1>5 DEF SoftDeleteContainer, LiveItems
  <2>2. \A d \in Containers \ {c} : ActiveVolume(d)' = ActiveVolume(d)
    BY <1>5, <2>1, ActiveVolumeFrame DEF SoftDeleteContainer
  <2> QED
    BY <1>0, <1>5, <2>2 DEF SoftDeleteContainer, UsedWithinTotal,
                            UsedVolumeDriftBounded, TypeOK
<1>6. ASSUME NEW c \in Containers, RestoreContainer(c)
      PROVE  Goal
  <2> DEFINE sum == SumVolume(itemVolume, CarriedItems(c))
  <2>1. LiveItems(c)' = CarriedItems(c)
    BY <1>6 DEF RestoreContainer, LiveItems, CarriedItems
  <2>2. ActiveVolume(c)' = sum
    BY <1>6, <2>1 DEF RestoreContainer, ActiveVolume
  <2>3. \A d \in Containers \ {c} : LiveItems(d)' = LiveItems(d)
    BY <1>6 DEF RestoreContainer, LiveItems, CarriedItems
  <2>4. \A d \in Containers \ {c} : ActiveVolume(d)' = ActiveVolume(d)
    BY <1>6, <2>3, ActiveVolumeFrame DEF RestoreContainer
  <2>5. sum \in Nat
    BY <1>0, CarriedVolumeType
  <2>6. /\ Round2(sum) \in Nat
        /\ 2 * (Round2(sum) - sum) <= Scale
        /\ 2 * (sum - Round2(sum)) <= Scale
    <3> HIDE DEF sum
    <3> QED BY <2>5, Round2Near
  <2>7. /\ usedVolume' = [usedVolume EXCEPT ![c] = Round2(sum)]
        /\ Round2(sum) <= totalVolume[c]
        /\ totalVolume' = totalVolume
        /\ containerState' = [containerState EXCEPT ![c] = "live"]
    BY <1>6 DEF RestoreContainer, UsedVolumeCheck
  <2> HIDE DEF sum
  <2> QED
    BY <1>0, <2>2, <2>4, <2>6, <2>7
       DEF UsedWithinTotal, UsedVolumeDriftBounded, TypeOK
<1>7. ASSUME NEW c \in Containers, PermanentDeleteContainer(c)
      PROVE  Goal
  <2>1. \A d \in Containers \ {c} : LiveItems(d)' = LiveItems(d)
    BY <1>7 DEF PermanentDeleteContainer, LiveItems, RowsOf
  <2>2. \A d \in Containers \ {c} : ActiveVolume(d)' = ActiveVolume(d)
    BY <1>7, <2>1, ActiveVolumeFrame DEF PermanentDeleteContainer
  <2> QED
    BY <1>0, <1>7, <2>2 DEF PermanentDeleteContainer, UsedWithinTotal,
                            UsedVolumeDriftBounded, TypeOK
<1>8. ASSUME NEW c \in Containers, UpdateUsedVolume(c)
      PROVE  Goal
  <2>1. \A d \in Containers : ActiveVolume(d)' = ActiveVolume(d)
    BY <1>1, <1>8 DEF UpdateUsedVolume
  <2>2. /\ Round2(ActiveVolume(c)) \in Nat
        /\ 2 * (Round2(ActiveVolume(c)) - ActiveVolume(c)) <= Scale
        /\ 2 * (ActiveVolume(c) - Round2(ActiveVolume(c))) <= Scale
    BY <1>0, ActiveVolumeType, Round2Near
  <2> QED
    BY <1>0, <1>8, <2>1, <2>2
       DEF UpdateUsedVolume, UsedVolumeCheck, UsedWithinTotal,
           UsedVolumeDriftBounded, TypeOK
<1>9. ASSUME NEW i \in Items, NEW c \in Containers, NEW v \in ItemVolumes,
             CreateItem(i, c, v)
      PROVE  Goal
  <2>1. i \notin LiveItems(c) /\ LiveItems(c)' = LiveItems(c) \cup {i}
    BY <1>0, <1>9 DEF CreateItem, LiveItems, TypeOK
  <2>2. v \in Nat /\ Scale \in Nat
    BY InventoryAssumption, ScaleAssumption
  <2>3. itemVolume' \in [Items -> Nat] /\ itemVolume'[i] = v
        /\ \A j \in Items \ {i} : itemVolume'[j] = itemVolume[j]
    BY <1>0, <1>9, <2>2 DEF CreateItem, TypeOK
  <2>4. SumVolume(itemVolume', LiveItems(c) \cup {i})
          = SumVolume(itemVolume', LiveItems(c)) + v
    BY <2>1, <2>3, LiveItemsFinite, SumAdd
  <2>5. SumVolume(itemVolume', LiveItems(c)) = SumVolume(itemVolume, LiveItems(c))
    <3>1. \A j \in LiveItems(c) : itemVolume'[j] = itemVolume[j]
      BY <2>1, <2>3 DEF LiveItems
    <3> QED
      BY <3>1, SumAgree
  <2>6. ActiveVolume(c)' = ActiveVolume(c) + v
    BY <2>1, <2>4, <2>5 DEF ActiveVolume
  <2>7. \A d \in Containers \ {c} : ActiveVolume(d)' = ActiveVolume(d)
    <3> TAKE d \in Containers \ {c}
    <3>1. LiveItems(d)' = LiveItems(d)
      BY <1>0, <1>9 DEF CreateItem, LiveItems, TypeOK
    <3>2. \A j \in LiveItems(d) : itemVolume'[j] = itemVolume[j]
      BY <1>9, <2>3 DEF LiveItems, CreateItem
    <3> QED
      BY <3>1, <3>2, ActiveVolumeFrame
  <2>8. ActiveVolume(c) \in Nat
    BY <1>0, ActiveVolumeType
  <2> QED
    BY <1>0, <1>9, <2>2, <2>6, <2>7, <2>8
       DEF CreateItem, UsedWithinTotal, UsedVolumeDriftBounded, TypeOK
<1>10. ASSUME NEW w \in Workers, NEW op \in Operations, NEW i \in Items,
              FindItemReference(w, op, i)
       PROVE  Goal
  <2>1. \A d \in Containers : ActiveVolume(d)' = ActiveVolume(d)
    BY <1>1, <1>10 DEF FindItemReference
  <2> QED
    BY <1>0, <1>10, <2>1 DEF FindItemReference, containerVars, UsedWithinTotal,
                             UsedVolumeDriftBounded
<1>11. ASSUME NEW w \in Workers, NEW v \in ItemVolumes, UpdateItem(w, v)
       PROVE  Goal
  <2>1. /\ ref[w].item \in Items /\ ref[w].container \in Containers
        /\ containerId[ref[w].item] = ref[w].container
    BY <1>0, <1>11, RefType DEF UpdateItem, Locked
  <2>2. RecalculateUsedVolume(ref[w].container, itemState', itemVolume')
    BY <1>11 DEF UpdateItem
  <2>3. UNCHANGED <<containerState, totalVolume, containerId, itemState>>
    BY <1>11 DEF UpdateItem
  <2>4. \A j \in Items \ {ref[w].item} : itemVolume'[j] = itemVolume[j]
    BY <1>0, <1>11 DEF UpdateItem, TypeOK
  <2> QED
    BY <2>1, <2>2, <2>3, <2>4, RecalculationStep
<1>12. ASSUME NEW w \in Workers, SoftDeleteItem(w)
       PROVE  Goal
  <2>1. /\ ref[w].item \in Items /\ ref[w].container \in Containers
        /\ containerId[ref[w].item] = ref[w].container
    BY <1>0, <1>12, RefType DEF SoftDeleteItem, Locked
  <2>2. RecalculateUsedVolume(ref[w].container, itemState', itemVolume')
    BY <1>12 DEF SoftDeleteItem
  <2>3. UNCHANGED <<containerState, totalVolume, containerId, itemVolume>>
    BY <1>12 DEF SoftDeleteItem
  <2>4. \A j \in Items \ {ref[w].item} : itemState'[j] = itemState[j]
    BY <1>0, <1>12 DEF SoftDeleteItem, TypeOK
  <2> QED
    BY <2>1, <2>2, <2>3, <2>4, RecalculationStep
<1>13. ASSUME NEW w \in Workers, RestoreItem(w)
       PROVE  Goal
  <2>1. /\ ref[w].item \in Items /\ ref[w].container \in Containers
        /\ containerId[ref[w].item] = ref[w].container
    BY <1>0, <1>13, RefType DEF RestoreItem, Locked
  <2>2. RecalculateUsedVolume(ref[w].container, itemState', itemVolume')
    BY <1>13 DEF RestoreItem
  <2>3. UNCHANGED <<containerState, totalVolume, containerId, itemVolume>>
    BY <1>13 DEF RestoreItem
  <2>4. \A j \in Items \ {ref[w].item} : itemState'[j] = itemState[j]
    BY <1>0, <1>13 DEF RestoreItem, TypeOK
  <2> QED
    BY <2>1, <2>2, <2>3, <2>4, RecalculationStep
<1>14. ASSUME NEW w \in Workers, PermanentDeleteItem(w)
       PROVE  Goal
  <2>1. /\ ref[w].item \in Items /\ ref[w].container \in Containers
        /\ containerId[ref[w].item] = ref[w].container
    BY <1>0, <1>14, RefType DEF PermanentDeleteItem, Locked
  <2>2. RecalculateUsedVolume(ref[w].container, itemState', itemVolume')
    BY <1>14 DEF PermanentDeleteItem
  <2>3. UNCHANGED <<containerState, totalVolume, containerId, itemVolume>>
    BY <1>14 DEF PermanentDeleteItem
  <2>4. \A j \in Items \ {ref[w].item} : itemState'[j] = itemState[j]
    BY <1>0, <1>14 DEF PermanentDeleteItem, TypeOK
  <2> QED
    BY <2>1, <2>2, <2>3, <2>4, RecalculationStep
<1>15. ASSUME NEW w \in Workers, Abort(w)
       PROVE  Goal
  <2>1. \A d \in Containers : ActiveVolume(d)' = ActiveVolume(d)
    BY <1>1, <1>15 DEF Abort
  <2> QED
    BY <1>0, <1>15, <2>1 DEF Abort, containerVars, UsedWithinTotal,
                             UsedVolumeDriftBounded
<1>16. CASE UNCHANGED vars
  <2>1. \A d \in Containers : ActiveVolume(d)' = ActiveVolume(d)
    BY <1>1, <1>16 DEF vars
  <2> QED
    BY <1>0, <1>16, <2>1 DEF vars, containerVars, UsedWithinTotal,
                             UsedVolumeDriftBounded
<1> QED
  BY <1>2, <1>3, <1>4, <1>5, <1>6, <1>7, <1>8, <1>9, <1>10, <1>11, <1>12, <1>13,
     <1>14, <1>15, <1>16
     DEF Next, ContainerStep, ItemRequest, WorkerStep

-----------------------------------------------------------------------------
(* The invariant and what it gives *)

LEMMA InitInv ==
    ASSUME Init
    PROVE  Inv
<1>1. TypeOK
  BY DEF Init, TypeOK, RowStates, Statuses
<1>2. DeletionProtocol /\ AbsentItemsAreNowhere
  BY DEF Init, DeletionProtocol, LiveItemsHaveLiveContainer,
         FlaggedItemsAwaitTheirContainer, ItemRowsHaveContainerRow,
         AbsentItemsAreNowhere
<1>3. UsedWithinTotal /\ UsedVolumeDriftBounded
  BY DEF Init, UsedWithinTotal, UsedVolumeDriftBounded
<1> QED
  BY <1>1, <1>2, <1>3 DEF Inv

LEMMA StepInv ==
    ASSUME Inv, [Next]_vars
    PROVE  Inv'
<1>1. TypeOK'
  BY TypeStep
<1>2. DeletionProtocol' /\ AbsentItemsAreNowhere'
  BY DeletionStep
<1>3. UsedWithinTotal' /\ UsedVolumeDriftBounded'
  BY <1>1, VolumeStep
<1> QED
  BY <1>1, <1>2, <1>3 DEF Inv

(* Inv is an invariant of the two services together. *)
THEOREM Invariance == Spec => []Inv
<1>1. Init => Inv
  BY InitInv
<1>2. Inv /\ [Next]_vars => Inv'
  BY StepInv
<1> QED
  BY <1>1, <1>2, PTL DEF Spec

(* Every reachable state is well typed (create, the recalculations and the
   rounded restore keep the used volume a natural number).                 *)
THEOREM TypeCorrect == Spec => []TypeOK
<1>1. Inv => TypeOK
  BY DEF Inv
<1> QED
  BY <1>1, Invariance, PTL

(* softDelete, restore and permanentDelete of containers and of items, in
   any interleaving, keep the protocol of deletedAt and deletedByContainer. *)
THEOREM DeletionProtocolHolds == Spec => []DeletionProtocol
<1>1. Inv => DeletionProtocol
  BY DEF Inv
<1> QED
  BY <1>1, Invariance, PTL

(* Container.usedVolume stays within half a hundredth of the sum of its
   active items, for every Scale.                                          *)
THEOREM DriftBounded == Spec => []UsedVolumeDriftBounded
<1>1. Inv => UsedVolumeDriftBounded
  BY DEF Inv
<1> QED
  BY <1>1, Invariance, PTL

(* No container is filled past its total plus half a hundredth. *)
THEOREM CapacityBounded == Spec => []CapacityWithinHalf
<1>1. Inv => CapacityWithinHalf
  <2> SUFFICES ASSUME Inv, NEW c \in Containers, containerState[c] = "live"
               PROVE  2 * (ActiveVolume(c) - totalVolume[c]) <= Scale
    BY DEF CapacityWithinHalf
  <2>1. ActiveVolume(c) \in Nat /\ Scale \in Nat
    BY ActiveVolumeType, ScaleAssumption DEF Inv
  <2> QED
    BY <2>1 DEF Inv, TypeOK, UsedWithinTotal, UsedVolumeDriftBounded
<1> QED
  BY <1>1, Invariance, PTL

(* With volumes of two decimals (Scale = 1) no container is over-filled. *)
THEOREM ExactWithTwoDecimals ==
    ASSUME Scale = 1
    PROVE  Spec => []CapacityRespected
<1>1. Inv => CapacityRespected
  <2> SUFFICES ASSUME Inv, NEW c \in Containers, containerState[c] = "live"
               PROVE  ActiveVolume(c) <= totalVolume[c]
    BY DEF CapacityRespected
  <2>1. ActiveVolume(c) \in Nat
    BY ActiveVolumeType DEF Inv
  <2> QED
    BY <2>1 DEF Inv, TypeOK, UsedWithinTotal, UsedVolumeDriftBounded
<1> QED
  BY <1>1, Invariance, PTL

(* An item deleted on its own comes back only through items.service.ts
   restore, never with its container.                                      *)
THEOREM NoResurrection == Spec => IndividuallyDeletedComesBackAlone
<1> DEFINE Alone == \A i \in Items :
              /\ itemState[i] = "deleted" /\ ~deletedByContainer[i]
              /\ itemState'[i] = "live"
              => UNCHANGED containerState
<1>1. ASSUME Inv, [Next]_vars
      PROVE  Alone
  <2> SUFFICES ASSUME NEW i \in Items, itemState[i] = "deleted",
                      ~deletedByContainer[i], itemState'[i] = "live"
               PROVE  UNCHANGED containerState
    OBVIOUS
  <2>1. ASSUME NEW c \in Containers, ContainerStep(c)
        PROVE  UNCHANGED containerState
    BY <2>1 DEF ContainerStep, CreateContainer, UpdateContainer, UpdateStatus,
                SoftDeleteContainer, RestoreContainer, PermanentDeleteContainer,
                UpdateUsedVolume, CarriedItems, itemVars
  <2>2. ASSUME ItemRequest
        PROVE  UNCHANGED containerState
    BY <2>2 DEF ItemRequest, CreateItem, FindItemReference, containerVars
  <2>3. ASSUME NEW w \in Workers, WorkerStep(w)
        PROVE  UNCHANGED containerState
    BY <2>3 DEF WorkerStep, UpdateItem, SoftDeleteItem, RestoreItem,
                PermanentDeleteItem, Abort, containerVars
  <2> QED
    BY <1>1, <2>1, <2>2, <2>3 DEF Next, vars, containerVars
<1>2. Inv /\ [Next]_vars => [Alone]_vars
  BY <1>1
<1> HIDE DEF Alone
<1>3. Spec => [][Alone]_vars
  BY <1>2, Invariance, PTL DEF Spec
<1> QED
  BY <1>3 DEF IndividuallyDeletedComesBackAlone, Alone

-----------------------------------------------------------------------------
(* Inventory implements ContainerStorage: every step of the two services   *)
(* is a step of the abstract storage or leaves it alone.                   *)

(* A live container has no flagged items, a deleted one no live items. *)
LEMMA ContentByPhase ==
    ASSUME Inv, NEW c \in Containers
    PROVE  /\ containerState[c] = "live" => StorageContent[c] = LiveItems(c)
           /\ containerState[c] = "deleted" => StorageContent[c] = CarriedItems(c)
           /\ containerState[c] \in {"absent", "purged"} =>
                 StorageContent[c] = {} /\ StorageBin[c] = {}
BY DEF Inv, DeletionProtocol, LiveItemsHaveLiveContainer, TypeOK,
       FlaggedItemsAwaitTheirContainer, ItemRowsHaveContainerRow,
       StorageContent, StorageBin, LiveItems, CarriedItems

LEMMA InitRefines ==
    ASSUME Init
    PROVE  Storage!Init
BY DEF Init, Storage!Init, StoragePhase, PhaseOf, StorageContent, StorageBin,
       LiveItems, CarriedItems

ContentFits ==
    \A c \in Containers : containerState[c] = "live" =>
        FitsWithinHalf(itemVolume, StorageContent[c], totalVolume[c])

(* A live container fits its content, by the drift bound. *)
LEMMA LiveFits == Inv => ContentFits
<1> SUFFICES ASSUME Inv, NEW c \in Containers, containerState[c] = "live"
             PROVE  FitsWithinHalf(itemVolume, StorageContent[c], totalVolume[c])
  BY DEF ContentFits
<1>1. StorageContent[c] = LiveItems(c)
  BY ContentByPhase
<1>2. ActiveVolume(c) \in Nat /\ Scale \in Nat
  BY ActiveVolumeType, ScaleAssumption DEF Inv
<1>3. 2 * (ActiveVolume(c) - totalVolume[c]) <= Scale
  BY <1>2 DEF Inv, TypeOK, UsedWithinTotal, UsedVolumeDriftBounded
<1> QED
  BY <1>1, <1>3 DEF ActiveVolume, FitsWithinHalf

(* A set per container that changes at one container only. *)
LEMMA ChangeAt ==
    ASSUME NEW f, NEW g, NEW c \in Containers, NEW new,
           f = [d \in Containers |-> f[d]], g = [d \in Containers |-> g[d]],
           g[c] = new, \A d \in Containers \ {c} : g[d] = f[d]
    PROVE  g = [f EXCEPT ![c] = new]
OBVIOUS

LEMMA ContentsAreFunctions ==
    /\ StorageContent = [d \in Containers |-> StorageContent[d]]
    /\ StorageBin = [d \in Containers |-> StorageBin[d]]
    /\ StorageContent' = [d \in Containers |-> StorageContent'[d]]
    /\ StorageBin' = [d \in Containers |-> StorageBin'[d]]
BY DEF StorageContent, StorageBin

LEMMA PhaseNames ==
    /\ PhaseOf["absent"] = "none"
    /\ PhaseOf["live"] = "open"
    /\ PhaseOf["deleted"] = "archived"
    /\ PhaseOf["purged"] = "gone"
BY DEF PhaseOf

(* The mapped phase follows the life cycle of the row. *)
LEMMA PhaseChange ==
    ASSUME TypeOK, NEW c \in Containers, NEW s \in RowStates,
           containerState' = [containerState EXCEPT ![c] = s]
    PROVE  /\ StoragePhase' = [StoragePhase EXCEPT ![c] = PhaseOf[s]]
           /\ StoragePhase[c] = PhaseOf[containerState[c]]
BY DEF StoragePhase, TypeOK

(* Steps that leave the item rows alone leave every content and bin alone. *)
LEMMA SameItems ==
    ASSUME UNCHANGED itemVars
    PROVE  UNCHANGED <<StorageContent, StorageBin, itemVolume>>
BY DEF itemVars, StorageContent, StorageBin, LiveItems, CarriedItems

LEMMA StepRefines ==
    ASSUME Inv, Inv', [Next]_vars
    PROVE  [Storage!Next]_Storage!storageVars
<1> DEFINE Goal == [Storage!Next]_Storage!storageVars
<1>0. TypeOK /\ DeletionProtocol /\ AbsentItemsAreNowhere /\ TypeOK'
  BY DEF Inv
<1>a. ASSUME UNCHANGED <<containerState, totalVolume, itemVars>>
      PROVE  Goal
  BY <1>a, SameItems DEF Storage!storageVars, StoragePhase
(* A container that is live after the step fits its content then. *)
<1>b. ContentFits'
  BY LiveFits, PTL
<1>c. ASSUME NEW c \in Containers, containerState'[c] = "live"
      PROVE  FitsWithinHalf(itemVolume', StorageContent'[c], totalVolume'[c])
  BY <1>b, <1>c DEF ContentFits
<1>1. ASSUME NEW c \in Containers, NEW t \in TotalVolumes, CreateContainer(c, t)
      PROVE  Goal
  <2>1. /\ StoragePhase' = [StoragePhase EXCEPT ![c] = "open"]
        /\ StoragePhase[c] = "none"
    BY <1>0, <1>1, PhaseChange, PhaseNames DEF CreateContainer, RowStates
  <2>2. Storage!Open(c, t)
    BY <1>1, <2>1, SameItems DEF CreateContainer, Storage!Open
  <2> QED
    BY <2>2 DEF Storage!Next
<1>2. ASSUME NEW c \in Containers, NEW t \in TotalVolumes, UpdateContainer(c, t)
      PROVE  Goal
  <2>1. FitsWithinHalf(itemVolume', StorageContent'[c], totalVolume'[c])
    BY <1>2, <1>c DEF UpdateContainer
  <2>2. UNCHANGED <<StorageContent, StorageBin, itemVolume>> /\ totalVolume'[c] = t
    BY <1>0, <1>2, SameItems DEF UpdateContainer, TypeOK
  <2>3. FitsWithinHalf(itemVolume, StorageContent[c], t)
    BY <2>1, <2>2
  <2>4. StoragePhase' = StoragePhase /\ StoragePhase[c] = "open"
    BY <1>2 DEF UpdateContainer, StoragePhase, PhaseOf
  <2>5. Storage!Resize(c, t)
    BY <1>2, <2>2, <2>3, <2>4 DEF UpdateContainer, Storage!Resize
  <2> QED
    BY <2>5 DEF Storage!Next
<1>3. ASSUME NEW c \in Containers, NEW s \in Statuses, UpdateStatus(c, s)
      PROVE  Goal
  BY <1>a, <1>3 DEF UpdateStatus
<1>4. ASSUME NEW c \in Containers, SoftDeleteContainer(c)
      PROVE  Goal
  <2>1. /\ StoragePhase' = [StoragePhase EXCEPT ![c] = "archived"]
        /\ StoragePhase[c] = "open"
    BY <1>0, <1>4, PhaseChange, PhaseNames DEF SoftDeleteContainer, RowStates
  <2>2. /\ StorageContent' = StorageContent
        /\ StorageBin' = StorageBin
    BY <1>0, <1>4 DEF SoftDeleteContainer, StorageContent, StorageBin, LiveItems,
                      CarriedItems, TypeOK
  <2>3. Storage!Archive(c)
    BY <1>4, <2>1, <2>2 DEF SoftDeleteContainer, Storage!Archive
  <2> QED
    BY <2>3 DEF Storage!Next
<1>5. ASSUME NEW c \in Containers, RestoreContainer(c)
      PROVE  Goal
  <2>1. /\ StoragePhase' = [StoragePhase EXCEPT ![c] = "open"]
        /\ StoragePhase[c] = "archived"
    BY <1>0, <1>5, PhaseChange, PhaseNames DEF RestoreContainer, RowStates
  <2>2. /\ StorageContent' = StorageContent
        /\ StorageBin' = StorageBin
    BY <1>0, <1>5 DEF RestoreContainer, StorageContent, StorageBin, LiveItems,
                      CarriedItems, TypeOK
  <2>3. FitsWithinHalf(itemVolume', StorageContent'[c], totalVolume'[c])
    BY <1>0, <1>5, <1>c DEF RestoreContainer, TypeOK
  <2>4. FitsWithinHalf(itemVolume, StorageContent[c], totalVolume[c])
    BY <1>5, <2>2, <2>3 DEF RestoreContainer
  <2>5. Storage!Reopen(c)
    BY <1>5, <2>1, <2>2, <2>4 DEF RestoreContainer, Storage!Reopen
  <2> QED
    BY <2>5 DEF Storage!Next
<1>6. ASSUME NEW c \in Containers, PermanentDeleteContainer(c)
      PROVE  Goal
  <2>1. /\ StoragePhase' = [StoragePhase EXCEPT ![c] = "gone"]
        /\ StoragePhase[c] = "archived"
    BY <1>0, <1>6, PhaseChange, PhaseNames DEF PermanentDeleteContainer, RowStates
  <2>2. /\ StorageContent' = [StorageContent EXCEPT ![c] = {}]
        /\ StorageBin' = [StorageBin EXCEPT ![c] = {}]
    <3>1. StorageContent'[c] = {} /\ StorageBin'[c] = {}
      BY <1>0, <1>6 DEF PermanentDeleteContainer, StorageContent, StorageBin,
                        LiveItems, CarriedItems, RowsOf, TypeOK
    <3>2. \A d \in Containers \ {c} : StorageContent'[d] = StorageContent[d]
                                      /\ StorageBin'[d] = StorageBin[d]
      BY <1>0, <1>6 DEF PermanentDeleteContainer, StorageContent, StorageBin,
                        LiveItems, CarriedItems, RowsOf, TypeOK
    <3> QED
      BY <3>1, <3>2, ChangeAt, ContentsAreFunctions
  <2>3. Storage!Shred(c)
    BY <1>6, <2>1, <2>2 DEF PermanentDeleteContainer, Storage!Shred
  <2> QED
    BY <2>3 DEF Storage!Next
<1>7. ASSUME NEW c \in Containers, UpdateUsedVolume(c)
      PROVE  Goal
  BY <1>a, <1>7 DEF UpdateUsedVolume
<1>8. ASSUME NEW i \in Items, NEW c \in Containers, NEW v \in ItemVolumes,
             CreateItem(i, c, v)
      PROVE  Goal
  <2>1. StoragePhase' = StoragePhase /\ StoragePhase[c] = "open"
    BY <1>8 DEF CreateItem, StoragePhase, PhaseOf
  <2>2. i \notin Storage!Known
    BY <1>0, <1>8 DEF CreateItem, Storage!Known, StorageContent, StorageBin,
                      LiveItems, CarriedItems
  <2>3. /\ StorageContent' = [StorageContent EXCEPT ![c] = @ \cup {i}]
        /\ StorageBin' = StorageBin
    <3>1. StorageContent'[c] = StorageContent[c] \cup {i}
      BY <1>0, <1>8 DEF CreateItem, AbsentItemsAreNowhere, StorageContent,
                        LiveItems, CarriedItems, TypeOK
    <3>2. \A d \in Containers \ {c} : StorageContent'[d] = StorageContent[d]
      BY <1>0, <1>8, InventoryAssumption
         DEF CreateItem, AbsentItemsAreNowhere, StorageContent, LiveItems,
             CarriedItems, TypeOK
    <3>3. StorageBin' = StorageBin
      BY <1>0, <1>8, InventoryAssumption
         DEF CreateItem, AbsentItemsAreNowhere, StorageBin, TypeOK
    <3> QED
      BY <3>1, <3>2, <3>3, ChangeAt, ContentsAreFunctions
  <2>4. FitsWithinHalf(itemVolume', StorageContent'[c], totalVolume[c])
    BY <1>8, <1>c DEF CreateItem
  <2>5. Storage!Put(c, i, v)
    BY <1>8, <2>1, <2>2, <2>3, <2>4 DEF CreateItem, Storage!Put
  <2> QED
    BY <2>5 DEF Storage!Next
<1>9. ASSUME NEW w \in Workers, NEW op \in Operations, NEW i \in Items,
             FindItemReference(w, op, i)
      PROVE  Goal
  BY <1>a, <1>9 DEF FindItemReference, containerVars
<1>10. ASSUME NEW w \in Workers, NEW v \in ItemVolumes, UpdateItem(w, v)
       PROVE  Goal
  <2> DEFINE i == ref[w].item
             c == ref[w].container
  <2>1. /\ i \in Items /\ c \in Containers /\ containerId[i] = c
        /\ itemState[i] = "live" /\ containerState[c] = "live"
    BY <1>0, <1>10, RefType DEF UpdateItem, Locked
  <2>2. StoragePhase' = StoragePhase /\ StoragePhase[c] = "open"
    BY <1>10, <2>1 DEF UpdateItem, StoragePhase, PhaseOf
  <2>3. StorageContent' = StorageContent /\ StorageBin' = StorageBin
    BY <1>10 DEF UpdateItem, StorageContent, StorageBin, LiveItems, CarriedItems
  <2>4. i \in StorageContent[c]
    BY <2>1 DEF StorageContent, LiveItems
  <2>5. FitsWithinHalf(itemVolume', StorageContent[c], totalVolume[c])
    BY <1>10, <1>c, <2>1, <2>3 DEF UpdateItem
  <2>6. /\ itemVolume' = [itemVolume EXCEPT ![i] = v]
        /\ totalVolume' = totalVolume
    BY <1>10 DEF UpdateItem
  <2>7. Storage!Reshape(c, i, v)
    <3> HIDE DEF i, c
    <3> QED BY <2>2, <2>3, <2>4, <2>5, <2>6 DEF Storage!Reshape
  <2> HIDE DEF i, c
  <2> QED
    BY <2>1, <2>7 DEF Storage!Next
<1>11. ASSUME NEW w \in Workers, SoftDeleteItem(w)
       PROVE  Goal
  <2> DEFINE i == ref[w].item
             c == ref[w].container
  <2>1. /\ i \in Items /\ c \in Containers /\ containerId[i] = c
        /\ itemState[i] = "live"
    BY <1>0, <1>11, RefType DEF SoftDeleteItem, Locked
  <2>2. StoragePhase' = StoragePhase /\ StoragePhase[c] = "open"
    BY <1>0, <1>11, <2>1 DEF SoftDeleteItem, StoragePhase, PhaseOf,
                             DeletionProtocol, LiveItemsHaveLiveContainer
  <2>3. i \in StorageContent[c]
    BY <2>1 DEF StorageContent, LiveItems
  <2>4. /\ itemState' = [itemState EXCEPT ![i] = "deleted"]
        /\ deletedByContainer' = [deletedByContainer EXCEPT ![i] = FALSE]
        /\ UNCHANGED <<containerId, totalVolume, itemVolume>>
    BY <1>11 DEF SoftDeleteItem
  <2>5. /\ StorageContent' = [StorageContent EXCEPT ![c] = @ \ {i}]
        /\ StorageBin' = [StorageBin EXCEPT ![c] = @ \cup {i}]
    <3> HIDE DEF i, c
    <3>1. /\ StorageContent'[c] = StorageContent[c] \ {i}
          /\ StorageBin'[c] = StorageBin[c] \cup {i}
      BY <1>0, <2>1, <2>4 DEF StorageContent, StorageBin, LiveItems,
                              CarriedItems, TypeOK
    <3>2. \A d \in Containers \ {c} : StorageContent'[d] = StorageContent[d]
                                      /\ StorageBin'[d] = StorageBin[d]
      BY <1>0, <2>1, <2>4 DEF StorageContent, StorageBin, LiveItems,
                              CarriedItems, TypeOK
    <3> QED
      BY <2>1, <3>1, <3>2, ChangeAt, ContentsAreFunctions
  <2>6. Storage!Discard(c, i)
    <3> HIDE DEF i, c
    <3> QED BY <2>2, <2>3, <2>4, <2>5 DEF Storage!Discard
  <2> HIDE DEF i, c
  <2> QED
    BY <2>1, <2>6 DEF Storage!Next
<1>12. ASSUME NEW w \in Workers, RestoreItem(w)
       PROVE  Goal
  <2> DEFINE i == ref[w].item
             c == ref[w].container
  <2>1. /\ i \in Items /\ c \in Containers /\ containerId[i] = c
        /\ itemState[i] = "deleted" /\ ~deletedByContainer[i]
        /\ containerState[c] = "live"
    BY <1>0, <1>12, RefType DEF RestoreItem, RestoreAllowed, Locked
  <2>2. StoragePhase' = StoragePhase /\ StoragePhase[c] = "open"
    BY <1>12, <2>1 DEF RestoreItem, StoragePhase, PhaseOf
  <2>3. i \in StorageBin[c]
    BY <2>1 DEF StorageBin
  <2>4. /\ itemState' = [itemState EXCEPT ![i] = "live"]
        /\ deletedByContainer' = [deletedByContainer EXCEPT ![i] = FALSE]
        /\ UNCHANGED <<containerId, totalVolume, itemVolume, containerState>>
    BY <1>12 DEF RestoreItem
  <2>5. /\ StorageContent' = [StorageContent EXCEPT ![c] = @ \cup {i}]
        /\ StorageBin' = [StorageBin EXCEPT ![c] = @ \ {i}]
    <3> HIDE DEF i, c
    <3>1. /\ StorageContent'[c] = StorageContent[c] \cup {i}
          /\ StorageBin'[c] = StorageBin[c] \ {i}
      BY <1>0, <2>1, <2>4 DEF StorageContent, StorageBin, LiveItems,
                              CarriedItems, TypeOK
    <3>2. \A d \in Containers \ {c} : StorageContent'[d] = StorageContent[d]
                                      /\ StorageBin'[d] = StorageBin[d]
      BY <1>0, <2>1, <2>4 DEF StorageContent, StorageBin, LiveItems,
                              CarriedItems, TypeOK
    <3> QED
      BY <2>1, <3>1, <3>2, ChangeAt, ContentsAreFunctions
  <2>6. FitsWithinHalf(itemVolume, StorageContent'[c], totalVolume[c])
    BY <1>c, <2>1, <2>4
  <2>7. Storage!Recover(c, i)
    <3> HIDE DEF i, c
    <3> QED BY <2>2, <2>3, <2>4, <2>5, <2>6 DEF Storage!Recover
  <2> HIDE DEF i, c
  <2> QED
    BY <2>1, <2>7 DEF Storage!Next
<1>13. ASSUME NEW w \in Workers, PermanentDeleteItem(w)
       PROVE  Goal
  <2> DEFINE i == ref[w].item
             c == ref[w].container
  <2>1. /\ i \in Items /\ c \in Containers /\ containerId[i] = c
        /\ itemState[i] = "deleted" /\ ~deletedByContainer[i]
    BY <1>0, <1>13, RefType DEF PermanentDeleteItem, PurgeAllowed, Locked
  <2>2. i \in StorageBin[c]
    BY <2>1 DEF StorageBin
  <2>3. /\ itemState' = [itemState EXCEPT ![i] = "purged"]
        /\ UNCHANGED <<containerId, totalVolume, itemVolume, containerState,
                       deletedByContainer>>
    BY <1>13 DEF PermanentDeleteItem
  <2>4. /\ StorageContent' = StorageContent
        /\ StorageBin' = [StorageBin EXCEPT ![c] = @ \ {i}]
    <3> HIDE DEF i, c
    <3> QED BY <1>0, <2>1, <2>3 DEF StorageContent, StorageBin, LiveItems,
                                    CarriedItems, TypeOK
  <2>5. Storage!Destroy(c, i)
    <3> HIDE DEF i, c
    <3> QED BY <2>2, <2>3, <2>4 DEF Storage!Destroy, StoragePhase
  <2> HIDE DEF i, c
  <2> QED
    BY <2>1, <2>5 DEF Storage!Next
<1>14. ASSUME NEW w \in Workers, Abort(w)
       PROVE  Goal
  BY <1>a, <1>14 DEF Abort, containerVars
<1>15. CASE UNCHANGED vars
  BY <1>a, <1>15 DEF vars, containerVars
<1> QED
  BY <1>1, <1>2, <1>3, <1>4, <1>5, <1>6, <1>7, <1>8, <1>9, <1>10, <1>11, <1>12,
     <1>13, <1>14, <1>15
     DEF Next, ContainerStep, ItemRequest, WorkerStep

(* The container and item services implement the abstract storage. *)
THEOREM Refinement == Spec => ImplementsStorage
<1>1. Init => Storage!Init
  BY InitRefines
<1>2. Inv /\ Inv' /\ [Next]_vars => [Storage!Next]_Storage!storageVars
  BY StepRefines
<1> QED
  BY <1>1, <1>2, Invariance, PTL DEF Spec, ImplementsStorage, Storage!StorageSpec
=============================================================================
