--------------------------- MODULE BrowserProofs ---------------------------
(***************************************************************************)
(* Proofs about the browser's lists (BrowserLists) and about the pages     *)
(* with a search box (SearchPages), for every set of slots and any bounds. *)
(*                                                                         *)
(* BrowserLists.  A spinner's count is the number of functions that raised *)
(* it (Counting).  Of the loads of a list only those count that the list   *)
(* would show: of an unguarded list all, of the items the latest.  While a *)
(* list is not known to have been crossed, at most one load of it counts,  *)
(* and what that one brings is what the list should show, or a change that *)
(* nobody has reported yet will load it again (ListOK).                    *)
(*                                                                         *)
(* SearchPages.  The invariant is that of SearchPagesInvariant.            *)
(* A run of the effects restores most of it whatever was under way         *)
(* (EffectsKeep); any other step moves one slot, and what was due or under *)
(* way elsewhere stays so (SearchesOn, LoadsOn).                           *)
(***************************************************************************)
EXTENDS BrowserLists, SearchPagesInvariant, FiniteSetTheorems, TLAPS

Work(lists) == [context : Contexts, spinner : Spinners, call : {None, "read", "write"},
                loads : SUBSET lists, changes : SUBSET lists,
                query : {"asked", "cleared", "kept"}]

(* A function loads again every list it changes. *)
Sound(f) == f \in Work(watched) /\ f.changes \subseteq f.loads

Cargo == [at : {None, "sent", "served"}, query : Queries, version : Int]

Programs == [does : Work(watched) \cup {Nothing}, call : {None, "sent", "done"},
             load : [watched -> Cargo]]

Shape ==
    /\ \A f \in due : Sound(f)
    /\ shown \in [watched -> [query : Queries, version : Int]]
    /\ query \in [watched -> Queries]
    /\ count \in [Contexts -> [Spinners -> Nat]]
    /\ flag \in [Contexts -> [Spinners -> BOOLEAN]]
    /\ run \in [Slots -> Programs]
    /\ version \in [watched -> Int]
    /\ trust \in [watched -> {"pending", "kept", "crossed", "unsure"}]

(* A function calls first and loads then, and leaves its slot as it found it. *)
Tidy(x) ==
    /\ x.does.changes \subseteq x.does.loads
    /\ x.does = Nothing => x = Resting
    /\ x.call # None => \A l \in watched : x.load[l].at = None

Raised(c, k) == {s \in Slots : run[s].does.context = c /\ run[s].does.spinner = k}

Counting ==
    \A c \in Contexts, k \in Spinners :
        /\ count[c][k] = Cardinality(Raised(c, k))
        /\ flag[c][k] <=> Raised(c, k) # {}

(* The answer to this load would be shown. *)
Counts(s, l) == run[s].load[l].at # None /\ ~Superseded(s, l)

(* The server has changed the list, and the function that asked for it does
   not know yet.                                                            *)
Unreported(l) == \E s \in Slots : run[s].call = "done" /\ l \in run[s].does.changes

Alone(l) ==
    /\ trust[l] \in {"pending", "kept"} =>
          \A s, q \in Slots : Counts(s, l) /\ Counts(q, l) => s = q
    /\ trust[l] = "kept" => \A s \in Slots : ~Counts(s, l)

Brings(l) ==
    trust[l] = "pending" =>
        \A s \in Slots : Counts(s, l) =>
            /\ ~RemembersLate(l) => run[s].load[l].query = query[l]
            /\ run[s].load[l].at = "served" =>
                  run[s].load[l].version = version[l] \/ Unreported(l)

Shows(l) ==
    trust[l] = "kept" =>
        /\ shown[l].query = query[l]
        /\ shown[l].version = version[l] \/ Unreported(l)

ListOK(l) == Alone(l) /\ Brings(l) /\ Shows(l)

ListsInv ==
    /\ Shape
    /\ \A s \in Slots : Tidy(run[s])
    /\ Counting
    /\ \A l \in watched : ListOK(l)

-----------------------------------------------------------------------------
(* The functions *)

LEMMA FetchWork ==
    ASSUME NEW c \in Contexts, NEW l \in AllLists
    PROVE  /\ Fetch(c, l) \in Work(AllLists) /\ Fetch(c, l).changes = {}
           /\ Reset(c, l) \in Work(AllLists) /\ Reset(c, l).changes = {}
           /\ [Fetch(c, l) EXCEPT !.query = "kept"] \in Work(AllLists)
           /\ [Fetch(c, l) EXCEPT !.query = "kept"].changes = {}
BY DEF Fetch, Reset, Work, Spinners

LEMMA ReadWork ==
    ASSUME NEW c \in Contexts, NEW k \in Spinners
    PROVE  Read(c, k) \in Work(AllLists) /\ Read(c, k).changes = {}
BY DEF Read, Work

LEMMA WriteWork ==
    ASSUME NEW c \in Contexts, NEW k \in Spinners, NEW loads \in SUBSET AllLists,
           NEW changes \in SUBSET loads
    PROVE  /\ Write(c, k, loads, changes) \in Work(AllLists)
           /\ Write(c, k, loads, changes).changes \subseteq Write(c, k, loads, changes).loads
BY DEF Write, Work

LEMMA ContainerWork ==
    \A f \in ContainerFunctions : f \in Work(AllLists) /\ f.changes \subseteq f.loads
<1> DEFINE OK(f) == f \in Work(AllLists) /\ f.changes \subseteq f.loads
<1>1. "container" \in Contexts /\ {"loading", "fetching"} \subseteq Spinners
  BY DEF Contexts, Spinners
<1>2. Shelves \cup {"deletedContainers", "containers"} \subseteq AllLists
  BY DEF Shelves, AllLists
<1>3. {"active", "archived"} \subseteq AllLists
  BY DEF AllLists
<1>4. /\ OK(FetchContainers) /\ OK(FetchActiveContainers) /\ OK(FetchArchivedContainers)
      /\ OK(FetchDeletedContainers) /\ OK(ResetContainerFilters)
  BY <1>1, <1>2, <1>3, FetchWork
     DEF FetchContainers, FetchActiveContainers, FetchArchivedContainers,
         FetchDeletedContainers, ResetContainerFilters
<1>5. OK(GetContainer) /\ OK(SearchContainers)
  BY <1>1, ReadWork DEF GetContainer, SearchContainers
<1>6. OK(CreateContainer) /\ OK(UpdateContainer) /\ OK(UpdateContainerStatus)
  BY <1>1, <1>2, WriteWork DEF CreateContainer, UpdateContainer, UpdateContainerStatus
<1>7. OK(SoftDeleteContainer) /\ OK(RestoreContainer) /\ OK(PermanentDeleteContainer)
  BY <1>1, <1>2, WriteWork
     DEF SoftDeleteContainer, RestoreContainer, PermanentDeleteContainer
<1> QED BY <1>4, <1>5, <1>6, <1>7 DEF ContainerFunctions

LEMMA ItemWork ==
    \A f \in ItemFunctions : f \in Work(AllLists) /\ f.changes \subseteq f.loads
<1> DEFINE OK(f) == f \in Work(AllLists) /\ f.changes \subseteq f.loads
<1>1. "item" \in Contexts /\ {"loading", "fetching"} \subseteq Spinners
  BY DEF Contexts, Spinners
<1>2. {"items", "deletedItems"} \subseteq AllLists
  BY DEF AllLists
<1>3. OK(FetchItems) /\ OK(FetchDeletedItems) /\ OK(ResetItemFilters)
  BY <1>1, <1>2, FetchWork DEF FetchItems, FetchDeletedItems, ResetItemFilters
<1>4. OK(GetItem) /\ OK(SearchItems)
  BY <1>1, ReadWork DEF GetItem, SearchItems
<1>5. OK(CreateItem) /\ OK(UpdateItem) /\ OK(SoftDeleteItem)
  BY <1>1, <1>2, WriteWork DEF CreateItem, UpdateItem, SoftDeleteItem
<1>6. OK(RestoreItem) /\ OK(PermanentDeleteItem)
  BY <1>1, <1>2, WriteWork DEF RestoreItem, PermanentDeleteItem
<1> QED BY <1>3, <1>4, <1>5, <1>6 DEF ItemFunctions

LEMMA AllWork ==
    \A f \in AllFunctions : f \in Work(AllLists) /\ f.changes \subseteq f.loads
<1> DEFINE OK(f) == f \in Work(AllLists) /\ f.changes \subseteq f.loads
<1>1. {"audit", "dashboard"} \subseteq Contexts /\ {"loading", "fetching"} \subseteq Spinners
  BY DEF Contexts, Spinners
<1>2. {"logs", "stats", "summary"} \subseteq AllLists
  BY DEF AllLists
<1>3. OK(FetchLogs) /\ OK(FetchLogsByUser) /\ OK(FetchLogsByAction) /\ OK(FetchStats)
      /\ OK(FetchSummary)
  BY <1>1, <1>2, FetchWork
     DEF FetchLogs, FetchLogsByUser, FetchLogsByAction, FetchStats, FetchSummary
<1>4. OK(GetLog)
  BY <1>1, ReadWork DEF GetLog
<1>5. OK(CleanupLogs)
  BY <1>1, <1>2, WriteWork DEF CleanupLogs
<1>6. \A f \in AuditFunctions \cup {FetchSummary} : OK(f)
  BY <1>3, <1>4, <1>5 DEF AuditFunctions
<1> QED BY <1>6, ContainerWork, ItemWork DEF AllFunctions

LEMMA FunctionsSound ==
    /\ \A f \in Functions : Sound(f)
    /\ \A fetches : fetches \subseteq AllFunctions => \A f \in Initial(fetches) : Sound(f)
<1>1. ASSUME NEW g \in AllFunctions
      PROVE  Sound([g EXCEPT !.loads = @ \cap watched, !.changes = @ \cap watched])
  <2>1. g \in Work(AllLists) /\ g.changes \subseteq g.loads
    BY AllWork
  <2> DEFINE f == [g EXCEPT !.loads = @ \cap watched, !.changes = @ \cap watched]
  <2>2. f.loads = g.loads \cap watched /\ f.changes = g.changes \cap watched
    BY <2>1 DEF Work
  <2>3. f \in Work(watched)
    BY <2>1 DEF Work
  <2> QED BY <2>1, <2>2, <2>3 DEF Sound
<1>2. \A f \in Functions : Sound(f)
  BY <1>1 DEF Functions
<1>3. ASSUME NEW g \in AllFunctions, g.loads \subseteq watched
      PROVE  Sound(g)
  BY <1>3, AllWork DEF Sound, Work
<1> QED BY <1>2, <1>3 DEF Initial

LEMMA RunningSound ==
    ASSUME NEW f, Sound(f)
    PROVE  /\ Sound(Running(f)) /\ Running(f) # Nothing /\ f.context \in Contexts
           /\ f.spinner \in Spinners
           /\ Running(f).context = f.context /\ Running(f).spinner = f.spinner
           /\ Running(f).loads = f.loads /\ Running(f).changes = f.changes
           /\ Running(f).call = f.call
<1>1. Nothing.context = None /\ None \notin Contexts
  BY DEF Nothing, None, Contexts
<1> QED BY <1>1 DEF Sound, Running, Work

-----------------------------------------------------------------------------
(* One slot moves on, to x *)

MovesTo(s, x) ==
    /\ watched' = watched
    /\ run' \in [Slots -> Programs]
    /\ run'[s] = x
    /\ \A q \in Slots : q # s => run'[q] = run[q]

LEMMA Moving ==
    ASSUME Shape, watched' = watched, NEW s \in Slots, NEW x \in Programs,
           run' = [run EXCEPT ![s] = x]
    PROVE  MovesTo(s, x)
BY DEF Shape, MovesTo

LEMMA RestingType ==
    /\ Resting \in Programs /\ Tidy(Resting) /\ Resting.does = Nothing
    /\ Resting.call = None /\ \A l \in watched : Resting.load[l] = NoLoad
<1>1. NoLoad \in Cargo
  BY ListsAssumption DEF NoLoad, Cargo, ListsAssumption
<1>2. [l \in watched |-> NoLoad] \in [watched -> Cargo]
  BY <1>1
<1>3. Resting \in Programs
  BY <1>2 DEF Resting, Programs
<1> QED BY <1>3 DEF Resting, Tidy, Nothing

(* What the slots have raised of each spinner. *)
LEMMA RaisedFinite ==
    \A c, k : IsFiniteSet(Raised(c, k)) /\ Cardinality(Raised(c, k)) \in Nat
<1> TAKE c, k
<1>1. IsFiniteSet(Raised(c, k))
  BY FS_Subset, BrowserAssumption DEF Raised, BrowserAssumption
<1> QED BY <1>1, FS_CardinalityType

LEMMA SpinnersKept ==
    ASSUME Shape, Counting, NEW s \in Slots, NEW x, MovesTo(s, x),
           x.does.context = run[s].does.context, x.does.spinner = run[s].does.spinner,
           UNCHANGED spinnerVars
    PROVE  Counting' /\ count' \in [Contexts -> [Spinners -> Nat]]
           /\ flag' \in [Contexts -> [Spinners -> BOOLEAN]]
<1>1. \A q \in Slots : /\ run'[q].does.context = run[q].does.context
                       /\ run'[q].does.spinner = run[q].does.spinner
  BY DEF MovesTo
<1>2. \A c, k : {q \in Slots : run'[q].does.context = c /\ run'[q].does.spinner = k}
                  = Raised(c, k)
  BY <1>1 DEF Raised
<1>3. count' = count /\ flag' = flag
  BY DEF spinnerVars
<1>4. Counting'
  <2> SUFFICES ASSUME NEW c \in Contexts, NEW k \in Spinners
               PROVE  /\ count'[c][k] = Cardinality(Raised(c, k)')
                      /\ flag'[c][k] <=> Raised(c, k)' # {}
    BY DEF Counting
  <2>1. Raised(c, k)' = Raised(c, k)
    BY <1>2 DEF Raised
  <2> QED BY <1>3, <2>1 DEF Counting
<1> QED BY <1>3, <1>4 DEF Shape

LEMMA SpinnerStarts ==
    ASSUME Shape, Counting, NEW s \in Slots, NEW x, MovesTo(s, x), NEW f, Sound(f),
           run[s].does = Nothing, x.does = Running(f), StartSpinner(f)
    PROVE  Counting' /\ count' \in [Contexts -> [Spinners -> Nat]]
           /\ flag' \in [Contexts -> [Spinners -> BOOLEAN]]
<1> DEFINE Later(c, k) == {q \in Slots : run'[q].does.context = c /\ run'[q].does.spinner = k}
<1>1. /\ x.does.context = f.context /\ x.does.spinner = f.spinner
      /\ f.context \in Contexts /\ f.spinner \in Spinners
  BY RunningSound
<1>2. run[s].does.context \notin Contexts
  BY DEF Nothing, None, Contexts
<1>3. count' \in [Contexts -> [Spinners -> Nat]] /\ flag' \in [Contexts -> [Spinners -> BOOLEAN]]
  BY <1>1 DEF StartSpinner, Shape
<1> SUFFICES ASSUME NEW c \in Contexts, NEW k \in Spinners
             PROVE  /\ count'[c][k] = Cardinality(Later(c, k))
                    /\ flag'[c][k] <=> Later(c, k) # {}
  BY <1>3 DEF Counting, Raised
<1>4. CASE c = f.context /\ k = f.spinner
  <2>1. Later(c, k) = Raised(c, k) \cup {s} /\ s \notin Raised(c, k)
    BY <1>1, <1>2, <1>4 DEF Raised, MovesTo
  <2>2. Cardinality(Raised(c, k) \cup {s}) = Cardinality(Raised(c, k)) + 1
    BY <2>1, RaisedFinite, FS_AddElement
  <2>3. count'[c][k] = count[c][k] + 1 /\ flag'[c][k] = TRUE
    BY <1>1, <1>4 DEF StartSpinner, Shape
  <2> HIDE DEF Later
  <2> QED BY <2>1, <2>2, <2>3 DEF Counting
<1>5. CASE ~(c = f.context /\ k = f.spinner)
  <2>1. Later(c, k) = Raised(c, k)
    BY <1>1, <1>2, <1>5 DEF Raised, MovesTo
  <2>2. count'[c][k] = count[c][k] /\ flag'[c][k] = flag[c][k]
    BY <1>1, <1>5 DEF StartSpinner, Shape
  <2> HIDE DEF Later
  <2> QED BY <2>1, <2>2 DEF Counting
<1> QED BY <1>4, <1>5

LEMMA SpinnerStops ==
    ASSUME Shape, Counting, NEW s \in Slots, NEW x, MovesTo(s, x),
           run[s].does # Nothing, x.does = Nothing, StopSpinner(run[s].does)
    PROVE  Counting' /\ count' \in [Contexts -> [Spinners -> Nat]]
           /\ flag' \in [Contexts -> [Spinners -> BOOLEAN]]
<1> DEFINE Later(c, k) == {q \in Slots : run'[q].does.context = c /\ run'[q].does.spinner = k}
           f == run[s].does
<1>1. f.context \in Contexts /\ f.spinner \in Spinners
  <2>1. f \in Work(watched)
    BY DEF Shape, Programs
  <2> QED BY <2>1 DEF Work
<1>2. x.does.context \notin Contexts
  BY DEF Nothing, None, Contexts
<1>c. count[f.context][f.spinner] \in Nat
  BY <1>1 DEF Shape
<1>3. count' \in [Contexts -> [Spinners -> Nat]] /\ flag' \in [Contexts -> [Spinners -> BOOLEAN]]
  <2>1. (IF count[f.context][f.spinner] > 0 THEN count[f.context][f.spinner] - 1 ELSE 0) \in Nat
    BY <1>c
  <2> HIDE DEF f
  <2> QED BY <1>1, <2>1 DEF StopSpinner, Shape, f
<1> SUFFICES ASSUME NEW c \in Contexts, NEW k \in Spinners
             PROVE  /\ count'[c][k] = Cardinality(Later(c, k))
                    /\ flag'[c][k] <=> Later(c, k) # {}
  BY <1>3 DEF Counting, Raised
<1>4. CASE c = f.context /\ k = f.spinner
  <2>1. Later(c, k) = Raised(c, k) \ {s} /\ s \in Raised(c, k)
    BY <1>1, <1>2, <1>4 DEF Raised, MovesTo
  <2>2. Cardinality(Raised(c, k) \ {s}) = Cardinality(Raised(c, k)) - 1
    BY <2>1, RaisedFinite, FS_RemoveElement
  <2>3. count[c][k] = Cardinality(Raised(c, k)) /\ flag[c][k] = TRUE
    BY <2>1 DEF Counting, Shape
  <2>4. Cardinality(Raised(c, k)) \in Nat /\ IsFiniteSet(Later(c, k))
    BY <2>1, RaisedFinite, FS_Subset
  <2>5. Cardinality(Later(c, k)) = 0 <=> Later(c, k) = {}
    BY <2>4, FS_EmptySet
  <2>6. Cardinality(Later(c, k)) \in Nat
    BY <2>4, FS_CardinalityType
  <2>7. /\ count'[c][k] = IF count[c][k] > 0 THEN count[c][k] - 1 ELSE 0
        /\ flag'[c][k] = (flag[c][k] /\ count[c][k] > 1)
    <3> HIDE DEF f
    <3> QED BY <1>1, <1>4 DEF StopSpinner, Shape, f
  <2> HIDE DEF Later
  <2>8. count'[c][k] = Cardinality(Raised(c, k)) - 1
    BY <2>1, <2>2, <2>3, <2>4, <2>6, <2>7
  <2>9. flag'[c][k] <=> Cardinality(Raised(c, k)) > 1
    BY <2>3, <2>7
  <2>10. Cardinality(Raised(c, k)) > 1 <=> Cardinality(Later(c, k)) # 0
    BY <2>1, <2>2, <2>4, <2>6
  <2> QED BY <2>1, <2>2, <2>5, <2>8, <2>9, <2>10
<1>5. CASE ~(c = f.context /\ k = f.spinner)
  <2>1. Later(c, k) = Raised(c, k)
    BY <1>1, <1>2, <1>5 DEF Raised, MovesTo
  <2>2. count'[c][k] = count[c][k] /\ flag'[c][k] = flag[c][k]
    <3> HIDE DEF f
    <3> QED BY <1>1, <1>5 DEF StopSpinner, Shape, f
  <2> HIDE DEF Later
  <2> QED BY <2>1, <2>2 DEF Counting
<1> QED BY <1>4, <1>5

-----------------------------------------------------------------------------
(* What a step makes of a list *)

(* The step reports no change of the list, and makes none it will not. *)
Reports(s, x, l) ==
    /\ run[s].call = "done" /\ l \in run[s].does.changes =>
           x.call = "done" /\ l \in x.does.changes
    /\ version'[l] = version[l] \/ (x.call = "done" /\ l \in x.does.changes)

LEMMA StillUnreported ==
    ASSUME NEW s \in Slots, NEW x, MovesTo(s, x), NEW l, Reports(s, x, l)
    PROVE  (version'[l] = version[l] /\ ~Unreported(l)) \/ Unreported(l)'
<1>1. x.call = "done" /\ l \in x.does.changes => Unreported(l)'
  BY DEF Unreported, MovesTo
<1>2. ASSUME NEW q \in Slots, q # s, run[q].call = "done", l \in run[q].does.changes
      PROVE  Unreported(l)'
  BY <1>2 DEF Unreported, MovesTo
<1> QED BY <1>1, <1>2 DEF Unreported, Reports

(* A step that leaves the list and its loads alone, or drops one. *)
LEMMA ListQuiet ==
    ASSUME Shape, NEW s \in Slots, NEW x, MovesTo(s, x), NEW l \in watched, ListOK(l),
           x.load[l] = run[s].load[l] \/ x.load[l] = NoLoad,
           trust'[l] = trust[l], shown'[l] = shown[l], query'[l] = query[l],
           latest' = latest \/ l # "items", Reports(s, x, l)
    PROVE  ListOK(l)'
<1>1. (version'[l] = version[l] /\ ~Unreported(l)) \/ Unreported(l)'
  BY StillUnreported
<1>2. \A q \in Slots : run'[q].load[l] = run[q].load[l] \/ run'[q].load[l] = NoLoad
  BY DEF MovesTo
<1>3. \A q \in Slots : Superseded(q, l)' <=> Superseded(q, l)
  BY DEF Superseded, Guarded
<1>4. ASSUME NEW q \in Slots, Counts(q, l)'
      PROVE  Counts(q, l) /\ run'[q].load[l] = run[q].load[l]
  BY <1>2, <1>3, <1>4 DEF Counts, NoLoad
<1>5. Alone(l)'
  BY <1>4 DEF ListOK, Alone
<1>6. Brings(l)'
  <2> SUFFICES ASSUME trust'[l] = "pending", NEW q \in Slots, Counts(q, l)'
               PROVE  /\ ~RemembersLate(l) => run'[q].load[l].query = query'[l]
                      /\ run'[q].load[l].at = "served" =>
                            run'[q].load[l].version = version'[l] \/ Unreported(l)'
    BY DEF Brings, RemembersLate
  <2>1. Counts(q, l) /\ run'[q].load[l] = run[q].load[l]
    BY <1>4
  <2> QED BY <1>1, <2>1 DEF ListOK, Brings
<1>7. Shows(l)'
  BY <1>1 DEF ListOK, Shows
<1> QED BY <1>5, <1>6, <1>7 DEF ListOK

(* What SendLoads sends for list l, and what a slot becomes by it. *)
Asks(f, l) == l \in f.loads /\ f.query # "kept"

SentWith(f, q) ==
    [does |-> Running(f), call |-> None,
     load |-> [l \in watched |->
                 IF l \in f.loads
                 THEN [at |-> "sent", query |-> IF Asks(f, l) THEN q ELSE query[l], version |-> -1]
                 ELSE NoLoad]]

LEMMA SendingFacts ==
    ASSUME Shape, NEW s \in Slots, NEW f, Sound(f), NEW q \in Queries, SendLoads(s, f, q)
    PROVE  /\ SentWith(f, q) \in Programs /\ Tidy(SentWith(f, q))
           /\ run' = [run EXCEPT ![s] = SentWith(f, q)]
           /\ query' = [l \in watched |-> IF Asks(f, l) /\ ~RemembersLate(l) THEN q ELSE query[l]]
           /\ query' \in [watched -> Queries]
           /\ latest' = IF "items" \in f.loads THEN s ELSE latest
           /\ trust' = [l \in watched |->
                          IF l \notin f.loads THEN trust[l]
                          ELSE IF Out(l) /\ ~Guarded(l) THEN "crossed" ELSE "pending"]
           /\ trust' \in [watched -> {"pending", "kept", "crossed", "unsure"}]
<1>1. /\ run' = [run EXCEPT ![s] = SentWith(f, q)]
      /\ query' = [l \in watched |-> IF Asks(f, l) /\ ~RemembersLate(l) THEN q ELSE query[l]]
      /\ latest' = IF "items" \in f.loads THEN s ELSE latest
      /\ trust' = [l \in watched |->
                     IF l \notin f.loads THEN trust[l]
                     ELSE IF Out(l) /\ ~Guarded(l) THEN "crossed" ELSE "pending"]
  BY DEF SendLoads, SentWith, Asks
<1>2. query' \in [watched -> Queries]
  BY <1>1 DEF Shape
<1>3. trust' \in [watched -> {"pending", "kept", "crossed", "unsure"}]
  BY <1>1 DEF Shape
<1>4. Running(f) \in Work(watched) /\ Running(f) # Nothing
      /\ Running(f).changes \subseteq Running(f).loads
  BY RunningSound DEF Sound
<1>5. NoLoad \in Cargo
  BY ListsAssumption DEF NoLoad, Cargo, ListsAssumption
<1>6. SentWith(f, q).load \in [watched -> Cargo]
  BY <1>5 DEF SentWith, Cargo, Shape
<1>7. SentWith(f, q) \in Programs
  BY <1>4, <1>6 DEF SentWith, Programs
<1>8. Tidy(SentWith(f, q))
  BY <1>4 DEF SentWith, Tidy
<1> QED BY <1>1, <1>2, <1>3, <1>7, <1>8

(* Sending loads begins each list's account anew, or marks it crossed. *)
LEMMA SendingKeeps ==
    ASSUME Shape, NEW s \in Slots, NEW f, Sound(f), NEW q \in Queries, SendLoads(s, f, q),
           watched' = watched, version' = version, shown' = shown,
           run[s].call = "done" => run[s].does.changes \subseteq f.loads,
           NEW l \in watched, ListOK(l)
    PROVE  ListOK(l)'
<1> DEFINE x == SentWith(f, q)
<1>1. /\ x \in Programs /\ run' = [run EXCEPT ![s] = x]
      /\ query'[l] = IF Asks(f, l) /\ ~RemembersLate(l) THEN q ELSE query[l]
      /\ latest' = IF "items" \in f.loads THEN s ELSE latest
      /\ trust'[l] = IF l \notin f.loads THEN trust[l]
                     ELSE IF Out(l) /\ ~Guarded(l) THEN "crossed" ELSE "pending"
  BY SendingFacts
<1>2. MovesTo(s, x)
  BY <1>1, Moving
<1>3. x.load[l] = IF l \in f.loads
                  THEN [at |-> "sent", query |-> IF Asks(f, l) THEN q ELSE query[l], version |-> -1]
                  ELSE NoLoad
  BY DEF SentWith
<1> HIDE DEF x
<1>4. CASE l \notin f.loads
  <2>1. x.load[l] = NoLoad /\ trust'[l] = trust[l] /\ query'[l] = query[l]
    BY <1>1, <1>3, <1>4 DEF Asks
  <2>2. latest' = latest \/ l # "items"
    BY <1>1, <1>4
  <2>3. Reports(s, x, l)
    BY <1>4 DEF Reports
  <2> QED BY <1>2, <2>1, <2>2, <2>3, ListQuiet
<1>5. CASE l \in f.loads /\ Out(l) /\ ~Guarded(l)
  BY <1>1, <1>5 DEF ListOK, Alone, Brings, Shows
<1>6. CASE l \in f.loads /\ ~(Out(l) /\ ~Guarded(l))
  <2>1. trust'[l] = "pending"
    BY <1>1, <1>6
  <2>2. ASSUME NEW p \in Slots, Counts(p, l)' PROVE p = s
    <3>1. CASE Guarded(l)
      BY <1>1, <1>6, <2>2, <3>1 DEF Counts, Superseded, Guarded
    <3>2. CASE ~Out(l)
      BY <1>2, <2>2, <3>2 DEF Counts, Out, MovesTo
    <3> QED BY <1>6, <3>1, <3>2
  <2>3. run'[s].load[l].at = "sent"
    BY <1>2, <1>3, <1>6 DEF MovesTo
  <2>4. ~RemembersLate(l) => run'[s].load[l].query = query'[l]
    BY <1>1, <1>2, <1>3, <1>6 DEF MovesTo
  <2>5. Alone(l)'
    BY <2>1, <2>2 DEF Alone
  <2>6. Brings(l)'
    BY <2>2, <2>3, <2>4 DEF Brings, RemembersLate
  <2>7. Shows(l)'
    BY <2>1 DEF Shows
  <2> QED BY <2>5, <2>6, <2>7 DEF ListOK
<1> QED BY <1>4, <1>5, <1>6

(* A function is done with a load, and with its last one at an end. *)
LEMMA Finishing ==
    ASSUME Shape, Counting, NEW s \in Slots, Tidy(run[s]), NEW l \in watched, Done(s, l),
           run[s].load[l].at # None, watched' = watched
    PROVE  /\ \E x \in Programs :
                /\ MovesTo(s, x) /\ Tidy(x) /\ x.call = None
                /\ x.load[l] = NoLoad
                /\ \A o \in watched : x.load[o] = run[s].load[o] \/ x.load[o] = NoLoad
           /\ run[s].call = None
           /\ Counting' /\ count' \in [Contexts -> [Spinners -> Nat]]
           /\ flag' \in [Contexts -> [Spinners -> BOOLEAN]]
<1> DEFINE loads == [run[s].load EXCEPT ![l] = NoLoad]
           x == [run[s] EXCEPT !.load = loads]
<1>1. /\ run[s] \in Programs /\ run[s].load \in [watched -> Cargo]
  BY DEF Shape, Programs
<1>2. run[s].call = None
  <2>1. run[s].call # None => run[s].load[l].at = None
    BY DEF Tidy
  <2> QED BY <2>1
<1>3. run[s].does # Nothing
  <2>1. Resting.load[l].at = None
    BY DEF Resting, NoLoad
  <2> QED BY <2>1 DEF Tidy
<1>4. NoLoad \in Cargo
  BY ListsAssumption DEF NoLoad, Cargo, ListsAssumption
<1>5. loads \in [watched -> Cargo] /\ loads[l] = NoLoad
      /\ \A o \in watched : loads[o] = run[s].load[o] \/ loads[o] = NoLoad
  BY <1>1, <1>4
<1>6. CASE \A o \in watched : loads[o].at = None
  <2>1. EndFunction(s)
    BY <1>6 DEF Done
  <2>2. run' = [run EXCEPT ![s] = Resting] /\ StopSpinner(run[s].does)
    BY <2>1 DEF EndFunction
  <2>3. /\ Resting \in Programs /\ Tidy(Resting) /\ Resting.does = Nothing
        /\ Resting.call = None /\ \A o \in watched : Resting.load[o] = NoLoad
    BY RestingType
  <2>4. MovesTo(s, Resting)
    BY <2>2, <2>3, Moving
  <2>5. Counting' /\ count' \in [Contexts -> [Spinners -> Nat]]
        /\ flag' \in [Contexts -> [Spinners -> BOOLEAN]]
    BY <1>3, <2>2, <2>3, <2>4, SpinnerStops
  <2> QED BY <1>2, <2>3, <2>4, <2>5
<1>7. CASE ~(\A o \in watched : loads[o].at = None)
  <2>1. UNCHANGED spinnerVars /\ run' = [run EXCEPT ![s].load = loads]
    BY <1>7 DEF Done
  <2> HIDE DEF loads
  <2>2. /\ x \in Programs /\ x.does = run[s].does /\ x.call = run[s].call /\ x.load = loads
    BY <1>1, <1>5 DEF Programs
  <2>3. run' = [run EXCEPT ![s] = x]
    BY <2>1 DEF Shape
  <2> HIDE DEF x
  <2>4. MovesTo(s, x)
    BY <2>2, <2>3, Moving
  <2>5. Tidy(x)
    BY <1>2, <1>3, <2>2 DEF Tidy
  <2>6. Counting' /\ count' \in [Contexts -> [Spinners -> Nat]]
        /\ flag' \in [Contexts -> [Spinners -> BOOLEAN]]
    BY <2>1, <2>2, <2>4, SpinnersKept
  <2> QED BY <1>2, <1>5, <2>2, <2>4, <2>5, <2>6
<1> QED BY <1>6, <1>7

-----------------------------------------------------------------------------
(* Each action keeps the invariant *)

(* What remains to show when one slot has moved on. *)
LEMMA SlotKeeps ==
    ASSUME ListsInv, NEW s \in Slots, NEW x, MovesTo(s, x), Tidy(x),
           \A f \in due' : Sound(f),
           shown' \in [watched -> [query : Queries, version : Int]],
           query' \in [watched -> Queries], version' \in [watched -> Int],
           trust' \in [watched -> {"pending", "kept", "crossed", "unsure"}],
           count' \in [Contexts -> [Spinners -> Nat]],
           flag' \in [Contexts -> [Spinners -> BOOLEAN]],
           Counting', \A l \in watched : ListOK(l)'
    PROVE  ListsInv'
<1>1. watched' = watched /\ run' \in [Slots -> Programs]
  BY DEF MovesTo
<1>2. Shape'
  BY <1>1 DEF Shape, Sound, Programs, Work
<1>3. \A q \in Slots : Tidy(run[q])'
  <2> TAKE q \in Slots
  <2>1. CASE q = s
    BY <1>1, <2>1 DEF MovesTo, Tidy, Resting
  <2>2. CASE q # s
    BY <1>1, <2>2 DEF MovesTo, Tidy, Resting, ListsInv
  <2> QED BY <2>1, <2>2
<1>4. \A l \in watched' : ListOK(l)'
  BY <1>1
<1> QED BY <1>2, <1>3, <1>4 DEF ListsInv

LEMMA BeginKeeps ==
    ASSUME ListsInv, NEW s \in Slots, NEW f, Sound(f), NEW q \in Queries, Begin(s, f, q),
           due' \subseteq due
    PROVE  ListsInv'
<1>1. /\ run[s].does = Nothing /\ StartSpinner(f)
      /\ watched' = watched /\ shown' = shown /\ version' = version
  BY DEF Begin
<1>2. run[s] = Resting /\ run[s].call = None
  BY <1>1, RestingType DEF ListsInv, Tidy
<1>3. Shape /\ Counting /\ (\A l \in watched : ListOK(l)) /\ \A g \in due' : Sound(g)
  BY DEF ListsInv, Shape
<1>4. /\ shown' \in [watched -> [query : Queries, version : Int]]
      /\ version' \in [watched -> Int]
  BY <1>1, <1>3 DEF Shape
<1>5. CASE f.call = None
  <2> DEFINE x == SentWith(f, q)
  <2>1. SendLoads(s, f, q)
    BY <1>5 DEF Begin
  <2>2. /\ x \in Programs /\ Tidy(x) /\ run' = [run EXCEPT ![s] = x]
        /\ query' \in [watched -> Queries]
        /\ trust' \in [watched -> {"pending", "kept", "crossed", "unsure"}]
    BY <1>3, <2>1, SendingFacts
  <2>3. x.does = Running(f)
    BY DEF SentWith
  <2> HIDE DEF x
  <2>4. MovesTo(s, x)
    BY <1>1, <1>3, <2>2, Moving
  <2>5. Counting' /\ count' \in [Contexts -> [Spinners -> Nat]]
        /\ flag' \in [Contexts -> [Spinners -> BOOLEAN]]
    BY <1>1, <1>3, <2>3, <2>4, SpinnerStarts
  <2>6. run[s].call # "done"
    BY <1>2 DEF None
  <2>7. \A l \in watched : ListOK(l)'
    BY <1>1, <1>3, <2>1, <2>6, SendingKeeps
  <2> QED BY <1>3, <1>4, <2>2, <2>4, <2>5, <2>7, SlotKeeps
<1>6. CASE f.call # None
  <2> DEFINE x == [Resting EXCEPT !.does = Running(f), !.call = "sent"]
  <2>1. run' = [run EXCEPT ![s] = x] /\ query' = query /\ latest' = latest /\ trust' = trust
    BY <1>6 DEF Begin
  <2>2. Running(f) \in Work(watched) /\ Running(f) # Nothing
        /\ Running(f).changes \subseteq Running(f).loads
    BY RunningSound DEF Sound
  <2>3. /\ x \in Programs /\ x.does = Running(f) /\ x.call = "sent"
        /\ \A l \in watched : x.load[l] = NoLoad
    BY <2>2, RestingType DEF Programs
  <2> HIDE DEF x
  <2>4. MovesTo(s, x)
    BY <1>1, <1>3, <2>1, <2>3, Moving
  <2>5. Tidy(x)
    BY <2>2, <2>3 DEF Tidy, NoLoad
  <2>6. Counting' /\ count' \in [Contexts -> [Spinners -> Nat]]
        /\ flag' \in [Contexts -> [Spinners -> BOOLEAN]]
    BY <1>1, <1>3, <2>3, <2>4, SpinnerStarts
  <2>7. \A l \in watched : ListOK(l)'
    <3> TAKE l \in watched
    <3>1. Reports(s, x, l)
      BY <1>1, <1>2 DEF Reports, None
    <3> QED BY <1>1, <1>3, <2>1, <2>3, <2>4, <3>1, ListQuiet
  <2> QED BY <1>3, <1>4, <2>1, <2>4, <2>5, <2>6, <2>7, SlotKeeps DEF Shape
<1> QED BY <1>5, <1>6

LEMMA StartKeeps ==
    ASSUME ListsInv, NEW s \in Slots, Start(s)
    PROVE  ListsInv'
<1>1. PICK f \in Functions :
         /\ due' = due
         /\ \/ \E q \in QueriesOf(f) : Begin(s, f, q)
            \/ f.query = "asked" /\ Begin(s, Running(f), Default)
  BY DEF Start
<1>2. Sound(f) /\ Sound(Running(f))
  BY FunctionsSound, RunningSound
<1>3. QueriesOf(f) \subseteq Queries /\ Default \in Queries
  BY ListsAssumption DEF QueriesOf, ListsAssumption
<1> QED BY <1>1, <1>2, <1>3, BeginKeeps

LEMMA StartDueKeeps ==
    ASSUME ListsInv, NEW s \in Slots, StartDue(s)
    PROVE  ListsInv'
<1>1. PICK f \in due : Begin(s, Running(f), Default) /\ due' = due \ {f}
  BY DEF StartDue
<1>2. Sound(Running(f))
  BY RunningSound DEF ListsInv, Shape
<1>3. Default \in Queries
  BY ListsAssumption DEF ListsAssumption
<1> QED BY <1>1, <1>2, <1>3, BeginKeeps

LEMMA ServeCallKeeps ==
    ASSUME ListsInv, NEW s \in Slots, ServeCall(s)
    PROVE  ListsInv'
<1> DEFINE x == [run[s] EXCEPT !.call = "done"]
<1>1. /\ run[s].call = "sent" /\ run' = [run EXCEPT ![s] = x]
      /\ version' = [l \in watched |-> IF l \in run[s].does.changes
                                       THEN version[l] + 1 ELSE version[l]]
      /\ watched' = watched /\ due' = due /\ trust' = trust
      /\ shown' = shown /\ query' = query /\ latest' = latest /\ UNCHANGED spinnerVars
  BY DEF ServeCall, screenVars, ListsInv, Shape
<1>2. Shape /\ Counting /\ Tidy(run[s]) /\ (\A l \in watched : ListOK(l)) /\ run[s] \in Programs
  BY DEF ListsInv, Shape
<1>3. x \in Programs /\ x.does = run[s].does /\ x.call = "done" /\ x.load = run[s].load
  BY <1>2 DEF Programs
<1> HIDE DEF x
<1>4. MovesTo(s, x)
  BY <1>1, <1>2, <1>3, Moving
<1>5. run[s].does # Nothing
  BY <1>1, <1>2, RestingType DEF Tidy, None
<1>6. Tidy(x)
  BY <1>1, <1>2, <1>3, <1>5 DEF Tidy, None
<1>7. Counting' /\ count' \in [Contexts -> [Spinners -> Nat]]
      /\ flag' \in [Contexts -> [Spinners -> BOOLEAN]]
  BY <1>1, <1>2, <1>3, <1>4, SpinnersKept
<1>8. version' \in [watched -> Int]
  BY <1>1, <1>2 DEF Shape
<1>9. \A l \in watched : ListOK(l)'
  <2> TAKE l \in watched
  <2>1. Reports(s, x, l)
    BY <1>1, <1>3 DEF Reports
  <2> QED BY <1>1, <1>2, <1>3, <1>4, <2>1, ListQuiet
<1> QED BY <1>1, <1>2, <1>4, <1>6, <1>7, <1>8, <1>9, SlotKeeps DEF Shape

LEMMA CallAnsweredKeeps ==
    ASSUME ListsInv, NEW s \in Slots, CallAnswered(s)
    PROVE  ListsInv'
<1> DEFINE f == run[s].does
<1>1. /\ run[s].call = "done" /\ watched' = watched /\ due' = due /\ shown' = shown
      /\ version' = version
  BY DEF CallAnswered, serverVars
<1>2. Shape /\ Counting /\ Tidy(run[s]) /\ (\A l \in watched : ListOK(l)) /\ run[s] \in Programs
  BY DEF ListsInv, Shape
<1>3. f # Nothing
  BY <1>1, <1>2, RestingType DEF Tidy, None
<1>4. Sound(f)
  BY <1>2, <1>3 DEF Sound, Tidy, Programs
<1>5. CASE f.loads # {}
  <2> DEFINE x == SentWith(f, Default)
  <2>1. SendLoads(s, f, Default) /\ UNCHANGED spinnerVars /\ Default \in Queries
    BY <1>5, ListsAssumption DEF CallAnswered, ListsAssumption
  <2>2. /\ x \in Programs /\ Tidy(x) /\ run' = [run EXCEPT ![s] = x]
        /\ query' \in [watched -> Queries]
        /\ trust' \in [watched -> {"pending", "kept", "crossed", "unsure"}]
    <3> HIDE DEF f
    <3> QED BY <1>2, <1>4, <2>1, SendingFacts
  <2>3. x.does.context = f.context /\ x.does.spinner = f.spinner
    <3>1. x.does = Running(f)
      BY DEF SentWith
    <3> HIDE DEF f
    <3> QED BY <1>4, <3>1, RunningSound
  <2> HIDE DEF x
  <2>4. MovesTo(s, x)
    BY <1>1, <1>2, <2>2, Moving
  <2>5. Counting' /\ count' \in [Contexts -> [Spinners -> Nat]]
        /\ flag' \in [Contexts -> [Spinners -> BOOLEAN]]
    BY <1>2, <2>1, <2>3, <2>4, SpinnersKept
  <2>6. run[s].does.changes \subseteq f.loads
    BY <1>4 DEF Sound
  <2>7. \A l \in watched : ListOK(l)'
    <3> HIDE DEF f
    <3> QED BY <1>1, <1>2, <1>4, <2>1, <2>6, SendingKeeps
  <2> QED BY <1>1, <1>2, <2>2, <2>4, <2>5, <2>7, SlotKeeps DEF Shape
<1>6. CASE f.loads = {}
  <2>1. /\ run' = [run EXCEPT ![s] = Resting] /\ StopSpinner(run[s].does)
        /\ query' = query /\ latest' = latest /\ trust' = trust
    BY <1>6 DEF CallAnswered, EndFunction
  <2>2. MovesTo(s, Resting)
    BY <1>1, <1>2, <2>1, RestingType, Moving
  <2>3. Counting' /\ count' \in [Contexts -> [Spinners -> Nat]]
        /\ flag' \in [Contexts -> [Spinners -> BOOLEAN]]
    BY <1>2, <1>3, <2>1, <2>2, RestingType, SpinnerStops
  <2>4. \A l \in watched : ListOK(l)'
    <3> TAKE l \in watched
    <3>1. Reports(s, Resting, l)
      BY <1>1, <1>4, <1>6 DEF Reports, Sound
    <3> QED BY <1>1, <1>2, <2>1, <2>2, <3>1, RestingType, ListQuiet
  <2> QED BY <1>1, <1>2, <2>1, <2>2, <2>3, <2>4, RestingType, SlotKeeps DEF Shape
<1> QED BY <1>5, <1>6

LEMMA CallFailedKeeps ==
    ASSUME ListsInv, NEW s \in Slots, CallFailed(s)
    PROVE  ListsInv'
<1>1. /\ run[s].call \in {"sent", "done"} /\ watched' = watched /\ due' = due
      /\ shown' = shown /\ query' = query /\ latest' = latest /\ version' = version
      /\ run' = [run EXCEPT ![s] = Resting] /\ StopSpinner(run[s].does)
      /\ trust' = [l \in watched |->
                     IF run[s].call = "done" /\ l \in run[s].does.changes
                     THEN "unsure" ELSE trust[l]]
  BY DEF CallFailed, screenVars, serverVars, EndFunction
<1>2. Shape /\ Counting /\ Tidy(run[s]) /\ (\A l \in watched : ListOK(l))
  BY DEF ListsInv, Shape
<1>3. run[s].does # Nothing
  BY <1>1, <1>2, RestingType DEF Tidy, None
<1>4. MovesTo(s, Resting)
  BY <1>1, <1>2, RestingType, Moving
<1>5. Counting' /\ count' \in [Contexts -> [Spinners -> Nat]]
      /\ flag' \in [Contexts -> [Spinners -> BOOLEAN]]
  BY <1>1, <1>2, <1>3, <1>4, RestingType, SpinnerStops
<1>6. trust' \in [watched -> {"pending", "kept", "crossed", "unsure"}]
  BY <1>1, <1>2 DEF Shape
<1>7. \A l \in watched : ListOK(l)'
  <2> TAKE l \in watched
  <2>1. CASE run[s].call = "done" /\ l \in run[s].does.changes
    <3>1. trust'[l] = "unsure"
      BY <1>1, <2>1
    <3> QED BY <3>1 DEF ListOK, Alone, Brings, Shows
  <2>2. CASE ~(run[s].call = "done" /\ l \in run[s].does.changes)
    <3>1. trust'[l] = trust[l]
      BY <1>1, <2>2
    <3>2. Reports(s, Resting, l)
      BY <1>1, <2>2 DEF Reports
    <3> QED BY <1>1, <1>2, <1>4, <3>1, <3>2, RestingType, ListQuiet
  <2> QED BY <2>1, <2>2
<1> QED BY <1>1, <1>2, <1>4, <1>5, <1>6, <1>7, RestingType, SlotKeeps DEF Shape

LEMMA ServeLoadKeeps ==
    ASSUME ListsInv, NEW s \in Slots, NEW l0 \in watched, ServeLoad(s, l0)
    PROVE  ListsInv'
<1> DEFINE load == [run[s].load EXCEPT ![l0] =
                      [run[s].load[l0] EXCEPT !.at = "served", !.version = version[l0]]]
           x == [run[s] EXCEPT !.load = load]
<1>1. /\ run[s].load[l0].at = "sent" /\ watched' = watched /\ due' = due
      /\ shown' = shown /\ query' = query /\ latest' = latest /\ version' = version
      /\ trust' = trust /\ UNCHANGED spinnerVars
  BY DEF ServeLoad, screenVars, serverVars
<1>2. /\ Shape /\ Counting /\ Tidy(run[s]) /\ (\A l \in watched : ListOK(l))
      /\ run[s] \in Programs /\ run[s].load \in [watched -> Cargo] /\ version[l0] \in Int
  BY DEF ListsInv, Shape, Programs
<1>3. run' = [run EXCEPT ![s] = x]
  BY <1>2 DEF ServeLoad, Shape, Programs, Cargo
<1>4. /\ load \in [watched -> Cargo]
      /\ load[l0].at = "served" /\ load[l0].version = version[l0]
      /\ load[l0].query = run[s].load[l0].query
      /\ \A l \in watched : l # l0 => load[l] = run[s].load[l]
  <2>1. run[s].load[l0] \in Cargo
    BY <1>2
  <2>2. /\ [run[s].load[l0] EXCEPT !.at = "served", !.version = version[l0]] \in Cargo
        /\ [run[s].load[l0] EXCEPT !.at = "served", !.version = version[l0]].at = "served"
        /\ [run[s].load[l0] EXCEPT !.at = "served", !.version = version[l0]].version = version[l0]
        /\ [run[s].load[l0] EXCEPT !.at = "served", !.version = version[l0]].query
              = run[s].load[l0].query
    BY <1>2, <2>1 DEF Cargo
  <2> QED BY <1>2, <2>2
<1> HIDE DEF load
<1>5. x \in Programs /\ x.does = run[s].does /\ x.call = run[s].call /\ x.load = load
  BY <1>2, <1>4 DEF Programs
<1> HIDE DEF x
<1>6. MovesTo(s, x)
  BY <1>1, <1>2, <1>3, <1>5, Moving
<1>7. run[s].call = None
  BY <1>1, <1>2 DEF Tidy, None
<1>8. run[s].does # Nothing
  BY <1>1, <1>2, RestingType DEF Tidy, None, NoLoad
<1>9. Tidy(x)
  BY <1>2, <1>5, <1>7, <1>8 DEF Tidy
<1>10. Counting' /\ count' \in [Contexts -> [Spinners -> Nat]]
       /\ flag' \in [Contexts -> [Spinners -> BOOLEAN]]
  BY <1>1, <1>2, <1>5, <1>6, SpinnersKept
<1>11. \A l \in watched : Reports(s, x, l)
  BY <1>1, <1>5, <1>7 DEF Reports, None
<1>12. ASSUME NEW l \in watched, l # l0 PROVE ListOK(l)'
  BY <1>1, <1>2, <1>4, <1>5, <1>6, <1>11, <1>12, ListQuiet
<1>13. ListOK(l0)'
  <2>1. (version'[l0] = version[l0] /\ ~Unreported(l0)) \/ Unreported(l0)'
    BY <1>6, <1>11, StillUnreported
  <2>2. \A q \in Slots : Superseded(q, l0)' <=> Superseded(q, l0)
    BY <1>1 DEF Superseded, Guarded
  <2>3. \A q \in Slots : /\ run'[q].load[l0].at # None <=> run[q].load[l0].at # None
                         /\ run'[q].load[l0].query = run[q].load[l0].query
    BY <1>1, <1>4, <1>5, <1>6 DEF MovesTo, None
  <2>4. \A q \in Slots : Counts(q, l0)' <=> Counts(q, l0)
    BY <2>2, <2>3 DEF Counts
  <2>5. Alone(l0)'
    BY <1>1, <1>2, <2>4 DEF ListOK, Alone
  <2>6. Brings(l0)'
    <3> SUFFICES ASSUME trust'[l0] = "pending", NEW q \in Slots, Counts(q, l0)'
                 PROVE  /\ ~RemembersLate(l0) => run'[q].load[l0].query = query'[l0]
                        /\ run'[q].load[l0].at = "served" =>
                              run'[q].load[l0].version = version'[l0] \/ Unreported(l0)'
      BY DEF Brings, RemembersLate
    <3>1. Counts(q, l0)
      BY <2>4
    <3>2. ~RemembersLate(l0) => run'[q].load[l0].query = query'[l0]
      BY <1>1, <1>2, <2>3, <3>1 DEF ListOK, Brings
    <3>3. CASE q = s
      BY <1>1, <1>4, <1>5, <1>6, <3>2, <3>3 DEF MovesTo
    <3>4. CASE q # s
      <4>1. run'[q] = run[q]
        BY <1>6, <3>4 DEF MovesTo
      <4> QED BY <1>1, <1>2, <2>1, <3>1, <3>2, <4>1 DEF ListOK, Brings
    <3> QED BY <3>3, <3>4
  <2>7. Shows(l0)'
    BY <1>1, <1>2, <2>1 DEF ListOK, Shows
  <2> QED BY <2>5, <2>6, <2>7 DEF ListOK
<1> QED BY <1>1, <1>2, <1>6, <1>9, <1>10, <1>12, <1>13, SlotKeeps DEF Shape

(* The answer that counts is the one the list now shows. *)
LEMMA AnswerShown ==
    ASSUME Shape, NEW s \in Slots, NEW x, NEW l \in watched, ListOK(l),
           MovesTo(s, x), x.load[l] = NoLoad, Reports(s, x, l),
           run[s].load[l].at = "served", ~Superseded(s, l), Show(s, l),
           trust' = [trust EXCEPT ![l] = IF @ = "pending" THEN "kept" ELSE @],
           latest' = latest
    PROVE  ListOK(l)'
<1>1. Counts(s, l)
  BY DEF Counts, None
<1>2. trust[l] # "kept"
  BY <1>1 DEF ListOK, Alone
<1>3. trust'[l] = IF trust[l] = "pending" THEN "kept" ELSE trust[l]
  BY DEF Shape
<1>4. CASE trust[l] # "pending"
  BY <1>2, <1>3, <1>4 DEF ListOK, Alone, Brings, Shows, Shape
<1>5. CASE trust[l] = "pending"
  <2>1. \A q \in Slots : Counts(q, l) => q = s
    BY <1>1, <1>5 DEF ListOK, Alone
  <2>2. \A q \in Slots : Superseded(q, l)' <=> Superseded(q, l)
    BY DEF Superseded, Guarded
  <2>3. \A q \in Slots : ~Counts(q, l)'
    BY <2>1, <2>2 DEF Counts, MovesTo, NoLoad
  <2>4. /\ shown'[l].query = run[s].load[l].query
        /\ shown'[l].version = run[s].load[l].version
    BY DEF Show, Shape
  <2>5. shown'[l].query = query'[l]
    <3>1. CASE RemembersLate(l)
      BY <2>4, <3>1 DEF Show, Shape
    <3>2. CASE ~RemembersLate(l)
      BY <1>1, <1>5, <2>4, <3>2 DEF Show, ListOK, Brings
    <3> QED BY <3>1, <3>2
  <2>6. run[s].load[l].version = version[l] \/ Unreported(l)
    BY <1>1, <1>5 DEF ListOK, Brings
  <2>7. (version'[l] = version[l] /\ ~Unreported(l)) \/ Unreported(l)'
    BY StillUnreported
  <2>8. trust'[l] = "kept"
    BY <1>3, <1>5
  <2> QED BY <2>3, <2>4, <2>5, <2>6, <2>7, <2>8 DEF ListOK, Alone, Brings, Shows
<1> QED BY <1>4, <1>5

LEMMA LoadAnsweredKeeps ==
    ASSUME ListsInv, NEW s \in Slots, NEW l0 \in watched, LoadAnswered(s, l0)
    PROVE  ListsInv'
<1>1. /\ run[s].load[l0].at = "served" /\ Done(s, l0) /\ watched' = watched /\ due' = due
      /\ latest' = latest /\ version' = version
  BY DEF LoadAnswered, serverVars
<1>2. /\ Shape /\ Counting /\ Tidy(run[s]) /\ (\A l \in watched : ListOK(l))
      /\ run[s] \in Programs /\ run[s].load \in [watched -> Cargo]
  BY DEF ListsInv, Shape, Programs
<1>3. run[s].load[l0].at # None
  BY <1>1 DEF None
<1>4. PICK x \in Programs :
         /\ MovesTo(s, x) /\ Tidy(x) /\ x.call = None
         /\ x.load[l0] = NoLoad
         /\ \A o \in watched : x.load[o] = run[s].load[o] \/ x.load[o] = NoLoad
  BY <1>1, <1>2, <1>3, Finishing
<1>5. /\ run[s].call = None
      /\ Counting' /\ count' \in [Contexts -> [Spinners -> Nat]]
      /\ flag' \in [Contexts -> [Spinners -> BOOLEAN]]
  BY <1>1, <1>2, <1>3, Finishing
<1>6. \A l \in watched : Reports(s, x, l)
  BY <1>1, <1>5 DEF Reports, None
<1>7. CASE Superseded(s, l0)
  <2>1. shown' = shown /\ query' = query /\ trust' = trust
    BY <1>7 DEF LoadAnswered
  <2>2. \A l \in watched : ListOK(l)'
    BY <1>1, <1>2, <1>4, <1>6, <2>1, ListQuiet
  <2> QED BY <1>1, <1>2, <1>4, <1>5, <2>1, <2>2, SlotKeeps DEF Shape
<1>8. CASE ~Superseded(s, l0)
  <2>1. /\ Show(s, l0)
        /\ trust' = [trust EXCEPT ![l0] = IF @ = "pending" THEN "kept" ELSE @]
    BY <1>8 DEF LoadAnswered
  <2>2. run[s].load[l0].query \in Queries /\ run[s].load[l0].version \in Int
    BY <1>2 DEF Cargo
  <2>3. /\ shown' \in [watched -> [query : Queries, version : Int]]
        /\ \A l \in watched : l # l0 => shown'[l] = shown[l]
    BY <1>2, <2>1, <2>2 DEF Show, Shape
  <2>4. query' \in [watched -> Queries] /\ \A l \in watched : l # l0 => query'[l] = query[l]
    BY <1>2, <2>1, <2>2 DEF Show, Shape
  <2>5. /\ trust' \in [watched -> {"pending", "kept", "crossed", "unsure"}]
        /\ \A l \in watched : l # l0 => trust'[l] = trust[l]
    BY <1>2, <2>1 DEF Shape
  <2>6. ASSUME NEW l \in watched, l # l0 PROVE ListOK(l)'
    BY <1>1, <1>2, <1>4, <1>6, <2>3, <2>4, <2>5, <2>6, ListQuiet
  <2>7. ListOK(l0)'
    BY <1>1, <1>2, <1>4, <1>6, <1>8, <2>1, AnswerShown
  <2> QED BY <1>1, <1>2, <1>4, <1>5, <2>3, <2>4, <2>5, <2>6, <2>7, SlotKeeps DEF Shape
<1> QED BY <1>7, <1>8

LEMMA LoadFailedKeeps ==
    ASSUME ListsInv, NEW s \in Slots, NEW l0 \in watched, LoadFailed(s, l0)
    PROVE  ListsInv'
<1>1. /\ run[s].load[l0].at # None /\ Done(s, l0) /\ watched' = watched /\ due' = due
      /\ shown' = shown /\ query' = query /\ latest' = latest /\ version' = version
      /\ trust' = trust
  BY DEF LoadFailed, screenVars, serverVars, None
<1>2. /\ Shape /\ Counting /\ Tidy(run[s]) /\ (\A l \in watched : ListOK(l))
  BY DEF ListsInv
<1>4. PICK x \in Programs :
         /\ MovesTo(s, x) /\ Tidy(x) /\ x.call = None
         /\ x.load[l0] = NoLoad
         /\ \A o \in watched : x.load[o] = run[s].load[o] \/ x.load[o] = NoLoad
  BY <1>1, <1>2, Finishing
<1>5. /\ run[s].call = None
      /\ Counting' /\ count' \in [Contexts -> [Spinners -> Nat]]
      /\ flag' \in [Contexts -> [Spinners -> BOOLEAN]]
  BY <1>1, <1>2, Finishing
<1>6. \A l \in watched : Reports(s, x, l)
  BY <1>1, <1>5 DEF Reports, None
<1>7. \A l \in watched : ListOK(l)'
  BY <1>1, <1>2, <1>4, <1>6, ListQuiet
<1> QED BY <1>1, <1>2, <1>4, <1>5, <1>7, SlotKeeps DEF Shape

-----------------------------------------------------------------------------
(* The invariant *)

(* A step that moves no slot. *)
LEMMA ScreenKeeps ==
    ASSUME ListsInv, SignOut \/ SignIn \/ UNCHANGED vars
    PROVE  ListsInv'
<1>1. /\ watched' = watched /\ run' = run /\ query' = query /\ latest' = latest
      /\ version' = version /\ count' = count /\ flag' = flag
  BY DEF SignOut, SignIn, vars, screenVars, spinnerVars, serverVars
<1>2. \A f \in due' : Sound(f)
  <2>1. \A f \in {FetchItems, FetchActiveContainers, FetchArchivedContainers} : f \in AllFunctions
    BY DEF AllFunctions, ContainerFunctions, ItemFunctions
  <2>2. CASE SignIn
    BY <2>1, <2>2, FunctionsSound DEF SignIn
  <2>3. CASE due' \subseteq due
    BY <2>3 DEF ListsInv, Shape
  <2> QED BY <2>2, <2>3 DEF SignOut, vars
<1>3. shown' \in [watched -> [query : Queries, version : Int]]
  <2>1. Empty \in [query : Queries, version : Int]
    BY ListsAssumption DEF Empty, ListsAssumption
  <2>2. CASE SignOut
    BY <2>1, <2>2 DEF SignOut, ListsInv, Shape
  <2> QED BY <2>2 DEF ListsInv, Shape, SignIn, vars, screenVars
<1>4. /\ trust' \in [watched -> {"pending", "kept", "crossed", "unsure"}]
      /\ \A l \in watched : \/ trust'[l] = trust[l] /\ (trust[l] = "kept" => shown'[l] = shown[l])
                            \/ trust[l] = "kept" /\ trust'[l] = "pending"
  <2>1. CASE SignOut
    BY <2>1 DEF SignOut, ListsInv, Shape
  <2> QED BY <2>1 DEF ListsInv, Shape, SignIn, vars, screenVars
<1>5. Shape' /\ Counting' /\ \A s \in Slots : Tidy(run[s])'
  <2>1. Shape'
    BY <1>1, <1>2, <1>3, <1>4 DEF ListsInv, Shape, Sound, Programs, Work
  <2>2. Counting' /\ \A s \in Slots : Tidy(run[s])'
    BY <1>1 DEF ListsInv, Counting, Raised, Tidy, Resting
  <2> QED BY <2>1, <2>2
<1>6. ASSUME NEW l \in watched PROVE ListOK(l)'
  <2>1. /\ \A s \in Slots : Counts(s, l)' <=> Counts(s, l)
        /\ Unreported(l)' <=> Unreported(l)
    BY <1>1 DEF Counts, Superseded, Guarded, Unreported
  <2>2. ListOK(l)
    BY DEF ListsInv
  <2>3. CASE trust'[l] = trust[l] /\ (trust[l] = "kept" => shown'[l] = shown[l])
    BY <1>1, <2>1, <2>2, <2>3 DEF ListOK, Alone, Brings, Shows, RemembersLate
  <2>4. CASE trust[l] = "kept" /\ trust'[l] = "pending"
    BY <2>1, <2>2, <2>4 DEF ListOK, Alone, Brings, Shows
  <2> QED BY <1>4, <2>3, <2>4
<1> QED BY <1>1, <1>5, <1>6 DEF ListsInv

LEMMA Opening == Init => ListsInv
<1> SUFFICES ASSUME Init PROVE ListsInv
  OBVIOUS
<1>1. \A f \in due : Sound(f)
  <2>1. \A f \in {FetchItems, FetchActiveContainers, FetchArchivedContainers,
                  FetchLogs, FetchStats, FetchSummary} : f \in AllFunctions
    BY DEF AllFunctions, ContainerFunctions, ItemFunctions, AuditFunctions
  <2> QED BY <2>1, FunctionsSound DEF Init
<1>2. Default \in Queries
  BY ListsAssumption DEF ListsAssumption
<1>3. run = [s \in Slots |-> Resting]
  BY DEF Init
<1>4. \A s \in Slots : run[s] = Resting
  BY <1>3
<1>5. run \in [Slots -> Programs] /\ \A s \in Slots : Tidy(run[s])
  BY <1>3, <1>4, RestingType
<1>6. Shape
  BY <1>1, <1>2, <1>5 DEF Init, Shape, Empty
<1>7. Counting
  <2> SUFFICES ASSUME NEW c \in Contexts, NEW k \in Spinners
               PROVE  count[c][k] = Cardinality(Raised(c, k)) /\ (flag[c][k] <=> Raised(c, k) # {})
    BY DEF Counting
  <2>1. Raised(c, k) = {}
    BY <1>4, RestingType DEF Raised, Nothing, Contexts, None
  <2> QED BY <2>1, FS_EmptySet DEF Init
<1>8. ASSUME NEW l \in watched PROVE ListOK(l)
  <2>1. trust[l] = "pending" /\ \A s \in Slots : ~Counts(s, l)
    BY <1>4, RestingType DEF Init, Counts, NoLoad
  <2> QED BY <2>1 DEF ListOK, Alone, Brings, Shows
<1> QED BY <1>5, <1>6, <1>7, <1>8 DEF ListsInv

LEMMA ListsInductive == Spec => []ListsInv
<1>1. ListsInv /\ [Next]_vars => ListsInv'
  <2> SUFFICES ASSUME ListsInv, [Next]_vars PROVE ListsInv'
    OBVIOUS
  <2>1. ASSUME NEW s \in Slots, Start(s) \/ StartDue(s) PROVE ListsInv'
    BY <2>1, StartKeeps, StartDueKeeps
  <2>2. ASSUME NEW s \in Slots, Answer(s) PROVE ListsInv'
    BY <2>2, ServeCallKeeps, CallAnsweredKeeps, CallFailedKeeps, ServeLoadKeeps,
       LoadAnsweredKeeps, LoadFailedKeeps DEF Answer
  <2>3. CASE SignOut \/ SignIn \/ UNCHANGED vars
    BY <2>3, ScreenKeeps
  <2> QED BY <2>1, <2>2, <2>3 DEF Next
<1> QED BY <1>1, Opening, PTL DEF Spec

-----------------------------------------------------------------------------
(* Theorems *)

(* isFetching and isLoading are up exactly while a function that raised them
   runs, however many functions of a context overlap.                      *)
THEOREM SpinnersAreHonest == Spec => []SpinnersHonest
<1>1. ASSUME ListsInv PROVE SpinnersHonest
  <2> SUFFICES ASSUME NEW c \in Contexts, NEW k \in Spinners
               PROVE  flag[c][k] <=> \E s \in Slots : /\ run[s].does # Nothing
                                                      /\ run[s].does.context = c
                                                      /\ run[s].does.spinner = k
    BY DEF SpinnersHonest
  <2>1. flag[c][k] <=> Raised(c, k) # {}
    BY <1>1 DEF ListsInv, Counting
  <2>2. \A s \in Slots : run[s].does.context = c => run[s].does # Nothing
    BY DEF Nothing, None, Contexts
  <2> QED BY <2>1, <2>2 DEF Raised
<1> QED BY <1>1, ListsInductive, PTL

(* Once all is quiet, a list that no failure or crossing spoiled shows the
   data as they are for the parameters in force.                           *)
THEOREM ListsEndCurrent == Spec => []ListsCurrent
<1>1. ASSUME ListsInv PROVE ListsCurrent
  <2> SUFFICES ASSUME \A s \in Slots : run[s].does = Nothing,
                      NEW l \in watched, trust[l] = "kept"
               PROVE  shown[l] = [query |-> query[l], version |-> version[l]]
    BY DEF ListsCurrent
  <2>1. \A s \in Slots : run[s].call = None
    BY <1>1, RestingType DEF ListsInv, Tidy
  <2>2. ~Unreported(l)
    BY <2>1 DEF Unreported, None
  <2>3. shown[l].query = query[l] /\ shown[l].version = version[l]
    BY <1>1, <2>2 DEF ListsInv, ListOK, Shows
  <2>4. shown[l] \in [query : Queries, version : Int]
    BY <1>1 DEF ListsInv, Shape
  <2> QED BY <2>3, <2>4
<1> QED BY <1>1, ListsInductive, PTL

-----------------------------------------------------------------------------
(* SearchPages *)

LEMMA PageConstants ==
    /\ IsFiniteSet(Slots)
    /\ Blank \in Values /\ Trimmed[Blank] = Blank
    /\ \A v \in Values : Trimmed[v] \in Values
    /\ 1 \in Picks /\ Picks \subseteq Nat \ {0}
    /\ Edits \subseteq {"delete", "edit"}
    /\ MaxWrites \in Nat /\ MaxFaults \in Nat
    /\ NoParams \in Params /\ NothingShown \in Answers /\ FreeSlot \in Runs
    /\ \A q \in Values, v \in 0 .. MaxWrites : LastPage[q][v] \in Picks \cup {0}
BY PagesAssumption, BrowserAssumption
  DEF PagesAssumption, BrowserAssumption, NoParams, Params, NothingShown, Answers,
      FreeSlot, Runs, None

(* The request of an effect. *)
LEMMA RequestSent ==
    ASSUME NEW v \in Values, NEW p \in Picks
    PROVE  /\ Request(v, p) \in Runs
           /\ Request(v, p).does = (IF Searches(v) THEN "search" ELSE "list")
           /\ Request(v, p).at = "sent" /\ Request(v, p).live
           /\ Request(v, p).for = [query |-> Trimmed[v], pick |-> p]
<1> DEFINE params == [query |-> Trimmed[v], pick |-> p]
<1>1. params \in Params
  BY PageConstants DEF Params
<1>2. -1 \in -1 .. MaxWrites
  BY PageConstants
<1>3. FreeSlot = [does |-> None, at |-> None, own |-> NoParams, for |-> NoParams,
                 version |-> -1, live |-> FALSE]
  BY DEF FreeSlot
<1>4. Request(v, p) = [FreeSlot EXCEPT !.does = IF Searches(v) THEN "search" ELSE "list",
                    !.at = "sent", !.own = params, !.for = params, !.live = TRUE]
  BY DEF Request
<1>5. Request(v, p) = [does |-> IF Searches(v) THEN "search" ELSE "list", at |-> "sent",
                       own |-> params, for |-> params, version |-> -1, live |-> TRUE]
  BY <1>3, <1>4
<1> QED BY <1>1, <1>2, <1>5 DEF Runs

LEMMA CancelledRuns ==
    ASSUME NEW runs \in [Slots -> Runs]
    PROVE  /\ Cancelled(runs) \in [Slots -> Runs]
           /\ \A s \in Slots :
                 /\ ~Cancelled(runs)[s].live
                 /\ Cancelled(runs)[s].does = runs[s].does
                 /\ Cancelled(runs)[s].at = runs[s].at
                 /\ Cancelled(runs)[s].own = runs[s].own
                 /\ Cancelled(runs)[s].for = runs[s].for
                 /\ Cancelled(runs)[s].version = runs[s].version
<1>1. ASSUME NEW s \in Slots PROVE [runs[s] EXCEPT !.live = FALSE] \in Runs
  BY DEF Runs
<1> QED BY <1>1 DEF Cancelled, Runs

(* The sequence of searches *)

LEMMA OrderedOnly ==
    ASSUME NEW runs, NEW o, OrderedIn(runs, o), NEW S
    PROVE  OrderedIn(runs, Only(S, o))
BY DEF OrderedIn, Only

LEMMA SentLast ==
    ASSUME NEW s \in Slots, NEW o \in SUBSET (Slots \X Slots)
    PROVE  /\ Sent(s, o) \in SUBSET (Slots \X Slots)
           /\ \A q, t \in Slots : <<q, t>> \in Sent(s, o) <=>
                  <<q, t>> \in o \/ (t = s /\ (q = s \/ <<q, q>> \in o))
<1>1. ASSUME NEW z \in Sent(s, o) PROVE z \in Slots \X Slots
  <2> DEFINE new == {<<q, s>> : q \in {s} \cup {t \in Slots : <<t, t>> \in o}}
  <2>1. ASSUME NEW y \in new PROVE y \in Slots \X Slots
    <3>1. PICK q \in {s} \cup {t \in Slots : <<t, t>> \in o} : y = <<q, s>>
      OBVIOUS
    <3> QED BY <3>1
  <2>2. Sent(s, o) = o \cup new
    BY DEF Sent
  <2> HIDE DEF new
  <2> QED BY <2>1, <2>2
<1>2. \A q, t \in Slots : <<q, t>> \in Sent(s, o) <=>
          <<q, t>> \in o \/ (t = s /\ (q = s \/ <<q, q>> \in o))
  BY DEF Sent
<1> QED BY <1>1, <1>2

LEMMA OrderedSent ==
    ASSUME NEW runs, NEW o \in SUBSET (Slots \X Slots), OrderedIn(runs, o), NEW s \in Slots,
           <<s, s>> \notin o, runs[s].at \in {"sent", "served"}, runs[s].for.query # Blank
    PROVE  OrderedIn(runs, Sent(s, o))
<1>1. \A q, t \in Slots : <<q, t>> \in Sent(s, o) <=>
          <<q, t>> \in o \/ (t = s /\ (q = s \/ <<q, q>> \in o))
  BY SentLast
<1>2. \A q \in Slots : <<q, s>> \notin o /\ <<s, q>> \notin o
  BY DEF OrderedIn
<1> QED BY <1>1, <1>2 DEF OrderedIn

(***************************************************************************)
(* The effects                                                             *)
(***************************************************************************)

(* What a run of the effects does to slots, searches and loads. *)
LEMMA EffectsRun ==
    ASSUME PagesTypeOK, NEW s \in Slots, NEW v \in Values, NEW p \in Picks,
           NEW runs \in [Slots -> Runs], NEW content \in [results : Answers, list : Answers],
           NEW searches \in SUBSET (Slots \X Slots),
           RunEffects(s, v, p, runs, content, searches)
    PROVE  /\ run' \in [Slots -> Runs]
           /\ order' \in SUBSET (Slots \X Slots)
           /\ latest' \in Slots \cup {None} /\ remembered' \in Params
           /\ shown' \in [results : Answers, list : Answers]
           /\ shown' = IF Searches(v) THEN content ELSE [content EXCEPT !.results = NothingShown]
           /\ \A q \in Slots : run'[q] = Cancelled(runs)[q]
                               \/ (q = s /\ run'[q] = Request(v, p) /\ runs[s].does = None)
           /\ Searches(v) => run'[s] = Request(v, p) /\ runs[s].does = None
                             /\ order' = Sent(s, searches)
                             /\ latest' = latest /\ remembered' = remembered
           /\ ~Searches(v) => order' = searches
           /\ ~Searches(v) /\ mounted # "containers" =>
                 run'[s] = Request(v, p) /\ latest' = s
                 /\ remembered' = [query |-> Trimmed[v], pick |-> p]
           /\ ~Searches(v) /\ mounted = "containers" =>
                 run' = Cancelled(runs) /\ latest' = latest /\ remembered' = remembered
<1>1. Cancelled(runs) \in [Slots -> Runs] /\ Request(v, p) \in Runs
  BY CancelledRuns, RequestSent
<1>2. Sent(s, searches) \in SUBSET (Slots \X Slots)
  BY SentLast
<1>3. NothingShown \in Answers /\ Request(v, p).for = [query |-> Trimmed[v], pick |-> p]
      /\ Request(v, p).for \in Params
  BY <1>1, PageConstants, RequestSent DEF Runs
<1>4. shown' = IF Searches(v) THEN content ELSE [content EXCEPT !.results = NothingShown]
  BY DEF RunEffects
<1>5. shown' \in [results : Answers, list : Answers]
  BY <1>3, <1>4
<1>6. CASE mounted = "containers" /\ ~Searches(v)
  BY <1>1, <1>4, <1>5, <1>6 DEF RunEffects, listVars, PagesTypeOK
<1>7. CASE ~(mounted = "containers" /\ ~Searches(v))
  <2>1. run' = [Cancelled(runs) EXCEPT ![s] = Request(v, p)] /\ runs[s].does = None
    BY <1>7 DEF RunEffects
  <2>2. IF Searches(v) THEN order' = Sent(s, searches) /\ UNCHANGED listVars
        ELSE latest' = s /\ remembered' = Request(v, p).for /\ order' = searches
    BY <1>7 DEF RunEffects
  <2> QED BY <1>1, <1>2, <1>3, <1>4, <1>5, <1>7, <2>1, <2>2 DEF listVars, PagesTypeOK
<1> QED BY <1>6, <1>7

(* The part of the invariant that a run of the effects restores. *)
Kept ==
    /\ AllProper /\ OneLive /\ remembered.query = Blank
    /\ Sought /\ Spun /\ Ordered /\ Followed /\ ResultsCome
    /\ LoadFresh /\ ListAsked /\ ListComes

(* Whatever was under way, after the effects have run for the value and pick
   in force what is missing is on its way.                                 *)
LEMMA EffectsKeep ==
    ASSUME PagesTypeOK, PagesTypeOK', Paced', remembered.query = Blank,
           NEW s \in Slots, NEW v \in Values, NEW p \in Picks,
           NEW runs \in [Slots -> Runs], NEW content \in [results : Answers, list : Answers],
           NEW searches \in SUBSET (Slots \X Slots),
           RunEffects(s, v, p, runs, content, searches),
           \A q \in Slots : Placed(runs[q]),
           OrderedIn(runs, searches), LoadFreshIn(runs, trust'),
           mounted' = mounted, version' = version, v = Base', p = pick',
           mounted # "items" => spinner' = Searches(v)
    PROVE  Kept'
<1> DEFINE x == Request(v, p)
<1>1. /\ x.does = (IF Searches(v) THEN "search" ELSE "list") /\ x.at = "sent" /\ x.live
      /\ x.for = [query |-> Trimmed[v], pick |-> p]
  BY RequestSent
<1>2. /\ \A q \in Slots : run'[q] = Cancelled(runs)[q]
                          \/ (q = s /\ run'[q] = x /\ runs[s].does = None)
      /\ Searches(v) => run'[s] = x /\ runs[s].does = None
                        /\ order' = Sent(s, searches)
                        /\ latest' = latest /\ remembered' = remembered
      /\ ~Searches(v) => order' = searches
      /\ ~Searches(v) /\ mounted # "containers" =>
             run'[s] = x /\ latest' = s /\ remembered' = [query |-> Trimmed[v], pick |-> p]
      /\ ~Searches(v) /\ mounted = "containers" =>
             run' = Cancelled(runs) /\ latest' = latest /\ remembered' = remembered
  BY EffectsRun
<1>3. \A q \in Slots : /\ ~Cancelled(runs)[q].live
                       /\ Cancelled(runs)[q].does = runs[q].does
                       /\ Cancelled(runs)[q].at = runs[q].at
                       /\ Cancelled(runs)[q].own = runs[q].own
                       /\ Cancelled(runs)[q].for = runs[q].for
                       /\ Cancelled(runs)[q].version = runs[q].version
  BY CancelledRuns
<1>4. Searches(v) <=> Trimmed[v] # Blank
  BY DEF Searches
<1> HIDE DEF x
<1>5. AllProper'
  <2> SUFFICES ASSUME NEW q \in Slots PROVE Proper(run[q])'
    BY DEF AllProper
  <2>1. CASE run'[q] = Cancelled(runs)[q]
    BY <2>1, <1>3 DEF Proper, Placed
  <2>2. CASE run'[q] = x
    BY <2>2, <1>1, <1>4 DEF Proper, Placed, None
  <2> QED BY <2>1, <2>2, <1>2
<1>6. remembered'.query = Blank
  BY <1>2, <1>4
<1>7. Searches(text') => Searches(v) \/ (mounted # "detail" /\ EffectDue')
  BY DEF Base, EffectDue, Paced
<1>8. Sought'
  <2>1. Searches(v) => LiveSearch'
    BY <1>1, <1>2 DEF LiveSearch
  <2>2. spinner' => Searches(v) \/ (mounted = "items" /\ Searches(text'))
    BY DEF Paced, PagesTypeOK
  <2> QED BY <2>1, <2>2, <1>7 DEF Sought
<1>9. \A q \in Slots : <<q, q>> \in searches => q # s \/ runs[s].does # None
  BY DEF OrderedIn, Placed, None
<1>10. Ordered'
  <2>1. OrderedIn(run', searches)
    <3> SUFFICES ASSUME NEW q \in Slots, <<q, q>> \in searches
                 PROVE  run'[q].at \in {"sent", "served"} /\ run'[q].for.query # Blank
      BY DEF OrderedIn
    <3>1. run'[q] = Cancelled(runs)[q]
      BY <1>2, <1>9
    <3> QED BY <3>1, <1>3 DEF OrderedIn
  <2>2. CASE Searches(v)
    <3>1. <<s, s>> \notin searches
      BY <2>2, <1>2, <1>9
    <3>2. run'[s].at \in {"sent", "served"} /\ run'[s].for.query # Blank
      BY <2>2, <1>1, <1>2, <1>4
    <3>3. OrderedIn(run', Sent(s, searches))
      BY <2>1, <3>1, <3>2, OrderedSent
    <3> QED BY <3>3, <2>2, <1>2 DEF Ordered, OrderedIn
  <2>3. CASE ~Searches(v)
    BY <2>1, <2>3, <1>2 DEF Ordered, OrderedIn
  <2> QED BY <2>2, <2>3
<1>11. Searches(v) => Comes(s)'
  BY <1>1, <1>2, SentLast DEF Comes, Pending, Fresh
<1>12. Followed'
  <2> SUFFICES ASSUME NEW q \in Slots, Pending(q)', (run[q].does = "search" => run[q].live)'
               PROVE  \/ Fresh(q)'
                      \/ mounted' = "detail" /\ ~Searches(text')
                      \/ \E t \in Slots : t # q /\ <<q, t>> \in order' /\ Comes(t)'
    BY DEF Followed
  <2>1. CASE Searches(v)
    <3>1. q = s => Fresh(q)'
      BY <2>1, <1>11 DEF Comes
    <3>2. <<q, s>> \in order'
      BY <2>1, <1>2, SentLast DEF Pending
    <3> QED BY <3>1, <3>2, <1>11, <2>1
  <2>2. CASE ~Searches(v) /\ mounted # "detail"
    <3>1. <<q, q>> \in searches
      BY <2>2, <1>2 DEF Pending
    <3>2. runs[q].at \in {"sent", "served"} /\ runs[q].for.query # Blank /\ Placed(runs[q])
      BY <3>1 DEF OrderedIn
    <3>3. runs[q].does = "search" /\ run'[q] = Cancelled(runs)[q]
      BY <2>2, <3>2, <1>2, <1>9, <3>1 DEF Placed, None, Runs
    <3> QED BY <3>3, <1>3
  <2>3. CASE ~Searches(v) /\ mounted = "detail"
    BY <2>3 DEF Base
  <2> QED BY <2>1, <2>2, <2>3
<1>13. ResultsCome'
  BY <1>7, <1>11 DEF ResultsCome
<1>14. LoadFresh'
  <2> SUFFICES ASSUME mounted # "containers", NEW q \in Slots, latest' = q,
                      AsksList(run'[q]), run'[q].at \in {"served", "reloaded"}
               PROVE  \/ run'[q].version = version \/ WriteOutIn(run')
                      \/ trust'.list = "edited"
    BY DEF LoadFresh, LoadFreshIn, AsksList, WriteOutIn
  <2>1. run'[q] = Cancelled(runs)[q]
    BY <1>1, <1>2
  <2>2. latest = q
    BY <2>1, <1>1, <1>2, <1>3
  <2>3. AsksList(runs[q]) /\ runs[q].at \in {"served", "reloaded"}
    BY <2>1, <1>3 DEF AsksList
  <2>4. runs[q].version = version \/ WriteOutIn(runs) \/ trust'.list = "edited"
    BY <2>2, <2>3 DEF LoadFreshIn
  <2>5. WriteOutIn(runs) => WriteOutIn(run')
    <3> SUFFICES ASSUME NEW t \in Slots, runs[t].at = "written" PROVE WriteOutIn(run')
      BY DEF WriteOutIn
    <3>1. run'[t] = Cancelled(runs)[t]
      BY <1>2 DEF Placed, None
    <3> QED BY <3>1, <1>3 DEF WriteOutIn
  <2> QED BY <2>1, <2>4, <2>5, <1>3
<1>15. ListComes'
  <2> SUFFICES ASSUME mounted # "containers", ~Searches(Base') PROVE \E q \in Slots : Loading(q)'
    BY DEF ListComes, Searches, Base
  <2>1. latest' = s /\ run'[s] = x
    BY <1>2
  <2> QED BY <2>1, <1>1, <1>4 DEF Loading, AsksList
<1>16. OneLive'
  <2>1. \A q \in Slots : run'[q].live => q = s
    BY <1>2, <1>3
  <2> QED BY <2>1 DEF OneLive
<1>17. ListAsked'
  <2> SUFFICES ASSUME mounted # "containers", ~Searches(v)
               PROVE  /\ remembered'.pick = p
                      /\ \A q \in Slots : latest' = q => run'[q].for.pick = p
    BY DEF ListAsked, Loading, Base, Searches
  <2>1. latest' = s /\ run'[s] = x /\ remembered' = [query |-> Trimmed[v], pick |-> p]
    BY <1>2
  <2> QED BY <2>1, <1>1
<1>18. Spun'
  <2>1. LiveSearch' => Searches(v)
    BY <1>1, <1>2, <1>3 DEF LiveSearch
  <2> QED BY <2>1 DEF Spun
<1> QED BY <1>5, <1>6, <1>8, <1>10, <1>12, <1>13, <1>14, <1>15, <1>16, <1>17, <1>18
        DEF Kept

LEMMA CountStays ==
    ASSUME PagesInv, version' = version, writes' = writes,
           \A q \in Slots : run'[q].at = "asked" => run[q].at = "asked"
    PROVE  Counted'
<1>1. IsFiniteSet(Asking) /\ Asking' \subseteq Asking
  <2>1. Asking \subseteq Slots /\ Asking' \subseteq Asking
    BY DEF Asking
  <2> QED BY <2>1, PageConstants, FS_Subset
<1>2. Cardinality(Asking') <= Cardinality(Asking)
      /\ Cardinality(Asking) \in Nat /\ Cardinality(Asking') \in Nat
  BY <1>1, FS_Subset, FS_CardinalityType
<1>3. version \in Nat /\ writes \in Nat
  BY PageConstants DEF PagesInv, PagesTypeOK
<1> QED BY <1>2, <1>3 DEF PagesInv, Counted

LEMMA EffectsCount ==
    ASSUME PagesInv, NEW s \in Slots, NEW v \in Values, NEW p \in Picks,
           NEW runs \in [Slots -> Runs], NEW content \in [results : Answers, list : Answers],
           NEW searches \in SUBSET (Slots \X Slots),
           RunEffects(s, v, p, runs, content, searches),
           version' = version, writes' = writes,
           \A q \in Slots : runs[q].at = "asked" => run[q].at = "asked"
    PROVE  Counted'
<1>1. \A q \in Slots : run'[q] = Cancelled(runs)[q] \/ run'[q] = Request(v, p)
  BY EffectsRun DEF PagesInv
<1>2. \A q \in Slots : Cancelled(runs)[q].at = runs[q].at
  BY CancelledRuns
<1>3. Request(v, p).at = "sent"
  BY DEF Request, FreeSlot
<1> QED BY <1>1, <1>2, <1>3, CountStays

LEMMA PagesFound ==
    ASSUME PagesTypeOK, NEW content \in [results : Answers, list : Answers]
    PROVE  /\ PagesOf(Displayed(content)) \in Picks \cup {0}
           /\ Clamped(content) \in Picks
<1>1. Displayed(content) \in Answers
  BY DEF Displayed
<1>2. PagesOf(Displayed(content)) \in Picks \cup {0}
  BY <1>1, PageConstants DEF PagesOf, Answers
<1> QED BY <1>2, PageConstants DEF Clamped, PagesTypeOK

(* When an answer is on the screen, the page number fits it; and unless it
   had to be lowered, nothing else has changed.                             *)
LEMMA Settled ==
    ASSUME PagesInv, NEW t \in Slots, NEW runs \in [Slots -> Runs],
           NEW content \in [results : Answers, list : Answers], NEW lowered \in BOOLEAN,
           NEW searches \in SUBSET (Slots \X Slots),
           Settle(t, runs, content, lowered, searches),
           UNCHANGED <<mounted, text, debounced, timer, retyped, serverVars>>,
           faults' \in 0 .. MaxFaults, trust' \in [results : Trusts, list : Trusts],
           lowered => spinner, \A q \in Slots : Placed(runs[q]),
           OrderedIn(runs, searches), LoadFreshIn(runs, trust'),
           \A q \in Slots : runs[q].at = "asked" => run[q].at = "asked"
    PROVE  /\ PagesTypeOK' /\ Paced' /\ PageExists' /\ Counted'
           /\ \/ Kept'
              \/ /\ run' = runs /\ shown' = content /\ spinner' = lowered /\ order' = searches
                 /\ pick' = pick /\ latest' = latest /\ remembered' = remembered
<1>1. PagesTypeOK /\ Paced /\ remembered.query = Blank
  BY DEF PagesInv
<1>2. PagesOf(Displayed(content)) \in Picks \cup {0} /\ Clamped(content) \in Picks
  BY <1>1, PagesFound
<1>3. mounted' = mounted /\ text' = text /\ debounced' = debounced /\ timer' = timer
      /\ retyped' = retyped /\ version' = version /\ writes' = writes
  BY DEF serverVars
<1>4. pick \in Nat \ {0}
  BY <1>1, PageConstants DEF PagesTypeOK
<1>5. CASE Clamped(content) = pick
  <2>1. /\ run' = runs /\ shown' = content /\ spinner' = lowered /\ order' = searches
        /\ pick' = pick /\ latest' = latest /\ remembered' = remembered
    BY <1>5 DEF Settle, listVars
  <2>2. PagesTypeOK'
    BY <1>1, <1>3, <2>1 DEF PagesTypeOK
  <2>3. Paced'
    BY <1>1, <1>3, <2>1 DEF Paced, Searches
  <2>4. mounted = "detail" /\ pick > 1 => pick <= PagesOf(Displayed(content))
    BY <1>2, <1>4, <1>5, PageConstants DEF Clamped
  <2>5. PageExists'
    BY <2>4, <2>1, <1>3 DEF PageExists, PagesOf, Displayed, Searches
  <2>6. Counted'
    BY <1>3, <2>1, CountStays
  <2> QED BY <2>1, <2>2, <2>3, <2>5, <2>6
<1>6. CASE Clamped(content) # pick
  <2> DEFINE p == Clamped(content)
  <2>1. mounted = "detail"
    BY <1>6 DEF Clamped
  <2>2. pick' = p /\ RunEffects(t, text, p, runs, content, searches) /\ spinner' = Searches(text)
    BY <1>6, <2>1 DEF Settle, EffectSpinner
  <2>3. text \in Values
    BY <1>1 DEF PagesTypeOK
  <2>4. /\ run' \in [Slots -> Runs] /\ order' \in SUBSET (Slots \X Slots)
        /\ latest' \in Slots \cup {None} /\ remembered' \in Params
        /\ shown' \in [results : Answers, list : Answers]
        /\ shown' = IF Searches(text) THEN content ELSE [content EXCEPT !.results = NothingShown]
    BY <1>1, <1>2, <2>2, <2>3, EffectsRun
  <2>5. Searches(text) \in BOOLEAN
    BY DEF Searches
  <2>6. PagesTypeOK'
    BY <1>1, <1>2, <1>3, <2>2, <2>4, <2>5 DEF PagesTypeOK
  <2>7. Paced'
    BY <1>1, <1>3, <2>1 DEF Paced
  <2>8. Kept'
    <3>1. text = Base' /\ p = pick'
      BY <1>3, <2>1, <2>2 DEF Base
    <3> HIDE DEF p
    <3> QED BY <1>1, <1>2, <1>3, <2>2, <2>3, <2>6, <2>7, <3>1, EffectsKeep DEF p
  <2>9. p = 1 \/ p = PagesOf(Displayed(content))
    BY <2>1, <1>6 DEF Clamped
  <2>10. Displayed(shown)' = Displayed(content)
    BY <1>3, <2>4 DEF Displayed, Searches
  <2>11. PagesOf(Displayed(content)) \in Nat
    <3>1. Picks \cup {0} \subseteq Nat
      BY PageConstants
    <3> QED BY <1>2, <3>1
  <2>12. PageExists'
    BY <2>2, <2>9, <2>10, <2>11 DEF PageExists, PagesOf
  <2>13. Counted'
    <3> HIDE DEF p
    <3> QED BY <1>2, <1>3, <2>2, <2>3, EffectsCount DEF p
  <2> QED BY <2>6, <2>7, <2>8, <2>12, <2>13
<1> QED BY <1>5, <1>6

(***************************************************************************)
(* The user                                                                *)
(***************************************************************************)

LEMMA InvParts ==
    ASSUME PagesInv
    PROVE  /\ PagesTypeOK /\ Paced /\ remembered.query = Blank /\ Ordered /\ LoadFresh
           /\ \A s \in Slots : Placed(run[s])
           /\ text \in Values /\ debounced \in Values /\ pick \in Picks
           /\ run \in [Slots -> Runs] /\ shown \in [results : Answers, list : Answers]
           /\ order \in SUBSET (Slots \X Slots)
           /\ OrderedIn(run, order) /\ LoadFreshIn(run, trust)
BY DEF PagesInv, PagesTypeOK, AllProper, Proper, Ordered, LoadFresh

LEMMA KeptIsInv ==
    ASSUME PagesTypeOK', Paced', PageExists', Counted', Kept'
    PROVE  PagesInv'
BY DEF PagesInv, Kept

LEMMA TypeKeeps ==
    ASSUME PagesInv, NEW s \in Slots, NEW v \in Values, Type(s, v)
    PROVE  PagesInv'
<1>1. /\ mounted = "detail" /\ text' = v /\ pick' = 1 /\ spinner' = Searches(v)
      /\ RunEffects(s, v, 1, run, shown, order)
      /\ mounted' = mounted /\ debounced' = debounced /\ timer' = timer /\ retyped' = retyped
      /\ version' = version /\ writes' = writes /\ faults' = faults /\ trust' = trust
  BY DEF Type, EffectSpinner, serverVars
<1>2. 1 \in Picks /\ Searches(v) \in BOOLEAN
  BY PageConstants DEF Searches
<1>3. PagesTypeOK'
  BY <1>1, <1>2, InvParts, EffectsRun DEF PagesTypeOK
<1>4. Paced'
  BY <1>1, InvParts DEF Paced
<1>5. v = Base' /\ 1 = pick'
  BY <1>1 DEF Base
<1>6. Kept'
  BY <1>1, <1>2, <1>3, <1>4, <1>5, InvParts, EffectsKeep
<1>7. PageExists'
  BY <1>1 DEF PageExists
<1>8. Counted'
  BY <1>1, <1>2, InvParts, EffectsCount
<1> QED BY <1>3, <1>4, <1>6, <1>7, <1>8, KeptIsInv

LEMMA ChangePageKeeps ==
    ASSUME PagesInv, NEW s \in Slots, NEW p \in Picks, ChangePage(s, p)
    PROVE  PagesInv'
<1>1. /\ mounted = "detail" /\ text' = text /\ pick' = p /\ spinner' = Searches(text)
      /\ RunEffects(s, text, p, run, shown, order)
      /\ p <= PagesOf(Displayed(shown))
      /\ mounted' = mounted /\ debounced' = debounced /\ timer' = timer /\ retyped' = retyped
      /\ version' = version /\ writes' = writes /\ faults' = faults /\ trust' = trust
  BY DEF ChangePage, EffectSpinner, serverVars
<1>2. Searches(text) \in BOOLEAN
  BY DEF Searches
<1>3. shown' = IF Searches(text) THEN shown ELSE [shown EXCEPT !.results = NothingShown]
  BY <1>1, InvParts, EffectsRun
<1>4. PagesTypeOK'
  BY <1>1, <1>2, InvParts, EffectsRun DEF PagesTypeOK
<1>5. Paced'
  BY <1>1, InvParts DEF Paced
<1>6. text = Base' /\ p = pick'
  BY <1>1 DEF Base
<1>7. Kept'
  BY <1>1, <1>2, <1>4, <1>5, <1>6, InvParts, EffectsKeep
<1>8. Displayed(shown)' = Displayed(shown)
  BY <1>1, <1>3, InvParts DEF Displayed, Searches
<1>9. PageExists'
  BY <1>1, <1>8 DEF PageExists, PagesOf
<1>10. Counted'
  BY <1>1, InvParts, EffectsCount
<1> QED BY <1>4, <1>5, <1>7, <1>9, <1>10, KeptIsInv

LEMMA ChangeFilterKeeps ==
    ASSUME PagesInv, NEW s \in Slots, NEW p \in Picks, ChangeFilter(s, p)
    PROVE  PagesInv'
<1>1. /\ mounted # "detail" /\ text' = text /\ pick' = p
      /\ RunEffects(s, debounced, p, run, shown, order)
      /\ spinner' = IF mounted = "items" THEN spinner \/ Searches(text)
                    ELSE Searches(debounced)
      /\ mounted' = mounted /\ debounced' = debounced /\ timer' = timer /\ retyped' = FALSE
      /\ version' = version /\ writes' = writes /\ faults' = faults /\ trust' = trust
  BY DEF ChangeFilter, EffectSpinner, serverVars
<1>2. Searches(text) \in BOOLEAN /\ Searches(debounced) \in BOOLEAN /\ spinner \in BOOLEAN
  BY InvParts DEF Searches, PagesTypeOK
<1>3. PagesTypeOK'
  BY <1>1, <1>2, InvParts, EffectsRun DEF PagesTypeOK
<1>4. Paced'
  BY <1>1, InvParts DEF Paced, Searches
<1>5. debounced = Base' /\ p = pick'
  BY <1>1 DEF Base
<1>6. Kept'
  BY <1>1, <1>2, <1>3, <1>4, <1>5, InvParts, EffectsKeep
<1>7. PageExists'
  BY <1>1 DEF PageExists
<1>8. Counted'
  BY <1>1, InvParts, EffectsCount
<1> QED BY <1>3, <1>4, <1>6, <1>7, <1>8, KeptIsInv

LEMMA DebounceEndsKeeps ==
    ASSUME PagesInv, NEW s \in Slots, DebounceEnds(s)
    PROVE  PagesInv'
<1>1. /\ timer /\ timer' = FALSE /\ debounced' = text /\ text' = text /\ pick' = pick
      /\ mounted' = mounted
      /\ version' = version /\ writes' = writes /\ faults' = faults /\ trust' = trust
  BY DEF DebounceEnds, serverVars
<1>2. mounted # "detail"
  BY <1>1, InvParts DEF Paced
<1>3. CASE text = debounced
  <2>1. /\ spinner' = spinner /\ shown' = shown /\ latest' = latest /\ remembered' = remembered
        /\ run' = run /\ order' = order /\ retyped' = retyped
    BY <1>3 DEF DebounceEnds, listVars
  <2>2. PagesTypeOK'
    BY <1>1, <2>1, InvParts DEF PagesTypeOK
  <2>3. Paced'
    BY <1>1, <1>3, <2>1, InvParts DEF Paced, Searches
  <2>4. ~EffectDue /\ Base' = Base
    BY <1>1, <1>3 DEF EffectDue, Base
  <2>5. AllProper' /\ OneLive' /\ remembered'.query = Blank
    BY <1>1, <2>1, <2>4 DEF PagesInv, AllProper, Proper, Placed, OneLive
  <2>6. Sought' /\ Spun'
    BY <1>1, <2>1, <2>4 DEF PagesInv, Spun, Sought, LiveSearch, Searches
  <2>7. Ordered'
    BY <2>1 DEF PagesInv, Ordered, OrderedIn
  <2>8. Followed'
    BY <1>1, <2>1 DEF PagesInv, Followed, Pending, Fresh, RefreshDue, Refreshes, Comes, Searches
  <2>9. ResultsCome'
    BY <1>1, <2>1, <2>4
       DEF PagesInv, ResultsCome, Pending, Fresh, RefreshDue, Refreshes, Comes, Searches, Wanted
  <2>10. LoadFresh' /\ ListAsked' /\ ListComes'
    BY <1>1, <2>1, <2>4
       DEF PagesInv, ListAsked, LoadFresh, LoadFreshIn, WriteOut, WriteOutIn, ListComes, Loading, AsksList,
           Wanted, Searches
  <2>11. PageExists'
    BY <1>1, <1>2 DEF PageExists
  <2>12. Counted'
    BY <1>1, <2>1, CountStays
  <2> QED BY <2>2, <2>3, <2>5, <2>6, <2>7, <2>8, <2>9, <2>10, <2>11, <2>12, KeptIsInv
          DEF Kept
<1>4. CASE text # debounced
  <2>1. /\ RunEffects(s, text, pick, run, shown, order) /\ retyped' = FALSE
        /\ spinner' = IF mounted = "items" THEN spinner ELSE Searches(text)
    BY <1>4 DEF DebounceEnds, EffectSpinner
  <2>2. Searches(text) \in BOOLEAN /\ spinner \in BOOLEAN
    BY InvParts DEF Searches, PagesTypeOK
  <2>3. PagesTypeOK'
    BY <1>1, <2>1, <2>2, InvParts, EffectsRun DEF PagesTypeOK
  <2>4. Paced'
    BY <1>1, <2>1, InvParts DEF Paced, Searches
  <2>5. text = Base' /\ pick = pick'
    BY <1>1, <1>2 DEF Base
  <2>6. Kept'
    BY <1>1, <2>1, <2>2, <2>3, <2>4, <2>5, InvParts, EffectsKeep
  <2>7. PageExists'
    BY <1>1, <1>2 DEF PageExists
  <2>8. Counted'
    BY <1>1, <2>1, InvParts, EffectsCount
  <2> QED BY <2>3, <2>4, <2>6, <2>7, <2>8, KeptIsInv
<1> QED BY <1>3, <1>4

LEMMA TypeDebouncedKeeps ==
    ASSUME PagesInv, NEW v \in Values, TypeDebounced(v)
    PROVE  PagesInv'
<1>1. /\ mounted # "detail" /\ text' = v /\ timer' = TRUE /\ retyped' = (v = debounced)
      /\ spinner' = Searches(v)
      /\ shown' = IF mounted = "containers" \/ ~Searches(v)
                  THEN [shown EXCEPT !.results = NothingShown] ELSE shown
      /\ mounted' = mounted /\ debounced' = debounced /\ pick' = pick
      /\ latest' = latest /\ remembered' = remembered /\ run' = run /\ order' = order
      /\ version' = version /\ writes' = writes /\ faults' = faults /\ trust' = trust
  BY DEF TypeDebounced, listVars, serverVars
<1>2. Searches(v) \in BOOLEAN /\ NothingShown \in Answers
  BY PageConstants DEF Searches
<1>3. shown' \in [results : Answers, list : Answers] /\ shown'.list = shown.list
  BY <1>1, <1>2, InvParts
<1>4. PagesTypeOK'
  BY <1>1, <1>2, <1>3, InvParts DEF PagesTypeOK
<1>5. Paced' /\ PageExists'
  BY <1>1 DEF Paced, PageExists, Searches
<1>6. Base' = Base
  BY <1>1 DEF Base
<1>7. AllProper' /\ OneLive' /\ remembered'.query = Blank
  BY <1>1, <1>6 DEF PagesInv, AllProper, Proper, Placed, OneLive
<1>8. Sought' /\ Spun'
  BY <1>1 DEF Spun, Sought, EffectDue, Searches
<1>9. Ordered'
  BY <1>1 DEF PagesInv, Ordered, OrderedIn
<1>10. Followed'
  BY <1>1 DEF PagesInv, Followed, Pending, Fresh, RefreshDue, Refreshes, Comes
<1>11. ResultsCome'
  BY <1>1 DEF ResultsCome, Searches
<1>12. LoadFresh' /\ ListAsked' /\ ListComes'
  BY <1>1, <1>3, <1>6
     DEF PagesInv, ListAsked, LoadFresh, LoadFreshIn, WriteOut, WriteOutIn, ListComes, Loading, AsksList,
         Wanted, Searches
<1>13. Counted'
  BY <1>1, CountStays
<1> QED BY <1>4, <1>5, <1>7, <1>8, <1>9, <1>10, <1>11, <1>12, <1>13, KeptIsInv DEF Kept

(***************************************************************************)
(* One slot goes on, to x                                                  *)
(***************************************************************************)

SlotMoves(s, x) ==
    /\ run' = [run EXCEPT ![s] = x]
    /\ UNCHANGED boxVars
    /\ spinner' => spinner

(* ... and what the page shows stays. *)
SlotGoes(s, x) ==
    /\ SlotMoves(s, x)
    /\ shown' = shown
    /\ spinner' \in BOOLEAN
    /\ latest' \in Slots \cup {None} /\ remembered' \in Params /\ remembered'.query = Blank
    /\ version' \in 0 .. MaxWrites /\ writes' \in 0 .. MaxWrites /\ faults' \in 0 .. MaxFaults
    /\ order' \in SUBSET (Slots \X Slots)
    /\ trust' \in [results : Trusts, list : Trusts]

LEMMA SlotProper ==
    ASSUME PagesInv, NEW s \in Slots, NEW x \in Runs, SlotMoves(s, x), Proper(x),
           spinner' /\ run[s].does = "search" /\ run[s].live => x.does = "search" /\ x.live,
           x.live => run[s].live, x.live => x.does = run[s].does,
           spinner /\ ~spinner' => mounted = "items" \/ (run[s].live /\ ~x.live)
    PROVE  AllProper' /\ OneLive' /\ Sought' /\ Spun' /\ Paced'
<1>1. /\ run' = [run EXCEPT ![s] = x] /\ (spinner' => spinner)
      /\ mounted' = mounted /\ text' = text /\ debounced' = debounced /\ timer' = timer
      /\ pick' = pick /\ retyped' = retyped
  BY DEF SlotMoves, boxVars
<1>2. Base' = Base
  BY <1>1 DEF Base
<1>3. \A q \in Slots : run[q]' = IF q = s THEN x ELSE run[q]
  BY <1>1, InvParts
<1>4. AllProper'
  <2> SUFFICES ASSUME NEW q \in Slots PROVE Proper(run[q])'
    BY DEF AllProper
  <2>1. CASE q = s
    BY <1>1, <1>2, <1>3, <2>1 DEF Proper, Placed
  <2>2. CASE q # s
    BY <1>1, <1>2, <1>3, <2>2 DEF PagesInv, AllProper, Proper, Placed
  <2> QED BY <2>1, <2>2
<1>5. Sought'
  <2>1. ASSUME spinner', LiveSearch PROVE LiveSearch'
    <3>1. PICK q \in Slots : run[q].does = "search" /\ run[q].live
      BY <2>1 DEF LiveSearch
    <3> QED BY <1>3, <2>1, <3>1 DEF LiveSearch
  <2> QED BY <1>1, <2>1 DEF PagesInv, Sought, EffectDue, Searches
<1>6. Paced'
  BY <1>1 DEF PagesInv, Paced, Searches
<1>7. OneLive'
  BY <1>3 DEF PagesInv, OneLive
<1>8. Spun'
  <2> SUFFICES ASSUME mounted # "items", Searches(text), NEW q \in Slots,
                      run'[q].does = "search", run'[q].live
               PROVE  spinner'
    BY <1>1 DEF Spun, LiveSearch, Searches
  <2>1. run[q].does = "search" /\ run[q].live
    BY <1>3
  <2>2. spinner
    BY <2>1 DEF PagesInv, Spun, LiveSearch
  <2> QED BY <1>3, <2>1, <2>2 DEF PagesInv, OneLive
<1> QED BY <1>4, <1>5, <1>6, <1>7, <1>8

LEMMA SlotStepKeeps ==
    ASSUME PagesInv, NEW s \in Slots, NEW x \in Runs, SlotGoes(s, x), Proper(x),
           spinner' /\ run[s].does = "search" /\ run[s].live => x.does = "search" /\ x.live,
           x.live => run[s].live, x.live => x.does = run[s].does,
           spinner /\ ~spinner' => mounted = "items",
           Counted', Ordered', Followed', ResultsCome', LoadFresh', ListAsked', ListComes'
    PROVE  PagesInv'
<1>1. /\ run' = [run EXCEPT ![s] = x] /\ shown' = shown
      /\ mounted' = mounted /\ text' = text /\ debounced' = debounced /\ timer' = timer
      /\ pick' = pick /\ retyped' = retyped
  BY DEF SlotGoes, SlotMoves, boxVars
<1>2. PagesTypeOK'
  <2>1. run' \in [Slots -> Runs]
    BY <1>1, InvParts
  <2> QED BY <1>1, <2>1, InvParts DEF PagesTypeOK, SlotGoes
<1>3. PageExists'
  BY <1>1 DEF PagesInv, PageExists, PagesOf, Displayed, Searches
<1>4. AllProper' /\ OneLive' /\ Sought' /\ Spun' /\ Paced'
  BY SlotProper DEF SlotGoes
<1>5. remembered'.query = Blank
  BY DEF SlotGoes
<1> QED BY <1>2, <1>3, <1>4, <1>5, KeptIsInv DEF Kept

(* The search of a slot stays what it is, up to being served now. *)
SearchStays(s, x) ==
    /\ Pending(s) => /\ x.does = run[s].does /\ x.live = run[s].live
                     /\ x.at = "served" =>
                          \/ x.version = version
                          \/ run[s].at = "served" /\ x.version = run[s].version
    /\ Refreshes(s) => /\ x.does = "delete" /\ x.own.query # Blank
                       /\ x.at \in {"written", "reload", "reloaded", "details"}

LEMMA SearchesOn ==
    ASSUME PagesInv, NEW s \in Slots, NEW x \in Runs, SlotMoves(s, x), SearchStays(s, x),
           shown'.results = shown.results, order' = order, version' = version, trust'.results = trust.results,
           mounted # "detail" /\ trust.results = "kept" /\ spinner /\ ~spinner' =>
               ~Searches(text) \/ EffectDue
    PROVE  Followed' /\ ResultsCome'
<1>1. /\ run' = [run EXCEPT ![s] = x] /\ (spinner' => spinner)
      /\ mounted' = mounted /\ text' = text /\ debounced' = debounced /\ timer' = timer
      /\ pick' = pick
  BY DEF SlotMoves, boxVars
<1>2. \A q \in Slots : run[q]' = IF q = s THEN x ELSE run[q]
  BY <1>1, InvParts
<1>3. \A q \in Slots : Comes(q) => Comes(q)'
  BY <1>1, <1>2 DEF SearchStays, Comes, Pending, Fresh
<1>4. RefreshDue => RefreshDue'
  BY <1>1, <1>2 DEF SearchStays, RefreshDue, Refreshes
<1>5. \A q \in Slots : Pending(q) /\ Fresh(q) => Fresh(q)'
  BY <1>1, <1>2 DEF SearchStays, Pending, Fresh
<1>6. Followed'
  <2> SUFFICES ASSUME NEW q \in Slots, Pending(q)', (run[q].does = "search" => run[q].live)'
               PROVE  \/ Fresh(q)'
                      \/ RefreshDue'
                      \/ mounted' = "detail" /\ ~Searches(text')
                      \/ \E t \in Slots : t # q /\ <<q, t>> \in order' /\ Comes(t)'
    BY DEF Followed
  <2>1. Pending(q) /\ (run[q].does = "search" => run[q].live)
    BY <1>2 DEF Pending, SearchStays
  <2> QED BY <2>1, <1>1, <1>3, <1>4, <1>5 DEF PagesInv, Followed, Searches
<1>7. ResultsCome'
  BY <1>1, <1>3, <1>4 DEF PagesInv, ResultsCome, Wanted, EffectDue, Searches
<1> QED BY <1>6, <1>7

LEMMA SearchesStay ==
    ASSUME PagesInv, NEW s \in Slots, NEW x \in Runs, SlotGoes(s, x), SearchStays(s, x),
           order' = order, version' = version, trust'.results = trust.results,
           mounted # "detail" /\ trust.results = "kept" /\ spinner /\ ~spinner' =>
               ~Searches(text) \/ EffectDue
    PROVE  Followed' /\ ResultsCome'
BY SearchesOn DEF SlotGoes

(* The load of a slot stays what it is, up to being served now. *)
LoadStays(s, x) ==
    /\ latest = s => (AsksList(run[s]) <=> AsksList(x))
    /\ latest = s /\ AsksList(x) /\ x.at \in {"served", "reloaded"} =>
          \/ x.version = version
          \/ run[s].at \in {"served", "reloaded"} /\ x.version = run[s].version
    /\ run[s].at = "written" => x.at = "written"

LEMMA LoadsOn ==
    ASSUME PagesInv, NEW s \in Slots, NEW x \in Runs, SlotMoves(s, x), LoadStays(s, x),
           shown'.list = shown.list, latest' = latest, version' = version, trust'.list = trust.list
    PROVE  LoadFresh' /\ ListComes'
<1>1. /\ run' = [run EXCEPT ![s] = x]
      /\ mounted' = mounted /\ text' = text /\ debounced' = debounced /\ pick' = pick
  BY DEF SlotMoves, boxVars
<1>2. \A q \in Slots : run[q]' = IF q = s THEN x ELSE run[q]
  BY <1>1, InvParts
<1>3. WriteOutIn(run) => WriteOutIn(run')
  BY <1>2 DEF WriteOutIn, LoadStays
<1>4. LoadFresh'
  <2> SUFFICES ASSUME mounted # "containers", NEW q \in Slots, latest = q,
                      AsksList(run'[q]), run'[q].at \in {"served", "reloaded"}
               PROVE  \/ run'[q].version = version \/ WriteOutIn(run')
                      \/ trust.list = "edited"
    BY <1>1 DEF LoadFresh, LoadFreshIn, AsksList, WriteOutIn
  <2> QED BY <1>2, <1>3 DEF PagesInv, LoadFresh, LoadFreshIn, LoadStays
<1>5. \A q \in Slots : Loading(q) => Loading(q)'
  BY <1>2 DEF Loading, LoadStays, AsksList
<1>6. Base' = Base
  BY <1>1 DEF Base
<1>7. ListComes'
  BY <1>1, <1>3, <1>5, <1>6 DEF PagesInv, ListComes, WriteOut, Wanted, Searches
<1> QED BY <1>4, <1>7

LEMMA LoadsStay ==
    ASSUME PagesInv, NEW s \in Slots, NEW x \in Runs, SlotGoes(s, x), LoadStays(s, x),
           latest' = latest, version' = version, trust'.list = trust.list
    PROVE  LoadFresh' /\ ListComes'
BY LoadsOn DEF SlotGoes

(* A slot goes on to ask for a list as it did before, or for that remembered,
   or as a handler of ContainerDetailPage.                                  *)
LEMMA AskedOn ==
    ASSUME PagesInv, NEW s \in Slots, NEW x \in Runs, SlotMoves(s, x),
           mounted = "items" => remembered' = remembered,
           latest' = latest \/ latest' = s,
           latest' = s /\ AsksList(x) =>
               \/ latest = s /\ AsksList(run[s]) /\ x.for = run[s].for /\ x.does = run[s].does
               \/ mounted = "items" /\ x.for = remembered
               \/ mounted # "items" /\ x.does # "list"
    PROVE  ListAsked'
<1>1. /\ run' = [run EXCEPT ![s] = x] /\ mounted' = mounted /\ text' = text
      /\ debounced' = debounced /\ pick' = pick
  BY DEF SlotMoves, boxVars
<1>2. \A q \in Slots : run'[q] = IF q = s THEN x ELSE run[q]
  BY <1>1, InvParts
<1>3. (Searches(Base) <=> Searches(Base'))
  BY <1>1 DEF Base, Searches
<1> SUFFICES ASSUME mounted # "containers", ~Searches(Base)
             PROVE  /\ mounted = "items" => remembered'.pick = pick
                    /\ \A q \in Slots :
                          latest' = q /\ AsksList(run'[q]) /\ (mounted = "items" \/ run'[q].does = "list")
                              => run'[q].for.pick = pick
  BY <1>1, <1>3 DEF ListAsked, Loading, Searches, Base, AsksList
<1>4. /\ mounted = "items" => remembered.pick = pick
      /\ \A q \in Slots :
            latest = q /\ AsksList(run[q]) /\ (mounted = "items" \/ run[q].does = "list")
                => run[q].for.pick = pick
  BY DEF PagesInv, ListAsked, Loading
<1> QED BY <1>2, <1>4

LEMMA OrderStays ==
    ASSUME PagesInv, NEW s \in Slots, NEW x \in Runs, SlotMoves(s, x), order' = order,
           Pending(s) => x.at \in {"sent", "served"} /\ x.for.query # Blank
    PROVE  Ordered'
<1>1. \A q \in Slots : run[q]' = IF q = s THEN x ELSE run[q]
  BY InvParts DEF SlotMoves
<1> QED BY <1>1 DEF PagesInv, Ordered, OrderedIn, Pending

LEMMA RunFacts ==
    ASSUME PagesInv, NEW s \in Slots
    PROVE  /\ run[s] \in Runs /\ Proper(run[s]) /\ Placed(run[s])
           /\ Pending(s) => run[s].at \in {"sent", "served"} /\ run[s].for.query # Blank
BY DEF PagesInv, PagesTypeOK, AllProper, Proper, Ordered, OrderedIn, Pending

LEMMA FreeSlotFacts ==
           /\ FreeSlot \in Runs /\ Proper(FreeSlot)
           /\ FreeSlot.does = None /\ FreeSlot.at = None
           /\ ~FreeSlot.live /\ FreeSlot.version = -1
BY PageConstants DEF FreeSlot, Proper, Placed, None

LEMMA ChangeKeeps ==
    ASSUME PagesInv, NEW s \in Slots, NEW does \in Edits,
           Change(s, does)
    PROVE  PagesInv'
<1> DEFINE x == [FreeSlot EXCEPT !.does = does, !.at = "asked",
                                !.own = [query |-> Trimmed[text], pick |-> pick]]
<1>1. /\ run[s].does = None /\ run' = [run EXCEPT ![s] = x]
      /\ does = "delete" => mounted = "detail"
      /\ writes < MaxWrites /\ writes' = writes + 1
      /\ UNCHANGED <<boxVars, spinner, shown, listVars, version, faults,
                     order, trust>>
  BY DEF Change, Idle
<1>2. [query |-> Trimmed[text], pick |-> pick] \in Params
  BY InvParts, PageConstants DEF Params
<1>3. /\ x \in Runs /\ x.does = does /\ x.at = "asked" /\ ~x.live
  BY <1>2, PageConstants DEF Runs, FreeSlot
<1> HIDE DEF x
<1>4. Proper(x)
  BY <1>1, <1>3, PageConstants DEF Proper, Placed, None
<1>5. SlotGoes(s, x)
  BY <1>1, InvParts, PageConstants DEF SlotGoes, SlotMoves, PagesTypeOK, listVars
<1>6. run[s].at = None /\ ~Pending(s) /\ ~Refreshes(s)
  BY <1>1, RunFacts DEF Placed, Refreshes, None
<1>7. Ordered'
  BY <1>1, <1>3, <1>5, <1>6, OrderStays DEF SlotGoes
<1>8. Followed' /\ ResultsCome'
  BY <1>1, <1>3, <1>5, <1>6, SearchesStay DEF SearchStays
<1>9. LoadFresh' /\ ListComes'
  BY <1>1, <1>3, <1>5, <1>6, LoadsStay DEF LoadStays, AsksList, listVars, None
<1>10. Counted'
  <2>1. Asking \subseteq Slots /\ Asking' = Asking \cup {s} /\ s \notin Asking
    BY <1>1, <1>3, <1>6, InvParts DEF Asking, None
  <2>2. IsFiniteSet(Asking)
    BY <2>1, PageConstants, FS_Subset
  <2>3. Cardinality(Asking') = Cardinality(Asking) + 1 /\ Cardinality(Asking) \in Nat
    BY <2>1, <2>2, FS_AddElement, FS_CardinalityType
  <2>4. version' = version /\ version \in Nat /\ writes \in Nat
    BY <1>1, InvParts, PageConstants DEF PagesTypeOK
  <2> QED BY <1>1, <2>3, <2>4 DEF PagesInv, Counted
<1>11. run[s].does # "search"
  BY <1>1 DEF None
<1>12. ListAsked'
  BY <1>1, <1>3, <1>5, AskedOn DEF AsksList, SlotGoes, listVars
<1> QED BY <1>1, <1>3, <1>4, <1>5, <1>7, <1>8, <1>9, <1>10, <1>11, <1>12, SlotStepKeeps

LEMMA RefreshKeeps ==
    ASSUME PagesInv, NEW s \in Slots, Refresh(s)
    PROVE  PagesInv'
<1> DEFINE x == [FreeSlot EXCEPT !.does = "refresh", !.at = "details",
                                !.own = [query |-> Trimmed[text], pick |-> pick]]
<1>1. /\ run[s].does = None /\ run' = [run EXCEPT ![s] = x] /\ mounted = "detail"
      /\ UNCHANGED <<boxVars, spinner, shown, listVars, serverVars, faults,
                     order, trust>>
  BY DEF Refresh, Idle
<1>2. [query |-> Trimmed[text], pick |-> pick] \in Params
  BY InvParts, PageConstants DEF Params
<1>3. /\ x \in Runs /\ x.does = "refresh" /\ x.at = "details" /\ ~x.live
  BY <1>2, PageConstants DEF Runs, FreeSlot
<1> HIDE DEF x
<1>4. Proper(x)
  BY <1>1, <1>3 DEF Proper, Placed, None
<1>5. SlotGoes(s, x)
  BY <1>1, InvParts, PageConstants DEF SlotGoes, SlotMoves, PagesTypeOK, listVars, serverVars
<1>6. run[s].at = None /\ ~Pending(s) /\ ~Refreshes(s)
  BY <1>1, RunFacts DEF Placed, Refreshes, None
<1>7. Ordered'
  BY <1>1, <1>3, <1>5, <1>6, OrderStays DEF SlotGoes
<1>8. Followed' /\ ResultsCome'
  BY <1>1, <1>3, <1>5, <1>6, SearchesStay DEF SearchStays, serverVars
<1>9. LoadFresh' /\ ListComes'
  BY <1>1, <1>3, <1>5, <1>6, LoadsStay DEF LoadStays, AsksList, listVars, serverVars, None
<1>10. Counted'
  BY <1>1, <1>3, InvParts, CountStays DEF serverVars
<1>11. run[s].does # "search"
  BY <1>1 DEF None
<1>12. ListAsked'
  BY <1>1, <1>3, <1>5, AskedOn DEF AsksList, SlotGoes, listVars
<1> QED BY <1>1, <1>3, <1>4, <1>5, <1>7, <1>8, <1>9, <1>10, <1>11, <1>12, SlotStepKeeps

LEMMA ServeKeeps ==
    ASSUME PagesInv, NEW s \in Slots, Serve(s)
    PROVE  PagesInv'
<1> DEFINE y == run[s]
           x == [y EXCEPT !.at = IF y.at = "sent" THEN "served" ELSE "reloaded",
                          !.version = version]
<1>1. /\ y.at \in {"sent", "reload"} /\ run' = [run EXCEPT ![s] = x]
      /\ UNCHANGED <<boxVars, spinner, shown, listVars, serverVars, faults,
                     order, trust>>
  BY DEF Serve
<1>2. y \in Runs /\ Proper(y)
  BY RunFacts
<1>3. version \in -1 .. MaxWrites
  BY InvParts, PageConstants DEF PagesTypeOK
<1> HIDE DEF y
<1>4. /\ x \in Runs /\ x.does = y.does /\ x.live = y.live /\ x.for = y.for /\ x.own = y.own
      /\ x.at = (IF y.at = "sent" THEN "served" ELSE "reloaded") /\ x.version = version
  BY <1>2, <1>3 DEF Runs
<1> HIDE DEF x
<1>5. Proper(x)
  BY <1>1, <1>2, <1>4 DEF Proper, Placed, None
<1>6. SlotGoes(s, x)
  BY <1>1, InvParts, PageConstants DEF SlotGoes, SlotMoves, PagesTypeOK, listVars, serverVars
<1>7. Pending(s) => y.at = "sent" /\ y.for.query # Blank
  BY <1>1, RunFacts DEF y
<1>8. Ordered'
  BY <1>1, <1>4, <1>6, <1>7, OrderStays DEF SlotGoes
<1>9. Followed' /\ ResultsCome'
  BY <1>1, <1>4, <1>6, SearchesStay DEF SearchStays, Refreshes, serverVars, y
<1>10. LoadFresh' /\ ListComes'
  BY <1>1, <1>4, <1>6, LoadsStay DEF LoadStays, AsksList, listVars, serverVars, y
<1>11. Counted'
  BY <1>1, <1>4, InvParts, CountStays DEF serverVars
<1>12. ListAsked'
  BY <1>1, <1>4, <1>6, AskedOn DEF AsksList, SlotGoes, listVars, y
<1> QED BY <1>1, <1>4, <1>5, <1>6, <1>8, <1>9, <1>10, <1>11, <1>12, SlotStepKeeps DEF y

LEMMA ChangeAnsweredKeeps ==
    ASSUME PagesInv, NEW s \in Slots, ChangeAnswered(s)
    PROVE  PagesInv'
<1> DEFINE y == run[s]
           z == [y EXCEPT !.at = "reload", !.for = remembered]
           x == IF mounted = "containers" THEN FreeSlot ELSE z
<1>1. /\ y.at = "written" /\ run' = [run EXCEPT ![s] = x]
      /\ latest' = IF mounted = "containers" THEN latest ELSE s
      /\ remembered' = remembered
      /\ UNCHANGED <<boxVars, spinner, shown, serverVars, faults, order, trust>>
  BY DEF ChangeAnswered, Ended
<1>2. y \in Runs /\ Proper(y) /\ y.does \in {"delete", "edit"} /\ ~Pending(s) /\ ~y.live
  BY <1>1, RunFacts DEF Proper, Placed, None, Runs
<1>3. remembered \in Params /\ remembered.query = Blank
  BY InvParts DEF PagesTypeOK
<1>4. y.does = "delete" => mounted = "detail"
  BY <1>2 DEF Proper, Placed
<1> HIDE DEF y
<1>5. /\ z \in Runs /\ z.does = y.does /\ ~z.live /\ z.own = y.own /\ z.at = "reload"
      /\ z.for.query = Blank /\ z.for = remembered
  BY <1>2, <1>3 DEF Runs
<1> HIDE DEF z
<1>6. x \in Runs /\ Proper(x) /\ ~x.live
  BY <1>2, <1>4, <1>5, FreeSlotFacts DEF Proper, Placed, None
<1>7. SlotGoes(s, x)
  BY <1>1, InvParts, PageConstants DEF SlotGoes, SlotMoves, PagesTypeOK, serverVars
<1>8. Ordered'
  BY <1>1, <1>2, <1>6, <1>7, OrderStays DEF SlotGoes
<1>9. Refreshes(s) => x.does = "delete" /\ x.own.query # Blank /\ x.at = "reload"
  BY <1>4, <1>5 DEF Refreshes, y
<1>10. Followed' /\ ResultsCome'
  BY <1>1, <1>2, <1>6, <1>7, <1>9, SearchesStay DEF SearchStays, serverVars
<1>11. LoadFresh' /\ ListComes'
  <2>1. mounted' = mounted
    BY <1>1 DEF boxVars
  <2>2. CASE mounted = "containers"
    BY <2>1, <2>2 DEF LoadFresh, LoadFreshIn, ListComes
  <2>3. CASE mounted # "containers"
    <3>1. latest' = s /\ run'[s] = z
      BY <2>3, <1>1, InvParts
    <3> QED BY <3>1, <1>5 DEF LoadFresh, LoadFreshIn, ListComes, Loading, AsksList
  <2> QED BY <2>2, <2>3
<1>12. Counted'
  BY <1>1, <1>5, InvParts, FreeSlotFacts, CountStays DEF serverVars, None
<1>13. y.does # "search"
  BY <1>2
<1>14. ListAsked'
  <2>1. CASE mounted = "containers"
    BY <1>1, <2>1 DEF ListAsked, boxVars
  <2>2. CASE mounted # "containers"
    <3>1. x.for = remembered /\ x.does # "list" /\ latest' = s
      BY <1>1, <1>2, <1>5, <2>2
    <3> QED BY <1>1, <1>6, <1>7, <3>1, AskedOn DEF SlotGoes
  <2> QED BY <2>1, <2>2
<1> QED BY <1>1, <1>6, <1>7, <1>8, <1>10, <1>11, <1>12, <1>13, <1>14, SlotStepKeeps DEF y

LEMMA RefreshItemsKeeps ==
    ASSUME PagesInv, NEW s \in Slots, RefreshItems(s)
    PROVE  PagesInv'
<1> DEFINE y == run[s]
           x == [y EXCEPT !.at = "sent", !.for = y.own]
<1>1. /\ y.at = "details" /\ run' = [run EXCEPT ![s] = x]
      /\ UNCHANGED <<boxVars, spinner, shown, serverVars, faults, trust>>
      /\ IF y.own.query # Blank
         THEN order' = Sent(s, order) /\ latest' = latest /\ remembered' = remembered
         ELSE latest' = s /\ remembered' = y.own /\ order' = order
  BY DEF RefreshItems, listVars
<1>2. y \in Runs /\ Placed(y) /\ Proper(y) /\ ~Pending(s)
  BY <1>1, RunFacts
<1>3. y.own \in Params /\ y.does \in {"refresh", "delete"} /\ ~y.live
  BY <1>1, <1>2 DEF Runs, Placed, Proper, None
<1> HIDE DEF y
<1>4. /\ x \in Runs /\ x.does = y.does /\ ~x.live /\ x.own = y.own /\ x.at = "sent"
      /\ x.for = y.own
  BY <1>2, <1>3 DEF Runs
<1> HIDE DEF x
<1>5. Proper(x)
  BY <1>2, <1>3, <1>4 DEF Proper, Placed, None
<1>6. order' \in SUBSET (Slots \X Slots)
  BY <1>1, InvParts, SentLast
<1>7. SlotGoes(s, x)
  BY <1>1, <1>3, <1>6, InvParts, PageConstants DEF SlotGoes, SlotMoves, PagesTypeOK, serverVars
<1>8. Counted'
  BY <1>1, <1>4, InvParts, CountStays DEF serverVars
<1>12. ListAsked'
  BY <1>1, <1>2, <1>3, <1>4, <1>7, AskedOn DEF SlotGoes, Placed
<1>9. \A q \in Slots : run[q]' = IF q = s THEN x ELSE run[q]
  BY <1>1, InvParts
<1>10. CASE y.own.query # Blank
  <2>1. order' = Sent(s, order) /\ latest' = latest
    BY <1>1, <1>10
  <2>2. Ordered'
    <3>1. OrderedIn(run', order)
      BY <1>2, <1>9, InvParts DEF OrderedIn, Pending
    <3>2. run'[s].at = "sent" /\ run'[s].for.query # Blank
      BY <1>4, <1>9, <1>10
    <3>3. OrderedIn(run', Sent(s, order))
      BY <1>2, <3>1, <3>2, InvParts, OrderedSent DEF Pending
    <3> QED BY <3>3, <2>1 DEF Ordered, OrderedIn
  <2>3. Comes(s)'
    BY <1>3, <1>4, <1>9, <2>1, InvParts, SentLast DEF Comes, Pending, Fresh
  <2>4. \A q \in Slots : Pending(q)' => <<q, s>> \in order'
    BY <2>1, InvParts, SentLast DEF Pending
  <2>5. Followed' /\ ResultsCome'
    BY <2>3, <2>4 DEF Followed, ResultsCome, Comes
  <2>6. ~AsksList(y) /\ ~AsksList(x)
    BY <1>1, <1>4, <1>10 DEF AsksList, y
  <2>7. LoadFresh' /\ ListComes'
    BY <1>1, <1>4, <1>7, <2>1, <2>6, LoadsStay DEF LoadStays, serverVars, y
  <2> QED BY <1>1, <1>3, <1>4, <1>5, <1>7, <1>8, <1>12, <2>2, <2>5, <2>7, SlotStepKeeps DEF y
<1>11. CASE y.own.query = Blank
  <2>1. order' = order /\ latest' = s
    BY <1>1, <1>11
  <2>2. Ordered'
    BY <1>2, <1>4, <1>7, <2>1, OrderStays DEF SlotGoes
  <2>3. ~Refreshes(s)
    BY <1>11 DEF Refreshes, y
  <2>4. Followed' /\ ResultsCome'
    BY <1>1, <1>2, <1>4, <1>7, <2>1, <2>3, SearchesStay DEF SearchStays, serverVars
  <2>5. run'[s] = x
    BY <1>9
  <2>6. LoadFresh' /\ ListComes'
    BY <1>4, <1>11, <2>1, <2>5 DEF LoadFresh, LoadFreshIn, ListComes, Loading, AsksList
  <2> QED BY <1>1, <1>3, <1>4, <1>5, <1>7, <1>8, <1>12, <2>2, <2>4, <2>6, SlotStepKeeps DEF y
<1> QED BY <1>10, <1>11

(* A search that is dropped leaves the order; nothing followed on it. *)
LEMMA SearchDroppedKeeps ==
    ASSUME PagesInv, NEW s \in Slots, SearchDropped(s)
    PROVE  PagesInv'
<1>1. /\ run[s].at = "served" /\ run[s].does = "search" /\ ~run[s].live
      /\ run' = [run EXCEPT ![s] = FreeSlot] /\ order' = Only(Slots \ {s}, order)
      /\ UNCHANGED <<boxVars, spinner, shown, listVars, serverVars, faults, trust>>
  BY DEF SearchDropped, Ended
<1>2. order' = {z \in order : z[1] # s /\ z[2] # s} /\ order' \in SUBSET (Slots \X Slots)
  BY <1>1, InvParts DEF Only
<1>3. \A q, t \in Slots : <<q, t>> \in order' <=> <<q, t>> \in order /\ q # s /\ t # s
  BY <1>2
<1>4. SlotGoes(s, FreeSlot)
  BY <1>1, <1>2, InvParts, PageConstants DEF SlotGoes, SlotMoves, PagesTypeOK, listVars, serverVars
<1>5. \A q \in Slots : run[q]' = IF q = s THEN FreeSlot ELSE run[q]
  BY <1>1, InvParts
<1>6. Ordered'
  BY <1>3, <1>5 DEF PagesInv, Ordered, OrderedIn
<1>7. /\ mounted' = mounted /\ text' = text /\ pick' = pick /\ version' = version
      /\ shown' = shown /\ trust' = trust /\ spinner' = spinner /\ latest' = latest
      /\ debounced' = debounced /\ timer' = timer
  BY <1>1 DEF boxVars, serverVars, listVars
<1>8. \A q \in Slots : Comes(q) => Comes(q)'
  BY <1>1, <1>3, <1>5, <1>7 DEF Comes, Pending, Fresh
<1>9. RefreshDue => RefreshDue'
  BY <1>1, <1>5 DEF RefreshDue, Refreshes
<1>10. Followed'
  <2> SUFFICES ASSUME NEW q \in Slots, Pending(q)', (run[q].does = "search" => run[q].live)'
               PROVE  \/ Fresh(q)'
                      \/ RefreshDue'
                      \/ mounted' = "detail" /\ ~Searches(text')
                      \/ \E t \in Slots : t # q /\ <<q, t>> \in order' /\ Comes(t)'
    BY DEF Followed
  <2>1. q # s /\ Pending(q) /\ run[q]' = run[q]
    BY <1>3, <1>5 DEF Pending
  <2>2. \A t \in Slots : Comes(t) => t # s
    BY <1>1 DEF Comes
  <2>3. \/ Fresh(q)
        \/ RefreshDue
        \/ mounted = "detail" /\ ~Searches(text)
        \/ \E t \in Slots : t # q /\ <<q, t>> \in order /\ Comes(t)
    BY <2>1 DEF PagesInv, Followed
  <2>4. Fresh(q) => Fresh(q)'
    BY <2>1, <1>7 DEF Fresh
  <2>5. Searches(text') <=> Searches(text)
    BY <1>7 DEF Searches
  <2> QED BY <2>1, <2>2, <2>3, <2>4, <2>5, <1>3, <1>7, <1>8, <1>9
<1>11. ResultsCome'
  BY <1>7, <1>8, <1>9 DEF PagesInv, ResultsCome, Wanted, EffectDue, Searches
<1>12. LoadFresh' /\ ListComes'
  <2>1. ~AsksList(run[s])
    BY <1>1, RunFacts DEF AsksList, Placed
  <2> QED BY <1>1, <1>4, <1>7, <2>1, FreeSlotFacts, LoadsStay DEF LoadStays, AsksList, None
<1>13. Counted'
  BY <1>1, <1>5, FreeSlotFacts, CountStays DEF serverVars, None
<1>14. ListAsked'
  BY <1>1, <1>4, FreeSlotFacts, AskedOn DEF AsksList, SlotGoes, listVars, None
<1> QED BY <1>1, <1>4, <1>6, <1>10, <1>11, <1>12, <1>13, <1>14, FreeSlotFacts, SlotStepKeeps

(* After a change only searches that were not read before it may land. *)
LEMMA UnreadFresh ==
    ASSUME PagesInv, NEW s \in Slots, NEW x \in Runs, SlotGoes(s, x), order' = Unread,
           ~Pending(s)
    PROVE  Ordered' /\ Followed'
<1>1. \A q \in Slots : run[q]' = IF q = s THEN x ELSE run[q]
  BY InvParts DEF SlotGoes, SlotMoves
<1>2. \A q, t \in Slots : <<q, t>> \in order' <=>
          <<q, t>> \in order /\ run[q].at # "served" /\ run[t].at # "served"
  BY DEF Unread, Only
<1>3. Ordered'
  BY <1>1, <1>2 DEF PagesInv, Ordered, OrderedIn, Pending
<1>4. \A q \in Slots : Pending(q)' => Fresh(q)'
  BY <1>1, <1>2 DEF Pending, Fresh
<1> QED BY <1>3, <1>4 DEF Followed

LEMMA WrittenKeeps ==
    ASSUME PagesInv, NEW s \in Slots, Written(s)
    PROVE  PagesInv'
<1> DEFINE y == run[s]
           x == [y EXCEPT !.at = "written"]
           searching == y.does = "delete" /\ y.own.query # Blank
<1>1. /\ y.at = "asked" /\ run' = [run EXCEPT ![s] = x] /\ version' = version + 1
      /\ UNCHANGED <<boxVars, spinner, shown, listVars, writes, faults>>
      /\ searching => order' = order /\ trust' = trust
      /\ ~searching => order' = Unread /\ trust' = [trust EXCEPT !.results = "edited"]
  BY DEF Written
<1>2. y \in Runs /\ Placed(y) /\ Proper(y) /\ ~Pending(s)
  BY <1>1, RunFacts
<1>3. y.does \in {"delete", "edit"} /\ ~y.live
  BY <1>1, <1>2 DEF Runs, Placed, Proper, None
<1> HIDE DEF y
<1>4. /\ x \in Runs /\ x.does = y.does /\ ~x.live /\ x.own = y.own /\ x.at = "written"
  <2>1. x = [does |-> y.does, at |-> "written", own |-> y.own, for |-> y.for,
             version |-> y.version, live |-> y.live]
    BY <1>2 DEF Runs
  <2> QED BY <1>2, <1>3, <2>1 DEF Runs
<1> HIDE DEF x
<1>5. Proper(x)
  BY <1>2, <1>3, <1>4 DEF Proper, Placed, None
<1>6. \A q \in Slots : run[q]' = IF q = s THEN x ELSE run[q]
  BY <1>1, InvParts
<1>7. version \in Nat /\ writes \in 0 .. MaxWrites /\ MaxWrites \in Nat
  BY InvParts, PageConstants DEF PagesTypeOK
<1>8. Cardinality(Asking') = Cardinality(Asking) - 1 /\ Cardinality(Asking) \in Nat \ {0}
  <2>1. Asking \subseteq Slots /\ Asking' = Asking \ {s} /\ s \in Asking
    BY <1>1, <1>4, <1>6 DEF Asking, y
  <2>2. IsFiniteSet(Asking)
    BY <2>1, PageConstants, FS_Subset
  <2>3. Cardinality(Asking) # 0 /\ Cardinality(Asking) \in Nat
    BY <2>1, <2>2, FS_EmptySet, FS_CardinalityType
  <2> QED BY <2>1, <2>2, <2>3, FS_RemoveElement
<1>9. Counted' /\ version' \in 0 .. MaxWrites
  BY <1>1, <1>7, <1>8 DEF PagesInv, Counted
<1>10. order' \in SUBSET (Slots \X Slots) /\ trust' \in [results : Trusts, list : Trusts]
       /\ trust'.list = trust.list
  BY <1>1, InvParts DEF Unread, Only, PagesTypeOK, Trusts
<1>11. SlotGoes(s, x)
  BY <1>1, <1>9, <1>10, InvParts, PageConstants DEF SlotGoes, SlotMoves, PagesTypeOK, listVars
<1>12. LoadFresh' /\ ListComes'
  BY <1>4, <1>6 DEF LoadFresh, LoadFreshIn, ListComes, WriteOut, WriteOutIn
<1>15. ListAsked'
  BY <1>1, <1>4, <1>11, AskedOn DEF AsksList, SlotGoes, listVars
<1>13. CASE searching
  <2>1. RefreshDue'
    BY <1>4, <1>6, <1>13 DEF RefreshDue, Refreshes
  <2>2. Followed' /\ ResultsCome'
    BY <2>1 DEF Followed, ResultsCome
  <2>3. Ordered'
    <3>1. order' = order
      BY <1>1, <1>13
    <3> QED BY <1>2, <1>4, <1>11, <3>1, OrderStays DEF SlotGoes
  <2> QED BY <1>1, <1>3, <1>4, <1>5, <1>9, <1>11, <1>12, <1>15, <2>2, <2>3, SlotStepKeeps DEF y
<1>14. CASE ~searching
  <2>1. Ordered' /\ Followed'
    BY <1>1, <1>2, <1>4, <1>11, <1>14, UnreadFresh
  <2>2. trust'.results = "edited"
    BY <1>1, <1>14, InvParts DEF PagesTypeOK
  <2>3. ResultsCome'
    BY <2>2 DEF ResultsCome
  <2> QED BY <1>1, <1>3, <1>4, <1>5, <1>9, <1>11, <1>12, <1>15, <2>1, <2>3, SlotStepKeeps DEF y
<1> QED BY <1>13, <1>14

(* A change that fails has asked for nothing; made all the same, it leaves
   lists and results behind.                                               *)
LEMMA ChangeFailedKeeps ==
    ASSUME PagesInv, NEW s \in Slots, ChangeFailed(s)
    PROVE  PagesInv'
<1>1. /\ run[s].at \in {"asked", "written"} /\ run' = [run EXCEPT ![s] = FreeSlot]
      /\ faults' \in 0 .. MaxFaults
      /\ UNCHANGED <<boxVars, spinner, shown, listVars, serverVars>>
      /\ run[s].at = "asked" => order' = order /\ trust' = trust
      /\ run[s].at = "written" =>
             order' = Unread /\ trust' = [results |-> "edited", list |-> "edited"]
  <2>1. faults' \in 0 .. MaxFaults
    BY InvParts, PageConstants DEF ChangeFailed, Fail, PagesTypeOK
  <2> QED BY <2>1 DEF ChangeFailed, Ended
<1>2. run[s].at = "asked" => ~Refreshes(s)
  BY DEF Refreshes
<1>3. ~Pending(s) /\ run[s].does # "search" /\ ~AsksList(run[s])
  BY <1>1, RunFacts DEF Placed, AsksList
<1>4. order' \in SUBSET (Slots \X Slots) /\ trust' \in [results : Trusts, list : Trusts]
  BY <1>1, InvParts DEF Unread, Only, PagesTypeOK, Trusts
<1>5. SlotGoes(s, FreeSlot)
  BY <1>1, <1>4, InvParts, PageConstants DEF SlotGoes, SlotMoves, PagesTypeOK, listVars, serverVars
<1>6. Counted'
  BY <1>1, InvParts, FreeSlotFacts, CountStays DEF serverVars, None
<1>9. ListAsked'
  BY <1>1, <1>5, FreeSlotFacts, AskedOn DEF AsksList, SlotGoes, listVars, None
<1>7. CASE run[s].at = "asked"
  <2>1. Ordered'
    BY <1>1, <1>3, <1>5, <1>7, FreeSlotFacts, OrderStays DEF SlotGoes
  <2>2. Followed' /\ ResultsCome'
    BY <1>1, <1>2, <1>3, <1>5, <1>7, FreeSlotFacts, SearchesStay DEF SearchStays, serverVars
  <2>3. LoadFresh' /\ ListComes'
    BY <1>1, <1>3, <1>5, <1>7, FreeSlotFacts, LoadsStay
       DEF LoadStays, AsksList, listVars, serverVars, None
  <2> QED BY <1>1, <1>3, <1>5, <1>6, <1>9, <2>1, <2>2, <2>3, FreeSlotFacts, SlotStepKeeps
<1>8. CASE run[s].at = "written"
  <2>1. Ordered' /\ Followed'
    BY <1>1, <1>3, <1>5, <1>8, FreeSlotFacts, UnreadFresh
  <2>2. trust'.results = "edited" /\ trust'.list = "edited"
    BY <1>1, <1>8
  <2>3. ResultsCome' /\ LoadFresh' /\ ListComes'
    BY <2>2 DEF ResultsCome, LoadFresh, LoadFreshIn, ListComes
  <2> QED BY <1>1, <1>3, <1>5, <1>6, <1>9, <2>1, <2>3, FreeSlotFacts, SlotStepKeeps
<1> QED BY <1>1, <1>7, <1>8

(* What landed overtakes the searches sent before it, but for the effect's
   own where it was one of them.                                           *)
Overtaken(q, s) == <<q, s>> \in order /\ ~(OfEffect(q) /\ OfEffect(s))

LEMMA SentAfterSlot ==
    ASSUME PagesInv, NEW s \in Slots
    PROVE  /\ \A q, t \in Slots : <<q, t>> \in SentAfter(s) <=>
                  /\ <<q, t>> \in order /\ q # s /\ t # s
                  /\ ~Overtaken(q, s) /\ ~Overtaken(t, s)
           /\ SentAfter(s) \in SUBSET (Slots \X Slots)
           /\ OrderedIn(Ended(s), SentAfter(s))
<1>1. \A q, t \in Slots : <<q, t>> \in SentAfter(s) <=>
          /\ <<q, t>> \in order /\ q # s /\ t # s
          /\ ~Overtaken(q, s) /\ ~Overtaken(t, s)
  BY DEF SentAfter, Only, Overtaken
<1>2. SentAfter(s) \in SUBSET (Slots \X Slots)
  BY InvParts DEF SentAfter, Only
<1>3. \A q \in Slots : Ended(s)[q] = IF q = s THEN FreeSlot ELSE run[q]
  BY InvParts DEF Ended
<1>4. \A q, t, u \in Slots : <<q, t>> \in SentAfter(s) /\ <<t, u>> \in SentAfter(s)
                                 => <<q, u>> \in SentAfter(s)
  BY <1>1, InvParts DEF OrderedIn
<1> QED BY <1>1, <1>2, <1>3, <1>4, InvParts DEF OrderedIn

(* The live search of the effect is the only one that comes, of those its
   landing leaves in their place.                                          *)
LEMMA FollowedAfter ==
    ASSUME PagesInv, NEW s \in Slots, run' = Ended(s), order' = SentAfter(s), ~Refreshes(s),
           OfEffect(s) => run[s].live, run[s].for.query # Blank,
           mounted' = mounted, text' = text, version' = version
    PROVE  /\ Followed'
           /\ RefreshDue => RefreshDue'
           /\ \A t \in Slots : Comes(t) /\ t # s /\ <<t, s>> \notin order => Comes(t)'
<1>1. \A q, t \in Slots : <<q, t>> \in order' <=>
          /\ <<q, t>> \in order /\ q # s /\ t # s
          /\ ~Overtaken(q, s) /\ ~Overtaken(t, s)
  BY SentAfterSlot
<1>2. \A q \in Slots : run[q]' = IF q = s THEN FreeSlot ELSE run[q]
  BY InvParts DEF Ended
<1>3. \A t \in Slots : Comes(t) /\ t # s /\ <<t, s>> \notin order => Comes(t)'
  <2> SUFFICES ASSUME NEW t \in Slots, Comes(t), t # s, <<t, s>> \notin order PROVE Comes(t)'
    OBVIOUS
  <2>1. run[t]' = run[t]
    BY <1>2
  <2> QED BY <2>1, <1>1 DEF Comes, Pending, Fresh, Overtaken
<1>4. RefreshDue => RefreshDue'
  BY <1>2 DEF RefreshDue, Refreshes
<1>5. Followed'
  <2> SUFFICES ASSUME NEW q \in Slots, Pending(q)', (run[q].does = "search" => run[q].live)'
               PROVE  \/ Fresh(q)'
                      \/ RefreshDue'
                      \/ mounted' = "detail" /\ ~Searches(text')
                      \/ \E t \in Slots : t # q /\ <<q, t>> \in order' /\ Comes(t)'
    BY DEF Followed
  <2>1. q # s /\ Pending(q) /\ run[q]' = run[q] /\ ~Overtaken(q, s)
    BY <1>1, <1>2 DEF Pending
  <2>2. ~(OfEffect(q) /\ OfEffect(s))
    <3>1. SUFFICES ASSUME OfEffect(q), OfEffect(s) PROVE FALSE
      OBVIOUS
    <3>2. run[q].does = "search"
      BY <2>1, <3>1, RunFacts DEF OfEffect, Placed
    <3> QED BY <2>1, <3>1, <3>2 DEF PagesInv, OneLive
  <2>3. <<q, s>> \notin order
    BY <2>1, <2>2 DEF Overtaken
  <2>4. ASSUME NEW t \in Slots, t # q, <<q, t>> \in order, Comes(t)
        PROVE  <<q, t>> \in order' /\ Comes(t)'
    <3>1. <<t, s>> \notin order /\ t # s
      BY <2>3, <2>4, InvParts DEF OrderedIn
    <3> QED BY <1>1, <1>3, <2>1, <2>4, <3>1 DEF Overtaken
  <2> QED BY <2>1, <2>4, <1>4 DEF PagesInv, Followed, Fresh, Searches
<1> QED BY <1>3, <1>4, <1>5

LEMMA RefreshFailedKeeps ==
    ASSUME PagesInv, NEW s \in Slots, RefreshFailed(s)
    PROVE  PagesInv'
<1>1. /\ run[s].at \in {"sent", "served"} /\ run[s].does \in {"refresh", "delete"}
      /\ run[s].for.query # Blank
      /\ run' = [run EXCEPT ![s] = FreeSlot] /\ run' = Ended(s) /\ order' = SentAfter(s)
      /\ trust' = [trust EXCEPT !.results = "failed"]
      /\ faults' \in 0 .. MaxFaults
      /\ UNCHANGED <<boxVars, spinner, shown, listVars, serverVars>>
  <2>1. faults' \in 0 .. MaxFaults
    BY InvParts, PageConstants DEF RefreshFailed, Fail, PagesTypeOK
  <2> QED BY <2>1 DEF RefreshFailed, Ended
<1>2. /\ trust' \in [results : Trusts, list : Trusts] /\ trust'.results = "failed"
      /\ trust'.list = trust.list
  BY <1>1, InvParts DEF PagesTypeOK, Trusts
<1>3. order' \in SUBSET (Slots \X Slots) /\ OrderedIn(run', order')
  <2>1. run' = Ended(s) /\ order' = SentAfter(s)
    BY <1>1
  <2>2. SentAfter(s) \in SUBSET (Slots \X Slots) /\ OrderedIn(Ended(s), SentAfter(s))
    BY SentAfterSlot
  <2> QED BY <2>1, <2>2
<1>4. SlotGoes(s, FreeSlot)
  BY <1>1, <1>2, <1>3, InvParts, PageConstants
     DEF SlotGoes, SlotMoves, PagesTypeOK, listVars, serverVars
<1>5. Ordered'
  BY <1>3 DEF Ordered, OrderedIn
<1>6. Followed'
  BY <1>1, FollowedAfter DEF Refreshes, OfEffect, boxVars, serverVars
<1>7. ResultsCome'
  BY <1>2 DEF ResultsCome
<1>8. LoadFresh' /\ ListComes'
  BY <1>1, <1>2, <1>4, FreeSlotFacts, LoadsStay DEF LoadStays, AsksList, listVars, serverVars, None
<1>9. Counted'
  BY <1>1, InvParts, FreeSlotFacts, CountStays DEF serverVars, None
<1>10. ListAsked'
  BY <1>1, <1>4, FreeSlotFacts, AskedOn DEF AsksList, SlotGoes, listVars, None
<1> QED BY <1>1, <1>4, <1>5, <1>6, <1>7, <1>8, <1>9, <1>10, FreeSlotFacts, SlotStepKeeps

(* What a slot does once its list is there, or has failed. *)
LEMMA ReloadGoesOn ==
    ASSUME PagesInv, NEW s \in Slots, run[s].at \in {"reload", "reloaded"}
    PROVE  \E x \in Runs :
              /\ AfterReload(s) = [run EXCEPT ![s] = x]
              /\ Proper(x) /\ x.at \in {"details", None} /\ ~x.live
              /\ Refreshes(s) => x.does = "delete" /\ x.at = "details" /\ x.own = run[s].own
<1> DEFINE y == run[s]
           z == [y EXCEPT !.at = "details"]
           x == IF y.does = "delete" THEN z ELSE FreeSlot
<1>1. y \in Runs /\ Proper(y) /\ y.does \in {"delete", "edit"} /\ ~y.live
  BY RunFacts DEF Proper, Placed, None, Runs
<1> HIDE DEF y
<1>2. z \in Runs /\ z.does = y.does /\ ~z.live /\ z.own = y.own /\ z.at = "details"
  BY <1>1 DEF Runs
<1>3. AfterReload(s) = [run EXCEPT ![s] = x]
  <2>1. [run EXCEPT ![s].at = "details"] = [run EXCEPT ![s] = z]
    BY DEF y
  <2> QED BY <2>1 DEF AfterReload, Ended, y
<1> HIDE DEF z
<1>4. x \in Runs /\ Proper(x) /\ x.at \in {"details", None} /\ ~x.live
  BY <1>1, <1>2, FreeSlotFacts DEF Proper, Placed, None
<1>5. Refreshes(s) => x.does = "delete" /\ x.at = "details" /\ x.own = y.own
  BY <1>2 DEF Refreshes, y
<1> QED BY <1>3, <1>4, <1>5 DEF y

(* A load of the list is no search, and the slot goes on to none. *)
ListSlot(s, x) ==
    /\ AsksList(run[s])
    /\ Proper(x) /\ x.at \in {"details", None} /\ ~x.live
    /\ Refreshes(s) => x.does = "delete" /\ x.at = "details" /\ x.own = run[s].own

LEMMA ListSlotFacts ==
    ASSUME PagesInv, NEW s \in Slots, NEW x \in Runs, ListSlot(s, x)
    PROVE  /\ ~Pending(s) /\ run[s].does # "search" /\ SearchStays(s, x)
           /\ ~AsksList(x) /\ Placed(x)
           /\ run[s].at # "written" /\ x.at # "asked"
<1>1. run[s].at \in {"sent", "served", "reload", "reloaded"} /\ ~Pending(s)
      /\ run[s].does # "search"
  BY RunFacts DEF ListSlot, AsksList, Placed
<1> QED BY <1>1 DEF ListSlot, SearchStays, Refreshes, AsksList, Proper, None

(* The spinner of ItemsPage is lowered by the list of the last effect: the box
   is empty, or the effect will run.                                       *)
LEMMA NothingSought ==
    ASSUME PagesInv, NEW s \in Slots, mounted = "items", run[s].live, run[s].for.query = Blank
    PROVE  ~Searches(text) \/ EffectDue
<1>1. run[s].for = [query |-> Trimmed[debounced], pick |-> pick]
  BY RunFacts DEF Proper, Base
<1> QED BY <1>1, InvParts DEF Searches, EffectDue, Paced

LEMMA ListFailedKeeps ==
    ASSUME PagesInv, NEW s \in Slots, ListFailed(s)
    PROVE  PagesInv'
<1>1. /\ faults' \in 0 .. MaxFaults
      /\ trust' = IF ListSuperseded(s) THEN trust
                  ELSE [trust EXCEPT !.list = "failed"]
      /\ UNCHANGED <<boxVars, shown, listVars, serverVars, order>>
  BY InvParts, PageConstants DEF ListFailed, Fail, PagesTypeOK
<1>2. \E x \in Runs : /\ run' = [run EXCEPT ![s] = x] /\ ListSlot(s, x)
                      /\ spinner' \in BOOLEAN /\ (spinner' => spinner)
                      /\ spinner /\ ~spinner' =>
                            mounted = "items" /\ (~Searches(text) \/ EffectDue)
  <2>1. CASE /\ run[s].at \in {"sent", "served"} /\ run[s].for.query = Blank
             /\ run' = Ended(s)
             /\ spinner' = (spinner /\ ~(mounted = "items" /\ run[s].live))
    <3>1. ListSlot(s, FreeSlot)
      BY <2>1, FreeSlotFacts DEF ListSlot, AsksList, Refreshes
    <3>2. spinner /\ ~spinner' => mounted = "items" /\ (~Searches(text) \/ EffectDue)
      BY <2>1, NothingSought
    <3> QED BY <2>1, <3>1, <3>2, FreeSlotFacts DEF Ended
  <2>2. CASE run[s].at \in {"reload", "reloaded"} /\ run' = AfterReload(s) /\ spinner' = spinner
    <3>1. PICK x \in Runs :
              /\ AfterReload(s) = [run EXCEPT ![s] = x]
              /\ Proper(x) /\ x.at \in {"details", None} /\ ~x.live
              /\ Refreshes(s) => x.does = "delete" /\ x.at = "details" /\ x.own = run[s].own
      BY <2>2, ReloadGoesOn
    <3>2. ListSlot(s, x)
      BY <2>2, <3>1 DEF ListSlot, AsksList
    <3>3. spinner' \in BOOLEAN
      BY <2>2, InvParts DEF PagesTypeOK
    <3> QED BY <2>2, <3>1, <3>2, <3>3
  <2> QED BY <2>1, <2>2 DEF ListFailed
<1>3. PICK x \in Runs : /\ run' = [run EXCEPT ![s] = x] /\ ListSlot(s, x)
                        /\ spinner' \in BOOLEAN /\ (spinner' => spinner)
                        /\ spinner /\ ~spinner' =>
                              mounted = "items" /\ (~Searches(text) \/ EffectDue)
  BY <1>2
<1>4. /\ ~Pending(s) /\ run[s].does # "search" /\ SearchStays(s, x)
      /\ ~AsksList(x) /\ Proper(x) /\ ~x.live /\ run[s].at # "written" /\ x.at # "asked"
  BY <1>3, ListSlotFacts DEF ListSlot
<1>5. /\ trust' \in [results : Trusts, list : Trusts] /\ trust'.results = trust.results
      /\ ListSuperseded(s) => trust'.list = trust.list
      /\ ~ListSuperseded(s) => trust'.list = "failed"
  BY <1>1, InvParts DEF PagesTypeOK, Trusts
<1>6. SlotGoes(s, x)
  BY <1>1, <1>3, <1>5, InvParts DEF SlotGoes, SlotMoves, PagesTypeOK, listVars, serverVars
<1>7. Ordered'
  BY <1>1, <1>4, <1>6, OrderStays DEF SlotGoes
<1>8. Followed' /\ ResultsCome'
  BY <1>1, <1>3, <1>4, <1>5, <1>6, SearchesStay DEF serverVars
<1>9. LoadFresh' /\ ListComes'
  <2>1. CASE ListSuperseded(s)
    BY <1>1, <1>4, <1>5, <1>6, <2>1, LoadsStay DEF LoadStays, ListSuperseded, listVars, serverVars
  <2>2. CASE ~ListSuperseded(s)
    <3>1. latest' = s /\ run'[s] = x
      BY <1>1, <1>3, <2>2, InvParts DEF ListSuperseded, listVars
    <3> QED BY <1>4, <1>5, <2>2, <3>1 DEF LoadFresh, LoadFreshIn, ListComes, AsksList
  <2> QED BY <2>1, <2>2
<1>10. Counted'
  <2>1. \A q \in Slots : run[q]' = IF q = s THEN x ELSE run[q]
    BY <1>3, InvParts
  <2> QED BY <1>1, <1>4, <2>1, CountStays DEF serverVars
<1>11. ListAsked'
  BY <1>1, <1>4, <1>6, AskedOn DEF SlotGoes, listVars
<1> QED BY <1>3, <1>4, <1>6, <1>7, <1>8, <1>9, <1>10, <1>11, SlotStepKeeps

(* A list lands. *)
LEMMA ListLands ==
    ASSUME PagesInv, NEW s \in Slots, NEW t \in Slots, NEW x \in Runs,
           NEW lowered \in BOOLEAN, ListSlot(s, x), run[s].at \in {"served", "reloaded"},
           Settle(t, [run EXCEPT ![s] = x],
                  IF ListSuperseded(s) THEN shown ELSE [shown EXCEPT !.list = AnswerTo(s)],
                  lowered, order),
           trust' = IF ListSuperseded(s) THEN trust
                    ELSE [trust EXCEPT !.list = ListLanded(s)],
           UNCHANGED <<mounted, text, debounced, timer, retyped, serverVars, faults>>,
           lowered => spinner,
           spinner /\ ~lowered => mounted = "items" /\ (~Searches(text) \/ EffectDue)
    PROVE  PagesInv'
<1> DEFINE runs == [run EXCEPT ![s] = x]
           content == IF ListSuperseded(s) THEN shown ELSE [shown EXCEPT !.list = AnswerTo(s)]
<1>1. /\ runs \in [Slots -> Runs]
      /\ \A q \in Slots : runs[q] = IF q = s THEN x ELSE run[q]
  BY InvParts
<1>2. AnswerTo(s) \in Answers /\ AnswerTo(s) = [query |-> run[s].for.query, pick |-> run[s].for.pick,
                                            version |-> run[s].version]
  BY RunFacts DEF AnswerTo, Answers, Runs, Params
<1>3. /\ content \in [results : Answers, list : Answers] /\ content.results = shown.results
      /\ ListSuperseded(s) => content.list = shown.list
      /\ ~ListSuperseded(s) => content.list = AnswerTo(s)
  BY <1>2, InvParts
<1>4. /\ trust' \in [results : Trusts, list : Trusts] /\ trust'.results = trust.results
      /\ ListSuperseded(s) => trust'.list = trust.list
      /\ ~ListSuperseded(s) => trust'.list = ListLanded(s)
  BY InvParts DEF PagesTypeOK, Trusts, ListLanded
<1>5. /\ ~Pending(s) /\ run[s].does # "search" /\ SearchStays(s, x)
      /\ ~AsksList(x) /\ Placed(x) /\ Proper(x) /\ ~x.live /\ run[s].at # "written" /\ x.at # "asked"
      /\ run[s].for.query = Blank
  BY ListSlotFacts, RunFacts DEF ListSlot, AsksList, Placed
<1>6. OrderedIn(runs, order)
  BY <1>1, <1>5, InvParts DEF OrderedIn, Pending
<1>7. WriteOutIn(run) => WriteOutIn(runs)
  BY <1>1, <1>5 DEF WriteOutIn
<1>8. LoadFreshIn(runs, trust')
  BY <1>1, <1>4, <1>5, <1>7, InvParts DEF LoadFreshIn, ListSuperseded
<1>9. /\ mounted' = mounted /\ text' = text /\ debounced' = debounced /\ timer' = timer
      /\ retyped' = retyped /\ version' = version /\ faults' \in 0 .. MaxFaults
  BY InvParts DEF serverVars, PagesTypeOK
<1>10. \A q \in Slots : Placed(runs[q]) /\ (runs[q].at = "asked" => run[q].at = "asked")
  BY <1>1, <1>5, InvParts
<1> HIDE DEF runs, content
<1>11. /\ PagesTypeOK' /\ Paced' /\ PageExists' /\ Counted'
       /\ \/ Kept'
          \/ /\ run' = runs /\ shown' = content /\ spinner' = lowered /\ order' = order
             /\ pick' = pick /\ latest' = latest /\ remembered' = remembered
  <2>1. Settle(t, runs, content, lowered, order)
    BY DEF runs, content
  <2>2. order \in SUBSET (Slots \X Slots)
    BY InvParts
  <2> QED BY <1>1, <1>3, <1>4, <1>6, <1>8, <1>9, <1>10, <2>1, <2>2, Settled
<1>12. CASE /\ run' = runs /\ shown' = content /\ spinner' = lowered /\ order' = order
            /\ pick' = pick /\ latest' = latest /\ remembered' = remembered
  <2>1. SlotMoves(s, x)
    BY <1>9, <1>12 DEF SlotMoves, boxVars, runs
  <2>2. AllProper' /\ OneLive' /\ Sought' /\ Spun'
    BY <1>5, <1>12, <2>1, SlotProper
  <2>3. Ordered'
    BY <1>5, <1>12, <2>1, OrderStays
  <2>4. Followed' /\ ResultsCome'
    BY <1>3, <1>4, <1>5, <1>9, <1>12, <2>1, SearchesOn
  <2>5. LoadFresh'
    BY <1>8, <1>9, <1>12 DEF LoadFresh, LoadFreshIn, AsksList, WriteOutIn
  <2>6. ASSUME ListSuperseded(s) PROVE ListComes'
    BY <1>3, <1>4, <1>5, <1>9, <1>12, <2>1, <2>6, LoadsOn DEF LoadStays, ListSuperseded
  <2>7. ASSUME ~ListSuperseded(s) PROVE ListComes'
    <3> SUFFICES ASSUME mounted # "containers", ~Searches(Base), trust'.list = "kept"
                 PROVE  shown'.list = Wanted(Blank)' \/ WriteOut'
      BY <1>9, <1>12 DEF ListComes, Base, Searches
    <3>1. run[s].for.pick = pick /\ ~(trust.list = "edited" /\ run[s].version # version)
      <4>1. ListLanded(s) = "kept"
        BY <1>4, <2>7
      <4>2. Loading(s) /\ mounted \in {"items", "detail"}
        BY <2>7, InvParts, PagesAssumption
           DEF Loading, ListSuperseded, ListSlot, PagesTypeOK, PagesAssumption
      <4>3. CASE mounted = "items" \/ run[s].does = "list"
        BY <4>1, <4>2, <4>3 DEF PagesInv, ListAsked, ListLanded
      <4>4. CASE mounted = "detail" /\ run[s].does # "list"
        BY <4>1, <4>4, <1>5 DEF ListLanded, OfEffect
      <4> QED BY <4>2, <4>3, <4>4
    <3>2. run[s].version = version \/ WriteOutIn(run)
      BY <2>7, <3>1, InvParts DEF LoadFreshIn, ListSuperseded, ListSlot
    <3>3. run[s].version = version => shown'.list = Wanted(Blank)'
      BY <1>2, <1>3, <1>5, <1>9, <1>12, <2>7, <3>1 DEF Wanted
    <3>4. WriteOutIn(run) => WriteOut'
      BY <1>7, <1>12 DEF WriteOut, WriteOutIn
    <3> QED BY <3>2, <3>3, <3>4
  <2>8. ListComes'
    BY <2>6, <2>7
  <2>9. remembered'.query = Blank
    BY <1>12, InvParts
  <2>10. ListAsked'
    BY <1>5, <1>12, <2>1, AskedOn
  <2> QED BY <1>11, <2>2, <2>3, <2>4, <2>5, <2>8, <2>9, <2>10, KeptIsInv DEF Kept
<1> QED BY <1>11, <1>12, KeptIsInv

LEMMA ListAnsweredKeeps ==
    ASSUME PagesInv, NEW s \in Slots, NEW t \in Slots, ListAnswered(s, t)
    PROVE  PagesInv'
<1> DEFINE lowered == spinner /\ ~(mounted = "items" /\ run[s].live)
<1>1. run[s].at = "served" /\ run[s].for.query = Blank
  BY DEF ListAnswered
<1>2. ListSlot(s, FreeSlot)
  BY <1>1, FreeSlotFacts DEF ListSlot, AsksList, Refreshes
<1>3. spinner /\ ~lowered => mounted = "items" /\ (~Searches(text) \/ EffectDue)
  BY <1>1, NothingSought
<1>4. Settle(t, [run EXCEPT ![s] = FreeSlot],
             IF ListSuperseded(s) THEN shown ELSE [shown EXCEPT !.list = AnswerTo(s)],
             lowered, order)
  BY DEF ListAnswered, Ended
<1>5. /\ trust' = IF ListSuperseded(s) THEN trust
                  ELSE [trust EXCEPT !.list = ListLanded(s)]
      /\ UNCHANGED <<mounted, text, debounced, timer, retyped, serverVars, faults>>
  BY DEF ListAnswered
<1>6. lowered \in BOOLEAN /\ (lowered => spinner)
  BY InvParts DEF PagesTypeOK
<1> HIDE DEF lowered
<1> QED BY <1>1, <1>2, <1>3, <1>4, <1>5, <1>6, FreeSlotFacts, ListLands

LEMMA ReloadAnsweredKeeps ==
    ASSUME PagesInv, NEW s \in Slots, NEW t \in Slots, ReloadAnswered(s, t)
    PROVE  PagesInv'
<1>1. run[s].at = "reloaded"
  BY DEF ReloadAnswered
<1>2. PICK x \in Runs :
          /\ AfterReload(s) = [run EXCEPT ![s] = x]
          /\ Proper(x) /\ x.at \in {"details", None} /\ ~x.live
          /\ Refreshes(s) => x.does = "delete" /\ x.at = "details" /\ x.own = run[s].own
  BY <1>1, ReloadGoesOn
<1>3. ListSlot(s, x)
  BY <1>1, <1>2 DEF ListSlot, AsksList
<1>4. Settle(t, [run EXCEPT ![s] = x],
             IF ListSuperseded(s) THEN shown ELSE [shown EXCEPT !.list = AnswerTo(s)],
             spinner, order)
  BY <1>2 DEF ReloadAnswered
<1>5. /\ trust' = IF ListSuperseded(s) THEN trust
                  ELSE [trust EXCEPT !.list = ListLanded(s)]
      /\ UNCHANGED <<mounted, text, debounced, timer, retyped, serverVars, faults>>
  BY DEF ReloadAnswered
<1>6. spinner \in BOOLEAN
  BY InvParts DEF PagesTypeOK
<1> QED BY <1>1, <1>3, <1>4, <1>5, <1>6, ListLands

(* With what the rest of the order still promises, the content is right. *)
ShownWell(s, content) ==
    (/\ shown' = content /\ pick' = pick
     /\ \A q \in Slots : Comes(q) /\ q # s /\ <<q, s>> \notin order => Comes(q)'
     /\ RefreshDue => RefreshDue') => ResultsCome'

(* A search lands, or the effect's fails: the rest of the order follows. *)
LEMMA SearchLands ==
    ASSUME PagesInv, NEW s \in Slots, NEW t \in Slots,
           NEW content \in [results : Answers, list : Answers], content.list = shown.list,
           NEW lowered \in BOOLEAN, lowered => spinner /\ run[s].does # "search",
           spinner /\ ~lowered => run[s].live,
           run[s].at \in {"sent", "served"}, run[s].for.query # Blank,
           run[s].does = "search" => run[s].live,
           Settle(t, Ended(s), content, lowered, SentAfter(s)),
           UNCHANGED <<mounted, text, debounced, timer, retyped, serverVars>>,
           faults' \in 0 .. MaxFaults, trust' \in [results : Trusts, list : Trusts],
           trust'.list = trust.list,
           ShownWell(s, content)
    PROVE  PagesInv'
<1>1. Ended(s) = [run EXCEPT ![s] = FreeSlot] /\ Ended(s) \in [Slots -> Runs]
      /\ \A q \in Slots : Ended(s)[q] = IF q = s THEN FreeSlot ELSE run[q]
  BY InvParts, FreeSlotFacts DEF Ended
<1>2. SentAfter(s) \in SUBSET (Slots \X Slots) /\ OrderedIn(Ended(s), SentAfter(s))
  BY SentAfterSlot
<1>3. WriteOutIn(run) => WriteOutIn(Ended(s))
  BY <1>1 DEF WriteOutIn
<1>4. ~AsksList(run[s]) /\ ~AsksList(FreeSlot)
  BY FreeSlotFacts DEF AsksList, None
<1>5. LoadFreshIn(Ended(s), trust')
  BY <1>1, <1>3, <1>4, InvParts DEF LoadFreshIn
<1>6. \A q \in Slots : /\ Placed(Ended(s)[q])
                       /\ Ended(s)[q].at = "asked" => run[q].at = "asked"
  BY <1>1, InvParts, FreeSlotFacts DEF Proper, None
<1>7. /\ mounted' = mounted /\ text' = text /\ debounced' = debounced /\ timer' = timer
      /\ retyped' = retyped /\ version' = version
  BY DEF serverVars
<1>8. /\ PagesTypeOK' /\ Paced' /\ PageExists' /\ Counted'
      /\ \/ Kept'
         \/ /\ run' = Ended(s) /\ shown' = content /\ spinner' = lowered
            /\ order' = SentAfter(s)
            /\ pick' = pick /\ latest' = latest /\ remembered' = remembered
  <2> DEFINE runs == Ended(s)
             searches == SentAfter(s)
  <2>1. /\ runs \in [Slots -> Runs] /\ searches \in SUBSET (Slots \X Slots)
        /\ OrderedIn(runs, searches) /\ LoadFreshIn(runs, trust')
        /\ \A q \in Slots : Placed(runs[q]) /\ (runs[q].at = "asked" => run[q].at = "asked")
        /\ Settle(t, runs, content, lowered, searches)
    BY <1>1, <1>2, <1>5, <1>6
  <2> HIDE DEF runs, searches
  <2>2. /\ PagesTypeOK' /\ Paced' /\ PageExists' /\ Counted'
        /\ \/ Kept'
           \/ /\ run' = runs /\ shown' = content /\ spinner' = lowered /\ order' = searches
              /\ pick' = pick /\ latest' = latest /\ remembered' = remembered
    BY <2>1, Settled
  <2> QED BY <2>2 DEF runs, searches
<1>9. CASE /\ run' = Ended(s) /\ shown' = content /\ spinner' = lowered
           /\ order' = SentAfter(s)
           /\ pick' = pick /\ latest' = latest /\ remembered' = remembered
  <2>1. SlotMoves(s, FreeSlot)
    BY <1>1, <1>7, <1>9 DEF SlotMoves, boxVars
  <2>2. AllProper' /\ OneLive' /\ Sought' /\ Spun'
    BY <1>9, <2>1, FreeSlotFacts, SlotProper
  <2>3. Ordered'
    BY <1>2, <1>9 DEF Ordered, OrderedIn
  <2>4. /\ Followed' /\ (RefreshDue => RefreshDue')
        /\ \A q \in Slots : Comes(q) /\ q # s /\ <<q, s>> \notin order => Comes(q)'
    <3>1. OfEffect(s) => run[s].live
      BY RunFacts DEF OfEffect, Placed
    <3> QED BY <1>7, <1>9, <3>1, FollowedAfter DEF Refreshes
  <2>5. ResultsCome'
    BY <1>9, <2>4 DEF ShownWell
  <2>6. LoadFresh' /\ ListComes'
    BY <1>4, <1>7, <1>9, <2>1, FreeSlotFacts, LoadsOn DEF LoadStays
  <2>7. remembered'.query = Blank
    BY <1>9, InvParts
  <2>8. ListAsked'
    BY <1>4, <1>9, <2>1, FreeSlotFacts, AskedOn
  <2> QED BY <1>8, <2>2, <2>3, <2>8, <2>4, <2>5, <2>6, <2>7, KeptIsInv DEF Kept
<1> QED BY <1>8, <1>9, KeptIsInv

LEMMA SearchFailedKeeps ==
    ASSUME PagesInv, NEW s \in Slots, NEW t \in Slots, SearchFailed(s, t)
    PROVE  PagesInv'
<1>1. /\ run[s].does = "search" /\ run[s].live
      /\ Settle(t, Ended(s), [shown EXCEPT !.results = NothingShown], FALSE, SentAfter(s))
      /\ trust' = [trust EXCEPT !.results = "failed"]
      /\ UNCHANGED <<mounted, text, debounced, timer, retyped, serverVars>>
      /\ faults < MaxFaults /\ faults' = faults + 1
  BY DEF SearchFailed, Fail
<1>2. run[s].at \in {"sent", "served"} /\ run[s].for.query # Blank
  BY <1>1, RunFacts DEF Placed
<1>3. /\ [shown EXCEPT !.results = NothingShown] \in [results : Answers, list : Answers]
      /\ [shown EXCEPT !.results = NothingShown].list = shown.list
  BY InvParts, PageConstants
<1>4. /\ trust' \in [results : Trusts, list : Trusts] /\ trust'.list = trust.list
      /\ trust'.results = "failed"
  BY <1>1, InvParts DEF PagesTypeOK, Trusts
<1>5. faults' \in 0 .. MaxFaults
  BY <1>1, InvParts, PageConstants DEF PagesTypeOK
<1>6. ShownWell(s, [shown EXCEPT !.results = NothingShown])
  BY <1>4 DEF ResultsCome, ShownWell
<1> DEFINE content == [shown EXCEPT !.results = NothingShown]
<1> HIDE DEF content
<1>7. content \in [results : Answers, list : Answers] /\ content.list = shown.list
      /\ ShownWell(s, content) /\ Settle(t, Ended(s), content, FALSE, SentAfter(s))
  BY <1>1, <1>3, <1>6 DEF content
<1> QED BY <1>1, <1>2, <1>4, <1>5, <1>7, SearchLands

LEMMA SearchAnsweredKeeps ==
    ASSUME PagesInv, NEW s \in Slots, NEW t \in Slots, SearchAnswered(s, t)
    PROVE  PagesInv'
<1> DEFINE content == [shown EXCEPT !.results = AnswerTo(s)]
           lowered == spinner /\ run[s].does # "search"
<1>1. /\ run[s].at = "served" /\ run[s].for.query # Blank
      /\ run[s].does = "search" => run[s].live
      /\ Settle(t, Ended(s), content, lowered, SentAfter(s))
      /\ trust' = [trust EXCEPT !.results =
                     IF trust.results = "edited" /\ ~Pending(s) THEN trust.results
                     ELSE Landed(s)]
      /\ UNCHANGED <<mounted, text, debounced, timer, retyped, serverVars, faults>>
  BY DEF SearchAnswered
<1>2. AnswerTo(s) \in Answers /\ AnswerTo(s) = [query |-> run[s].for.query, pick |-> run[s].for.pick,
                                            version |-> run[s].version]
  BY RunFacts DEF AnswerTo, Answers, Runs, Params
<1>3. /\ content \in [results : Answers, list : Answers] /\ content.list = shown.list
      /\ content.results = AnswerTo(s)
  BY <1>2, InvParts
<1>4. /\ lowered \in BOOLEAN /\ (lowered => spinner /\ run[s].does # "search")
      /\ spinner /\ ~lowered => run[s].live
  BY <1>1, InvParts DEF PagesTypeOK
<1>5. /\ trust' \in [results : Trusts, list : Trusts] /\ trust'.list = trust.list
      /\ trust'.results = "kept" => Pending(s) /\ (OfEffect(s) \/ Asked(s))
  BY <1>1, InvParts DEF PagesTypeOK, Trusts, Landed
<1>6. faults' \in 0 .. MaxFaults
  BY <1>1, InvParts DEF PagesTypeOK
<1> HIDE DEF content, lowered
<1>7. ASSUME shown' = content, pick' = pick,
             \A q \in Slots : Comes(q) /\ q # s /\ <<q, s>> \notin order => Comes(q)',
             RefreshDue => RefreshDue'
      PROVE  ResultsCome'
  <2>1. text' = text /\ version' = version /\ mounted' = mounted /\ EffectDue' = EffectDue
    BY <1>1 DEF serverVars, EffectDue
  <2> SUFFICES ASSUME trust'.results = "kept", Searches(text)', ~(mounted # "detail" /\ EffectDue)
               PROVE  \/ shown'.results = Wanted(Trimmed[text])'
                      \/ RefreshDue' \/ \E q \in Slots : Comes(q)'
    BY <2>1 DEF ResultsCome
  <2>2. Searches(text) /\ Pending(s) /\ run[s].for = [query |-> Trimmed[text], pick |-> pick]
    <3>1. CASE Asked(s)
      BY <1>5, <2>1, <3>1 DEF Searches, Asked
    <3>2. CASE OfEffect(s)
      <4>1. run[s].live
        BY <1>1, <3>2, RunFacts DEF OfEffect, Placed
      <4>2. run[s].for = [query |-> Trimmed[Base], pick |-> pick]
        BY <4>1, RunFacts DEF Proper
      <4>3. Base = text
        BY InvParts DEF Base, Paced, EffectDue
      <4> QED BY <1>5, <2>1, <4>2, <4>3 DEF Searches
    <3> QED BY <1>5, <3>1, <3>2
  <2>3. CASE Fresh(s)
    BY <1>1, <1>2, <1>3, <1>7, <2>1, <2>2, <2>3 DEF Fresh, Wanted
  <2>4. CASE RefreshDue
    BY <1>7, <2>4
  <2>5. ASSUME NEW q \in Slots, q # s, <<s, q>> \in order, Comes(q)
        PROVE  Comes(q)'
    BY <1>7, <2>5, InvParts DEF OrderedIn
  <2> QED BY <1>1, <2>2, <2>3, <2>4, <2>5 DEF PagesInv, Followed
<1>8. ShownWell(s, content)
  BY <1>7 DEF ShownWell
<1>9. run[s].at \in {"sent", "served"}
  BY <1>1
<1> QED BY <1>1, <1>3, <1>4, <1>5, <1>6, <1>8, <1>9, SearchLands

(***************************************************************************)
(* The invariant                                                           *)
(***************************************************************************)

LEMMA InvStarts ==
    ASSUME PagesInit
    PROVE  PagesInv
<1>1. PICK s \in Slots :
          IF mounted = "containers"
          THEN run = [t \in Slots |-> FreeSlot] /\ latest = None
          ELSE /\ run = [t \in Slots |-> IF t = s THEN Request(Blank, 1) ELSE FreeSlot]
               /\ latest = s
  BY DEF PagesInit
<1>2. /\ mounted \in Pages /\ text = Blank /\ debounced = Blank /\ timer = FALSE
      /\ spinner = FALSE /\ retyped = FALSE /\ pick = 1
      /\ shown = [results |-> NothingShown, list |-> NothingShown] /\ remembered = NoParams
      /\ version = 0 /\ writes = 0 /\ faults = 0 /\ order = {}
      /\ trust = [results |-> "kept", list |-> "kept"]
  BY DEF PagesInit
<1> DEFINE x == Request(Blank, 1)
<1>3. ~Searches(Blank) /\ Blank \in Values /\ 1 \in Picks /\ Trimmed[Blank] = Blank
  BY PageConstants DEF Searches
<1>4. /\ x \in Runs /\ x.does = "list" /\ x.at = "sent" /\ x.live
      /\ x.for = [query |-> Blank, pick |-> 1]
  BY <1>3, RequestSent
<1> HIDE DEF x
<1>5. /\ run \in [Slots -> Runs] /\ latest \in Slots \cup {None}
      /\ \A q \in Slots : run[q] = FreeSlot \/ (run[q] = x /\ q = s)
      /\ mounted # "containers" => run[s] = x /\ latest = s
  BY <1>1, <1>4, FreeSlotFacts DEF x
<1>6. PagesTypeOK
  <2>1. NothingShown \in Answers /\ NoParams \in Params /\ MaxWrites \in Nat /\ MaxFaults \in Nat
    BY PageConstants
  <2>2. shown \in [results : Answers, list : Answers]
        /\ trust \in [results : Trusts, list : Trusts]
    BY <1>2, <2>1 DEF Trusts
  <2>3. version \in 0 .. MaxWrites /\ writes \in 0 .. MaxWrites /\ faults \in 0 .. MaxFaults
    BY <1>2, <2>1
  <2>4. remembered \in Params /\ order \subseteq Slots \X Slots
    BY <1>2, <2>1
  <2> QED BY <1>2, <1>3, <1>5, <2>2, <2>3, <2>4 DEF PagesTypeOK
<1>7. AllProper
  <2> SUFFICES ASSUME NEW q \in Slots PROVE Proper(run[q])
    BY DEF AllProper
  <2>1. CASE run[q] = FreeSlot
    BY <2>1, FreeSlotFacts
  <2>2. CASE run[q] = x
    BY <1>2, <1>3, <1>4, <2>2 DEF Proper, Placed, Base, None
  <2> QED BY <1>5, <2>1, <2>2
<1>8. Counted
  <2>1. Asking = {}
    BY <1>4, <1>5, FreeSlotFacts DEF Asking, None
  <2> QED BY <1>2, <2>1, FS_EmptySet DEF Counted
<1>9. Paced /\ Sought /\ Spun /\ PageExists /\ remembered.query = Blank
  BY <1>2, <1>3 DEF Spun, Paced, Sought, PageExists, NoParams
<1>10. Ordered /\ Followed /\ ResultsCome
  BY <1>2, <1>3 DEF Ordered, OrderedIn, Followed, Pending, ResultsCome
<1>11. LoadFresh
  BY <1>4, <1>5, FreeSlotFacts DEF LoadFresh, LoadFreshIn, AsksList, None
<1>12. ListComes
  BY <1>4, <1>5 DEF ListComes, Loading, AsksList
<1>13. OneLive
  BY <1>5, FreeSlotFacts DEF OneLive
<1>14. ListAsked
  <2>1. remembered.pick = 1
    BY <1>2 DEF NoParams
  <2>2. mounted # "containers" => \A q \in Slots : latest = q => run[q].for.pick = pick
    BY <1>2, <1>4, <1>5
  <2> QED BY <1>2, <2>1, <2>2 DEF ListAsked, Loading
<1> QED BY <1>6, <1>7, <1>8, <1>9, <1>10, <1>11, <1>12, <1>13, <1>14 DEF PagesInv

LEMMA InvStays ==
    ASSUME PagesInv, UNCHANGED pagesVars
    PROVE  PagesInv'
<1>1. /\ mounted' = mounted /\ text' = text /\ debounced' = debounced /\ timer' = timer
      /\ pick' = pick /\ retyped' = retyped /\ spinner' = spinner /\ shown' = shown
      /\ remembered' = remembered /\ latest' = latest /\ run' = run /\ version' = version
      /\ writes' = writes /\ faults' = faults /\ order' = order /\ trust' = trust
  BY DEF pagesVars, boxVars, listVars, serverVars
<1>2. PagesTypeOK' /\ Paced' /\ PageExists'
  BY <1>1 DEF PagesInv, PagesTypeOK, Paced, PageExists, PagesOf, Displayed, Searches
<1>3. Counted'
  BY <1>1, CountStays
<1>4. AllProper' /\ OneLive' /\ Sought' /\ Spun'
  BY <1>1 DEF PagesInv, OneLive, Spun, AllProper, Proper, Placed, Base, Sought, LiveSearch, EffectDue, Searches
<1>5. Ordered' /\ Followed' /\ ResultsCome'
  BY <1>1 DEF PagesInv, Ordered, OrderedIn, Followed, ResultsCome, Pending, Fresh, Comes, RefreshDue,
              Refreshes, EffectDue, Wanted, Searches
<1>6. LoadFresh' /\ ListAsked' /\ ListComes'
  BY <1>1 DEF PagesInv, ListAsked, LoadFresh, LoadFreshIn, ListComes, Loading, AsksList, WriteOut, WriteOutIn,
              Wanted, Searches, Base
<1>7. remembered'.query = Blank
  BY <1>1 DEF PagesInv
<1> QED BY <1>2, <1>3, <1>4, <1>5, <1>6, <1>7, KeptIsInv DEF Kept

LEMMA InvKept ==
    ASSUME PagesInv, [PagesNext]_pagesVars
    PROVE  PagesInv'
<1>1. CASE UserActs
  <2>1. PICK s \in Slots :
            \/ \E v \in Values : Type(s, v)
            \/ \E p \in Picks : ChangeFilter(s, p) \/ ChangePage(s, p)
            \/ \E does \in Edits : Change(s, does)
            \/ Refresh(s)
    BY <1>1 DEF UserActs
  <2> QED BY <2>1, TypeKeeps, ChangeFilterKeeps, ChangePageKeeps, ChangeKeeps, RefreshKeeps
<1>2. CASE \E v \in Values : TypeDebounced(v)
  BY <1>2, TypeDebouncedKeeps
<1>3. ASSUME NEW s \in Slots, Proceeds(s) PROVE PagesInv'
  <2>1. CASE DebounceEnds(s) \/ Serve(s) \/ Written(s) \/ SearchDropped(s)
    BY <2>1, DebounceEndsKeeps, ServeKeeps, WrittenKeeps, SearchDroppedKeeps
  <2>2. CASE ChangeAnswered(s) \/ RefreshItems(s)
    BY <2>2, ChangeAnsweredKeeps, RefreshItemsKeeps
  <2>3. CASE RefreshFailed(s) \/ ListFailed(s) \/ ChangeFailed(s)
    BY <2>3, RefreshFailedKeeps, ListFailedKeeps, ChangeFailedKeeps
  <2>4. ASSUME NEW t \in Slots,
               \/ SearchAnswered(s, t) \/ ListAnswered(s, t)
               \/ ReloadAnswered(s, t) \/ SearchFailed(s, t)
        PROVE  PagesInv'
    BY <2>4, SearchAnsweredKeeps, ListAnsweredKeeps, ReloadAnsweredKeeps, SearchFailedKeeps
  <2> QED BY <1>3, <2>1, <2>2, <2>3, <2>4 DEF Proceeds
<1>4. CASE UNCHANGED pagesVars
  BY <1>4, InvStays
<1> QED BY <1>1, <1>2, <1>3, <1>4 DEF PagesNext

(* The invariant holds of every page, however many requests are in flight. *)
THEOREM PagesInductive == PagesSpec => []PagesInv
<1>1. PagesInit => PagesInv
  BY InvStarts
<1>2. PagesInv /\ [PagesNext]_pagesVars => PagesInv'
  BY InvKept
<1> QED BY <1>1, <1>2, PTL DEF PagesSpec

(* Every variable of SearchPages keeps its type. *)
THEOREM PagesTypes == PagesSpec => []PagesTypeOK
<1>1. PagesInv => PagesTypeOK
  BY DEF PagesInv
<1> QED BY <1>1, PagesInductive, PTL

(* With nothing on its way no page goes on searching, unless the box was
   changed and changed back within the debounce; and, but for ItemsPage, a
   page whose search is out is searching.                                  *)
THEOREM SpinnersEnd == PagesSpec => []SpinnerMeansSearch
<1>1. PagesInv => SpinnerMeansSearch
  BY DEF PagesInv, Sought, Spun, LiveSearch, EffectDue, SpinnerMeansSearch, AtRest, Idle, None
<1> QED BY <1>1, PagesInductive, PTL

(* With nothing on its way and no spinner, a page shows the answer to what is
   in its box and picked, read after its last change: of the requests of the
   effect only the last shows, in whatever order they are answered.  Set apart
   are failures, results that a change leaves behind with no new search, and
   the refreshes of ContainerDetailPage's handlers that land with another box
   or page number than now, or in another order than sent.                  *)
THEOREM PagesShowWhatIsAsked == PagesSpec => []ShowsWhatIsAsked
<1>1. ASSUME PagesInv PROVE ShowsWhatIsAsked
  <2> SUFFICES ASSUME AtRest, ~spinner,
                      Searches(text) => trust.results = "kept",
                      ~Searches(text) => trust.list = "kept" /\ mounted # "containers"
               PROVE  /\ Searches(text) => shown.results = Wanted(Trimmed[text])
                      /\ ~Searches(text) => shown.list = Wanted(Trimmed[text])
    BY DEF ShowsWhatIsAsked, Wanted
  <2>1. ~EffectDue /\ \A s \in Slots : run[s].does = None /\ run[s].at = None
    BY <1>1, RunFacts DEF AtRest, Idle, EffectDue, Placed
  <2>2. ~RefreshDue /\ ~WriteOut /\ \A s \in Slots : ~Comes(s) /\ ~Loading(s)
    BY <1>1, <2>1, RunFacts
       DEF RefreshDue, Refreshes, WriteOut, WriteOutIn, Comes, Loading, AsksList, None
  <2>3. Searches(text) => shown.results = Wanted(Trimmed[text])
    BY <1>1, <2>1, <2>2 DEF PagesInv, ResultsCome
  <2>4. ~Searches(text) => Trimmed[text] = Blank /\ ~Searches(Base)
    BY <1>1, InvParts DEF Searches, Base, Paced, AtRest
  <2>5. ~Searches(text) => shown.list = Wanted(Trimmed[text])
    BY <1>1, <2>2, <2>4 DEF PagesInv, ListComes
  <2> QED BY <2>3, <2>5
<1>2. PagesInv => ShowsWhatIsAsked
  BY <1>1
<1> QED BY <1>2, PagesInductive, PTL

(* The page number of ContainerDetailPage is one that its list or its results
   have.  It says nothing of what is on that page, which can be empty.      *)
THEOREM PageNumbersExist == PagesSpec => []PageExists
<1>1. PagesInv => PageExists
  BY DEF PagesInv
<1> QED BY <1>1, PagesInductive, PTL

=============================================================================
