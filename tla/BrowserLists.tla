---------------------------- MODULE BrowserLists ----------------------------
(***************************************************************************)
(* The lists the browser keeps: ContainerContext, ItemContext, AuditContext *)
(* and DashboardContext of one tab.  Each context function is a program:   *)
(* raise a spinner, perhaps call the server, load some lists with the      *)
(* parameters remembered for them, lower the spinner.  Several run at once *)
(* and their answers come in any order.                                    *)
(*                                                                         *)
(* A function is described by a record (context, spinner, call, the lists  *)
(* it loads, those its effect on the server changes); Start, CallAnswered  *)
(* and LoadAnswered interpret the record, as the functions share their     *)
(* code but for these five.  The content of a list is the parameters it    *)
(* was asked with and the version of the data it was answered from.        *)
(***************************************************************************)
EXTENDS Browser

CONSTANTS Selections, \* sets of lists, one of which a behaviour follows
          Queries,    \* parameters of a list; Default stands for undefined
          Default

AllLists == {"containers", "active", "archived", "deletedContainers",
             "items", "deletedItems", "logs", "stats", "summary"}

ASSUME ListsAssumption ==
    /\ Selections \subseteq SUBSET AllLists
    /\ Default \in Queries

-----------------------------------------------------------------------------
(* The functions *)

Fetch(context, list) ==
    [context |-> context, spinner |-> "fetching", call |-> None,
     loads |-> {list}, changes |-> {}, query |-> "asked"]

Reset(context, list) == [Fetch(context, list) EXCEPT !.query = "cleared"]

Read(context, spinner) ==
    [context |-> context, spinner |-> spinner, call |-> "read",
     loads |-> {}, changes |-> {}, query |-> "kept"]

Write(context, spinner, loads, changes) ==
    [context |-> context, spinner |-> spinner, call |-> "write",
     loads |-> loads, changes |-> changes, query |-> "kept"]

Shelves == {"containers", "active", "archived"}

FetchContainers == Fetch("container", "containers")
FetchActiveContainers == Fetch("container", "active")
FetchArchivedContainers == Fetch("container", "archived")
FetchDeletedContainers == Fetch("container", "deletedContainers")
ResetContainerFilters == Reset("container", "containers")
GetContainer == Read("container", "loading")
SearchContainers == Read("container", "fetching")
CreateContainer == Write("container", "loading", Shelves, Shelves)
UpdateContainer ==
    Write("container", "loading", Shelves \cup {"deletedContainers"}, Shelves)
UpdateContainerStatus ==
    Write("container", "loading", Shelves \cup {"deletedContainers"}, Shelves)
SoftDeleteContainer ==
    Write("container", "loading", Shelves \cup {"deletedContainers"},
          Shelves \cup {"deletedContainers"})
RestoreContainer ==
    Write("container", "loading", Shelves \cup {"deletedContainers"},
          Shelves \cup {"deletedContainers"})
PermanentDeleteContainer ==
    Write("container", "loading", {"containers", "deletedContainers"},
          {"deletedContainers"})

FetchItems == Fetch("item", "items")
FetchDeletedItems == Fetch("item", "deletedItems")
ResetItemFilters == Reset("item", "items")
GetItem == Read("item", "loading")
SearchItems == Read("item", "fetching")
CreateItem == Write("item", "loading", {"items"}, {"items"})
UpdateItem == Write("item", "loading", {"items", "deletedItems"}, {"items"})
SoftDeleteItem ==
    Write("item", "loading", {"items", "deletedItems"}, {"items", "deletedItems"})
RestoreItem ==
    Write("item", "loading", {"items", "deletedItems"}, {"items", "deletedItems"})
PermanentDeleteItem ==
    Write("item", "loading", {"items", "deletedItems"}, {"deletedItems"})

FetchLogs == Fetch("audit", "logs")
FetchLogsByUser == Fetch("audit", "logs")
FetchLogsByAction == Fetch("audit", "logs")
FetchStats == [Fetch("audit", "stats") EXCEPT !.query = "kept"]
GetLog == Read("audit", "fetching")
CleanupLogs == Write("audit", "fetching", {"logs", "stats"}, {"logs", "stats"})

FetchSummary == [Fetch("dashboard", "summary") EXCEPT !.query = "kept"]

ContainerFunctions ==
    {FetchContainers, FetchActiveContainers, FetchArchivedContainers,
     FetchDeletedContainers, ResetContainerFilters, GetContainer,
     SearchContainers, CreateContainer, UpdateContainer, UpdateContainerStatus,
     SoftDeleteContainer, RestoreContainer, PermanentDeleteContainer}

ItemFunctions ==
    {FetchItems, FetchDeletedItems, ResetItemFilters, GetItem, SearchItems,
     CreateItem, UpdateItem, SoftDeleteItem, RestoreItem, PermanentDeleteItem}

AuditFunctions ==
    {FetchLogs, FetchLogsByUser, FetchLogsByAction, FetchStats, GetLog, CleanupLogs}

Contexts == {"container", "item", "audit", "dashboard"}
Spinners == {"loading", "fetching"}   \* isLoading, isFetching

-----------------------------------------------------------------------------

(* shown and version are functions of the list; so is trust, of its last
   load.                                                                   *)
VARIABLES
    watched,   \* the lists this behaviour follows: never changes
    signedIn,  \* isAuthenticated (and auth no longer loading)
    due,       \* loads the effects of signing in still have to start
    query,     \* the *QueryRef of each list; for logs, activeQueryRef
    count,     \* fetchCountRef and loadingCountRef of each context
    flag       \* isFetching and isLoading

screenVars == <<shown, query, latest>>
spinnerVars == <<count, flag>>
vars == <<watched, signedIn, due, screenVars, spinnerVars, run, serverVars, faults,
          trust>>

AllFunctions == ContainerFunctions \cup ItemFunctions \cup AuditFunctions
                    \cup {FetchSummary}

(* The functions of the contexts that keep the watched lists: those that
   load one, and the getters.                                              *)
Functions ==
    {[f EXCEPT !.loads = @ \cap watched, !.changes = @ \cap watched] :
        f \in {g \in AllFunctions :
                 \/ g.loads \cap watched # {}
                 \/ g.loads = {} /\ \E h \in AllFunctions :
                        h.context = g.context /\ h.loads \cap watched # {}}}

Empty == [query |-> Default, version |-> -1]
Contents == [query : Queries, version : -1 .. MaxWrites]

NoLoad == [at |-> None, query |-> Default, version |-> -1]
Loads == [at : {None, "sent", "served"}, query : Queries,
          version : -1 .. MaxWrites]

(* What a slot remembers of its function. *)
Running(f) == [f EXCEPT !.query = "kept"]
Nothing == [context |-> None, spinner |-> None, call |-> None, loads |-> {},
            changes |-> {}, query |-> "kept"]

Resting == [does |-> Nothing, call |-> None, load |-> [l \in watched |-> NoLoad]]

TypeOK ==
    /\ watched \in Selections
    /\ signedIn \in BOOLEAN
    /\ due \subseteq Functions
    /\ shown \in [watched -> Contents]
    /\ query \in [watched -> Queries]
    /\ latest \in Slots \cup {None}
    /\ count \in [Contexts -> [Spinners -> 0 .. Cardinality(Slots)]]
    /\ flag \in [Contexts -> [Spinners -> BOOLEAN]]
    /\ \A s \in Slots :
          /\ run[s].does \in {Running(f) : f \in Functions} \cup {Nothing}
          /\ run[s].call \in {None, "sent", "done"}
          /\ run[s].load \in [watched -> Loads]
    /\ version \in [watched -> 0 .. MaxWrites]
    /\ writes \in 0 .. MaxWrites
    /\ faults \in 0 .. MaxFaults
    /\ trust \in [watched -> {"pending", "kept", "crossed", "unsure"}]

Initial(fetches) == {f \in fetches : f.loads \subseteq watched}

(* Somebody is signed in, and the effects of the providers ran. *)
Init ==
    /\ watched \in Selections
    /\ signedIn = TRUE
    /\ due = Initial({FetchItems, FetchActiveContainers, FetchArchivedContainers,
                      FetchLogs, FetchStats, FetchSummary})
    /\ shown = [l \in watched |-> Empty]
    /\ query = [l \in watched |-> Default]
    /\ latest = None
    /\ count = [c \in Contexts |-> [k \in Spinners |-> 0]]
    /\ flag = [c \in Contexts |-> [k \in Spinners |-> FALSE]]
    /\ run = [s \in Slots |-> Resting]
    /\ version = [l \in watched |-> 0]
    /\ writes = 0
    /\ faults = 0
    /\ trust = [l \in watched |-> "pending"]

-----------------------------------------------------------------------------
(* Spinners *)

(* startFetching, startLoading *)
StartSpinner(f) ==
    /\ count' = [count EXCEPT ![f.context][f.spinner] = @ + 1]
    /\ flag' = [flag EXCEPT ![f.context][f.spinner] = TRUE]

(* Mutant: the flag falls with the first function that ends. *)
StopSpinnerAtOnce(f) ==
    /\ count' = [count EXCEPT ![f.context][f.spinner] = @ - 1]
    /\ flag' = [flag EXCEPT ![f.context][f.spinner] = FALSE]

(* stopFetching, stopLoading: the last one lowers the flag. *)
StopSpinner(f) ==
    /\ count' = [count EXCEPT ![f.context][f.spinner] = IF @ > 0 THEN @ - 1 ELSE 0]
    /\ flag' = [flag EXCEPT ![f.context][f.spinner] =
                    @ /\ count[f.context][f.spinner] > 1]

-----------------------------------------------------------------------------
(* Loads *)

(* The audit trail remembers a query when it is answered, the others when
   it is made.                                                             *)
RemembersLate(l) == l = "logs"

(* loadItems alone compares request numbers. *)
Guarded(l) == l = "items"

Out(l) == \E s \in Slots : run[s].load[l].at # None

(* Function f of slot s sends its loads, with query q for one that asks. *)
SendLoads(s, f, q) ==
    LET asks(l) == l \in f.loads /\ f.query # "kept"
        with(l) == IF asks(l) THEN q ELSE query[l] IN
    /\ run' = [run EXCEPT ![s] =
                 [does |-> Running(f), call |-> None,
                  load |-> [l \in watched |->
                              IF l \in f.loads
                              THEN [at |-> "sent", query |-> with(l), version |-> -1]
                              ELSE NoLoad]]]
    /\ query' = [l \in watched |->
                   IF asks(l) /\ ~RemembersLate(l) THEN q ELSE query[l]]
    /\ latest' = IF "items" \in f.loads THEN s ELSE latest
    /\ trust' = [l \in watched |->
                   IF l \notin f.loads THEN trust[l]
                   ELSE IF Out(l) /\ ~Guarded(l) THEN "crossed" ELSE "pending"]

(* Mutant: loadItems without latestItemsRequestRef. *)
NeverSuperseded(s, l) == FALSE

(* loadItems drops the answer to any but its latest request. *)
Superseded(s, l) == Guarded(l) /\ latest # s

Show(s, l) ==
    /\ shown' = [shown EXCEPT ![l] = [query |-> run[s].load[l].query,
                                      version |-> run[s].load[l].version]]
    /\ query' = IF RemembersLate(l)
                THEN [query EXCEPT ![l] = run[s].load[l].query] ELSE query

EndFunction(s) ==
    /\ StopSpinner(run[s].does)
    /\ run' = [run EXCEPT ![s] = Resting]

(* The function of slot s is done with list l, or with its call: after the
   last load it ends.                                                      *)
Done(s, l) ==
    LET loads == [run[s].load EXCEPT ![l] = NoLoad] IN
    IF \A o \in watched : loads[o].at = None
    THEN EndFunction(s)
    ELSE UNCHANGED spinnerVars /\ run' = [run EXCEPT ![s].load = loads]

-----------------------------------------------------------------------------
(* Actions *)

(* A page asks with parameters of its own; the defaults are what a list
   starts with, and what a reset returns to.                               *)
QueriesOf(f) == IF f.query = "asked" THEN Queries \ {Default} ELSE {Default}

Begin(s, f, q) ==
    /\ run[s].does = Nothing
    /\ StartSpinner(f)
    /\ IF f.call = None THEN SendLoads(s, f, q)
       ELSE /\ run' = [run EXCEPT ![s] = [Resting EXCEPT !.does = Running(f),
                                                  !.call = "sent"]]
            /\ UNCHANGED <<query, latest, trust>>
    /\ UNCHANGED <<watched, signedIn, shown, version, faults>>

(* A page calls a context function; a fetch without parameters keeps those
   in force.                                                               *)
Start(s) ==
    \E f \in Functions :
        /\ signedIn /\ due = {}
        /\ f.call = "write" => writes < MaxWrites
        /\ writes' = IF f.call = "write" THEN writes + 1 ELSE writes
        /\ \/ \E q \in QueriesOf(f) : Begin(s, f, q)
           \/ f.query = "asked" /\ Begin(s, Running(f), Default)
        /\ UNCHANGED due

(* The effects after signing in: fetches without parameters. *)
StartDue(s) ==
    \E f \in due :
        /\ Begin(s, Running(f), Default)
        /\ due' = due \ {f}
        /\ UNCHANGED writes

(* The server does what the call asks. *)
ServeCall(s) ==
    /\ run[s].call = "sent"
    /\ run' = [run EXCEPT ![s].call = "done"]
    /\ version' = [l \in watched |-> IF l \in run[s].does.changes
                                     THEN version[l] + 1 ELSE version[l]]
    /\ UNCHANGED <<watched, signedIn, due, screenVars, spinnerVars, writes,
                   faults, trust>>

(* A call that succeeded is followed by its reloads; a getter ends. *)
CallAnswered(s) ==
    /\ run[s].call = "done"
    /\ IF run[s].does.loads # {}
       THEN SendLoads(s, run[s].does, Default) /\ UNCHANGED spinnerVars
       ELSE EndFunction(s) /\ UNCHANGED <<query, latest, trust>>
    /\ UNCHANGED <<watched, signedIn, due, shown, serverVars, faults>>

(* The call is refused, or times out, whether or not it was carried out: the
   function reports it and reloads nothing.                                *)
CallFailed(s) ==
    /\ run[s].call \in {"sent", "done"}
    /\ Fail
    /\ EndFunction(s)
    /\ trust' = [l \in watched |->
                   IF run[s].call = "done" /\ l \in run[s].does.changes
                   THEN "unsure" ELSE trust[l]]
    /\ UNCHANGED <<watched, signedIn, due, screenVars, serverVars>>

ServeLoad(s, l) ==
    /\ run[s].load[l].at = "sent"
    /\ run' = [run EXCEPT ![s].load[l] =
                 [@ EXCEPT !.at = "served", !.version = version[l]]]
    /\ UNCHANGED <<watched, signedIn, due, screenVars, spinnerVars, serverVars,
                   faults, trust>>

LoadAnswered(s, l) ==
    /\ run[s].load[l].at = "served"
    /\ IF Superseded(s, l) THEN UNCHANGED <<shown, query, trust>>
       ELSE /\ Show(s, l)
            /\ trust' = [trust EXCEPT ![l] = IF @ = "pending" THEN "kept" ELSE @]
    /\ Done(s, l)
    /\ UNCHANGED <<watched, signedIn, due, latest, serverVars, faults>>

(* allSettled: the other loads of the function go on. *)
LoadFailed(s, l) ==
    /\ run[s].load[l].at \in {"sent", "served"}
    /\ Fail
    /\ Done(s, l)
    /\ UNCHANGED <<watched, signedIn, due, screenVars, serverVars, trust>>

(* Without a user the container and item lists are emptied; what is on its
   way still arrives.                                                      *)
SignOut ==
    /\ signedIn
    /\ Fail
    /\ signedIn' = FALSE
    /\ due' = {}
    /\ shown' = [l \in watched |->
                   IF l \in {"logs", "stats", "summary"} THEN shown[l] ELSE Empty]
    /\ trust' = [l \in watched |-> IF trust[l] = "kept" THEN "pending" ELSE trust[l]]
    /\ UNCHANGED <<watched, query, latest, spinnerVars, run, serverVars>>

SignIn ==
    /\ ~signedIn
    /\ signedIn' = TRUE
    /\ due' = Initial({FetchItems, FetchActiveContainers, FetchArchivedContainers})
    /\ UNCHANGED <<watched, screenVars, spinnerVars, run, serverVars, faults,
                   trust>>

Answer(s) ==
    \/ ServeCall(s) \/ CallAnswered(s) \/ CallFailed(s)
    \/ \E l \in watched : ServeLoad(s, l) \/ LoadAnswered(s, l) \/ LoadFailed(s, l)

Next ==
    \/ \E s \in Slots : Start(s) \/ StartDue(s) \/ Answer(s)
    \/ SignOut \/ SignIn

Spec == Init /\ [][Next]_vars

-----------------------------------------------------------------------------
(* Properties *)

(* isFetching and isLoading are up exactly while a function that raised
   them runs: overlapping functions neither lower them early nor leave
   them up.                                                                *)
SpinnersHonest ==
    \A c \in Contexts, k \in Spinners :
        flag[c][k] <=> \E s \in Slots : /\ run[s].does # Nothing
                                        /\ run[s].does.context = c
                                        /\ run[s].does.spinner = k

(* Once all is quiet, a list whose last load succeeded shows the data as
   they are, reported changes of this browser included, and for the parameters in
   force.  The item list does so in whatever order answers came; a list
   without its guard, unless two of its loads overlapped.                  *)
ListsCurrent ==
    (signedIn /\ due = {} /\ \A s \in Slots : run[s].does = Nothing) =>
        \A l \in watched :
            trust[l] = "kept" => shown[l] = [query |-> query[l], version |-> version[l]]

=============================================================================
