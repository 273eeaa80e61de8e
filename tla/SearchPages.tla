---------------------------- MODULE SearchPages ----------------------------
(***************************************************************************)
(* A page with a search box over a list: ContainersPage, ItemsPage and      *)
(* ContainerDetailPage of the browser client.  What is typed reaches the    *)
(* search effect after a debounce (two pages) or at once (the third); the   *)
(* effect runs again whenever the query or the tab, container or page       *)
(* number beside it changes, and cancels the request of its last run.       *)
(* The plain list is ItemContext's, whose latest request alone counts; the  *)
(* refreshes of ContainerDetailPage answer to neither.                      *)
(*                                                                         *)
(* An answer is the parameters it was asked with and the version of the     *)
(* data it was read from.  ContainersPage's plain lists are BrowserLists'.  *)
(***************************************************************************)
EXTENDS Browser

CONSTANTS Pages,      \* the pages, one of which a behaviour mounts
          Values,     \* what the box can hold
          Trimmed,    \* value -> the query it stands for
          Blank,      \* the empty query
          Picks,      \* tabs, containers of the filter, or page numbers
          LastPage,   \* query -> version of the data -> pages found
          Edits       \* the changes a user makes: "delete", "edit"

ASSUME PagesAssumption ==
    /\ Pages \subseteq {"containers", "items", "detail"}
    /\ Trimmed \in [Values -> Values]
    /\ Blank \in Values /\ Trimmed[Blank] = Blank
    /\ 1 \in Picks /\ Picks \subseteq Nat \ {0}
    /\ Edits \subseteq {"delete", "edit"}
    /\ \A q \in Values, v \in 0 .. MaxWrites : LastPage[q][v] \in Picks \cup {0}

(* shown is searchResults and ItemContext's items; trust, of each of them.  *)
VARIABLES
    mounted,    \* the page: never changes
    text,       \* searchQuery
    debounced,  \* debouncedSearch
    timer,      \* useDebounce has a timer running
    pick,       \* tabValue, selectedContainer, currentPage
    spinner,    \* isSearching, searchLoading
    remembered, \* itemQueryRef
    order,      \* history: <<s, t>> if the searches of s and t may still land,
                \*          and t is s or was sent after it
    retyped     \* history: the box returned to the debounced query

boxVars == <<mounted, text, debounced, timer, pick, retyped>>
listVars == <<remembered, latest>>
pagesVars == <<boxVars, spinner, shown, listVars, run, serverVars, faults, order, trust>>

Params == [query : Values, pick : Picks]
NoParams == [query |-> Blank, pick |-> 1]

(* What the page shows before an answer, and after a failed search. *)
NothingShown == [query |-> Blank, pick |-> 1, version |-> -1]

FreeSlot == [does |-> None, at |-> None, own |-> NoParams, for |-> NoParams,
            version |-> -1, live |-> FALSE]

Searches(value) == Trimmed[value] # Blank

Answers == [query : Values, pick : Picks, version : -1 .. MaxWrites]

Runs == [does : {None, "search", "list", "refresh", "delete", "edit"},
         at : {None, "asked", "written", "reload", "reloaded", "details", "sent", "served"},
         own : Params, for : Params, version : -1 .. MaxWrites, live : BOOLEAN]

Trusts == {"kept", "failed", "crossed", "edited"}

PagesTypeOK ==
    /\ mounted \in Pages
    /\ text \in Values /\ debounced \in Values
    /\ timer \in BOOLEAN /\ spinner \in BOOLEAN /\ retyped \in BOOLEAN
    /\ pick \in Picks
    /\ shown \in [results : Answers, list : Answers]
    /\ remembered \in Params
    /\ latest \in Slots \cup {None}
    /\ run \in [Slots -> Runs]
    /\ version \in 0 .. MaxWrites /\ writes \in 0 .. MaxWrites
    /\ faults \in 0 .. MaxFaults
    /\ order \subseteq Slots \X Slots
    /\ trust \in [results : Trusts, list : Trusts]

(* The request a run of the effect makes. *)
Request(value, p) ==
    LET params == [query |-> Trimmed[value], pick |-> p] IN
    [FreeSlot EXCEPT !.does = IF Searches(value) THEN "search" ELSE "list",
                    !.at = "sent", !.own = params, !.for = params, !.live = TRUE]

(* Mounted, with the first run of the effects made: ContainersPage has
   nothing to search for, the others load their list.                      *)
PagesInit ==
    /\ mounted \in Pages
    /\ text = Blank /\ debounced = Blank
    /\ timer = FALSE /\ spinner = FALSE /\ retyped = FALSE
    /\ pick = 1
    /\ shown = [results |-> NothingShown, list |-> NothingShown]
    /\ remembered = NoParams
    /\ \E s \in Slots :
          IF mounted = "containers"
          THEN run = [t \in Slots |-> FreeSlot] /\ latest = None
          ELSE /\ run = [t \in Slots |-> IF t = s THEN Request(Blank, 1) ELSE FreeSlot]
               /\ latest = s
    /\ version = 0 /\ writes = 0 /\ faults = 0
    /\ order = {}
    /\ trust = [results |-> "kept", list |-> "kept"]

Idle(s) == run[s].does = None

-----------------------------------------------------------------------------
(* The effects *)

(* Mutant: the effect returns no cleanup. *)
NothingCancelled(runs) == runs

(* The cleanup of the last run: active = false, cancelled = true. *)
Cancelled(runs) == [s \in Slots |-> [runs[s] EXCEPT !.live = FALSE]]

(* The search of slot s may still land. *)
Pending(s) == <<s, s>> \in order

(* Slot s sends a search, the last of them. *)
Sent(s, searches) == searches \cup {<<q, s>> : q \in {s} \cup {t \in Slots : <<t, t>> \in searches}}

Only(slots, searches) == searches \cap (slots \X slots)

(* The effects run with box value `value` and pick p, their request taking
   slot s; runs, content and searches are what the caller has made of run,
   shown and order.                                                        *)
RunEffects(s, value, p, runs, content, searches) ==
    /\ IF mounted = "containers" /\ ~Searches(value)
       THEN run' = Cancelled(runs) /\ order' = searches /\ UNCHANGED listVars
       ELSE /\ runs[s].does = None
            /\ run' = [Cancelled(runs) EXCEPT ![s] = Request(value, p)]
            /\ IF Searches(value)
               THEN order' = Sent(s, searches) /\ UNCHANGED listVars
               ELSE /\ latest' = s /\ remembered' = Request(value, p).for
                    /\ order' = searches
    /\ shown' = IF Searches(value) THEN content
                ELSE [content EXCEPT !.results = NothingShown]

(* Mutant: an empty box does not lower the spinner. *)
EffectRaisesOnly(value, otherwise) ==
    spinner' = IF mounted = "items" THEN otherwise ELSE spinner \/ Searches(value)

(* ItemsPage leaves isSearching to its handlers; the others set it here. *)
EffectSpinner(value, otherwise) ==
    spinner' = IF mounted = "items" THEN otherwise ELSE Searches(value)

-----------------------------------------------------------------------------
(* What the user does *)

(* While ContainerDetailPage reloads its container, nothing else is there. *)
Covered == \E s \in Slots : run[s].at = "details"

(* handleSearchChange of ContainersPage and of ItemsPage: the effect has to
   wait for the debounce.                                                   *)
TypeDebounced(v) ==
    /\ mounted # "detail"
    /\ v # text
    /\ text' = v
    /\ timer' = TRUE
    /\ retyped' = (v = debounced)
    /\ spinner' = Searches(v)
    /\ shown' = IF mounted = "containers" \/ ~Searches(v)
                THEN [shown EXCEPT !.results = NothingShown] ELSE shown
    /\ UNCHANGED <<mounted, debounced, pick, listVars, run, serverVars, faults,
                   order, trust>>

(* The search box of ContainerDetailPage. *)
Type(s, v) ==
    /\ mounted = "detail" /\ ~Covered
    /\ v # text
    /\ text' = v
    /\ pick' = 1
    /\ RunEffects(s, v, 1, run, shown, order)
    /\ EffectSpinner(v, spinner)
    /\ UNCHANGED <<mounted, debounced, timer, retyped, serverVars, faults, trust>>

(* useDebounce: the effect runs only if the value is another one. *)
DebounceEnds(s) ==
    /\ timer
    /\ timer' = FALSE
    /\ debounced' = text
    /\ IF text = debounced
       THEN UNCHANGED <<spinner, shown, listVars, run, order, retyped>>
       ELSE /\ RunEffects(s, text, pick, run, shown, order)
            /\ EffectSpinner(text, spinner)
            /\ retyped' = FALSE
    /\ UNCHANGED <<mounted, text, pick, serverVars, faults, trust>>

(* handleTabChange, handleContainerChange. *)
ChangeFilter(s, p) ==
    /\ mounted # "detail"
    /\ p # pick
    /\ pick' = p
    /\ RunEffects(s, debounced, p, run, shown, order)
    /\ EffectSpinner(debounced, spinner \/ Searches(text))
    /\ retyped' = FALSE
    /\ UNCHANGED <<mounted, text, debounced, timer, serverVars, faults, trust>>

Displayed(content) == IF Searches(text) THEN content.results ELSE content.list

PagesOf(answer) ==
    IF answer.version = -1 THEN 0 ELSE LastPage[answer.query][answer.version]

(* isFetching: a fetchItems or searchItems of the page is out. *)
Fetching == \E s \in Slots : run[s].at \in {"sent", "served"}

(* The page numbers below ContainerDetailPage's list. *)
ChangePage(s, p) ==
    /\ mounted = "detail" /\ ~Covered
    /\ IF Searches(text) THEN ~spinner ELSE ~Fetching
    /\ p # pick /\ p <= PagesOf(Displayed(shown))
    /\ pick' = p
    /\ RunEffects(s, text, p, run, shown, order)
    /\ EffectSpinner(text, spinner)
    /\ UNCHANGED <<mounted, text, debounced, timer, retyped, serverVars, faults, trust>>

(* handleItemDeleted; a card's EditItemModal or, on ContainersPage, its
   status and delete buttons.                                              *)
Change(s, does) ==
    /\ Idle(s) /\ ~Covered
    /\ does = "delete" => mounted = "detail"
    /\ writes < MaxWrites
    /\ writes' = writes + 1
    /\ run' = [run EXCEPT ![s] = [FreeSlot EXCEPT
                  !.does = does, !.at = "asked",
                  !.own = [query |-> Trimmed[text], pick |-> pick]]]
    /\ UNCHANGED <<boxVars, spinner, shown, listVars, version, faults, order, trust>>

(* handleRefresh *)
Refresh(s) ==
    /\ mounted = "detail" /\ ~Covered
    /\ \A t \in Slots : run[t].does # "refresh"
    /\ Idle(s)
    /\ run' = [run EXCEPT ![s] = [FreeSlot EXCEPT
                  !.does = "refresh", !.at = "details",
                  !.own = [query |-> Trimmed[text], pick |-> pick]]]
    /\ UNCHANGED <<boxVars, spinner, shown, listVars, serverVars, faults, order, trust>>

-----------------------------------------------------------------------------
(* The server *)

Serve(s) ==
    /\ run[s].at \in {"sent", "reload"}
    /\ run' = [run EXCEPT ![s] = [@ EXCEPT
                  !.at = IF run[s].at = "sent" THEN "served" ELSE "reloaded",
                  !.version = version]]
    /\ UNCHANGED <<boxVars, spinner, shown, listVars, serverVars, faults, order, trust>>

(* Searches read before the change and landing after it are overtaken. *)
Unread == Only({s \in Slots : run[s].at # "served"}, order)

(* The change is made.  Results that nothing will search for again are
   history's: those of an edit, and of a deletion begun with an empty box.  *)
Written(s) ==
    /\ run[s].at = "asked"
    /\ version' = version + 1
    /\ run' = [run EXCEPT ![s].at = "written"]
    /\ IF run[s].does = "delete" /\ run[s].own.query # Blank
       THEN UNCHANGED <<order, trust>>
       ELSE order' = Unread /\ trust' = [trust EXCEPT !.results = "edited"]
    /\ UNCHANGED <<boxVars, spinner, shown, listVars, writes, faults>>

-----------------------------------------------------------------------------
(* The answers *)

(* Mutant: the page number stays when the list has become shorter. *)
NoClamp(content) == pick

(* The page number the effect on totalPages leaves. *)
Clamped(content) ==
    IF mounted # "detail" \/ pick <= PagesOf(Displayed(content)) THEN pick
    ELSE IF PagesOf(Displayed(content)) = 0 THEN 1 ELSE PagesOf(Displayed(content))

(* The answer is on the screen; a page number beyond its last is lowered, and
   the effects run again in slot t.                                        *)
Settle(t, runs, content, lowered, searches) ==
    IF Clamped(content) = pick
    THEN /\ run' = runs /\ shown' = content /\ spinner' = lowered
         /\ order' = searches
         /\ UNCHANGED <<pick, listVars>>
    ELSE /\ pick' = Clamped(content)
         /\ RunEffects(t, text, Clamped(content), runs, content, searches)
         /\ EffectSpinner(text, lowered)

Ended(s) == [run EXCEPT ![s] = FreeSlot]

(* Mutant: loadItems without latestItemsRequestRef. *)
ListNeverSuperseded(s) == FALSE

ListSuperseded(s) == latest # s

AnswerTo(s) == [query |-> run[s].for.query, pick |-> run[s].for.pick,
              version |-> run[s].version]

Asked(s) == run[s].for = [query |-> Trimmed[text], pick |-> pick]

OfEffect(s) == run[s].does \in {"search", "list"}

(* The search of slot s lands: what was sent before it and is still out is
   overtaken, if one of the two is a handler's.  Of two of the effect, the
   cleanup has to see to the older.                                        *)
SentAfter(s) ==
    Only({q \in Slots \ {s} : <<q, s>> \notin order \/ (OfEffect(q) /\ OfEffect(s))}, order)

(* History's judgement of the answer in slot s: it may be that of a handler
   to the box and page number of its click, or be overtaken.               *)
Landed(s) == IF Pending(s) /\ (OfEffect(s) \/ Asked(s)) THEN "kept" ELSE "crossed"

ListLanded(s) ==
    IF mounted = "detail" /\ ~OfEffect(s) /\ run[s].for.pick # pick THEN "crossed"
    ELSE IF trust.list = "edited" /\ run[s].version # version THEN "edited" ELSE "kept"

(* A search lands: of the effect, unless cancelled, or of a refresh. *)
SearchAnswered(s, t) ==
    /\ run[s].at = "served" /\ run[s].for.query # Blank
    /\ run[s].does = "search" => run[s].live
    /\ Settle(t, Ended(s), [shown EXCEPT !.results = AnswerTo(s)],
              spinner /\ run[s].does # "search", SentAfter(s))
    /\ trust' = [trust EXCEPT !.results =
                   IF @ = "edited" /\ ~Pending(s) THEN @ ELSE Landed(s)]
    /\ UNCHANGED <<mounted, text, debounced, timer, retyped, serverVars, faults>>

(* The answer to a cancelled search is dropped. *)
SearchDropped(s) ==
    /\ run[s].at = "served" /\ run[s].does = "search" /\ ~run[s].live
    /\ run' = Ended(s)
    /\ order' = Only(Slots \ {s}, order)
    /\ UNCHANGED <<boxVars, spinner, shown, listVars, serverVars, faults, trust>>

(* A list lands, if it was the latest asked for; ItemsPage lowers its
   spinner if the effect that asked is still the last.                      *)
ListAnswered(s, t) ==
    LET content == IF ListSuperseded(s) THEN shown ELSE [shown EXCEPT !.list = AnswerTo(s)] IN
    /\ run[s].at = "served" /\ run[s].for.query = Blank
    /\ Settle(t, Ended(s), content,
              spinner /\ ~(mounted = "items" /\ run[s].live), order)
    /\ trust' = IF ListSuperseded(s) THEN trust
                ELSE [trust EXCEPT !.list = ListLanded(s)]
    /\ UNCHANGED <<mounted, text, debounced, timer, retyped, serverVars, faults>>

(* softDeleteItem, updateItem: the list is loaded again, with the parameters
   last asked for; ContainersPage's context loads lists of its own.         *)
ChangeAnswered(s) ==
    /\ run[s].at = "written"
    /\ IF mounted = "containers"
       THEN run' = Ended(s) /\ UNCHANGED latest
       ELSE /\ run' = [run EXCEPT ![s] = [@ EXCEPT !.at = "reload", !.for = remembered]]
            /\ latest' = s
    /\ UNCHANGED <<boxVars, spinner, shown, remembered, serverVars, faults, order,
                   trust>>

AfterReload(s) == IF run[s].does = "delete"
                  THEN [run EXCEPT ![s].at = "details"] ELSE Ended(s)

ReloadAnswered(s, t) ==
    LET content == IF ListSuperseded(s) THEN shown ELSE [shown EXCEPT !.list = AnswerTo(s)] IN
    /\ run[s].at = "reloaded"
    /\ Settle(t, AfterReload(s), content, spinner, order)
    /\ trust' = IF ListSuperseded(s) THEN trust
                ELSE [trust EXCEPT !.list = ListLanded(s)]
    /\ UNCHANGED <<mounted, text, debounced, timer, retyped, serverVars, faults>>

(* The container is there, or its loading failed, which the page reports:
   refreshItems, with what the box and the page number were at the click.  *)
RefreshItems(s) ==
    /\ run[s].at = "details"
    /\ run' = [run EXCEPT ![s] = [@ EXCEPT !.at = "sent", !.for = run[s].own]]
    /\ IF run[s].own.query # Blank
       THEN order' = Sent(s, order) /\ UNCHANGED listVars
       ELSE /\ latest' = s /\ remembered' = run[s].own
            /\ UNCHANGED order
    /\ UNCHANGED <<boxVars, spinner, shown, serverVars, faults, trust>>

-----------------------------------------------------------------------------
(* Failures *)

(* The effect's search fails: an empty result, an error, no spinner. *)
SearchFailed(s, t) ==
    /\ Fail
    /\ run[s].does = "search" /\ run[s].live
    /\ Settle(t, Ended(s), [shown EXCEPT !.results = NothingShown], FALSE, SentAfter(s))
    /\ trust' = [trust EXCEPT !.results = "failed"]
    /\ UNCHANGED <<mounted, text, debounced, timer, retyped, serverVars>>

(* A refresh's search fails: the results stay. *)
RefreshFailed(s) ==
    /\ Fail
    /\ run[s].at \in {"sent", "served"}
    /\ run[s].does \in {"refresh", "delete"} /\ run[s].for.query # Blank
    /\ run' = Ended(s)
    /\ order' = SentAfter(s)
    /\ trust' = [trust EXCEPT !.results = "failed"]
    /\ UNCHANGED <<boxVars, spinner, shown, listVars, serverVars>>

(* A list fails: fetchItems and refreshLists carry on with the old one. *)
ListFailed(s) ==
    /\ Fail
    /\ \/ run[s].at \in {"sent", "served"} /\ run[s].for.query = Blank
          /\ run' = Ended(s)
          /\ spinner' = (spinner /\ ~(mounted = "items" /\ run[s].live))
       \/ run[s].at \in {"reload", "reloaded"}
          /\ run' = AfterReload(s) /\ UNCHANGED spinner
    /\ trust' = IF ListSuperseded(s) THEN trust ELSE [trust EXCEPT !.list = "failed"]
    /\ UNCHANGED <<boxVars, shown, listVars, serverVars, order>>

(* A change fails, made or not: nothing is loaded again. *)
ChangeFailed(s) ==
    /\ Fail
    /\ run[s].at \in {"asked", "written"}
    /\ run' = Ended(s)
    /\ IF run[s].at = "asked" THEN UNCHANGED <<order, trust>>
       ELSE order' = Unread /\ trust' = [results |-> "edited", list |-> "edited"]
    /\ UNCHANGED <<boxVars, spinner, shown, listVars, serverVars>>

UserActs ==
    \E s \in Slots :
        \/ \E v \in Values : Type(s, v)
        \/ \E p \in Picks : ChangeFilter(s, p) \/ ChangePage(s, p)
        \/ \E does \in Edits : Change(s, does)
        \/ Refresh(s)

Proceeds(s) ==
    \/ DebounceEnds(s) \/ Serve(s) \/ Written(s) \/ SearchDropped(s)
    \/ ChangeAnswered(s) \/ RefreshItems(s)
    \/ RefreshFailed(s) \/ ListFailed(s) \/ ChangeFailed(s)
    \/ \E t \in Slots : \/ SearchAnswered(s, t) \/ ListAnswered(s, t)
                        \/ ReloadAnswered(s, t) \/ SearchFailed(s, t)

PagesNext ==
    \/ UserActs
    \/ \E v \in Values : TypeDebounced(v)
    \/ \E s \in Slots : Proceeds(s)

PagesSpec == PagesInit /\ [][PagesNext]_pagesVars

-----------------------------------------------------------------------------
(* Properties *)

AtRest == ~timer /\ \A s \in Slots : Idle(s)

(* With nothing on its way, no page is still searching (the spinner and the
   list it hides), but for one case: the box was changed and changed back
   within the debounce, so that the effect that would lower the flag has no
   reason to run.  And while a search of the effect is out that was not
   cancelled, nobody lowers the flag: the end of an older search, of a list
   or of a refresh does not show the page as done (ContainersPage.tsx:174,
   ContainerDetailPage.tsx:323).  ItemsPage does not promise the second: it
   has one flag for lists and searches, which a list lowers.                *)
SpinnerMeansSearch ==
    /\ AtRest /\ spinner => retyped /\ Searches(text)
    /\ mounted # "items" /\ Searches(text)
          /\ (\E s \in Slots : run[s].does = "search" /\ run[s].live) => spinner

(* With nothing on its way and no spinner, the page shows what it was asked
   for: the query in the box, or the plain list when the box is empty, for
   the tab, container or page number picked, read after the last change made
   from this page.  However the requests of the effect are answered, in
   whatever order, only its last shows: cancelled searches
   (ContainerDetailPage.tsx:302, 330) and superseded loads
   (ItemContext.tsx:202) do not.  Set apart are requests that failed, results
   left on the screen by a change that searches for nothing again, and, on
   ContainerDetailPage, the refreshes of its handlers, which nothing cancels:
   one that lands with the box or page number of its click where these are
   others now, and a search that lands in another order than it was sent in,
   one of the two being a handler's.                                       *)
ShowsWhatIsAsked ==
    LET kind == IF Searches(text) THEN "results" ELSE "list" IN
    AtRest /\ ~spinner /\ trust[kind] = "kept"
           /\ (Searches(text) \/ mounted # "containers") =>
        shown[kind] = [query |-> Trimmed[text], pick |-> pick, version |-> version]

(* The page number of ContainerDetailPage is one that the list or the results
   it displays have, whatever was deleted, typed, refreshed or has failed, and
   in whatever order the answers came (ContainerDetailPage.tsx:353-359).
   It is the number that is there: the page itself can be empty, as
   EmptyMeansNoItems tells.                                                *)
PageExists ==
    mounted = "detail" /\ pick > 1 => pick <= PagesOf(Displayed(shown))

(* "No items in this container yet", an empty list on ContainerDetailPage with
   nothing on its way (ContainerDetailPage.tsx:1550-1553), is said only of a
   container that has none.                                                *)
EmptyMeansNoItems ==
    AtRest /\ mounted = "detail" /\ ~Searches(text)
           /\ shown.list.pick > PagesOf(shown.list) =>
        PagesOf(shown.list) = 0

=============================================================================
