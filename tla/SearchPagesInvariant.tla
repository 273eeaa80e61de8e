------------------------ MODULE SearchPagesInvariant ------------------------
(***************************************************************************)
(* The inductive invariant of SearchPages.  What a page shows when it is at *)
(* rest depends on what was under way before: the effect has cancelled all  *)
(* searches but its own (Proper), a search that was read before a change is *)
(* followed by one that was not (Followed), and content that is behind is   *)
(* about to be replaced (ResultsCome, ListComes).                           *)
(***************************************************************************)
EXTENDS SearchPages

(* The value the effects last ran with. *)
Base == IF mounted = "detail" THEN text ELSE debounced

(* The effect that will run when the debounce is over. *)
EffectDue == timer /\ text # debounced

(* What a slot does tells where it can be and what it asks for. *)
Placed(x) ==
    /\ x.does = None <=> x.at = None
    /\ x.does \in {"search", "list"} => x.at \in {"sent", "served"}
    /\ x.does = "search" => x.for.query # Blank
    /\ x.does = "list" => x.for.query = Blank
    /\ x.does \in {"refresh", "delete"} => mounted = "detail"
    /\ x.does = "refresh" => x.at \in {"details", "sent", "served"}
    /\ x.does = "edit" => x.at \in {"asked", "written", "reload", "reloaded"}
    /\ x.at \in {"reload", "reloaded"} => x.for.query = Blank

(* Of the effects' requests only the last is live: it asks for the value and
   the pick in force.                                                       *)
Proper(x) ==
    /\ Placed(x)
    /\ x.live => /\ x.does \in {"search", "list"}
                 /\ x.for = [query |-> Trimmed[Base], pick |-> pick]

AllProper == \A s \in Slots : Proper(run[s])

OneLive == \A s, t \in Slots : run[s].live /\ run[t].live => s = t

(* Every change of the data was asked for. *)
Asking == {s \in Slots : run[s].at = "asked"}

Counted == version + Cardinality(Asking) <= writes

(* The debounce runs while the two values differ. *)
Paced ==
    /\ timer => mounted # "detail"
    /\ mounted # "detail" /\ text # debounced => timer
    /\ mounted = "items" /\ spinner => Searches(text)

LiveSearch == \E s \in Slots : run[s].does = "search" /\ run[s].live

(* A page that is searching has a search out, or one to come, or waits for
   nothing since the box was changed back.                                  *)
Sought == spinner => LiveSearch \/ EffectDue \/ (retyped /\ Searches(text))

(* ... and one whose search is out is searching. *)
Spun == mounted # "items" /\ Searches(text) /\ LiveSearch => spinner

(* Searches are in the order in which they were sent. *)
OrderedIn(runs, searches) ==
    /\ \A s, t \in Slots :
          <<s, t>> \in searches => /\ <<s, s>> \in searches /\ <<t, t>> \in searches
                                  /\ (<<t, s>> \in searches => s = t)
    /\ \A s, t, u \in Slots :
          <<s, t>> \in searches /\ <<t, u>> \in searches => <<s, u>> \in searches
    /\ \A s \in Slots :
          <<s, s>> \in searches => runs[s].at \in {"sent", "served"} /\ runs[s].for.query # Blank

Ordered == OrderedIn(run, order)

Fresh(s) == run[s].at = "served" => run[s].version = version

(* The answer to this search will be shown, and is up to date. *)
Comes(s) == Pending(s) /\ (run[s].does = "search" => run[s].live) /\ Fresh(s)

(* A deletion, made, that has still to refresh the results. *)
Refreshes(s) ==
    /\ run[s].does = "delete" /\ run[s].own.query # Blank
    /\ run[s].at \in {"written", "reload", "reloaded", "details"}

RefreshDue == \E s \in Slots : Refreshes(s)

(* A search that was read before a change, and may land, is not the last. *)
Followed ==
    \A s \in Slots :
        Pending(s) /\ (run[s].does = "search" => run[s].live) =>
            \/ Fresh(s)
            \/ RefreshDue
            \/ mounted = "detail" /\ ~Searches(text)
            \/ \E t \in Slots : t # s /\ <<s, t>> \in order /\ Comes(t)

Wanted(query) == [query |-> query, pick |-> pick, version |-> version]

(* Results that are not those asked for are about to be replaced, or hidden by
   the spinner.                                                             *)
ResultsCome ==
    trust.results = "kept" /\ Searches(text) =>
        \/ shown.results = Wanted(Trimmed[text])
        \/ RefreshDue
        \/ \E s \in Slots : Comes(s)
        \/ mounted # "detail" /\ (EffectDue \/ spinner)

AsksList(x) == x.at \in {"reload", "reloaded"} \/ (x.at \in {"sent", "served"} /\ x.for.query = Blank)

(* The load of the list whose answer will count is out. *)
Loading(s) == latest = s /\ AsksList(run[s])

(* A change of the data that nothing was loaded for yet. *)
WriteOutIn(runs) == \E s \in Slots : runs[s].at = "written"

WriteOut == WriteOutIn(run)

LoadFreshIn(runs, known) ==
    mounted # "containers" =>
        \A s \in Slots :
            latest = s /\ AsksList(runs[s]) /\ runs[s].at \in {"served", "reloaded"} =>
                runs[s].version = version \/ WriteOutIn(runs) \/ known.list = "edited"

LoadFresh == LoadFreshIn(run, trust)

(* A list that will count was asked for the pick in force, unless a handler
   of ContainerDetailPage asked for it.                                     *)
ListAsked ==
    mounted # "containers" /\ ~Searches(Base) =>
        /\ mounted = "items" => remembered.pick = pick
        /\ \A s \in Slots :
              Loading(s) /\ (mounted = "items" \/ run[s].does = "list") =>
                  run[s].for.pick = pick

(* A list that is not the one asked for is about to be replaced. *)
ListComes ==
    mounted # "containers" /\ ~Searches(Base) /\ trust.list = "kept" =>
        \/ shown.list = Wanted(Blank)
        \/ WriteOut
        \/ \E s \in Slots : Loading(s)

PagesInv ==
    /\ PagesTypeOK /\ AllProper /\ OneLive /\ Counted /\ Paced /\ remembered.query = Blank
    /\ Sought /\ Spun /\ Ordered /\ Followed /\ ResultsCome
    /\ LoadFresh /\ ListAsked /\ ListComes /\ PageExists

=============================================================================
