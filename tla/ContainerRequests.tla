-------------------------- MODULE ContainerRequests --------------------------
(***************************************************************************)
(* Requests about one container, through everything they touch: the        *)
(* transaction on its row, the two cache entries container:<id>:false and  *)
(* container:<id>:true, and the row that AuditInterceptor saves, unawaited, *)
(* once the handler has answered.                                          *)
(*                                                                         *)
(* The cache is read and filled outside any transaction (findOne) and      *)
(* cleared after the commit (clearContainerCache, clearItemCaches), where  *)
(* an error is swallowed.  Servers may share a cache or have one each.     *)
(* A transaction locks the container's row first (Inventory has its steps) *)
(* and is one action here.                                                 *)
(***************************************************************************)
EXTENDS Integers, FiniteSets

CONSTANTS Requests, \* runs of a handler, 1 .. n in the order they start
          Servers,  \* processes of the backend
          Caches,
          CacheMaps, \* the ways in which servers may have their cache
          Plans     \* bound: what the requests are, and how many commands
                    \* fail and processes end

Readers == {"get"}
Returning == {"update", "status", "restore"} \* handlers that end with findOne

(* Of items.service.ts: create, update and restore read the item back, its
   soft and permanent deletion do not.                                     *)
ItemOps == {"itemSave", "itemRemove"}
Deleting == {"softDelete", "permanentDelete", "itemRemove"}
Writers == Returning \cup ItemOps \cup Deleting

ASSUME RequestsAssumption ==
    /\ Requests \subseteq Nat
    /\ Servers # {}
    /\ CacheMaps \subseteq [Servers -> Caches]
    /\ Plans \subseteq [ops : [Requests -> Readers \cup Writers \cup {"none"}],
                        faults : Nat]

VARIABLES
    plan,    \* a member of Plans: never changes
    cacheOf, \* the cache of each server: never changes
    row,     \* the container's row
    cell,    \* what each cache holds for each value of includeDeleted
    req,
    saving,  \* audit rows on their way: the requests they are of
    log,     \* audit_logs: the requests' rows
    late,    \* history: cells filled from a row read before a commit
    lost,    \* history: cells a commit's clear did not reach,
             \* or reaches with nobody waiting for it
    unread,  \* history: requests whose read-back threw
    faults

historyVars == <<late, lost, unread>>
auditVars == <<saving, log>>
setup == <<plan, cacheOf>>
vars == <<setup, row, cell, req, auditVars, historyVars, faults>>

Keys == BOOLEAN \* includeDeleted
Cells == Caches \X Keys

Versions == 0 .. Cardinality(Requests)
Rows == [version : Versions, deleted : BOOLEAN, gone : BOOLEAN]
Empty == [version |-> -1, deleted |-> FALSE, gone |-> FALSE]

Pcs == {"ready", "tx", "clear", "get", "find", "set", "getItem", "done", "lost"}

Idle == [op |-> "none", pc |-> "ready", server |-> CHOOSE s \in Servers : TRUE,
         key |-> FALSE, copy |-> Empty, old |-> FALSE, todo |-> {}, wrote |-> 0,
         doubt |-> FALSE, status |-> "none"]

TypeOK ==
    /\ plan \in Plans /\ cacheOf \in CacheMaps
    /\ row \in Rows
    /\ cell \in [Cells -> Rows \cup {Empty}]
    /\ req \in [Requests ->
           [op : Readers \cup Writers \cup {"none"}, pc : Pcs, server : Servers,
            key : Keys, copy : Rows \cup {Empty}, old : BOOLEAN,
            todo : SUBSET Keys, wrote : Versions, doubt : BOOLEAN,
            status : {"none", "success", "failed"}]]
    /\ saving \subseteq Requests
    /\ log \subseteq Requests
    /\ late \subseteq Cells
    /\ lost \subseteq Cells
    /\ unread \subseteq Requests
    /\ faults \in 0 .. plan.faults

Init ==
    /\ plan \in Plans /\ cacheOf \in CacheMaps
    /\ row \in [version : {0}, deleted : BOOLEAN, gone : {FALSE}]
    /\ cell = [p \in Cells |-> Empty]
    /\ req = [r \in Requests |-> Idle]
    /\ saving = {} /\ log = {}
    /\ late = {} /\ lost = {} /\ unread = {}
    /\ faults = 0

-----------------------------------------------------------------------------

At(r, pc) == req[r].pc = pc
CellOf(r, k) == <<cacheOf[req[r].server], k>>

Fault == faults < plan.faults /\ faults' = faults + 1

(* What the query of findOne returns: deletedAt IS NULL unless asked.      *)
Visible(k) == ~row.gone /\ (row.deleted => k)

(* The handler returns, or throws: tap or catchError, once.  A GET is an   *)
(* UNKNOWN action and leaves no audit row.                                 *)
AuditedSuccess(r, status) == req[r].op \in Writers /\ status = "success"
Audited(r, status) == req[r].op \in Writers

Answered(r, status, copy, doubt) ==
    [req[r] EXCEPT !.pc = "done", !.status = status, !.old = FALSE, !.key = FALSE,
                   !.copy = IF req[r].op \in Returning THEN copy ELSE Empty,
                   !.doubt = doubt /\ req[r].op \in Returning]

Answer(r, status, copy, doubt) ==
    /\ req' = [req EXCEPT ![r] = Answered(r, status, copy, doubt)]
    /\ saving' = IF Audited(r, status) THEN saving \cup {r} ELSE saving
    /\ UNCHANGED log

-----------------------------------------------------------------------------
(* Start *)

Start(r) ==
    /\ At(r, "ready")
    /\ \A q \in Requests : q < r => ~At(q, "ready")
    /\ \E op \in {plan.ops[r]} \ {"none"}, s \in Servers, k \in Keys :
        /\ op \in Writers => k = FALSE
        /\ req' = [req EXCEPT ![r] = [Idle EXCEPT
               !.op = op, !.server = s, !.key = k,
               !.pc = IF op \in Writers THEN "tx" ELSE "get"]]
    /\ UNCHANGED <<setup, row, cell, auditVars, historyVars, faults>>

-----------------------------------------------------------------------------
(* Transactions *)

Update(r) == ~row.deleted /\ row' = [row EXCEPT !.version = @ + 1]
SoftDelete(r) == ~row.deleted
    /\ row' = [row EXCEPT !.version = @ + 1, !.deleted = TRUE]
RestoreKeepingDeletedAt(r) == row.deleted
    /\ row' = [row EXCEPT !.version = @ + 1]
Restore(r) == row.deleted
    /\ row' = [row EXCEPT !.version = @ + 1, !.deleted = FALSE]
PermanentDelete(r) == row.deleted
    /\ row' = [row EXCEPT !.version = @ + 1, !.gone = TRUE]

(* An item deleted by itself is purged from a deleted container too. *)
RemoveItem(r) == row' = [row EXCEPT !.version = @ + 1]

Transaction(r) ==
    /\ ~row.gone
    /\ \/ req[r].op \in {"update", "status", "itemSave"} /\ Update(r)
       \/ req[r].op = "itemRemove" /\ RemoveItem(r)
       \/ req[r].op = "softDelete" /\ SoftDelete(r)
       \/ req[r].op = "restore" /\ Restore(r)
       \/ req[r].op = "permanentDelete" /\ PermanentDelete(r)

ClearedFalse == {FALSE}
Cleared == Keys

(* The commit makes old every copy that a findOne is about to cache; the   *)
(* entries of other servers' caches are out of the writer's reach.         *)
Commit(r) ==
    /\ At(r, "tx")
    /\ Transaction(r)
    /\ req' = [q \in Requests |->
           IF q = r THEN [req[r] EXCEPT !.pc = "clear", !.todo = Cleared,
                                        !.wrote = row.version + 1]
           ELSE [req[q] EXCEPT !.old = @ \/ At(q, "set")]]
    /\ lost' = lost \cup {p \in Cells : p[1] # cacheOf[req[r].server] /\ cell[p] # Empty}
    /\ UNCHANGED <<setup, cell, auditVars, late, unread, faults>>

(* A state that does not allow it, or an input that is refused.            *)
Refuse(r) ==
    /\ At(r, "tx")
    /\ Answer(r, "failed", Empty, FALSE)
    /\ UNCHANGED <<setup, row, cell, historyVars, faults>>

(* updateStatus to the status the container has: it is returned as read.   *)
StatusUnchanged(r) ==
    /\ At(r, "tx")
    /\ req[r].op = "status"
    /\ Visible(FALSE)
    /\ Answer(r, "success", row, FALSE)
    /\ UNCHANGED <<setup, row, cell, historyVars, faults>>

-----------------------------------------------------------------------------
(* clearContainerCache: the deletions run side by side; one that fails ends *)
(* the wait, not the other.                                                *)

ClearKey(r, k) ==
    /\ k \in req[r].todo
    /\ cell' = [cell EXCEPT ![CellOf(r, k)] = Empty]
    /\ req' = [req EXCEPT ![r].todo = @ \ {k}]
    /\ late' = late \ {CellOf(r, k)}
    /\ lost' = lost \ {CellOf(r, k)}
    /\ UNCHANGED <<setup, row, auditVars, unread, faults>>

(* Where a handler goes once its change is committed and cleared. *)
AfterClear(r) ==
    IF req[r].op \in Returning THEN "get"
    ELSE IF req[r].op = "itemSave" THEN "getItem" ELSE "clear"

ClearFails(r, k) ==
    /\ k \in req[r].todo
    /\ Fault
    /\ lost' = lost \cup {CellOf(r, j) : j \in req[r].todo}
    /\ req' = [req EXCEPT ![r].todo = @ \ {k},
                          ![r].pc = IF At(r, "clear") THEN AfterClear(r) ELSE @]
    /\ UNCHANGED <<setup, row, cell, auditVars, late, unread>>

ReadBeforeClear(r) ==
    /\ At(r, "clear")
    /\ IF AfterClear(r) # "clear"
       THEN req' = [req EXCEPT ![r].pc = AfterClear(r)] /\ UNCHANGED auditVars
       ELSE Answer(r, "success", Empty, FALSE)
    /\ UNCHANGED <<setup, row, cell, historyVars, faults>>

ClearDone(r) ==
    /\ At(r, "clear")
    /\ req[r].todo = {}
    /\ IF AfterClear(r) # "clear"
       THEN req' = [req EXCEPT ![r].pc = AfterClear(r)] /\ UNCHANGED auditVars
       ELSE Answer(r, "success", Empty, FALSE)
    /\ UNCHANGED <<setup, row, cell, historyVars, faults>>

-----------------------------------------------------------------------------
(* findOne *)

CacheHit(r) ==
    LET p == CellOf(r, req[r].key)
    IN  /\ At(r, "get")
        /\ cell[p] # Empty
        /\ Answer(r, "success", cell[p], p \in late \cup lost)
        /\ UNCHANGED <<setup, row, cell, historyVars, faults>>

CacheMiss(r) ==
    /\ At(r, "get")
    /\ \/ cell[CellOf(r, req[r].key)] = Empty /\ UNCHANGED faults
       \/ Fault
    /\ req' = [req EXCEPT ![r].pc = "find"]
    /\ UNCHANGED <<setup, row, cell, auditVars, historyVars>>

FindRow(r) ==
    /\ At(r, "find")
    /\ Visible(req[r].key)
    /\ req' = [req EXCEPT ![r].pc = "set", ![r].copy = row]
    /\ UNCHANGED <<setup, row, cell, auditVars, historyVars, faults>>

NotFound(r) ==
    /\ At(r, "find")
    /\ ~Visible(req[r].key)
    /\ Answer(r, "failed", Empty, FALSE)
    /\ UNCHANGED <<setup, row, cell, historyVars, faults>>

(* The query throws; after a commit, the change stands all the same. *)
ReadThrows(r) ==
    /\ Fault
    /\ unread' = unread \cup {r}
    /\ Answer(r, "failed", Empty, FALSE)
    /\ UNCHANGED <<setup, row, cell, late, lost>>

FindFails(r) == At(r, "find") /\ ReadThrows(r)

FillCache(r) ==
    LET p == CellOf(r, req[r].key)
    IN  /\ At(r, "set")
        /\ cell' = [cell EXCEPT ![p] = req[r].copy]
        /\ late' = IF req[r].old THEN late \cup {p} ELSE late \ {p}
        /\ lost' = lost \ {p}
        /\ Answer(r, "success", req[r].copy, FALSE)
        /\ UNCHANGED <<setup, row, unread, faults>>

FillFails(r) ==
    /\ At(r, "set")
    /\ Fault
    /\ Answer(r, "success", req[r].copy, FALSE)
    /\ UNCHANGED <<setup, row, cell, historyVars>>

(* The entry's five minutes are over.                                      *)
Expire(p) ==
    /\ cell[p] # Empty
    /\ cell' = [cell EXCEPT ![p] = Empty]
    /\ late' = late \ {p}
    /\ lost' = lost \ {p}
    /\ UNCHANGED <<setup, row, req, auditVars, unread, faults>>

-----------------------------------------------------------------------------
(* findOne of an item: its row, not cached, and a signed URL for its photo. *)

ItemRead(r) ==
    /\ At(r, "getItem")
    /\ Visible(FALSE)
    /\ Answer(r, "success", Empty, FALSE)
    /\ UNCHANGED <<setup, row, cell, historyVars, faults>>

(* Deleted meanwhile, by itself or with its container. *)
ItemNotFound(r) ==
    /\ At(r, "getItem")
    /\ \/ ~Visible(FALSE)
       \/ \E q \in Requests :
             req[q].op = "itemRemove" /\ req[q].wrote > req[r].wrote
    /\ Answer(r, "failed", Empty, FALSE)
    /\ UNCHANGED <<setup, row, cell, historyVars, faults>>

ItemReadFails(r) == At(r, "getItem") /\ ReadThrows(r)

-----------------------------------------------------------------------------
(* The audit row *)

LogSaved(r) ==
    /\ r \in saving
    /\ saving' = saving \ {r}
    /\ log' = log \cup {r}
    /\ UNCHANGED <<setup, row, cell, req, historyVars, faults>>

LogFails(r) ==
    /\ r \in saving
    /\ Fault
    /\ saving' = saving \ {r}
    /\ req' = [req EXCEPT ![r].pc = "lost"]
    /\ UNCHANGED <<setup, row, cell, log, historyVars>>

(* The process ends: its requests, the rows it was saving, and its cache,  *)
(* where that is its own.                                                  *)
Crash(s) ==
    LET mine == {r \in Requests : req[r].server = s /\ ~At(r, "ready")
                                     /\ (~At(r, "done") \/ r \in saving)}
        owed == {p \in Cells : p[1] = cacheOf[s] /\ \E r \in Requests :
                                   req[r].server = s /\ p[2] \in req[r].todo}
        gone == {p \in Cells : \A t \in Servers : cacheOf[t] = p[1] <=> t = s}
    IN  /\ Fault
        /\ mine # {}
        /\ req' = [r \in Requests |-> IF r \in mine
                      THEN [req[r] EXCEPT !.pc = "lost", !.todo = {}] ELSE
                      IF req[r].server = s THEN [req[r] EXCEPT !.todo = {}] ELSE req[r]]
        /\ saving' = saving \ mine
        /\ cell' = [p \in Cells |-> IF p \in gone THEN Empty ELSE cell[p]]
        /\ lost' = (lost \cup owed) \ gone
        /\ late' = late \ gone
        /\ UNCHANGED <<setup, row, log, unread>>

-----------------------------------------------------------------------------

Step(r) ==
    \/ Commit(r) \/ Refuse(r) \/ StatusUnchanged(r)
    \/ \E k \in Keys : ClearKey(r, k) \/ ClearFails(r, k)
    \/ ClearDone(r)
    \/ CacheHit(r) \/ CacheMiss(r) \/ FindRow(r) \/ NotFound(r) \/ FindFails(r)
    \/ ItemRead(r) \/ ItemNotFound(r) \/ ItemReadFails(r)
    \/ FillCache(r) \/ FillFails(r)
    \/ LogSaved(r) \/ LogFails(r)

Next ==
    \/ \E r \in Requests : Start(r) \/ Step(r)
    \/ \E p \in Cells : Expire(p)
    \/ \E s \in Servers : Crash(s)

(* A server runs the handlers it has started, each once, and an entry's    *)
(* time runs out.                                                          *)
Spec ==
    /\ Init /\ [][Next]_vars
    /\ WF_vars(\E r \in Requests : Step(r))
    /\ \A p \in Cells : WF_vars(Expire(p))

-----------------------------------------------------------------------------
(* Properties *)

Stale(p) ==
    cell[p] # Empty /\ (cell[p] # row \/ row.gone \/ (row.deleted /\ ~p[2]))

(* Every change of a container reaches its cache entries                   *)
(* (containers.service.ts:413-745, items.service.ts:340-740): one that     *)
(* differs from the row is about to be cleared, or was filled by a findOne *)
(* (:309) that had read the row before a commit, or a clear was lost with  *)
(* its command, its process, or on another server.                         *)
ChangesReachTheCache ==
    \A p \in Cells : Stale(p) =>
        \/ p \in late \cup lost
        \/ \E r \in Requests : p[2] \in req[r].todo /\ cacheOf[req[r].server] = p[1]

(* Who changes a container is answered with that change or a later one,    *)
(* though the answer is read through the cache (containers.service.ts:414, *)
(* 456, 610), unless the entry it met was filled late or missed its clear. *)
WritersSeeTheirChange ==
    \A r \in Requests : req[r].status = "success" /\ req[r].op \in Returning =>
        req[r].copy.version >= req[r].wrote \/ req[r].doubt

(* What an audit row says of a change (audit.interceptor.ts:99-155).       *)
(* SUCCESS never stands for a change that was refused.  FAILED does stand  *)
(* for a committed one, and only so: its handler reads back what it wrote  *)
(* (containers.service.ts:414, 456, 610, items.service.ts:341, 587, 691),  *)
(* and that read threw, or another request had deleted the container or    *)
(* the item in between.  A failed clear of the cache, or anything else     *)
(* after the commit, does not make it FAILED, and no deletion is.          *)
FailedThoughCommitted(r) == req[r].status = "failed" /\ req[r].wrote > 0

AuditTellsTheTruth ==
    \A r \in log :
        /\ req[r].status = "success" => req[r].wrote > 0 \/ req[r].op = "status"
        /\ FailedThoughCommitted(r) =>
               /\ req[r].op \notin Deleting
               /\ \/ r \in unread
                  \/ \E q \in Requests :
                        req[q].op \in Deleting /\ req[q].wrote > req[r].wrote

(* A committed change is in the audit log in the end, unless its process   *)
(* or the row's INSERT failed; and no stale entry stays for ever.          *)
ChangesAreLoggedAndSeen ==
    /\ \A r \in Requests : (req[r].wrote > 0) ~> (r \in log \/ At(r, "lost"))
    /\ \A p \in Cells : []<>~Stale(p)

=============================================================================
