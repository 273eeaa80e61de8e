----------------------- MODULE ContainerRequestsProofs -----------------------
(***************************************************************************)
(* The safety properties of ContainerRequests for any numbers of requests, *)
(* servers, caches, failures and crashes.                                  *)
(*                                                                         *)
(* What a step may do to the cache is bounded by the row that a findOne is *)
(* about to store (Copies) and by the deletions a commit has before it     *)
(* (ChangesReachTheCache itself); what a writer is answered, by the entry  *)
(* it will read (Served) and by the row at its commit (Written).           *)
(***************************************************************************)
EXTENDS ContainerRequests, TLAPS

RowType == [version : Nat, deleted : BOOLEAN, gone : BOOLEAN]

RequestType ==
    [op : Readers \cup Writers \cup {"none"}, pc : Pcs, server : Servers,
     key : Keys, copy : RowType \cup {Empty}, old : BOOLEAN,
     todo : SUBSET Keys, wrote : Nat, doubt : BOOLEAN,
     status : {"none", "success", "failed"}]

Shape ==
    /\ plan \in Plans
    /\ cacheOf \in [Servers -> Caches]
    /\ row \in RowType
    /\ cell \in [Cells -> RowType \cup {Empty}]
    /\ req \in [Requests -> RequestType]

(* What a request has done when it is where it is.                         *)
Progress ==
    \A r \in Requests :
        /\ req[r].pc \in {"ready", "tx"} =>
               req[r].todo = {} /\ req[r].wrote = 0 /\ req[r].status = "none"
        /\ req[r].pc = "tx" \/ req[r].wrote > 0 => req[r].op \in Writers
        /\ req[r].pc = "clear" =>
               req[r].op \in Writers /\ req[r].wrote > 0 /\ req[r].status = "none"
        /\ req[r].pc \in {"get", "find", "set"} =>
               /\ req[r].status = "none"
               /\ req[r].op \in Writers => req[r].op \in Returning /\ req[r].wrote > 0
        /\ req[r].pc = "getItem" =>
               req[r].op = "itemSave" /\ req[r].wrote > 0 /\ req[r].status = "none"

Copies ==
    \A r \in Requests : req[r].pc = "set" =>
        /\ req[r].copy \in RowType
        /\ req[r].copy.version >= req[r].wrote
        /\ req[r].old \/ (req[r].copy = row /\ Visible(req[r].key))

(* A deletion of the container, or of the item, came after the change.     *)
Superseded(r) ==
    \E q \in Requests : req[q].op \in Deleting /\ req[q].wrote > req[r].wrote

(* A row that its writer reads back is there until somebody deletes it.    *)
Written ==
    \A r \in Requests :
        /\ req[r].wrote <= row.version
        /\ req[r].op \notin Deleting /\ req[r].wrote > 0 /\ (row.deleted \/ row.gone) =>
               Superseded(r)

Serves(p, n) == cell[p] # Empty /\ p \notin late \cup lost => cell[p].version >= n

Served ==
    \A r \in Requests :
        req[r].op \in Returning /\ req[r].pc \in {"clear", "get"} =>
            \/ req[r].pc = "clear" /\ req[r].key \in req[r].todo
            \/ Serves(CellOf(r, req[r].key), req[r].wrote)

Told ==
    /\ \A r \in saving \cup log :
           r \in Requests /\ req[r].op \in Writers /\ req[r].pc \in {"done", "lost"}
    /\ \A r \in Requests :
        /\ req[r].status = "success" /\ req[r].op \in Writers =>
               req[r].wrote > 0 \/ req[r].op = "status"
        /\ FailedThoughCommitted(r) =>
               req[r].op \notin Deleting /\ (r \in unread \/ Superseded(r))

Inv ==
    /\ Shape /\ Progress /\ Copies /\ Written /\ Served /\ Told
    /\ ChangesReachTheCache /\ WritersSeeTheirChange

-----------------------------------------------------------------------------

USE RequestsAssumption

LEMMA EmptyIsNoRow == Empty \notin RowType
BY DEF Empty, RowType

LEMMA CellsType ==
    ASSUME Shape, NEW r \in Requests, NEW k \in Keys
    PROVE  CellOf(r, k) \in Cells
BY DEF Shape, CellOf, Cells, RequestType

LEMMA RowDeleted ==
    ASSUME NEW w \in RowType, NEW n \in Nat, NEW d \in BOOLEAN
    PROVE  LET x == [w EXCEPT !.version = n, !.deleted = d]
           IN  x \in RowType /\ x.version = n /\ x.deleted = d /\ x.gone = w.gone
BY DEF RowType

LEMMA RowGone ==
    ASSUME NEW w \in RowType, NEW n \in Nat, NEW d \in BOOLEAN
    PROVE  LET x == [w EXCEPT !.version = n, !.gone = d]
           IN  x \in RowType /\ x.version = n
BY DEF RowType

(* What any transaction leaves in the row.                                 *)
LEMMA TransactionRow ==
    ASSUME Shape, NEW r \in Requests, req[r].op \in Writers, Transaction(r)
    PROVE  /\ row' \in RowType
           /\ row'.version = row.version + 1
           /\ req[r].op \notin Deleting => ~row'.deleted /\ ~row'.gone
<1> DEFINE n == row.version + 1
<1>1. row \in RowType /\ n \in Nat /\ ~row.gone
  BY DEF Shape, RowType, Transaction
<1>2. TRUE \in BOOLEAN /\ FALSE \in BOOLEAN
  OBVIOUS
<1>3. CASE req[r].op \in {"update", "status", "itemSave"}
  BY <1>1, <1>3 DEF Transaction, Update, RowType
<1>7. CASE req[r].op = "itemRemove"
  BY <1>1, <1>7 DEF Transaction, RemoveItem, RowType, Deleting
<1>4. CASE req[r].op = "softDelete"
  <2>1. row' = [row EXCEPT !.version = n, !.deleted = TRUE]
    BY <1>4 DEF Transaction, SoftDelete
  <2> HIDE DEF n
  <2>2. row' \in RowType /\ row'.version = n
    BY <2>1, <1>1, <1>2, RowDeleted
  <2> QED
    BY <2>2, <1>4 DEF n, Deleting
<1>5. CASE req[r].op = "restore"
  <2>1. row' = [row EXCEPT !.version = n, !.deleted = FALSE]
    BY <1>5 DEF Transaction, Restore
  <2> HIDE DEF n
  <2>2. /\ row' \in RowType /\ row'.version = n
        /\ row'.deleted = FALSE /\ row'.gone = row.gone
    BY <2>1, <1>1, <1>2, RowDeleted
  <2> QED
    BY <2>2, <1>1 DEF n
<1>6. CASE req[r].op = "permanentDelete"
  <2>1. row' = [row EXCEPT !.version = n, !.gone = TRUE]
    BY <1>6 DEF Transaction, PermanentDelete
  <2> HIDE DEF n
  <2>2. row' \in RowType /\ row'.version = n
    BY <2>1, <1>1, <1>2, RowGone
  <2> QED
    BY <2>2, <1>6 DEF n, Deleting
<1> QED
  BY <1>3, <1>4, <1>5, <1>6, <1>7 DEF Writers, Returning, ItemOps, Deleting

-----------------------------------------------------------------------------
(* A handler answers without touching the row or the cache.                *)

LEMMA RequestAnswered ==
    ASSUME NEW q \in RequestType, NEW st \in {"success", "failed"},
           NEW o \in BOOLEAN, NEW k \in BOOLEAN, NEW c \in RowType \cup {Empty},
           NEW d \in BOOLEAN
    PROVE  [q EXCEPT !.pc = "done", !.status = st, !.old = o, !.key = k,
                     !.copy = c, !.doubt = d] \in RequestType
BY DEF RequestType, Pcs, Keys

LEMMA AnswerShape ==
    ASSUME Shape, NEW r \in Requests, NEW status \in {"success", "failed"},
           NEW copy \in RowType \cup {Empty}, NEW doubt \in BOOLEAN,
           Answer(r, status, copy, doubt)
    PROVE  /\ req' \in [Requests -> RequestType]
           /\ \A q \in Requests \ {r} : req'[q] = req[q]
           /\ req'[r].op = req[r].op /\ req'[r].pc = "done"
           /\ req'[r].status = status
           /\ req'[r].wrote = req[r].wrote /\ req'[r].todo = req[r].todo
           /\ req'[r].server = req[r].server
           /\ req[r].op \in Returning => req'[r].copy = copy /\ req'[r].doubt = doubt
           /\ saving' \subseteq saving \cup {r}
           /\ r \in saving' \ saving => req[r].op \in Writers
           /\ log' = log
<1> DEFINE a == Answered(r, status, copy, doubt)
<1>1. a \in RequestType
  <2>1. req[r] \in RequestType
    BY DEF Shape
  <2>2. (IF req[r].op \in Returning THEN copy ELSE Empty) \in RowType \cup {Empty}
    OBVIOUS
  <2>3. (doubt /\ req[r].op \in Returning) \in BOOLEAN /\ FALSE \in BOOLEAN
    OBVIOUS
  <2> QED
    BY <2>1, <2>2, <2>3, RequestAnswered DEF Answered
<1>2. req' = [req EXCEPT ![r] = a]
  BY DEF Answer
<1>3. req' \in [Requests -> RequestType] /\ req'[r] = a
  BY <1>1, <1>2 DEF Shape
<1>4. /\ a.op = req[r].op /\ a.pc = "done" /\ a.status = status
      /\ a.wrote = req[r].wrote /\ a.todo = req[r].todo /\ a.server = req[r].server
      /\ req[r].op \in Returning => a.copy = copy /\ a.doubt = doubt
  BY DEF Answered, Shape, RequestType
<1>5. /\ saving' \subseteq saving \cup {r} /\ log' = log
      /\ r \in saving' \ saving => req[r].op \in Writers
  BY DEF Answer, Audited
<1>6. \A q \in Requests \ {r} : req'[q] = req[q]
  BY <1>2 DEF Shape
<1> HIDE DEF a
<1> QED
  BY <1>3, <1>4, <1>5, <1>6

LEMMA AnswerKeeps ==
    ASSUME Inv, NEW r \in Requests, NEW status \in {"success", "failed"},
           NEW copy \in RowType \cup {Empty}, NEW doubt \in BOOLEAN,
           Answer(r, status, copy, doubt),
           UNCHANGED <<setup, row, cell, late, lost>>, unread \subseteq unread',
           status = "success" /\ req[r].op \in Returning =>
               doubt \/ copy.version >= req[r].wrote,
           status = "success" /\ req[r].op \in Writers =>
               req[r].wrote > 0 \/ req[r].op = "status",
           status = "failed" /\ req[r].wrote > 0 =>
               req[r].op \notin Deleting /\ (r \in unread' \/ Superseded(r))
    PROVE  Inv'
<1>1. /\ req' \in [Requests -> RequestType]
      /\ \A q \in Requests \ {r} : req'[q] = req[q]
      /\ req'[r].op = req[r].op /\ req'[r].pc = "done"
      /\ req'[r].status = status
      /\ req'[r].wrote = req[r].wrote /\ req'[r].todo = req[r].todo
      /\ req'[r].server = req[r].server
      /\ req[r].op \in Returning => req'[r].copy = copy /\ req'[r].doubt = doubt
      /\ saving' \subseteq saving \cup {r}
      /\ r \in saving' \ saving => req[r].op \in Writers
      /\ log' = log
  <2>1. Shape
    BY DEF Inv
  <2> QED
    BY <2>1, AnswerShape, ZenonT(60)
<1>2. /\ cell' = cell /\ row' = row /\ late' = late /\ lost' = lost
      /\ cacheOf' = cacheOf /\ plan' = plan
  BY DEF setup
<1>11. \A q \in Requests : Superseded(q) => Superseded(q)'
  BY <1>1 DEF Superseded
<1>3. Shape'
  BY <1>1, <1>2 DEF Inv, Shape
<1>4. Progress'
  BY <1>1 DEF Inv, Progress
<1>5. Copies'
  BY <1>1, <1>2 DEF Inv, Copies, Visible
<1>6. Written'
  BY <1>1, <1>2, <1>11 DEF Inv, Written
<1>7. Served'
  <2>1. \A q \in Requests \ {r} : \A k \in Keys : CellOf(q, k)' = CellOf(q, k)
    BY <1>1, <1>2 DEF CellOf
  <2> QED
    BY <1>1, <1>2, <2>1 DEF Inv, Served, Serves, CellOf
<1>8. Told'
  BY <1>1, <1>2, <1>11 DEF Inv, Told, FailedThoughCommitted
<1>9. ChangesReachTheCache'
  BY <1>1, <1>2 DEF Inv, ChangesReachTheCache, Stale
<1>10. WritersSeeTheirChange'
  BY <1>1 DEF Inv, WritersSeeTheirChange
<1> QED
  BY <1>3, <1>4, <1>5, <1>6, <1>7, <1>8, <1>9, <1>10 DEF Inv

LEMMA RefuseKeeps ==
    ASSUME Inv, NEW r \in Requests, Refuse(r)
    PROVE  Inv'
<1>1. req[r].wrote = 0
  BY DEF Inv, Progress, Refuse, At
<1>2. Empty \in RowType \cup {Empty} /\ FALSE \in BOOLEAN
  OBVIOUS
<1>3. /\ Answer(r, "failed", Empty, FALSE)
      /\ UNCHANGED <<setup, row, cell, late, lost>> /\ unread \subseteq unread'
  BY DEF Refuse, historyVars
<1>4. ~(req[r].wrote > 0) /\ "failed" # "success" /\ "failed" \in {"success", "failed"}
  BY <1>1
<1> QED
  BY <1>2, <1>3, <1>4, AnswerKeeps

LEMMA StatusUnchangedKeeps ==
    ASSUME Inv, NEW r \in Requests, StatusUnchanged(r)
    PROVE  Inv'
<1>1. req[r].wrote = 0 /\ req[r].op = "status"
  BY DEF Inv, Progress, StatusUnchanged, At
<1>2. row \in RowType /\ row.version >= 0
  BY DEF Inv, Shape, RowType
<1> QED
  BY <1>1, <1>2, AnswerKeeps DEF StatusUnchanged, historyVars

LEMMA NotFoundKeeps ==
    ASSUME Inv, NEW r \in Requests, NotFound(r)
    PROVE  Inv'
<1>1. req[r].pc = "find" /\ (row.deleted \/ row.gone)
  BY DEF NotFound, At, Visible
<1>2. req[r].wrote > 0 => req[r].op \notin Deleting
  BY <1>1 DEF Inv, Progress, Returning, ItemOps, Deleting
<1>3. req[r].wrote > 0 => Superseded(r)
  BY <1>1, <1>2 DEF Inv, Written
<1> QED
  BY <1>2, <1>3, AnswerKeeps DEF NotFound, historyVars

LEMMA FindFailsKeeps ==
    ASSUME Inv, NEW r \in Requests, FindFails(r)
    PROVE  Inv'
<1>1. req[r].wrote > 0 => req[r].op \notin Deleting
  BY DEF FindFails, At, Inv, Progress, Returning, ItemOps, Deleting
<1>2. unread \subseteq unread' /\ r \in unread'
  BY DEF FindFails, ReadThrows
<1> QED
  BY <1>1, <1>2, AnswerKeeps DEF FindFails, ReadThrows

LEMMA ItemReadKeeps ==
    ASSUME Inv, NEW r \in Requests, ItemRead(r)
    PROVE  Inv'
<1>1. req[r].op = "itemSave" /\ req[r].wrote > 0 /\ req[r].op \notin Returning
  BY DEF ItemRead, At, Inv, Progress, Returning
<1> QED
  BY <1>1, AnswerKeeps DEF ItemRead, historyVars

LEMMA ItemNotFoundKeeps ==
    ASSUME Inv, NEW r \in Requests, ItemNotFound(r)
    PROVE  Inv'
<1>1. req[r].op \notin Deleting /\ req[r].wrote > 0
  BY DEF ItemNotFound, At, Inv, Progress, Deleting
<1>2. CASE ~Visible(FALSE)
  BY <1>1, <1>2, AnswerKeeps DEF ItemNotFound, Visible, Inv, Written, historyVars
<1>3. CASE \E q \in Requests :
               req[q].op = "itemRemove" /\ req[q].wrote > req[r].wrote
  <2>1. Superseded(r)
    BY <1>3 DEF Superseded, Deleting
  <2> QED
    BY <1>1, <2>1, AnswerKeeps DEF ItemNotFound, historyVars
<1> QED
  BY <1>2, <1>3 DEF ItemNotFound

LEMMA ItemReadFailsKeeps ==
    ASSUME Inv, NEW r \in Requests, ItemReadFails(r)
    PROVE  Inv'
<1>1. req[r].op \notin Deleting
  BY DEF ItemReadFails, At, Inv, Progress, Deleting
<1>2. unread \subseteq unread' /\ r \in unread'
  BY DEF ItemReadFails, ReadThrows
<1> QED
  BY <1>1, <1>2, AnswerKeeps DEF ItemReadFails, ReadThrows

LEMMA CacheHitKeeps ==
    ASSUME Inv, NEW r \in Requests, CacheHit(r)
    PROVE  Inv'
<1> DEFINE p == CellOf(r, req[r].key)
<1>1. req[r].pc = "get" /\ cell[p] # Empty
  BY DEF CacheHit, At
<1>2. p \in Cells
  BY CellsType DEF Inv, Shape, RequestType
<1>3. cell[p] \in RowType
  BY <1>1, <1>2 DEF Inv, Shape
<1>4. req[r].op \in Returning => p \in late \cup lost \/ cell[p].version >= req[r].wrote
  BY <1>1 DEF Inv, Served, Serves
<1>5. req[r].op \in Writers => req[r].wrote > 0
  BY <1>1 DEF Inv, Progress
<1>6. /\ Answer(r, "success", cell[p], p \in late \cup lost)
      /\ UNCHANGED <<setup, row, cell, late, lost>> /\ unread \subseteq unread'
  BY DEF CacheHit, historyVars
<1>7. (p \in late \cup lost) \in BOOLEAN
  OBVIOUS
<1> HIDE DEF p
<1> QED
  BY <1>3, <1>4, <1>5, <1>6, <1>7, AnswerKeeps

LEMMA FillFailsKeeps ==
    ASSUME Inv, NEW r \in Requests, FillFails(r)
    PROVE  Inv'
<1>1. req[r].pc = "set" /\ req[r].copy \in RowType /\ req[r].copy.version >= req[r].wrote
  BY DEF FillFails, At, Inv, Copies
<1>2. req[r].op \in Writers => req[r].wrote > 0
  BY <1>1 DEF Inv, Progress
<1> QED
  BY <1>1, <1>2, AnswerKeeps DEF FillFails, historyVars

LEMMA CacheMissKeeps ==
    ASSUME Inv, NEW r \in Requests, CacheMiss(r)
    PROVE  Inv'
<1>1. req' = [req EXCEPT ![r].pc = "find"] /\ req[r].pc = "get"
  BY DEF CacheMiss, At
<1>2. /\ req' \in [Requests -> RequestType]
      /\ \A q \in Requests \ {r} : req'[q] = req[q]
      /\ req'[r].pc = "find"
      /\ req'[r].op = req[r].op /\ req'[r].key = req[r].key /\ req'[r].todo = req[r].todo
      /\ req'[r].wrote = req[r].wrote /\ req'[r].status = req[r].status
      /\ req'[r].server = req[r].server
      /\ req'[r].copy = req[r].copy /\ req'[r].doubt = req[r].doubt
  BY <1>1 DEF Inv, Shape, RequestType, Pcs
<1>3. /\ UNCHANGED <<plan, cacheOf, row, cell, late, lost, unread, saving, log>>
  BY DEF CacheMiss, setup, auditVars, historyVars
<1>4. Shape'
  BY <1>1, <1>2, <1>3 DEF Inv, Shape
<1>5. Progress'
  BY <1>1, <1>2, <1>3 DEF Inv, Progress
<1>6. Copies'
  BY <1>1, <1>2, <1>3 DEF Inv, Copies, Visible
<1>7. Written'
  BY <1>1, <1>2, <1>3 DEF Inv, Written, Superseded
<1>8. Served'
  BY <1>1, <1>2, <1>3 DEF Inv, Served, Serves, CellOf
<1>9. Told'
  BY <1>1, <1>2, <1>3 DEF Inv, Told, FailedThoughCommitted, Superseded
<1>10. ChangesReachTheCache'
  BY <1>1, <1>2, <1>3 DEF Inv, ChangesReachTheCache, Stale
<1>11. WritersSeeTheirChange'
  BY <1>1, <1>2, <1>3 DEF Inv, WritersSeeTheirChange
<1> QED
  BY <1>4, <1>5, <1>6, <1>7, <1>8, <1>9, <1>10, <1>11 DEF Inv

LEMMA FindRowKeeps ==
    ASSUME Inv, NEW r \in Requests, FindRow(r)
    PROVE  Inv'
<1>1. /\ req' = [req EXCEPT ![r].pc = "set", ![r].copy = row]
      /\ req[r].pc = "find" /\ Visible(req[r].key)
  BY DEF FindRow, At
<1>2. row \in RowType
  BY DEF Inv, Shape
<1>3. /\ req' \in [Requests -> RequestType]
      /\ \A q \in Requests \ {r} : req'[q] = req[q]
      /\ req'[r].pc = "set"
      /\ req'[r].op = req[r].op /\ req'[r].key = req[r].key /\ req'[r].todo = req[r].todo
      /\ req'[r].wrote = req[r].wrote /\ req'[r].status = req[r].status
      /\ req'[r].server = req[r].server
      /\ req'[r].copy = row /\ req'[r].doubt = req[r].doubt
  BY <1>1, <1>2 DEF Inv, Shape, RequestType, Pcs
<1>4. /\ UNCHANGED <<plan, cacheOf, row, cell, late, lost, unread, saving, log>>
  BY DEF FindRow, setup, auditVars, historyVars
<1>5. req[r].wrote <= row.version
  BY DEF Inv, Written, Superseded
<1>6. Shape'
  BY <1>1, <1>2, <1>3, <1>4, <1>5 DEF Inv, Shape
<1>7. Progress'
  BY <1>1, <1>2, <1>3, <1>4, <1>5 DEF Inv, Progress
<1>8. Copies'
  BY <1>1, <1>2, <1>3, <1>4, <1>5 DEF Inv, Copies, Visible
<1>9. Written'
  BY <1>1, <1>2, <1>3, <1>4, <1>5 DEF Inv, Written, Superseded
<1>10. Served'
  BY <1>1, <1>2, <1>3, <1>4, <1>5 DEF Inv, Served, Serves, CellOf
<1>11. Told'
  BY <1>1, <1>2, <1>3, <1>4, <1>5 DEF Inv, Told, FailedThoughCommitted, Superseded
<1>12. ChangesReachTheCache'
  BY <1>1, <1>2, <1>3, <1>4, <1>5 DEF Inv, ChangesReachTheCache, Stale
<1>13. WritersSeeTheirChange'
  BY <1>1, <1>2, <1>3, <1>4, <1>5 DEF Inv, WritersSeeTheirChange
<1> QED
  BY <1>6, <1>7, <1>8, <1>9, <1>10, <1>11, <1>12, <1>13 DEF Inv

LEMMA LogFailsKeeps ==
    ASSUME Inv, NEW r \in Requests, LogFails(r)
    PROVE  Inv'
<1>1. /\ req' = [req EXCEPT ![r].pc = "lost"]
      /\ saving' = saving \ {r}
  BY DEF LogFails
<1>2. /\ req' \in [Requests -> RequestType]
      /\ \A q \in Requests \ {r} : req'[q] = req[q]
      /\ req'[r].pc = "lost"
      /\ req'[r].op = req[r].op /\ req'[r].key = req[r].key /\ req'[r].todo = req[r].todo
      /\ req'[r].wrote = req[r].wrote /\ req'[r].status = req[r].status
      /\ req'[r].server = req[r].server
      /\ req'[r].copy = req[r].copy /\ req'[r].doubt = req[r].doubt
  BY <1>1 DEF Inv, Shape, RequestType, Pcs
<1>3. /\ UNCHANGED <<plan, cacheOf, row, cell, late, lost, unread, log>>
  BY DEF LogFails, setup, historyVars
<1>4. Shape'
  BY <1>1, <1>2, <1>3 DEF Inv, Shape
<1>5. Progress'
  BY <1>1, <1>2, <1>3 DEF Inv, Progress
<1>6. Copies'
  BY <1>1, <1>2, <1>3 DEF Inv, Copies, Visible
<1>7. Written'
  BY <1>1, <1>2, <1>3 DEF Inv, Written, Superseded
<1>8. Served'
  BY <1>1, <1>2, <1>3 DEF Inv, Served, Serves, CellOf
<1>9. Told'
  BY <1>1, <1>2, <1>3 DEF Inv, Told, FailedThoughCommitted, Superseded
<1>10. ChangesReachTheCache'
  BY <1>1, <1>2, <1>3 DEF Inv, ChangesReachTheCache, Stale
<1>11. WritersSeeTheirChange'
  BY <1>1, <1>2, <1>3 DEF Inv, WritersSeeTheirChange
<1> QED
  BY <1>4, <1>5, <1>6, <1>7, <1>8, <1>9, <1>10, <1>11 DEF Inv

Started(o, s, k, pc) == [Idle EXCEPT !.op = o, !.server = s, !.key = k, !.pc = pc]

LEMMA StartedType ==
    ASSUME NEW o \in Readers \cup Writers \cup {"none"}, NEW s \in Servers, NEW k \in Keys,
           NEW pc \in {"tx", "get"}
    PROVE  /\ Started(o, s, k, pc) \in RequestType
           /\ Started(o, s, k, pc).op = o /\ Started(o, s, k, pc).pc = pc
           /\ Started(o, s, k, pc).todo = {} /\ Started(o, s, k, pc).wrote = 0
           /\ Started(o, s, k, pc).status = "none"
<1>1. Idle.server \in Servers /\ FALSE \in BOOLEAN
  BY DEF Idle
<1>2. \A f \in BOOLEAN, t \in Servers, e \in {Empty} :
          [op |-> "none", pc |-> "ready", server |-> t, key |-> f, copy |-> e, old |-> f,
           todo |-> {}, wrote |-> 0, doubt |-> f, status |-> "none"] \in RequestType
  BY DEF RequestType, Pcs, Keys
<1>3. Idle \in RequestType /\ Idle.todo = {} /\ Idle.wrote = 0 /\ Idle.status = "none"
  BY <1>1, <1>2 DEF Idle
<1> HIDE DEF Idle
<1> QED
  BY <1>3 DEF RequestType, Pcs, Started

LEMMA StartKeeps ==
    ASSUME Inv, NEW r \in Requests, Start(r)
    PROVE  Inv'
<1>1. PICK o \in Readers \cup Writers \cup {"none"}, s \in Servers, k \in Keys, pc \in {"tx", "get"} :
          /\ req' = [req EXCEPT ![r] = Started(o, s, k, pc)]
          /\ pc = "tx" <=> o \in Writers
  <2>1. plan.ops[r] \in Readers \cup Writers \cup {"none"}
    BY DEF Inv, Shape
  <2> QED
    BY <2>1 DEF Start, Started
<1> DEFINE x == Started(o, s, k, pc)
<1>2. /\ x \in RequestType /\ x.op = o /\ x.pc = pc
      /\ x.todo = {} /\ x.wrote = 0 /\ x.status = "none"
  BY <1>1, StartedType
<1>3. req[r].todo = {} /\ req[r].wrote = 0
  BY DEF Inv, Progress, Start, At
<1> HIDE DEF x
<1>4. /\ req' \in [Requests -> RequestType] /\ req'[r] = x
      /\ \A q \in Requests \ {r} : req'[q] = req[q]
  BY <1>1, <1>2 DEF Inv, Shape, x
<1>5. UNCHANGED <<plan, cacheOf, row, cell, late, lost, unread, saving, log>>
  BY DEF Start, setup, auditVars, historyVars
<1>6. row.version \in Nat
  BY DEF Inv, Shape, RowType
<1>7. r \notin saving \cup log
  BY DEF Inv, Told, FailedThoughCommitted, Superseded, Start, At
<1>16. \A q \in Requests \ {r} : Superseded(q) => Superseded(q)'
  <2>1. \A q \in Requests : req[q].wrote \in Nat
    BY DEF Inv, Shape, RequestType
  <2> QED
    <3>1. ASSUME NEW q \in Requests \ {r}, NEW w \in Requests,
                 req[w].op \in Deleting, req[w].wrote > req[q].wrote
          PROVE  req'[w].op \in Deleting /\ req'[w].wrote > req'[q].wrote
      <4>1. req[w].wrote # 0
        BY <2>1, <3>1
      <4>2. w # r
        BY <4>1, <1>3
      <4> QED
        BY <3>1, <4>2, <1>4
    <3> QED
      BY <3>1 DEF Superseded
<1>8. Shape'
  BY <1>1, <1>2, <1>3, <1>4, <1>5, <1>6 DEF Inv, Shape
<1>9. Progress'
  BY <1>1, <1>2, <1>4 DEF Inv, Progress
<1>10. Copies'
  BY <1>1, <1>2, <1>3, <1>4, <1>5, <1>6 DEF Inv, Copies, Visible
<1>11. Written'
  <2>1. ASSUME NEW q \in Requests
        PROVE  /\ req'[q].wrote <= row.version
               /\ req'[q].op \notin Deleting /\ req'[q].wrote > 0
                    /\ (row.deleted \/ row.gone) => Superseded(q)'
    <3>1. CASE q = r
      BY <3>1, <1>2, <1>4, <1>6
    <3>2. CASE q # r
      <4>1. Superseded(q) => Superseded(q)'
        BY <3>2, <1>16
      <4> QED
        BY <3>2, <4>1, <1>4 DEF Inv, Written
    <3> QED
      BY <3>1, <3>2
  <2> QED
    BY <2>1, <1>5 DEF Written, Superseded
<1>12. Served'
  BY <1>1, <1>2, <1>3, <1>4, <1>5, <1>6 DEF Inv, Served, Serves, CellOf, Writers
<1>13. Told'
  BY <1>1, <1>2, <1>3, <1>4, <1>5, <1>6, <1>7, <1>16 DEF Inv, Told, FailedThoughCommitted
<1>14. ChangesReachTheCache'
  BY <1>1, <1>2, <1>3, <1>4, <1>5, <1>6 DEF Inv, ChangesReachTheCache, Stale, CellOf
<1>15. WritersSeeTheirChange'
  BY <1>1, <1>2, <1>3, <1>4, <1>5, <1>6 DEF Inv, WritersSeeTheirChange
<1> QED
  BY <1>8, <1>9, <1>10, <1>11, <1>12, <1>13, <1>14, <1>15 DEF Inv

LEMMA LogSavedKeeps ==
    ASSUME Inv, NEW r \in Requests, LogSaved(r)
    PROVE  Inv'
<1>1. /\ UNCHANGED <<plan, cacheOf, row, cell, req, late, lost, unread>>
      /\ saving' \cup log' \subseteq saving \cup log
  BY DEF LogSaved, setup, historyVars
<1>2. Shape'
  BY <1>1 DEF Inv, Shape
<1>3. Progress'
  BY <1>1 DEF Inv, Progress
<1>4. Copies'
  BY <1>1 DEF Inv, Copies, Visible
<1>5. Written'
  BY <1>1 DEF Inv, Written, Superseded
<1>6. Served'
  BY <1>1 DEF Inv, Served, Serves, CellOf
<1>7. Told'
  BY <1>1 DEF Inv, Told, FailedThoughCommitted, Superseded
<1>8. ChangesReachTheCache'
  BY <1>1 DEF Inv, ChangesReachTheCache, Stale, CellOf
<1>9. WritersSeeTheirChange'
  BY <1>1 DEF Inv, WritersSeeTheirChange
<1> QED
  BY <1>2, <1>3, <1>4, <1>5, <1>6, <1>7, <1>8, <1>9 DEF Inv

LEMMA ExpireKeeps ==
    ASSUME Inv, NEW p \in Cells, Expire(p)
    PROVE  Inv'
<1>1. /\ UNCHANGED <<plan, cacheOf, row, req, unread, saving, log>>
      /\ cell' = [cell EXCEPT ![p] = Empty]
      /\ late' = late \ {p} /\ lost' = lost \ {p}
  BY DEF Expire, setup, auditVars
<1>2. cell'[p] = Empty /\ \A d \in Cells \ {p} : cell'[d] = cell[d]
  BY <1>1 DEF Inv, Shape
<1>3. \A q \in Requests, k \in Keys : CellOf(q, k) \in Cells
  BY CellsType DEF Inv
<1>4. \A q \in Requests : req[q].key \in Keys
  BY DEF Inv, Shape, RequestType
<1>5. Shape'
  BY <1>1, <1>2, <1>3, <1>4 DEF Inv, Shape
<1>6. Progress'
  BY <1>1, <1>2, <1>3, <1>4 DEF Inv, Progress
<1>7. Copies'
  BY <1>1, <1>2, <1>3, <1>4 DEF Inv, Copies, Visible
<1>8. Written'
  BY <1>1, <1>2, <1>3, <1>4 DEF Inv, Written, Superseded
<1>9. Served'
  BY <1>1, <1>2, <1>3, <1>4 DEF Inv, Served, Serves, CellOf
<1>10. Told'
  BY <1>1, <1>2, <1>3, <1>4 DEF Inv, Told, FailedThoughCommitted, Superseded
<1>11. ChangesReachTheCache'
  BY <1>1, <1>2, <1>3, <1>4 DEF Inv, ChangesReachTheCache, Stale, CellOf
<1>12. WritersSeeTheirChange'
  BY <1>1, <1>2, <1>3, <1>4 DEF Inv, WritersSeeTheirChange
<1> QED
  BY <1>5, <1>6, <1>7, <1>8, <1>9, <1>10, <1>11, <1>12 DEF Inv

LEMMA ClearKeyKeeps ==
    ASSUME Inv, NEW r \in Requests, NEW k \in Keys, ClearKey(r, k)
    PROVE  Inv'
<1> DEFINE p == CellOf(r, k)
<1>1. /\ UNCHANGED <<plan, cacheOf, row, unread, saving, log>>
      /\ cell' = [cell EXCEPT ![p] = Empty]
      /\ late' = late \ {p} /\ lost' = lost \ {p}
      /\ req' = [req EXCEPT ![r].todo = @ \ {k}]
  BY DEF ClearKey, setup, auditVars
<1>2. p \in Cells /\ p = <<cacheOf[req[r].server], k>>
  BY CellsType DEF Inv, CellOf
<1>3. /\ req' \in [Requests -> RequestType]
      /\ \A q \in Requests \ {r} : req'[q] = req[q]
      /\ req'[r].todo = req[r].todo \ {k} /\ req'[r].pc = req[r].pc
      /\ req'[r].old = req[r].old
      /\ req'[r].op = req[r].op /\ req'[r].key = req[r].key
      /\ req'[r].wrote = req[r].wrote /\ req'[r].status = req[r].status
      /\ req'[r].server = req[r].server
      /\ req'[r].copy = req[r].copy /\ req'[r].doubt = req[r].doubt
  BY <1>1 DEF Inv, Shape, RequestType
<1>4. \A q \in Requests : req[q].key \in Keys /\ \A j \in Keys : CellOf(q, j) \in Cells
  BY CellsType DEF Inv, Shape, RequestType
<1> HIDE DEF p
<1>5. cell'[p] = Empty /\ \A d \in Cells \ {p} : cell'[d] = cell[d]
  BY <1>1, <1>2 DEF Inv, Shape
<1>6. Shape'
  BY <1>1, <1>2, <1>3, <1>4, <1>5 DEF Inv, Shape
<1>7. Progress'
  BY <1>1, <1>2, <1>3, <1>4, <1>5 DEF Inv, Progress
<1>8. Copies'
  BY <1>1, <1>2, <1>3, <1>4, <1>5 DEF Inv, Copies, Visible
<1>9. Written'
  BY <1>1, <1>2, <1>3, <1>4, <1>5 DEF Inv, Written, Superseded
<1>10. Served'
  BY <1>1, <1>2, <1>3, <1>4, <1>5 DEF Inv, Served, Serves, CellOf
<1>11. Told'
  BY <1>1, <1>2, <1>3, <1>4, <1>5 DEF Inv, Told, FailedThoughCommitted, Superseded
<1>12. ChangesReachTheCache'
  <2>1. ASSUME NEW d \in Cells, Stale(d)'
        PROVE  \/ d \in late' \cup lost'
               \/ \E q \in Requests : d[2] \in req'[q].todo /\ cacheOf'[req'[q].server] = d[1]
    <3>1. d # p /\ Stale(d)
      BY <2>1, <1>1, <1>5 DEF Stale
    <3>2. d \in late \cup lost => d \in late' \cup lost'
      BY <3>1, <1>1
    <3>3. ASSUME NEW q \in Requests, d[2] \in req[q].todo, cacheOf[req[q].server] = d[1]
          PROVE  d[2] \in req'[q].todo /\ cacheOf'[req'[q].server] = d[1]
      <4>1. q # r \/ d[2] # k
        BY <3>1, <3>3, <1>2 DEF Cells
      <4> QED
        BY <4>1, <3>3, <1>1, <1>3
    <3> QED
      BY <3>1, <3>2, <3>3 DEF Inv, ChangesReachTheCache
  <2> QED
    BY <2>1 DEF ChangesReachTheCache
<1>13. WritersSeeTheirChange'
  BY <1>1, <1>2, <1>3, <1>4, <1>5 DEF Inv, WritersSeeTheirChange
<1> QED
  BY <1>6, <1>7, <1>8, <1>9, <1>10, <1>11, <1>12, <1>13 DEF Inv

LEMMA ClearDoneKeeps ==
    ASSUME Inv, NEW r \in Requests, ClearDone(r)
    PROVE  Inv'
<1>1. /\ req[r].pc = "clear" /\ req[r].todo = {} /\ req[r].wrote > 0
      /\ req[r].op \in Writers /\ req[r].status = "none"
  BY DEF ClearDone, At, Inv, Progress
<1>2. UNCHANGED <<plan, cacheOf, row, cell, late, lost, unread>>
  BY DEF ClearDone, setup, historyVars
<1>5. /\ AfterClear(r) \in {"get", "getItem", "clear"}
      /\ AfterClear(r) = "get" => req[r].op \in Returning
      /\ AfterClear(r) = "getItem" => req[r].op = "itemSave"
      /\ AfterClear(r) = "clear" => req[r].op \notin Returning
  BY DEF AfterClear
<1>3. CASE AfterClear(r) = "clear"
  <2>1. /\ Answer(r, "success", Empty, FALSE)
        /\ UNCHANGED <<setup, row, cell, late, lost>> /\ unread \subseteq unread'
    BY <1>3 DEF ClearDone, historyVars
  <2>2. Empty \in RowType \cup {Empty} /\ FALSE \in BOOLEAN
    OBVIOUS
  <2>3. "success" # "failed" /\ "success" \in {"success", "failed"}
    OBVIOUS
  <2> QED
    BY <1>1, <1>3, <1>5, <2>1, <2>2, <2>3, AnswerKeeps
<1>4. CASE AfterClear(r) # "clear"
  <2>1. req' = [req EXCEPT ![r].pc = AfterClear(r)] /\ saving' = saving /\ log' = log
    BY <1>4 DEF ClearDone, auditVars
  <2>2. /\ req' \in [Requests -> RequestType]
        /\ \A q \in Requests \ {r} : req'[q] = req[q]
        /\ req'[r].pc = AfterClear(r) /\ req'[r].todo = {}
        /\ req'[r].op = req[r].op /\ req'[r].key = req[r].key
        /\ req'[r].wrote = req[r].wrote /\ req'[r].status = req[r].status
        /\ req'[r].server = req[r].server
        /\ req'[r].copy = req[r].copy /\ req'[r].doubt = req[r].doubt
    BY <1>1, <1>5, <2>1 DEF Inv, Shape, RequestType, Pcs
  <2>3. Shape'
    BY <1>1, <1>2, <1>4, <1>5, <2>1, <2>2 DEF Inv, Shape
  <2>4. Progress'
    BY <1>1, <1>2, <1>4, <1>5, <2>1, <2>2 DEF Inv, Progress
  <2>5. Copies'
    BY <1>1, <1>2, <1>4, <1>5, <2>1, <2>2 DEF Inv, Copies, Visible
  <2>6. Written'
    BY <1>1, <1>2, <1>4, <1>5, <2>1, <2>2 DEF Inv, Written, Superseded
  <2>7. Served'
    BY <1>1, <1>2, <1>4, <1>5, <2>1, <2>2 DEF Inv, Served, Serves, CellOf
  <2>8. Told'
    BY <1>1, <1>2, <1>4, <1>5, <2>1, <2>2 DEF Inv, Told, FailedThoughCommitted, Superseded
  <2>9. ChangesReachTheCache'
    BY <1>1, <1>2, <1>4, <1>5, <2>1, <2>2 DEF Inv, ChangesReachTheCache, Stale, CellOf
  <2>10. WritersSeeTheirChange'
    BY <1>1, <1>2, <1>4, <1>5, <2>1, <2>2 DEF Inv, WritersSeeTheirChange
  <2> QED
    BY <2>3, <2>4, <2>5, <2>6, <2>7, <2>8, <2>9, <2>10 DEF Inv
<1> QED
  BY <1>3, <1>4

LEMMA ClearFailsKeeps ==
    ASSUME Inv, NEW r \in Requests, NEW k \in Keys, ClearFails(r, k)
    PROVE  Inv'
<1>1. /\ UNCHANGED <<plan, cacheOf, row, cell, saving, log, late, unread>>
      /\ lost' = lost \cup {CellOf(r, j) : j \in req[r].todo}
      /\ req' = [req EXCEPT ![r].todo = @ \ {k},
                            ![r].pc = IF At(r, "clear") THEN AfterClear(r) ELSE @]
  BY DEF ClearFails, setup, auditVars
<1>15. /\ AfterClear(r) \in {"get", "getItem", "clear"}
       /\ AfterClear(r) = "get" => req[r].op \in Returning
       /\ AfterClear(r) = "getItem" => req[r].op = "itemSave"
       /\ AfterClear(r) = "clear" => req[r].op \notin Returning
  BY DEF AfterClear
<1>2. /\ req' \in [Requests -> RequestType]
      /\ \A q \in Requests \ {r} : req'[q] = req[q]
      /\ req'[r].todo = req[r].todo \ {k}
      /\ req'[r].pc = IF req[r].pc = "clear" THEN AfterClear(r) ELSE req[r].pc
      /\ req'[r].old = req[r].old
      /\ req'[r].op = req[r].op /\ req'[r].key = req[r].key
      /\ req'[r].wrote = req[r].wrote /\ req'[r].status = req[r].status
      /\ req'[r].server = req[r].server
      /\ req'[r].copy = req[r].copy /\ req'[r].doubt = req[r].doubt
  <2>1. req[r] \in RequestType
    BY DEF Inv, Shape
  <2> DEFINE pc == IF req[r].pc = "clear" THEN AfterClear(r) ELSE req[r].pc
             todo == req[r].todo \ {k}
  <2>2. pc \in Pcs /\ todo \in SUBSET Keys
    BY <2>1, <1>15 DEF RequestType, Pcs
  <2>3. req' = [req EXCEPT ![r] = [req[r] EXCEPT !.todo = todo, !.pc = pc]]
    BY <1>1 DEF At, Inv, Shape
  <2> HIDE DEF pc, todo
  <2>4. /\ req' \in [Requests -> RequestType]
        /\ \A q \in Requests \ {r} : req'[q] = req[q]
        /\ req'[r].todo = todo /\ req'[r].pc = pc
        /\ req'[r].old = req[r].old
        /\ req'[r].op = req[r].op /\ req'[r].key = req[r].key
        /\ req'[r].wrote = req[r].wrote /\ req'[r].status = req[r].status
        /\ req'[r].server = req[r].server
        /\ req'[r].copy = req[r].copy /\ req'[r].doubt = req[r].doubt
    BY <2>1, <2>2, <2>3 DEF Inv, Shape, RequestType
  <2> QED
    BY <2>4 DEF pc, todo
<1>3. \A j \in req[r].todo : CellOf(r, j) \in lost'
  BY <1>1
<1>4. \A q \in Requests : \A j : CellOf(q, j) = <<cacheOf[req[q].server], j>>
  BY DEF CellOf
<1>5. lost \subseteq lost'
  BY <1>1
<1>6. k \in req[r].todo
  BY DEF ClearFails
<1>7. Shape'
  BY <1>1, <1>2, <1>3, <1>4, <1>5, <1>6 DEF Inv, Shape
<1>8. Progress'
  BY <1>1, <1>2, <1>3, <1>4, <1>5, <1>6, <1>15 DEF Inv, Progress
<1>9. Copies'
  BY <1>1, <1>2, <1>3, <1>4, <1>5, <1>6, <1>15 DEF Inv, Copies, Visible
<1>10. Written'
  BY <1>1, <1>2, <1>3, <1>4, <1>5, <1>6 DEF Inv, Written, Superseded
<1>11. Served'
  <2>1. \A q \in Requests : \A j : CellOf(q, j)' = CellOf(q, j)
    BY <1>1, <1>2 DEF CellOf
  <2>2. \A d, n : Serves(d, n) => Serves(d, n)'
    BY <1>1, <1>5 DEF Serves
  <2>3. ASSUME req[r].key \in req[r].todo
        PROVE  Serves(CellOf(r, req[r].key), req[r].wrote)'
    <3>1. CellOf(r, req[r].key) \in lost'
      BY <2>3, <1>3
    <3>2. CellOf(r, req[r].key)' = CellOf(r, req[r].key)
      BY <1>1, <1>2 DEF CellOf
    <3> QED
      BY <3>1, <3>2 DEF Serves
  <2>4. \A q \in Requests \ {r} : req'[q] = req[q]
    BY <1>2
  <2>5. ASSUME req[r].op \in Returning, req'[r].pc \in {"clear", "get"}
        PROVE  Serves(CellOf(r, req[r].key), req[r].wrote)'
    <3>1. req[r].pc \in {"clear", "get"}
      BY <2>5, <1>2
    <3>2. \/ req[r].key \in req[r].todo
          \/ Serves(CellOf(r, req[r].key), req[r].wrote)
      BY <2>5, <3>1 DEF Inv, Served
    <3>3. req'[r].key = req[r].key /\ req'[r].wrote = req[r].wrote
      BY <1>2
    <3> QED
      BY <3>2, <3>3, <2>1, <2>2, <2>3
  <2> QED
    BY <2>1, <2>2, <2>4, <2>5, <1>2 DEF Inv, Served
<1>12. Told'
  BY <1>1, <1>2, <1>3, <1>4, <1>5, <1>6 DEF Inv, Told, FailedThoughCommitted, Superseded
<1>13. ChangesReachTheCache'
  <2>1. ASSUME NEW d \in Cells, Stale(d)'
        PROVE  \/ d \in late' \cup lost'
               \/ \E q \in Requests : d[2] \in req'[q].todo /\ cacheOf'[req'[q].server] = d[1]
    <3>1. Stale(d)
      BY <2>1, <1>1 DEF Stale
    <3>2. ASSUME NEW q \in Requests, d[2] \in req[q].todo, cacheOf[req[q].server] = d[1]
          PROVE  \/ d \in lost'
                 \/ d[2] \in req'[q].todo /\ cacheOf'[req'[q].server] = d[1]
      <4>1. CASE q = r
        <5>1. d = CellOf(r, d[2])
          BY <3>2, <4>1, <1>4 DEF Cells
        <5> QED
          BY <5>1, <3>2, <4>1, <1>3
      <4>2. CASE q # r
        BY <4>2, <3>2, <1>1, <1>2
      <4> QED
        BY <4>1, <4>2
    <3> QED
      BY <3>1, <3>2, <1>1, <1>5 DEF Inv, ChangesReachTheCache
  <2> QED
    BY <2>1 DEF ChangesReachTheCache
<1>14. WritersSeeTheirChange'
  BY <1>1, <1>2, <1>3, <1>4, <1>5, <1>6 DEF Inv, WritersSeeTheirChange
<1> QED
  BY <1>7, <1>8, <1>9, <1>10, <1>11, <1>12, <1>13, <1>14 DEF Inv

LEMMA FillCacheKeeps ==
    ASSUME Inv, NEW r \in Requests, FillCache(r)
    PROVE  Inv'
<1>0. PICK p \in Cells : p = CellOf(r, req[r].key)
  BY CellsType DEF Inv, Shape, RequestType
<1>1. /\ req[r].pc = "set"
      /\ cell' = [cell EXCEPT ![p] = req[r].copy]
      /\ late' = IF req[r].old THEN late \cup {p} ELSE late \ {p}
      /\ lost' = lost \ {p}
      /\ Answer(r, "success", req[r].copy, FALSE)
      /\ UNCHANGED <<plan, cacheOf, row, unread>>
  BY <1>0 DEF FillCache, At, setup
<1>2. /\ req[r].copy \in RowType /\ req[r].copy.version >= req[r].wrote
      /\ req[r].old \/ (req[r].copy = row /\ Visible(req[r].key))
      /\ req[r].op \in Writers => req[r].wrote > 0
  BY <1>1 DEF Inv, Copies, Progress
<1>3. FALSE \in BOOLEAN /\ "success" \in {"success", "failed"} /\ "success" # "failed"
  OBVIOUS
<1>4. /\ req' \in [Requests -> RequestType]
      /\ \A q \in Requests \ {r} : req'[q] = req[q]
      /\ req'[r].op = req[r].op /\ req'[r].pc = "done"
      /\ req'[r].status = "success"
      /\ req'[r].wrote = req[r].wrote /\ req'[r].todo = req[r].todo
      /\ req'[r].server = req[r].server
      /\ req[r].op \in Returning => req'[r].copy = req[r].copy
      /\ saving' \subseteq saving \cup {r}
      /\ r \in saving' \ saving => req[r].op \in Writers
      /\ log' = log
  BY <1>1, <1>2, <1>3, AnswerShape DEF Inv
<1>5. p \in Cells /\ p[2] = req[r].key
  BY <1>0 DEF CellOf
<1>6. cell'[p] = req[r].copy /\ \A d \in Cells \ {p} : cell'[d] = cell[d]
  BY <1>1, <1>5 DEF Inv, Shape
<1>7. ~req[r].old => ~Stale(p)'
  <2>1. ASSUME ~req[r].old
        PROVE  ~Stale(p)'
    <3>1. req[r].copy = row /\ ~row.gone /\ (row.deleted => req[r].key)
      BY <1>2, <2>1 DEF Visible
    <3>2. cell'[p] = row' /\ ~row'.gone /\ (row'.deleted => p[2])
      BY <3>1, <1>1, <1>5, <1>6
    <3> QED
      BY <3>2 DEF Stale
  <2> QED
    BY <2>1
<1>8. /\ req[r].old => p \in late'
      /\ \A d \in Cells \ {p} : d \in late \cup lost <=> d \in late' \cup lost'
  BY <1>1
<1>9. /\ row \in RowType /\ \A q \in Requests : req[q].wrote <= row.version
      /\ \A q \in Requests : req[q].key \in Keys /\ \A j \in Keys : CellOf(q, j) \in Cells
  BY CellsType DEF Inv, Shape, Written, RequestType
<1>18. \A q \in Requests : Superseded(q) => Superseded(q)'
  BY <1>4 DEF Superseded
<1>10. Shape'
  BY <1>1, <1>2, <1>3, <1>4, <1>5, <1>6, <1>8, <1>9 DEF Inv, Shape
<1>11. Progress'
  BY <1>1, <1>2, <1>3, <1>4, <1>5, <1>6, <1>8, <1>9 DEF Inv, Progress
<1>12. Copies'
  BY <1>1, <1>2, <1>3, <1>4, <1>5, <1>6, <1>8, <1>9 DEF Inv, Copies, Visible
<1>13. Written'
  BY <1>1, <1>4, <1>18 DEF Inv, Written
<1>14. Served'
  <2>1. ASSUME NEW q \in Requests \ {r}, req[q].op \in Returning, req[q].pc \in {"clear", "get"}
        PROVE  \/ req[q].pc = "clear" /\ req[q].key \in req[q].todo
               \/ Serves(CellOf(q, req[q].key), req[q].wrote)'
    <3>1. CellOf(q, req[q].key)' = CellOf(q, req[q].key) /\ CellOf(q, req[q].key) \in Cells
      BY <1>1, <1>4, <1>9 DEF CellOf
    <3>2. req'[q].wrote = req[q].wrote
      BY <1>4
    <3>3. CASE CellOf(q, req[q].key) = p
      BY <3>1, <3>2, <3>3, <1>2, <1>6, <1>8, <1>9 DEF Serves
    <3>4. CASE CellOf(q, req[q].key) # p
      BY <2>1, <3>1, <3>2, <3>4, <1>6, <1>8 DEF Serves, Inv, Served
    <3> QED
      BY <3>3, <3>4
  <2>2. \A q \in Requests \ {r} : req'[q] = req[q]
    BY <1>4
  <2> QED
    BY <2>1, <2>2, <1>4 DEF Served
<1>15. Told'
  BY <1>1, <1>2, <1>4, <1>18 DEF Inv, Told, FailedThoughCommitted
<1>16. ChangesReachTheCache'
  <2>1. ASSUME NEW d \in Cells \ {p}, Stale(d)'
        PROVE  \/ d \in late' \cup lost'
               \/ \E q \in Requests : d[2] \in req'[q].todo /\ cacheOf'[req'[q].server] = d[1]
    <3>1. Stale(d)
      BY <2>1, <1>1, <1>6 DEF Stale
    <3> QED
      BY <3>1, <1>1, <1>4, <1>8 DEF Inv, ChangesReachTheCache
  <2> QED
    <3>1. p \in late' \/ ~Stale(p)'
      BY <1>7, <1>8
    <3> QED
      BY <2>1, <3>1 DEF ChangesReachTheCache
<1>17. WritersSeeTheirChange'
  BY <1>1, <1>2, <1>3, <1>4, <1>5, <1>6, <1>8, <1>9 DEF Inv, WritersSeeTheirChange
<1> QED
  BY <1>10, <1>11, <1>12, <1>13, <1>14, <1>15, <1>16, <1>17 DEF Inv

LEMMA CommitKeeps ==
    ASSUME Inv, NEW r \in Requests, Commit(r)
    PROVE  Inv'
<1>1. /\ req[r].pc = "tx" /\ Transaction(r)
      /\ req' = [q \in Requests |->
             IF q = r THEN [req[r] EXCEPT !.pc = "clear", !.todo = Cleared,
                                          !.wrote = row.version + 1]
             ELSE [req[q] EXCEPT !.old = @ \/ At(q, "set")]]
      /\ lost' = lost \cup {p \in Cells : p[1] # cacheOf[req[r].server] /\ cell[p] # Empty}
      /\ UNCHANGED <<plan, cacheOf, cell, saving, log, late, unread>>
  BY DEF Commit, At, setup, auditVars
<1>2. /\ req[r].op \in Writers /\ req[r].status = "none" /\ req[r].wrote = 0
      /\ r \notin saving \cup log
  BY <1>1 DEF Inv, Progress, Told
<1>3. /\ row' \in RowType /\ row'.version = row.version + 1
      /\ req[r].op \notin Deleting => ~row'.deleted /\ ~row'.gone
  BY <1>1, <1>2, TransactionRow DEF Inv
<1>4. row.version \in Nat /\ row \in RowType
  BY DEF Inv, Shape, RowType
<1> DEFINE n == row.version + 1
<1>5. /\ req'[r] \in RequestType
      /\ req'[r].pc = "clear" /\ req'[r].todo = Keys /\ req'[r].wrote = n
      /\ req'[r].op = req[r].op /\ req'[r].key = req[r].key
      /\ req'[r].status = req[r].status /\ req'[r].server = req[r].server
  <2>1. req[r] \in RequestType /\ n \in Nat /\ Keys \in SUBSET Keys
    BY <1>4 DEF Inv, Shape
  <2>2. req'[r] = [req[r] EXCEPT !.pc = "clear", !.todo = Keys, !.wrote = n]
    BY <1>1 DEF Cleared
  <2> HIDE DEF n
  <2> QED
    BY <2>1, <2>2 DEF RequestType, Pcs
<1>6. ASSUME NEW q \in Requests \ {r}
      PROVE  /\ req'[q] \in RequestType
             /\ req[q].pc = "set" => req'[q].old = TRUE
             /\ req'[q].pc = req[q].pc /\ req'[q].todo = req[q].todo
             /\ req'[q].wrote = req[q].wrote /\ req'[q].op = req[q].op
             /\ req'[q].key = req[q].key /\ req'[q].status = req[q].status
             /\ req'[q].server = req[q].server /\ req'[q].copy = req[q].copy
             /\ req'[q].doubt = req[q].doubt
  <2> DEFINE o == req[q].old \/ At(q, "set")
  <2>1. o \in BOOLEAN /\ (req[q].pc = "set" => o = TRUE)
    BY DEF At
  <2>2. req[q] \in RequestType
    BY DEF Inv, Shape
  <2>3. req'[q] = [req[q] EXCEPT !.old = o]
    BY <1>1
  <2> HIDE DEF o
  <2> QED
    BY <2>1, <2>2, <2>3 DEF RequestType
<1> HIDE DEF n
<1>7. n = row.version + 1
  BY DEF n
<1>8. \A q \in Requests : req[q].wrote \in Nat /\ req[q].wrote <= row.version
  BY DEF Inv, Shape, Written, RequestType
<1>9. \A q \in Requests : \A j : CellOf(q, j)' = CellOf(q, j)
  BY <1>1, <1>5, <1>6 DEF CellOf
<1>10. req' \in [Requests -> RequestType]
  BY <1>1, <1>5, <1>6
<1>19. /\ \A q \in Requests \ {r} : Superseded(q) => Superseded(q)'
       /\ req[r].op \in Deleting => \A q \in Requests \ {r} : Superseded(q)'
  <2>1. \A q \in Requests \ {r} : req'[q].wrote = req[q].wrote /\ req'[q].op = req[q].op
    BY <1>6
  <2> QED
    <3>1. ASSUME NEW q \in Requests \ {r}, NEW w \in Requests,
                 req[w].op \in Deleting, req[w].wrote > req[q].wrote
          PROVE  req'[w].op \in Deleting /\ req'[w].wrote > req'[q].wrote
      <4>1. q \in Requests /\ req[w].wrote > req[q].wrote
        BY <3>1
      <4>2. req[q].wrote \in Nat /\ req[w].wrote \in Nat
        BY <4>1, <1>8
      <4>3. req[w].wrote # 0
        BY <4>1, <4>2
      <4>4. w # r
        BY <4>3, <1>2
      <4> QED
        BY <3>1, <4>4, <2>1
    <3>2. ASSUME NEW q \in Requests \ {r}, req[r].op \in Deleting
          PROVE  req'[r].op \in Deleting /\ req'[r].wrote > req'[q].wrote
      <4>1. req[q].wrote \in Nat /\ req[q].wrote <= row.version
        BY <1>8
      <4>2. req'[r].wrote = row.version + 1 /\ req'[r].op = req[r].op
        BY <1>5, <1>7
      <4> QED
        BY <3>2, <4>1, <4>2, <2>1, <1>4
    <3> QED
      BY <3>1, <3>2 DEF Superseded
<1>11. Shape'
  BY <1>1, <1>2, <1>3, <1>4, <1>5, <1>6, <1>7, <1>8, <1>10 DEF Inv, Shape
<1>12. Progress'
  BY <1>1, <1>2, <1>3, <1>4, <1>5, <1>6, <1>7, <1>8, <1>10 DEF Inv, Progress
<1>13. Copies'
  <2>1. ASSUME NEW q \in Requests, req'[q].pc = "set"
        PROVE  /\ req'[q].copy \in RowType /\ req'[q].copy.version >= req'[q].wrote
               /\ req'[q].old
    <3>1. q # r /\ req[q].pc = "set"
      BY <2>1, <1>5, <1>6
    <3>2. req[q].copy \in RowType /\ req[q].copy.version >= req[q].wrote
      BY <3>1 DEF Inv, Copies
    <3>3. req'[q].old = TRUE
      BY <3>1, <1>6
    <3>4. req'[q].copy = req[q].copy /\ req'[q].wrote = req[q].wrote
      BY <3>1, <1>6
    <3> QED
      BY <3>2, <3>3, <3>4
  <2> QED
    BY <2>1 DEF Copies
<1>14. Written'
  <2>1. ASSUME NEW q \in Requests
        PROVE  /\ req'[q].wrote <= row'.version
               /\ req'[q].op \notin Deleting /\ req'[q].wrote > 0
                    /\ (row'.deleted \/ row'.gone) => Superseded(q)'
    <3>1. CASE q = r
      BY <3>1, <1>3, <1>4, <1>5, <1>7
    <3>2. CASE q # r
      <4>1. req'[q].wrote = req[q].wrote /\ req'[q].op = req[q].op
        BY <3>2, <1>6
      <4>2. req'[q].wrote <= row'.version
        BY <4>1, <1>3, <1>4, <1>8
      <4>3. CASE req[r].op \in Deleting
        BY <4>2, <4>3, <3>2, <1>19
      <4>4. CASE req[r].op \notin Deleting
        BY <4>2, <4>4, <1>3
      <4> QED
        BY <4>3, <4>4
    <3> QED
      BY <3>1, <3>2
  <2> QED
    BY <2>1 DEF Written
<1>15. Served'
  <2>1. req'[r].key \in req'[r].todo
    BY <1>5, <1>10 DEF RequestType
  <2>2. \A d, i : Serves(d, i) => Serves(d, i)'
    BY <1>1 DEF Serves
  <2>3. ASSUME NEW q \in Requests \ {r}, req'[q].op \in Returning, req'[q].pc \in {"clear", "get"}
        PROVE  \/ req'[q].pc = "clear" /\ req'[q].key \in req'[q].todo
               \/ Serves(CellOf(q, req[q].key), req[q].wrote)'
    <3>1. \/ req[q].pc = "clear" /\ req[q].key \in req[q].todo
          \/ Serves(CellOf(q, req[q].key), req[q].wrote)
      BY <2>3, <1>6 DEF Inv, Served
    <3>2. req'[q].key = req[q].key /\ req'[q].wrote = req[q].wrote
      BY <1>6
    <3> QED
      <4>1. CellOf(q, req[q].key)' = CellOf(q, req[q].key)
        BY <1>9, <3>2
      <4>2. \/ req'[q].pc = "clear" /\ req'[q].key \in req'[q].todo
            \/ Serves(CellOf(q, req[q].key), req[q].wrote)
        BY <3>1, <1>6
      <4> QED
        BY <4>1, <4>2, <3>2, <1>1 DEF Serves
  <2> QED
    BY <2>1, <2>3, <1>5 DEF Served
<1>16. Told'
  BY <1>1, <1>2, <1>5, <1>6, <1>19 DEF Inv, Told, FailedThoughCommitted
<1>17. ChangesReachTheCache'
  <2>1. ASSUME NEW d \in Cells, Stale(d)'
        PROVE  d \in lost' \/ (d[2] \in req'[r].todo /\ cacheOf'[req'[r].server] = d[1])
    <3>1. cell[d] # Empty /\ d[2] \in Keys
      BY <2>1, <1>1 DEF Stale, Cells
    <3> QED
      BY <3>1, <1>1, <1>5
  <2> QED
    BY <2>1 DEF ChangesReachTheCache
<1>18. WritersSeeTheirChange'
  BY <1>1, <1>2, <1>3, <1>4, <1>5, <1>6, <1>7, <1>8, <1>10 DEF Inv, WritersSeeTheirChange
<1> QED
  BY <1>11, <1>12, <1>13, <1>14, <1>15, <1>16, <1>17, <1>18 DEF Inv

LEMMA CrashKeeps ==
    ASSUME Inv, NEW s \in Servers, Crash(s)
    PROVE  Inv'
<1>1. PICK gone \in SUBSET Cells :
          /\ saving' \subseteq saving
          /\ UNCHANGED <<plan, cacheOf, row, log, unread>>
          /\ cell' = [d \in Cells |-> IF d \in gone THEN Empty ELSE cell[d]]
          /\ late' = late \ gone
          /\ lost \ gone \subseteq lost'
          /\ \A d \in Cells \ gone, q \in Requests :
                 req[q].server = s /\ d[2] \in req[q].todo /\ cacheOf[req[q].server] = d[1]
                     => d \in lost'
  <2> DEFINE gone == {d \in Cells : \A t \in Servers : cacheOf[t] = d[1] <=> t = s}
             owed == {d \in Cells : d[1] = cacheOf[s] /\ \E r \in Requests :
                                        req[r].server = s /\ d[2] \in req[r].todo}
  <2>1. /\ saving' \subseteq saving
        /\ UNCHANGED <<plan, cacheOf, row, log, unread>>
        /\ cell' = [d \in Cells |-> IF d \in gone THEN Empty ELSE cell[d]]
        /\ late' = late \ gone
        /\ lost' = (lost \cup owed) \ gone
    <3>1. UNCHANGED <<plan, cacheOf, row, log, unread>>
      BY DEF Crash, setup
    <3>2. /\ cell' = [d \in Cells |-> IF d \in gone THEN Empty ELSE cell[d]]
          /\ late' = late \ gone
      BY DEF Crash
    <3>3. lost' = (lost \cup owed) \ gone
      BY DEF Crash
    <3>4. saving' \subseteq saving
      BY DEF Crash
    <3> QED
      BY <3>1, <3>2, <3>3, <3>4
  <2>2. ASSUME NEW d \in Cells \ gone, NEW q \in Requests, req[q].server = s,
               d[2] \in req[q].todo, cacheOf[req[q].server] = d[1]
        PROVE  d \in lost'
    <3>1. d \in owed
      BY <2>2
    <3> QED
      BY <3>1, <2>1, <2>2
  <2>3. gone \in SUBSET Cells
    OBVIOUS
  <2> HIDE DEF gone, owed
  <2>4. lost \ gone \subseteq lost'
    BY <2>1
  <2> QED
    BY <2>1, <2>2, <2>3, <2>4
<1>2. ASSUME NEW q \in Requests
      PROVE  /\ req'[q] \in RequestType
             /\ req'[q].op = req[q].op /\ req'[q].key = req[q].key
             /\ req'[q].wrote = req[q].wrote /\ req'[q].status = req[q].status
             /\ req'[q].server = req[q].server /\ req'[q].old = req[q].old
             /\ req'[q].copy = req[q].copy /\ req'[q].doubt = req[q].doubt
             /\ req'[q].pc = "lost" \/ req'[q].pc = req[q].pc
             /\ req'[q].todo = {} \/ req'[q].todo = req[q].todo
             /\ req[q].server # s => req'[q].todo = req[q].todo
             /\ req'[q].pc \in {"clear", "get"} => req[q].server # s
  <2> DEFINE mine == {r \in Requests : req[r].server = s /\ ~At(r, "ready")
                                           /\ (~At(r, "done") \/ r \in saving)}
  <2>1. req'[q] = IF q \in mine THEN [req[q] EXCEPT !.pc = "lost", !.todo = {}]
                  ELSE IF req[q].server = s THEN [req[q] EXCEPT !.todo = {}] ELSE req[q]
    BY DEF Crash
  <2>2. req[q] \in RequestType
    BY DEF Inv, Shape
  <2>3. CASE q \in mine
    <3>1. req'[q] = [req[q] EXCEPT !.pc = "lost", !.todo = {}]
      BY <2>1, <2>3
    <3>2. req[q].server = s
      BY <2>3
    <3> HIDE DEF mine
    <3> QED
      BY <3>1, <3>2, <2>2 DEF RequestType, Pcs
  <2>4. CASE q \notin mine /\ req[q].server = s
    <3>1. req'[q] = [req[q] EXCEPT !.todo = {}]
      BY <2>1, <2>4
    <3>2. req[q].pc \notin {"clear", "get"}
      BY <2>4 DEF At
    <3> HIDE DEF mine
    <3> QED
      BY <3>1, <3>2, <2>2, <2>4 DEF RequestType, Pcs
  <2>5. CASE q \notin mine /\ req[q].server # s
    BY <2>1, <2>2, <2>5
  <2> QED
    BY <2>3, <2>4, <2>5
<1>3. req' \in [Requests -> RequestType]
  <2>1. PICK f : req' = [q \in Requests |-> f[q]]
    <3> DEFINE mine == {r \in Requests : req[r].server = s /\ ~At(r, "ready")
                                           /\ (~At(r, "done") \/ r \in saving)}
    <3>1. req' = [r \in Requests |-> IF r \in mine
                      THEN [req[r] EXCEPT !.pc = "lost", !.todo = {}] ELSE
                      IF req[r].server = s THEN [req[r] EXCEPT !.todo = {}] ELSE req[r]]
      BY DEF Crash
    <3> HIDE DEF mine
    <3> QED
      BY <3>1
  <2> QED
    BY <2>1, <1>2
<1>4. \A q \in Requests : \A j : CellOf(q, j)' = CellOf(q, j)
  BY <1>1, <1>2 DEF CellOf
<1>5. \A q \in Requests : req[q].key \in Keys /\ CellOf(q, req[q].key) \in Cells
  BY CellsType DEF Inv, Shape, RequestType
<1>6. Shape'
  BY <1>1, <1>2, <1>3 DEF Inv, Shape
<1>7. Progress'
  BY <1>1, <1>2, <1>3 DEF Inv, Progress
<1>8. Copies'
  BY <1>1, <1>2, <1>3 DEF Inv, Copies, Visible
<1>9. Written'
  BY <1>1, <1>2, <1>3 DEF Inv, Written, Superseded
<1>10. Served'
  <2>1. ASSUME NEW q \in Requests, req'[q].op \in Returning, req'[q].pc \in {"clear", "get"}
        PROVE  \/ req'[q].pc = "clear" /\ req'[q].key \in req'[q].todo
               \/ Serves(CellOf(q, req[q].key), req[q].wrote)'
    <3>1. /\ req'[q].pc = req[q].pc /\ req'[q].todo = req[q].todo
          /\ req'[q].key = req[q].key /\ req'[q].wrote = req[q].wrote
      BY <2>1, <1>2
    <3>2. \/ req[q].pc = "clear" /\ req[q].key \in req[q].todo
          \/ Serves(CellOf(q, req[q].key), req[q].wrote)
      BY <2>1, <3>1, <1>2 DEF Inv, Served
    <3>3. CellOf(q, req[q].key)' = CellOf(q, req[q].key)
      BY <3>1, <1>4
    <3> QED
      BY <3>1, <3>2, <3>3, <1>1, <1>5 DEF Serves
  <2> QED
    BY <2>1 DEF Served
<1>11. Told'
  <2>1. \A q \in Requests : req'[q].op = req[q].op /\ req'[q].status = req[q].status
                               /\ req'[q].wrote = req[q].wrote
                               /\ (req'[q].pc = "lost" \/ req'[q].pc = req[q].pc)
    BY <1>2
  <2> QED
    BY <2>1, <1>1 DEF Inv, Told, FailedThoughCommitted, Superseded
<1>12. ChangesReachTheCache'
  <2>1. ASSUME NEW d \in Cells, Stale(d)'
        PROVE  \/ d \in late' \cup lost'
               \/ \E q \in Requests : d[2] \in req'[q].todo /\ cacheOf'[req'[q].server] = d[1]
    <3>1. Stale(d) /\ d \notin gone
      BY <2>1, <1>1 DEF Stale
    <3>2. ASSUME NEW q \in Requests, d[2] \in req[q].todo, cacheOf[req[q].server] = d[1]
          PROVE  d \in lost' \/ (d[2] \in req'[q].todo /\ cacheOf'[req'[q].server] = d[1])
      BY <3>1, <3>2, <1>1, <1>2
    <3> QED
      BY <3>1, <3>2, <1>1 DEF Inv, ChangesReachTheCache
  <2> QED
    BY <2>1 DEF ChangesReachTheCache
<1>13. WritersSeeTheirChange'
  BY <1>1, <1>2, <1>3 DEF Inv, WritersSeeTheirChange
<1> QED
  BY <1>6, <1>7, <1>8, <1>9, <1>10, <1>11, <1>12, <1>13 DEF Inv

-----------------------------------------------------------------------------

LEMMA InitInv == Init => Inv
<1> SUFFICES ASSUME Init PROVE Inv
  OBVIOUS
<1>1. /\ plan \in Plans /\ cacheOf \in [Servers -> Caches]
      /\ saving = {} /\ log = {} /\ row.version = 0
      /\ cell = [p \in Cells |-> Empty] /\ req = [r \in Requests |-> Idle]
      /\ row \in RowType
  <2>1. row \in [version : {0}, deleted : BOOLEAN, gone : {FALSE}]
    BY DEF Init
  <2>2. {FALSE} \subseteq BOOLEAN /\ {0} \subseteq Nat
    OBVIOUS
  <2>3. row.version = 0 /\ row \in RowType
    BY <2>1, <2>2 DEF RowType
  <2> QED
    BY <2>3 DEF Init
<1>2. /\ Idle \in RequestType /\ Idle.todo = {} /\ Idle.wrote = 0
      /\ Idle.status = "none" /\ Idle.pc = "ready"
  <2>1. Idle.server \in Servers /\ FALSE \in BOOLEAN
    BY DEF Idle
  <2>2. \A f \in BOOLEAN, t \in Servers, e \in {Empty} :
            [op |-> "none", pc |-> "ready", server |-> t, key |-> f, copy |-> e, old |-> f,
             todo |-> {}, wrote |-> 0, doubt |-> f, status |-> "none"] \in RequestType
    BY DEF RequestType, Pcs, Keys
  <2> QED
    BY <2>1, <2>2 DEF Idle
<1> HIDE DEF Idle
<1> QED
  BY <1>1, <1>2 DEF Inv, Shape, Progress, Copies, Written, Superseded, Served, Told, FailedThoughCommitted,
        ChangesReachTheCache, Stale, WritersSeeTheirChange

LEMMA StepInv == Inv /\ [Next]_vars => Inv'
<1> SUFFICES ASSUME Inv, [Next]_vars PROVE Inv'
  OBVIOUS
<1>1. CASE UNCHANGED vars
  <2>1. UNCHANGED <<plan, cacheOf, row, cell, req, saving, log, late, lost, unread>>
    BY <1>1 DEF vars, setup, auditVars, historyVars
  <2> QED
    BY <2>1 DEF Inv, Shape, Progress, Copies, Visible, Written, Superseded, Served, Serves, CellOf,
          Told, FailedThoughCommitted, ChangesReachTheCache, Stale, WritersSeeTheirChange
<1>2. ASSUME NEW r \in Requests, Start(r) PROVE Inv'
  BY <1>2, StartKeeps
<1>3. ASSUME NEW r \in Requests, Step(r) PROVE Inv'
  <2>1. CASE Commit(r)
    BY <2>1, CommitKeeps
  <2>2. CASE Refuse(r) \/ StatusUnchanged(r)
    BY <2>2, RefuseKeeps, StatusUnchangedKeeps
  <2>3. CASE \E k \in Keys : ClearKey(r, k) \/ ClearFails(r, k)
    BY <2>3, ClearKeyKeeps, ClearFailsKeeps
  <2>4. CASE ClearDone(r)
    BY <2>4, ClearDoneKeeps
  <2>5. CASE CacheHit(r) \/ CacheMiss(r) \/ FindRow(r) \/ NotFound(r)
    BY <2>5, CacheHitKeeps, CacheMissKeeps, FindRowKeeps, NotFoundKeeps
  <2>8. CASE FindFails(r) \/ ItemRead(r) \/ ItemNotFound(r) \/ ItemReadFails(r)
    BY <2>8, FindFailsKeeps, ItemReadKeeps, ItemNotFoundKeeps, ItemReadFailsKeeps
  <2>6. CASE FillCache(r) \/ FillFails(r)
    BY <2>6, FillCacheKeeps, FillFailsKeeps
  <2>7. CASE LogSaved(r) \/ LogFails(r)
    BY <2>7, LogSavedKeeps, LogFailsKeeps
  <2> QED
    BY <1>3, <2>1, <2>2, <2>3, <2>4, <2>5, <2>6, <2>7, <2>8 DEF Step
<1>4. ASSUME NEW p \in Cells, Expire(p) PROVE Inv'
  BY <1>4, ExpireKeeps
<1>5. ASSUME NEW s \in Servers, Crash(s) PROVE Inv'
  BY <1>5, CrashKeeps
<1> QED
  BY <1>1, <1>2, <1>3, <1>4, <1>5 DEF Next

LEMMA Invariance == Spec => []Inv
BY InitInv, StepInv, PTL DEF Spec

(* A cache entry that differs from the row will be cleared, or belongs to  *)
(* a late fill or a lost clear, whatever requests run, on however many     *)
(* servers and caches, and whatever fails.                                 *)
THEOREM CacheFollowsRow == Spec => []ChangesReachTheCache
BY Invariance, PTL DEF Inv

(* A writer reads its own change, or a later one, back through the cache.  *)
THEOREM WritersReadBack == Spec => []WritersSeeTheirChange
BY Invariance, PTL DEF Inv

(* SUCCESS in the audit log is a change, or a status that was there.       *)
(* FAILED of a committed change is never a deletion's: the read-back threw, *)
(* or a deletion of another request had taken away what it reads.          *)
THEOREM AuditTruthful == Spec => []AuditTellsTheTruth
<1>1. Inv => AuditTellsTheTruth
  BY DEF Inv, Told, Superseded, AuditTellsTheTruth
<1> QED
  BY <1>1, Invariance, PTL

=============================================================================
