# Container Management System: TLA+ specifications

This directory holds the formal model of the Container Management System: a
NestJS backend over PostgreSQL, Redis and an S3 object store, and a React
client. The modules are translated from the TypeScript under `src/`; TLC checks
them on small instances and TLAPS proves the main theorems for all instances.

- [1. The system](#1-the-system)
- [2. Modules](#2-modules)
- [3. How the models correspond to the code](#3-how-the-models-correspond-to-the-code)
- [4. Runs](#4-runs)
- [5. Findings and known gaps](#5-findings-and-known-gaps)
- [6. Proofs](#6-proofs)
- [7. Not modelled, and the plan](#7-not-modelled-and-the-plan)

To repeat a check: `tlc -config Inventory.cfg MCInventory` and
`tlapm InventoryProofs.tla`. `PROJECT.json` lists every run with its
properties, the source lines of every definition, the hazards and the findings.

## 1. The system

### Components, their state and how they interact

| Component | State | Operations | Talks to |
|---|---|---|---|
| Containers service (`containers.service.ts`) | table `containers`: totalVolume, usedVolume, status, deletedAt | create, update, updateStatus, softDelete, restore, permanentDelete, updateUsedVolume, cleanupExpiredContainers, findOne | items rows, container cache, files service |
| Items service (`items.service.ts`) | table `items`: containerId, totalVolume, deletedAt, deletedByContainer, photo | create, update, softDelete, restore, permanentDelete, cleanupExpiredItems | container row (lock, usedVolume), caches, files service |
| Auth service (`auth.service.ts`, `jwt.strategy.ts`) | table `refresh_tokens`; Redis keys `session:<user>:<sid>` and the ZSET of a user's sessions | login, refresh, logout, logoutAll, listing and revoking sessions, password and account changes | PostgreSQL, Redis, mail |
| User accounts (same file) | table `users`: password, loginAttempts, lockedUntil, reset-token fields, deletedAt | register, forgotPassword, resetPassword, softDelete, restore, permanentDelete | refresh tokens, sessions |
| Cleanup scheduler (`cleanup.service.ts`) | advisory lock, a flag per process | one nightly job | containers and items services |
| Files service | S3 objects, `items.photo` | upload, delete, signed URL | items rows |
| Audit trail | table `audit_logs` | write after each answered request | every handler |
| Browser token client (`axios.config.ts`, `AuthContext.tsx`) | localStorage tokens, a single-flight flag and a queue per tab | request, refresh, login, logout | auth endpoints |
| Browser contexts, pages | React state | load, edit, filter | REST endpoints |
| Reports, mail, HTTP shell, configuration | none of their own | queries, formatting, wiring | |

Requests of many users run interleaved in one Node.js process or several
replicas: every `await` is a point where another request may run.

### What is hard here, and what makes each component correct

* **Containers and items** keep a denormalised `usedVolume` up to date along
  three different paths (add, exact SUM, rounded SUM), and two kinds of soft
  deletion (an item alone, or with its container) that restore paths must tell
  apart. Item operations learn their container from a row they read without a
  lock. Correct means: the sum is right up to the rounding the code does, a
  container is never over-filled beyond it, an item is in exactly one of
  the states its restore paths can leave, a sealed container's content is what
  comes back.
* **Sessions** live in two stores that no transaction spans, and every Redis
  call may fail after taking effect. Correct means: a refresh token is
  used at most once, a session that ended never works again, a change of
  credentials ends what came before, and the two stores agree when nothing is
  in flight.
* **Cleanup** runs on every replica under a lock that lives on one connection
  while the work is done on others, and purges rows it read some time ago.
  Correct means: one run at a time, no live row purged, no expired row skipped,
  runs end, and nothing stays expired.
* **Accounts** are one row that many transactions change under its lock, and
  one handler (`forgotPassword`) without it; a rotation locks token and user in
  the other order than everybody else. Correct means: no update is lost, no
  rotation survives a sweep, every request ends although some deadlock.
* **The container cache and the audit log** are written outside the
  transactions they speak of. Correct means: an entry that is behind the row is
  about to go, a writer reads its own change, the log says what happened.
* **The browser** shares one token pair among tabs and requests, fills lists
  from answers that cross, and deletes photos on its own. Correct means: one
  refresh serves all, a list shows the latest request, a saved item keeps its
  photo, the camera goes off, a page that is done shows what was asked for.

## 2. Modules

| Module | Contents |
|---|---|
| `Volumes` | volume arithmetic: `Round2` (roundDecimal), `SumVolume` (SQL SUM) |
| `Inventory` | containers and items services over their two tables |
| `ContainerStorage` | what those services promise: containers that are open, archived (sealed) or gone |
| `MCInventory` | TLC instances and symmetry |
| `InventoryProofs` | lemmas on sums and rounding; invariants of `Inventory`; `Inventory` implements `ContainerStorage` |
| `AuthSessions` | sessions of one user over PostgreSQL and Redis |
| `SessionLedger` | what it promises of their tokens: begun once, rotated, revoked, closed |
| `MCAuthSessions` | TLC instances and symmetry |
| `AuthProofs` | invariants and an action property of `AuthSessions`; it implements `SessionLedger` |
| `Cleanup` | the nightly job of several replicas, beside users who delete and restore |
| `MCCleanup` | TLC instances and symmetry |
| `CleanupProofs` | invariants and an action property of `Cleanup` |
| `AccountLedger` | the users row and what one operation does to it: the promise of `UserAccount` |
| `UserAccount`, `MCUserAccount` | the transactions on one account, with the row locks between them |
| `UserAccountProofs` | the invariants and the action property of `UserAccount` |
| `ContainerRequests`, `MCContainerRequests` | requests about one container: row, cache entries, audit rows |
| `ContainerRequestsProofs` | the three safety properties of `ContainerRequests` |
| `TokenClient`, `MCTokenClient` | tabs with the token refresh of the axios instance, and AuthContext |
| `Browser` | what the two browser models share: slots, data versions, what is shown, failures |
| `BrowserLists`, `MCBrowserLists` | the lists and spinners of the contexts |
| `BrowserProofs` | the two safety properties of `BrowserLists`; the types and the three of `SearchPages` |
| `ItemDialog`, `MCItemDialog` | the item dialogs: photo, object store, item, camera |
| `SearchPages`, `MCSearchPages` | the three pages with a search box: debounce, effects, page numbers, refreshes |
| `SearchPagesInvariant` | the inductive invariant of `SearchPages`, part by part |
| `ItemDialogProofs` | the three safety properties of `ItemDialog` |
| `TokenClientProofs` | the four safety properties of `TokenClient` |

`Inventory` composes the two services, because they write the same container
row; `ContainerStorage` is its abstract specification. `AuthSessions` is one
module for the same reason: every operation on a session touches both stores; `SessionLedger` is
its abstract specification.
`Cleanup` has its own, smaller copy of the rows, without volumes but with
times: the two modules look at different columns of the same tables.
`UserAccount` looks at the users row and the token rows that `AuthSessions`
takes as atomic, one lock at a time, and leaves Redis to it. `TokenClient` is the
client of `AuthSessions` and sees of it what a client sees: the last token of a
session is taken, any other is refused and ends the session.
`ContainerRequests` takes the transactions of `Inventory` as one step and adds
what surrounds them. `SearchPages` models of the item list what one page sees: its own
loads, and the guard among them. It shares with `BrowserLists` the declarations of `Browser`, and gives
them its own types and steps; the definitions of one that have a counterpart in the other carry
another name (`PagesInit`, `PagesNext`, `PagesSpec`), so that one proof module can extend both. `ItemDialog` composes a dialog with the files service and
the items service.

In each module, a definition named in a comment as a *mutant* is a plausible
wrong version of the one that follows it; it is not used by the specification
and serves to check that the properties would notice.

## 3. How the models correspond to the code

### Inventory

| Model | Code |
|---|---|
| `containerState`, `itemState` | row missing, `deletedAt IS NULL`, `deletedAt` set, row deleted for good |
| `status`, `totalVolume`, `usedVolume` | the columns of `containers` |
| `containerId`, `itemVolume`, `deletedByContainer` | columns of `items` |
| `ref[w]` | the result of `findItemReference`, held by a request that waits for the container lock |
| `UsedVolumeCheck` | constraint `CHK_containers_used_volume`: the statement fails, the transaction rolls back |
| one action per service method | one transaction under the lock of the container row |

A transaction locks the container row `FOR UPDATE` before it reads what it
decides on, so it is one action. The item operations `update`, `softDelete`,
`restore` and `permanentDelete` read the item first, without a lock: that read
(`FindItemReference`) and the rest of the transaction are two actions, and
any operation may run between them. `Abort` covers every refusal and rollback.

Volumes are integers in the finest unit of the `items` table; `Scale` is the
number of those units in the hundredth that `containers.service.ts` rounds to.
The JavaScript numbers between the two are taken to be exact: at the sizes the
DTOs allow, a double holds them to well below that unit. `SumVolume` counts
unit cells rather than adding with a recursion, which gives the same number and
lets the provers reason about it with cardinalities.

Names, descriptive fields, photos, caches and audit rows are left out.

### AuthSessions

| Model | Code |
|---|---|
| `tokenSession`, `active` | `refresh_tokens.sessionId`, `isActive` |
| `session[s]` | Redis key `session:<user>:<sid>`: the token whose hash it holds |
| `index` | the ZSET of session ids; sessions are numbered by score |
| `account`, `password` | the user row, and a version number of its password |
| `req[r]` | where a request stands and its local variables |
| `issued`, `granted` | tokens and sessions the client was told of |
| `barred`, `loginPassword` | history only: sessions ended by a credential change, password a login checked |

Each SQL statement or transaction and each Redis command, `MULTI` or script is
an action; `req[r].pc` names the one to run next. `RedisWrite` lets the call
succeed or report an error whether or not it took effect; `Crash` ends a
request at any point. Transactions that hold the user row `FOR UPDATE` exclude
token inserts, whose foreign key takes a lock on that row. `logoutAll` holds
no such lock, so its UPDATE is split into snapshot and write.

`enforceSessionLimit` is modelled as the client library makes it run. `zpopmin` answers one flat list of
strings, id and score in turn, and the loop takes each string for a pair: what it calls a session id is a
single character. So `LoginPop` takes the oldest members out of the index, and the loop (`EvictRead`,
`EvictDelete`, one turn per string of the answer) looks for a session that does not exist; the
sessions popped keep their keys and their tokens. After a failure `EvictRestore` adds the character to
the index (`Strays`), or fails, when the second character is no digit and Redis refuses the score. The
characters are told apart up to `MaxStrays`.

Abstractions: the session lookup and the user lookup of `JwtStrategy.validate`
are one step; a refresh token may be refused as expired at any time; access
tokens are valid as long as their session; two sessions never get the same
millisecond score and clocks agree; a session key never holds malformed JSON;
the lockout of an account is a refused login and changes no session.

`SessionLedger` has no requests and no failures. It keeps `tokenSession`, `active` and `session`, and a
set of `offers`: a new token that some key may still be changed to, with the token it replaces. In
`AuthSessions` these are what the requests at `"open"` and `"cas"` are about to write (`Offers`). A session
begins once, a token is followed by at most one, an offer is taken at most once and only from the
token it replaces; so a session with no active row never has one again, and a key that was closed is
not reopened. What the client is told, the index and the limit are not in the ledger.

### Cleanup

| Model | Code |
|---|---|
| `containerState`, `itemState`, `flagged` | as in `Inventory` |
| `containerAt`, `itemAt` | `deletedAt`, a PostgreSQL timestamp |
| `lock` | the replica whose connection holds the advisory lock |
| `pooled` | that connection went back to the pool without unlocking: `release()` returns it, the session keeps the lock |
| `job[p].pc` | where the job of replica `p` stands; `"off"` is `cleanupRunning = false` |
| `job[p].cutoff`, `batch`, `cursor`, `purged` | `cutoffDate`, the rows of the batch not yet tried, `cursorDeletedAt` with `cursorId`, `deletedInBatch > 0` |
| `job[p].tried`, `lost` | history only |

Each query or transaction of the job is an action; users and other replicas act
between them. A batch is the set of its rows' keys (time, id), tried in
the order the query sorts them. The cursor is set after every row rather than
after the last of a batch; it is read only between batches. Any call may fail
(`Fail`): a query that fails ends its loop, a purge that fails is counted and
skipped, also when its effect took place. `Broken` names containers whose
deletion exceeds `statement_timeout` every time.

`Fine` instants make a millisecond. A `deletedAt` that goes through the program
is rounded down to a millisecond (`Millis`); the comparisons of the
database are not. Both retention periods are one constant, `Retention`, in
instants rather than days: only the order of times matters.

Restores refused for lack of room are left out (see `Inventory`): they are
steps that change nothing here.

### AccountLedger and UserAccount

| Model | Code |
|---|---|
| `row` | the `users` row: id, password, loginAttempts, lockedUntil, the reset token and its expiry, deletedAt |
| the operators of `AccountLedger` | the methods of `User` (`isLocked`, `lockAccount`, `setResetToken`, ...) |
| `req[r].pc`, `copy`, `diff`, `scan`, `held` | where a handler stands, the entity it read, the columns a save will write, the rows its UPDATE has to visit and holds |
| `userLock` | the request whose `SELECT ... FOR UPDATE` on the row was granted |
| `live`, `chain`, `sweeps` | rows with `isActive`; history: which sweeps a token's login had seen |

Each lock that is taken, each write that is committed and each query outside a
transaction is a step. An UPDATE of token rows visits them one by one and waits
for those another transaction holds; an insert of a token waits for the user row
(its foreign key). A cycle of waits is ended by `DeadlockVictim`, which rolls one
of its members back. `Fail` ends any request at any step.

`forgotPassword` saves an entity it read without a lock. TypeORM's `save` reads
the row again and writes the columns that differ: `ForgotLoad` and `ForgotSave`
are those two queries. `RowFollowsLedger` says that every other write is an
operation of `AccountLedger` on the row of that moment.

Abstractions: one account, two passwords; clocks are coarse, and two links never
expire in the same instant; a mailed link is the number of its request.

### ContainerRequests

| Model | Code |
|---|---|
| `row` | the container: how many commits changed it, deleted, gone |
| `cell[<<c, k>>]` | cache entry `container:<id>:<k>` in cache `c`, a copy of a row |
| `cacheOf` | the cache each server uses: one for all, or one each |
| `req[r].copy`, `todo`, `wrote` | the row `findOne` read, the keys still to be deleted, the version it committed |
| `saving`, `log` | the unawaited insert of `AuditInterceptor`, and `audit_logs` |

The handler of a write is its transaction (`Commit`), the two deletions of
`clearContainerCache`, which run side by side, and for those that end with `findOne` a
read through the cache (`CacheHit`, `CacheMiss`, `FindRow`, `FillCache`). A failed
deletion is swallowed; an entry may expire at any time. Item operations clear the
container's entries in the same way; creating, changing and restoring an item (`itemSave`) end with
`findOne` of the item, past the cache, and its signed URL (`ItemRead`), the deletions (`itemRemove`) do
not, and one of them also works in a deleted container. Any of these reads may throw (`FindFails`,
`ItemReadFails`): the change is committed and its answer an error, which `unread` remembers. `Crash` ends all requests of a server. Both
ways of wiring the cache are initial states: `app.module.ts` passes `store:
redisStore`, one shared cache, while the installed cache-manager reads `stores`
and falls back to memory in each process.

### TokenClient

| Model | Code |
|---|---|
| `storage` | localStorage, shared by the tabs |
| `user`, `isLoading`, `atLogin`, `leaving` | AuthContext and window.location of a tab |
| `isRefreshing`, `req[r].at = "queued"` | the flag and `failedQueue` |
| `req[r]` | a call of the page: what it asks, the token it was sent with, whether it is `_retry` |
| `refresh[t]` | the tab's own POST to `/auth/refresh` |
| `sessionOf`, `current` | the server's side: the session of a pair, its only valid refresh token |

Sending a request, the server's judgement and the handling of the answer are three steps.
What the interceptor does between two awaits is one action. Whether the server
ends the whole session when a spent token comes is taken from
`refreshAccessToken`. The history variables name what no client code can mend:
tokens redeemed by a page that was reloaded (`abandoned`) and sign-ins that cross
an answer about the session before (`overtaken`).

### BrowserLists

A context function is a record: which spinner it raises, whether it calls the
server, the lists it then loads and those its call changes. `FetchContainers`,
`UpdateItem` and the others are those records, one per function of the four
contexts; `Begin`, `CallAnswered` and `LoadAnswered` interpret them. `shown[l]` is
the query and the data version of the rows a list shows, `query[l]` the one its ref
remembers. `latest` is `latestItemsRequestRef`, which only the item list has;
`trust[l]` is history, lowered when unguarded loads of a list overlapped, a load
failed, or another context's write changed what it lists.

### SearchPages

| Model | Code |
|---|---|
| `mounted` | the page: `ContainersPage`, `ItemsPage` or `ContainerDetailPage` |
| `text`, `debounced`, `timer` | `searchQuery`, `debouncedSearch` and the timer of `useDebounce` |
| `pick` | `tabValue`, `selectedContainer` or `currentPage` |
| `spinner` | `isSearching`, `searchLoading` |
| `shown` | `searchResults`, and `items` of ItemContext |
| `remembered`, `latest` | `itemQueryRef`, `latestItemsRequestRef` |
| `run[s]` | a request of an effect (`live`: not cancelled since), or a handler with the parameters of its closure (`own`) |

An answer is its parameters and the version of the data the server read. `LastPage` says how
many pages a query has in each version; a change may leave fewer. `RunEffects` is what React
does after a change of what the effects depend on: the cleanup of the last run, then the
new one; an answer that makes the list shorter lowers the page number and so runs them again
(`Settle`). `order`, `retyped` and `trust` are history: the searches that may still land, in the order they were sent in, whether the
box came back to the debounced value, and why what is shown may not be what was asked for. `trust` is
judged as each answer lands. A search of the effect that lands after a later one of the effect is *not* set
apart: the cleanup has to keep it off the screen, and `ShowsWhatIsAsked` fails if it does not. Set apart
are searches that land in another order than they were sent in when one of the two is a handler's
(`SentAfter`), and a handler's answer to another box or page number than those of now (`Landed`,
`ListLanded`). `Edits` names the changes a user makes: deleting an item on the page, or anything else.
The plain lists of `ContainersPage` are those of `BrowserLists`, and item creation on
`ContainerDetailPage`, which refreshes in the same way as a deletion, is left to `ItemDialog`.

### ItemDialog

| Model | Code |
|---|---|
| `ui` | the `useState` variables of the dialog that its handlers decide on |
| `task[t]` | a handler that awaits, with the uploaded path and photo of its closure |
| `store`, `saved` | S3 objects, `items.photo` of the saved items |
| `asks`, `strays`, `lit` | `getUserMedia` calls of the dialog, those of an unmounted one, streams whose camera is on |

One module for both dialogs: they are copies of each other but for what a failure
resets, and that the page unmounts the create dialog when it closes, while the
edit dialog stays mounted and is reset by an effect on `item`. `Render` is one
pass of React: new state, cleanup of the stream effect, unmounting. `risked` and
`calm` are history: photos in a named race, and whether one handler ran at a time
without failures.

## 4. Runs

All bounds are constants of the `.cfg` files. Deadlock checking is off where a
bound lets the system stop (no identifiers left); it is on in the runs of
`Cleanup`.

| Run | Bounds | Shows |
|---|---|---|
| `inventory` | 2 containers, 2 items, 2 requests, volumes down to a fifth of a hundredth | soft-delete protocol, no resurrection, refinement of `ContainerStorage`; drift of `usedVolume` and over-filling stay within half a hundredth |
| `auth_sessions` | 2 requests, 2 logins, 3 tokens, limit 1, 1 password change, 1 failure | no forked session, ended sessions stay ended, stores agree, index within its limit, refinement of `SessionLedger` |
| `auth_limit` | 1 request at a time, 2 logins, limit 1, no failure | **violation**: a login at the limit leaves a live session that is listed nowhere |
| `cleanup` | 2 replicas, 2 containers, 1 item, 5 instants, batches of 1, 1 failure, under fairness | one run at a time, no live row purged, no expired container skipped, every run ends, nothing stays expired |
| `cleanup_stuck` | 1 replica, no failure, a container that cannot be deleted | **violation**: the run never ends |
| `user_account` | 3 requests, 2 passwords, 2 attempts lock, 1 clock tick, 2 older tokens | no lost update, sweeps beat rotations, who can deadlock, every request ends |
| `container_requests` | any 2 requests with 1 failure or crash, 5 triples without; 2 servers, 1 or 2 caches | cache follows the row, writers read their change, when an audit row says FAILED of a committed change, audit rows arrive |
| `token_client` | 2 tabs, 3 requests, 2 token pairs, 1 fault | one refresh serves all, no token twice, tabs and storage agree, every request settles |
| `browser_lists` | 2 functions at once, 2 writes, 1 failure or sign-out, 2 queries | honest spinners, current lists |
| `search_pages` | each page, 2 requests or handlers at once, 3 spellings of 2 queries, 2 pages, 1 change, 1 failure | the page shows what it asks for, whatever order the effect's requests are answered in, no endless search, no page number past the end |
| `search_pages_empty` | `ContainerDetailPage`, 1 deletion, 2 requests at once, no search, no failure | **violation**: a container with items shows an empty first page |
| `item_dialog` | both dialogs, 2 handlers at once, 3 objects, 2 camera requests, 1 fault | photos of saved items, no leaked object, camera off |

Why these bounds are enough to meet the interesting cases:

* Two item requests in flight make every overlap of an unlocked reference with
  another request's transaction; container operations need no request slot, so
  a third party can always run in between. Two containers let an operation hit
  the wrong one. With `Scale = 5` and `TotalVolumes = {5, 10}`, volumes 1, 2 and 5 make sums that round down
  and up, and containers that are exactly full, a fraction short, overfull by rounding, and refused. Whole
  hundredths only (`Scale = 1`) are the case of the theorem `ExactWithTwoDecimals`.
* With a limit of one session, two logins pop each other's session from the index and a third token is
  a rotation; one character (`MaxStrays`) is enough for the index to hold an id that is no session; with two requests every pair of operations overlaps at every
  step, and the one failure can hit any Redis call. The second login runs over
  a full index while the first may still be filling it.
* With five instants, two to a millisecond, and a retention of two, rows can expire
  at the same instant, at two instants of one millisecond, or not at all. Batches of
  one give every pair of rows a batch boundary between them, which is where
  the cursor matters. The one failure can be any statement, the connection of
  the lock, or a replica. One item keeps the liveness check small; the items' loop has no cursor, and the
  safety theorems hold for any number of them.
* Behaviours of `UserAccount` start with the account in any state, deleted and absent
  included, or with a `forgotPassword` in flight whose user was purged since. Three
  requests on an account are the smallest number with a deadlock and a third
  party, and with a `forgotPassword` overtaken by one request while another locks
  the row; two attempts lock, so both sides of the counter's limit occur.
* A stale cache entry takes a reader and a writer, and its worst reader is a second
  writer: three requests. Triples run without failures, chosen so that a late fill
  meets a deletion, a restore and a purge.
* Two requests in one tab make a queue behind a refresh, the third is the other tab's;
  two pairs are a rotation or a second sign-in.
* Two functions overlap at each of their steps; two writes let the second be missed.
  Lists of different contexts share nothing, so a behaviour follows the lists of one
  context (`MCSelections`).
* Two requests of a page are one that was cancelled or sent by a handler and its successor;
  the change halves the pages, so that a page number can be past the end. A value with a
  space makes the debounced value change while the query stays.
* Two handlers of a dialog overlap at each await; three objects are the item's own, a
  replacement and one more, two camera requests a stray one and its successor.

### Fairness

`Inventory`, `AuthSessions`, `BrowserLists`, `SearchPages` and `ItemDialog` state safety only,
so no fairness is assumed. Properties worded "once quiet" speak of the states in
which no request is in flight. `Cleanup!FairSpec` assumes weak fairness of

* each step of a job (`JobStep`): the event loop resumes a handler whose query
  was answered, and `query_timeout` bounds the wait for the answer;
* the schedule (`Trigger`): it fires every night;
* `IdleTimeout`: the pool closes a connection that idles for 30 seconds. This
  presumes nights quiet enough for the connection to idle;
* time (`Tick`).

`UserAccount` and `ContainerRequests` assume that the server does not stand still:
weak fairness of the step of *some* request. Each request is one run of a handler
without loops, so this is enough for all of them to end, and a request that waits
for a lock is not assumed to get it. `ContainerRequests` also lets every cache entry
expire (its TTL). `TokenClient` assumes that a call is answered or fails
(axios' timeout of 30 seconds), that the event loop handles each answer, and that a
redirect, once assigned, happens.

No fairness is assumed of users, failures or crashes, and failures are finitely
many.

## 5. Findings and known gaps

Three runs show what the code does against a text of the repository.

`cleanup_stuck`, against a unit test:
the cursor of `cleanupExpiredContainers` loses the microseconds of `deletedAt`, so
the last row of a batch is selected again unless its purge removed it. Normally a
second selection does no harm; a container whose deletion always times out is
selected for ever, and items are never reached. (When `deletedAt` happens to be a whole
millisecond the cursor works as meant.) `NoneSkipped` shows that rounding down at
least never skips a row.

`auth_limit`, against the description of the list of sessions ("Active sessions for the authenticated
user"): a login at the session limit takes the oldest session out of the index and does not end it, for the
reason told in section 3. Its token can still be refreshed; it is not listed, and logout from all devices,
which goes by the index, leaves its key alive. The limit therefore bounds what is listed
(`IndexWithinLimit`) and not what is alive.

`search_pages_empty`, against the text of the page ("No items in this container yet"): a deletion of the last
item of the last page lowers the page number, whose effect loads the page before; the handler
then calls the `refreshItems` it closed over, with the page number of the click, and this load,
the latest, leaves an empty list under page 1. `PageExists` holds all the while: the number is right.

The following are not in any run. The invariants named in parentheses in 1 to 4 are stated in the modules; to see
TLC's behaviour, add the name to the `.cfg`, with `MaxFaults = 0`.

1. *Over-filled containers* (`CapacityRespected`, `LiveItemsCanBeDeleted` in
   `Inventory.cfg`, with three items and `RepairCalled = FALSE`). Since the second volume migration
   item volumes have ten decimals, but `ContainersService.restore` still rounds the SUM to
   two. When it rounds down, `usedVolume` is too small until the next exact
   recalculation; `create` and `update` trust it. An over-filled container then
   rejects operations that recompute the sum, even deletions. `DriftBounded` and
   `CapacityBounded` show the error never exceeds half a hundredth, and
   `ExactWithTwoDecimals` that two-decimal volumes are safe.
2. *A session lost from the index* (`LiveSessionsListed` again). `invalidateAllSessions` deletes the whole
   index after reading it; a login in between is never listed, counted or ended by a later
   logout of all devices. `auth_limit` finds the shorter way; to see this one, raise
   `SessionLimit` above the logins in `AuthSessions.cfg`.
3. *Token of the old password* (`TokensMatchPassword` in `AuthSessions.cfg`). `login`
   inserts its refresh token after the transaction that checked the password; a
   change in between does not revoke it. `logoutAll` may likewise miss a rotation
   that has not committed.
4. *Purged before its time* (`OnlyExpiredPurged` in `Cleanup.cfg`).
   `permanentDelete` checks that the container is deleted, not since when: one
   restored and deleted again after the batch was read loses its retention period.
5. *forgotPassword* is the exception of `RowFollowsLedger`: its unlocked save undoes a
   concurrent change of password, counter or lock, and inserts a purged user again.
6. *Late fills* are the exception of `ChangesReachTheCache`: a `findOne` that read before a
   commit stores the old row after the clear, for up to the TTL; with a cache per process
   every entry of another process is one.
7. *Reported as failed* (`unread`): a change is committed, its read-back throws, and both the
   answer and the audit row say FAILED. The same comes of a deletion between commit and
   read-back. `AuditTellsTheTruth` says that nothing else does this. No text of the repository
   promises more.
8. *Photos* (`risked`): submitting while a close or a removal awaits its deletion, a lost
   answer of a create, or a failed replacement in the edit dialog lets an item refer to a
   deleted object. Two captures at once, or a list that loads over an edit, leave an
   object behind (`calm`). A camera permission given after the unmount leaves the camera on
   (`strays`).
9. *Tabs* (`abandoned`, `overtaken`): a reload during a refresh loses the session, as the
   new token is not stored; two tabs that refresh at once make the server refuse one, which then
   clears the other's tokens; an answer of `getMe` after a sign-in shows the earlier user.
10. *Unguarded lists* (`trust`): overlapping loads of container, deleted-item, audit and
   summary lists may leave the older answer; a write in one context does not reload the lists of
   another.
11. *Endless search* (`retyped`): on `ContainersPage` and `ItemsPage`, a change that is undone
   within the 500 ms of the debounce raises `isSearching` and starts no search that would
   lower it. The page shows its spinner in place of the results until the box, tab or container
   changes again.
12. *Refreshes* (`trust` of `SearchPages`): `refreshItems` of `ContainerDetailPage` uses the box and
   the page number of the click and is not cancelled. When it lands after a new query or page
   number, the page shows the answer to the old one; `search_pages_empty` is one such case. A change made on a card
   while searching, on any page, leaves the results as they were.
13. *First page only*: the searches of `ContainersPage` and `ItemsPage` ask for no limit, so the
   server answers with its default of ten; `ContainersPage` then drops those of the other tab, and
   may say that nothing matches. (Paging is not modelled for these two.)
14. *One flag for two* on `ItemsPage`: a list that was asked for before a search ends with `searchLoading`
   down, while the search is out. `SpinnerMeansSearch` asks that of the other two pages only.
15. *Strays in the index*: after a failed eviction a one-character member counts as a session until a listing
   removes it.

## 6. Proofs

TLAPS proves the following, for every value of the constants that satisfies the
named assumptions of the modules (`InventoryAssumption`, `NoRefAssumption`,
`ScaleAssumption`, `AuthAssumption`, `CleanupAssumption`, `LedgerAssumption`,
`AccountAssumption`, `RequestsAssumption`, `TokenAssumption`, `ListsAssumption`,
`DialogAssumption`, `BrowserAssumption`, `PagesAssumption`). They say that sets of requests, tokens and handlers are finite where
they are counted, that bounds are numbers, and that "nobody" and "nothing" are not members of what they
stand beside. `PagesAssumption` also says that trimming maps the box's values to queries and
leaves the empty one empty, and that the server's page counts are page numbers or 0.

### InventoryProofs

| Theorem | States |
|---|---|
| `TypeCorrect` | `Spec => []TypeOK` |
| `DeletionProtocolHolds` | `Spec => []DeletionProtocol` |
| `DriftBounded`, `CapacityBounded` | `usedVolume` and content are within half a hundredth of the truth and the total |
| `ExactWithTwoDecimals` | with `Scale = 1`, `Spec => []CapacityRespected` |
| `NoResurrection` | `Spec => IndividuallyDeletedComesBackAlone` |
| `Refinement` | `Spec => ImplementsStorage` |

The inductive invariant `Inv` consists of `TypeOK`, `DeletionProtocol`, the
drift bound, and two facts no property states: rows that do not exist belong to
no container (so that a new item cannot disturb a sum), and `usedVolume` is at
most `totalVolume` (what the CHECK constraint and the guard of `create` keep).
Drift and capacity are not inductive alone: `create` preserves the bound on the
content only because it compares with a `usedVolume` that is within half a
hundredth of it. The module begins with what is needed of sums (they depend on the rows' volumes
only, one row more adds its volume) and of rounding (off by at most half a unit).

The refinement maps a container's phase to the state of its row, its content to
its live and flagged items, its bin to the items deleted alone. Every action is
a step of `ContainerStorage` or changes none of these.

### AuthProofs

| Theorem | States |
|---|---|
| `TypeCorrect` | `Spec => []TypeOK` |
| `NoForkedSession` | `Spec => []OneActiveTokenPerSession` |
| `BarredForGood` | `Spec => []BarredSessionsStayRevoked` |
| `NoRevival` | `Spec => DeadSessionsStayDead` |
| `StoresAgreeAtRest` | `Spec => []StoresAgree` |
| `LimitHolds` | `Spec => []IndexWithinLimit` |
| `LedgerIsKept` | `Spec => KeepsLedger`, that is `Ledger!LedgerSpec` |

The invariant adds what the local variables of a request mean at each step
(`LocalsOK`) and what they own (`Linked`): a login that has not inserted its row
yet owns a session no row names, so its insert forks nothing and is not barred;
a request about to rotate a token knows its session, so the new row takes the
place of the old one. Rotation preserves `BarredSessionsStayRevoked` because
the row it locks must still be active, and rows of barred sessions are not.

`StoresAgreeAtRest` and `LimitHolds` speak of the moment when all requests are over, and need what is true before it.
`Handed` says whose each token is: what a request holds or was presented belongs to its session and
was inserted, and no two logins share a session. On it rests `Agreed`: without failures, a token that
is active is with the client or with the request that will hand it over, and the key of a living session
holds the active token, or a request is about to write it. `Crowded` bounds the index while
logins trim it: the sessions above the limit are at most those of the logins that have still to count
it and, beyond these, as many as some login has counted and is about to pop. A pop
of another login in between takes the same surplus away. Strays do not disturb it: without failures none gets
into the index. `LimitHolds` bounds the index and says nothing of the sessions taken out of it, which live on.

`LedgerIsKept` needs only one more invariant, `Closed`: while a login has still to open its key, the key is
not there. It follows from `Handed` (no two logins share a session) and from the script, which never
writes a missing key. Steps that grant and offer nothing are treated together (`Lets`): each only
revokes rows or only ends sessions. The others add an offer (`OfferComes`) or drop one (`OfferLeaves`),
and no two requests make the same offer, as each carries its own token (`OffersApart`).

### CleanupProofs

| Theorem | States |
|---|---|
| `TypeCorrect` | `Spec => []TypeOK` |
| `LockProtects` | `Spec => []RunsHoldTheLock` |
| `LiveRowsCorrect` | `Spec => LiveRowsSurvive` |
| `CursorSkipsNothing` | `Spec => []NoneSkipped` |

`RunsHoldTheLock` is inductive with the types. `LiveRowsSurvive` needs
`LiveItemsAtHome`: the item rows that go with a purged container are never
live. `NoneSkipped` needs `LoopOK`, what the loop knows between two steps:
every expired row the cursor has passed was tried, and so was every expired row
that comes before one in the batch without being in it. Three facts keep it:
no row becomes expired for a cutoff already taken (`ExpiredShrinks`), a
`LIMIT` takes a prefix of the order (`FirstKeysClosed`), and rounding the cursor
down can only move it back.

### UserAccountProofs

| Theorem | States |
|---|---|
| `TypeCorrect` | `Spec => []TypeOK` |
| `SweepsAreFinal` | `Spec => []SweptTokensStayDead` |
| `LedgerKept` | `Spec => RowFollowsLedger` |
| `RotationsAlone` | `Spec => []DeadlocksNeedRefresh` |

For any numbers of requests, tokens, attempts and failures. The lock of the users row is with
the one transaction that is past taking it (`Located`), so what that transaction read is still
what the row says (`Current`): its write is an operation of `AccountLedger` on the row of that
moment, which is `LedgerKept`. `forgotPassword` takes no lock; `Drafted` says what its entity
and its list of differing columns are, and either they are what the ledger's operation writes, or the
row has changed since it was read (`Overtaken`).

`SweepsAreFinal` needs `Seen`: while the UPDATE of a sweep runs, every active token is among those it
still has to visit or holds already, and at its commit it holds them all. A rotation could break
this by inserting a token; it cannot, because its insert waits for the users row, which the sweep
has locked, and the sweep cannot end before the rotation lets its token go (`HeldApart`).

`RotationsAlone` is an argument about circles of waits. A request that waits for the users row
holds no token, unless it is a rotation; the holder of the row waits for a token, if for anything; and
of two UPDATEs (`logoutAll` takes no row lock, so there may be several) the one that waits for
the other waits for a token beyond all it holds, since both visit tokens in ascending order
(`Ascends`). In a circle without a rotation the tokens waited for would increase all the way round.

### ContainerRequestsProofs

| Theorem | States |
|---|---|
| `CacheFollowsRow` | `Spec => []ChangesReachTheCache` |
| `WritersReadBack` | `Spec => []WritersSeeTheirChange` |
| `AuditTruthful` | `Spec => []AuditTellsTheTruth` |

The inductive invariant joins the first two properties with what each request has done
when it is where it is (`Progress`), that every copy a `findOne` holds is the row or is
marked old (`Copies`), that the row is there as its writer left it while its version is
the writer's (`Written`), and that an entry a returning writer is about to read is not
older than its change unless it is in doubt (`Served`). `Told` gives the audit rows their
meaning: FAILED of a committed change comes with a read-back that threw (`unread`) or with a deletion that came
after the change (`Superseded`), which `Written` provides when the row read back is not there. The case that needs all of them is `FillCache`: the stored copy is the row of some
earlier moment, and the commits since then have marked it.

### ItemDialogProofs

| Theorem | States |
|---|---|
| `TypeCorrect` | `Spec => []TypeOK` |
| `CameraOff` | `Spec => []CameraOffWhenClosed` |
| `PhotosKept` | `Spec => []PhotoSafe` |
| `NothingLeaked` | `Spec => []NoObjectLeaked` |

`CameraOffWhenClosed` is inductive with the types: whatever is rendered keeps the stream
it had with its camera dialog, or lets it go. The other two need to know what the handlers
in flight hold. `Owed` says that a path some handler may yet delete, and the photo the form
shows, is not saved, except at risk; `Kept` that what is, or may be, submitted has its object. A handler
that survives an unmount is `Apart` from what the next dialog shows, and objects are
`Numbered`, so an upload is never one that a handler already holds. `Orderly` is the same
for one handler at a time. Each action is one of five shapes (a handler begins, goes on or ends,
an upload ends, the form is reset), with a lemma for each.

### TokenClientProofs

| Theorem | States |
|---|---|
| `TypeCorrect` | `Spec => []TypeOK` |
| `QueueServed` | `Spec => []OneRefreshServesTheQueue` |
| `NothingSpentTwice` | `Spec => []NoTokenSpentTwice` |
| `StorageKeepsUp` | `Spec => []StoredTokenIsCurrent` |
| `OwnTokens` | `Spec => []UserOwnsTokens` |

They hold for any numbers of tabs, requests, token pairs and faults. The key is `Apart`: a
new pair on its way to a tab is its session's last one and is nowhere else, neither in
storage nor in another answer nor among the tokens a page has offered. So a pair that is
stored was never spent (`Spent`), and a stored token that is no longer the last was spent by
a page that still waits or is gone (`Last`). What makes `Apart` inductive is that whatever anybody
holds was issued (`Held`), so that the server's next pair is none of it. `Owner` names one
session to which the tokens, the users shown and the answers of `initializeAuth` belong; a
sign-in that crosses nothing replaces it. Steps that neither issue a pair nor hand one on are
`Quiet` and are treated once.

### BrowserProofs

| Theorem | States |
|---|---|
| `SpinnersAreHonest` | `Spec => []SpinnersHonest` |
| `ListsEndCurrent` | `Spec => []ListsCurrent` |
| `PagesTypes` | `PagesSpec => []PagesTypeOK` |
| `SpinnersEnd` | `PagesSpec => []SpinnerMeansSearch` |
| `PagesShowWhatIsAsked` | `PagesSpec => []ShowsWhatIsAsked` |
| `PageNumbersExist` | `PagesSpec => []PageExists` |

For any finite set of functions in flight and any of the contexts' lists. Of its invariant `ListsInv`, `Counting` says that each
counter is the number of functions that raised it and that the flag follows the counter;
`SpinnersAreHonest` is immediate from it. A load *counts* if its answer would be shown. Of a list
whose loads never crossed at most one load counts, and none once its answer is shown (`Alone`).
That load asks for the parameters in force, and what it brings is the data as they are, or some
function has changed the list and not reported it, and will load it again (`Brings`); the same holds
of what is shown afterwards (`Shows`). The guard of the item list makes `Alone` true whatever overlaps;
for the other lists the history variable records the overlap that breaks it.

The pages' theorems hold for any number of requests in flight, any values of the box and any page
numbers that satisfy `BrowserAssumption` and `PagesAssumption`. What a
page shows at rest depends on what was under way before, so the invariant (`PagesInv` of
`SearchPagesInvariant`) speaks of what is still to come:

* `AllProper`: a request that is `live` is the last run's, and asks for the value and the pick in force;
  `Ordered`: the searches that may still land are in the order they were sent in.
* `Sought`: a spinner that is on has its search out, or the effect that sends it is due, or the box
  came back to the debounced value.
* `ResultsCome`: results that are not those asked for will be replaced: a search that is up to
  date is out (`Comes`), the effect is due, or a deletion has still to refresh them (`RefreshDue`).
  A search read before a change may be out too. It is overtaken by one that is up to date, or the
  deletion that made it stale will refresh (`Followed`); without this `ResultsCome` is not inductive,
  as the stale answer could be the last.
* `OneLive`: of the effect's requests one at most is not cancelled. So an older search of the effect
  never lands, and history need not set any apart.
* `Spun`: where a search of the effect is out, the page is searching.
* `ListComes` and `LoadFresh` say the same of the plain list, whose latest load alone counts;
  `ListAsked`, that this load asks for the pick in force unless a handler sent it.
* `PageExists` is inductive with the types: each answer that shortens the list lowers the number.

A run of the effects cancels what it finds and restores these whatever was under way
(`EffectsKeep`). So an action that ends in one needs little else, and the actions that land an
answer split on whether the page number was lowered (`Settled`). The other steps move one slot.

### Model-checked only

All liveness properties (`RunsEnd`, `NothingStaysExpired`, `EveryRequestEnds`,
`EveryRequestSettles`, `ChangesAreLoggedAndSeen`), which are outside what the prover does. Every
invariant and every action property that a run checks, and finds to hold, is a theorem. The types of `Inventory`, `AuthSessions`, `Cleanup`,
`ContainerRequests`, `ItemDialog` and `SearchPages` are proved and not checked by a run as well. No module has a
recursive definition.

## 7. Not modelled, and the plan

Left out, with reasons: reports (read-only queries and layout), mail (formatting and one
outgoing call), the HTTP shell, guards' wiring and configuration (start-up), pages and
forms other than the item dialogs and the searches (presentation over the contexts), the list queries with their
filters and paging, deployment scripts. Parts left out of modelled components are
named in `PROJECT.json`.

Next: the queries with their cached lists (`items:*`), and the two lists of `UserManagementPage`.
